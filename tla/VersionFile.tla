----------------------------- MODULE VersionFile -----------------------------
(***************************************************************************)
(* What the client makes of the version files of the game: which arguments *)
(* and jars their rules let in, what a version takes over from those it    *)
(* inherits from, and the command that starts the game.  No state.         *)
(*                                                                         *)
(* An argument is [text, var]: some text with at most one variable behind  *)
(* it ("${user}" or "--user=${user}"); var is None if there is none, and   *)
(* a replaced variable is the value that took its place.                   *)
(***************************************************************************)
EXTENDS Naturals, SequencesExt, FiniteSets

CONSTANTS
    None,       \* a key that is absent, a field without a value
    Malformed,  \* what a reader refuses: a wrong type, hash or address
    Raised,     \* the outcome of a call that raised
    BaseJvm,    \* the jvm arguments every JSONVersion begins with
    NumParts,   \* [version -> number of its numeric parts]
    Suffixed,   \* the versions whose name has a part behind a dash
    MainJars    \* the versions with a jar of their own beside their file

-----------------------------------------------------------------------------
(* Version names (validity.py, client/utils.py)                            *)

IsValidMinecraftVersion(v) == NumParts[v] \in (IF v \in Suffixed THEN {2, 3} ELSE {3})

\* The numeric part alone; a name of two numeric parts has been accepted
\* everywhere else, but raises here.
GetVersionNumbers(v) == IF NumParts[v] = 3 THEN v ELSE Raised

-----------------------------------------------------------------------------
(* Rules.  A rule is [action, conds]: one element of conds per key other   *)
(* than the action, a sequence of the <<key, value>> pairs beneath it.     *)

Here == { <<"os.name", "linux">>, <<"os.arch", "x86">> }

\* A rule that does not match is as good as one that does.
ResolveAnyRule(rule) == rule.action = "allow" /\ rule.conds # <<>>

\* Only the first pair beneath a key is looked at, and one matching key is
\* enough.
ResolveRule(rule) ==
    /\ rule.action = "allow"
    /\ \E i \in DOMAIN rule.conds : /\ rule.conds[i] # <<>>
                                    /\ Head(rule.conds[i]) \in Here

ResolveRulelist(rules) == \E i \in DOMAIN rules : ResolveRule(rules[i])

Included(elem) == elem.rules = None \/ ResolveRulelist(elem.rules)

ReadArglist(elems) ==
    FlattenSeq([i \in DOMAIN elems |-> IF Included(elems[i]) THEN elems[i].values ELSE <<>>])

\* A jar is [sort, path]: a "file" with address and hash, or the name of a
\* "dir" of which every jar is taken.
ReadLibraries(elems) ==
    FlattenSeq([i \in DOMAIN elems |-> IF Included(elems[i]) THEN <<elems[i].jar>> ELSE <<>>])

-----------------------------------------------------------------------------
(* One version file, a record with a value or None for every key           *)

Lists == {"game", "jvm", "jars"}
Singles == {"id", "asset", "java", "log", "logArg", "main", "type"}
Keys == Lists \cup Singles \cup {"inherits"}

ReadArguments(file) == [game |-> ReadArglist(file.game), jvm |-> BaseJvm \o ReadArglist(file.jvm)]
ReadReferences(file) == [asset |-> file.asset, id |-> file.id, inherits |-> file.inherits, java |-> file.java]
ReadLogging(file) == [log |-> file.log, logArg |-> file.logArg]
ReadLabels(file) == [main |-> file.main, type |-> file.type]

ReadJson(file) ==
    LET args == ReadArguments(file)
        refs == ReadReferences(file)
        logging == ReadLogging(file)
        labels == ReadLabels(file)
    IN  [game |-> args.game, jvm |-> args.jvm, jars |-> ReadLibraries(file.jars),
         asset |-> refs.asset, id |-> refs.id, inherits |-> refs.inherits, java |-> refs.java,
         log |-> logging.log, logArg |-> logging.logArg, main |-> labels.main, type |-> labels.type]

SanityUnchecked(version) == version.id # None

\* A version that inherits from itself is refused, as is a file that names
\* neither itself nor another (None = None).
SanityCheck(version) == version.inherits # version.id

Readable(file) == \A k \in DOMAIN file : file[k] # Malformed

JSONVersion(file) ==
    IF ~Readable(file) THEN Raised
    ELSE IF SanityCheck(ReadJson(file)) THEN ReadJson(file) ELSE Raised

-----------------------------------------------------------------------------
(* Inheritance                                                             *)

InheritFrom(child, ancestor) ==
    [k \in DOMAIN child |->
        IF k \in Lists THEN child[k] \o ancestor[k]
        ELSE IF k \in Singles /\ child[k] = None THEN ancestor[k]
        ELSE child[k]]

\* Each version takes over from the next one as its file describes it.
InheritForwards(list) ==
    IF Len(list) = 1 THEN list[1] ELSE InheritFrom(list[1], list[2])

\* From the furthest ancestor (the last of the list) down to the target.
InheritAll(list) ==
    LET inherited[i \in 1..Len(list)] ==
            IF i = Len(list) THEN list[i] ELSE InheritFrom(list[i], inherited[i + 1])
    IN  inherited[1]

-----------------------------------------------------------------------------
(* Variables (varstrings.py)                                               *)

IgnoredTwopart == {"clientid", "auth_xuid"}
AccountVariables == {"auth_player_name", "auth_uuid", "auth_access_token"}
KnownVariables == AccountVariables \cup
    {"version_name", "version_type", "natives_directory", "assets_index_name", "classpath", "path",
     "game_directory", "assets_root", "user_type", "launcher_name", "launcher_version"}

\* The variable alone is removed, the argument in front of it stays.
RemoveVariableOnly(args) ==
    SelectSeq(args, LAMBDA arg : arg.var \notin IgnoredTwopart)

\* Backwards: an ignored variable goes together with the argument in front
\* of it, which is not looked at any more.
RemoveIgnored(args) ==
    LET ignored[i \in 1..(Len(args) + 1)] ==
            i <= Len(args) /\ args[i].var \in IgnoredTwopart /\ ~ignored[i + 1]
    IN  IF ignored[1] THEN Raised
        ELSE FlattenSeq([i \in DOMAIN args |->
                            IF ignored[i] \/ ignored[i + 1] THEN <<>> ELSE <<args[i]>>])

ReplaceVariables(args, value) ==
    IF \E i \in DOMAIN args : args[i].var # None /\ args[i].var \notin DOMAIN value
    THEN Raised
    ELSE [i \in DOMAIN args |->
            IF args[i].var = None THEN args[i] ELSE [args[i] EXCEPT !.var = value[args[i].var]]]

-----------------------------------------------------------------------------
(* The command                                                             *)

Flag(text) == [text |-> text, var |-> None]

CheckLaunchReady(t) ==
    /\ \A k \in Singles : t[k] # None
    /\ {Flag("--username"), Flag("--uuid"), Flag("--accessToken")} \subseteq ToSet(t.game)
    /\ t.jvm # <<>>
    /\ t.jars # <<>>

\* What each variable stands for.  An account is its own name, uuid and
\* token; a path is whatever it names.
Values(t, account, classpath) ==
    [v \in KnownVariables |->
        CASE v \in AccountVariables -> <<v, account>>
          [] v = "version_name" -> t.id
          [] v = "version_type" -> t.type
          [] v = "natives_directory" -> <<"bin", t.id>>
          [] v = "assets_index_name" -> t.asset
          [] v = "classpath" -> classpath
          [] v = "path" -> t.log
          [] OTHER -> v]

MakeLaunchCommand(t, java, account, classpath) ==
    LET value == Values(t, account, classpath)
        Replaced(args) == LET kept == RemoveIgnored(args)
                          IN  IF kept = Raised THEN Raised ELSE ReplaceVariables(kept, value)
        game == Replaced(t.game)
        jvm == Replaced(t.jvm)
        logArg == ReplaceVariables(<<t.logArg>>, value)
    IN  IF ~CheckLaunchReady(t) \/ Raised \in {game, jvm, logArg} THEN Raised
        ELSE [java |-> java, jvm |-> jvm, log |-> logArg[1], main |-> t.main, game |-> game]

=============================================================================

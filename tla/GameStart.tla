------------------------------ MODULE GameStart ------------------------------
(***************************************************************************)
(* From the answer of the server to the running game, in the client:       *)
(* MCLauncher reads the version files, lets the target take over from its  *)
(* ancestors, has everything installed and starts the game.                *)
(***************************************************************************)
EXTENDS VersionFile, Installer

CONSTANTS
    Versions,           \* version names
    Trees,              \* [name -> what there is of version files: [Versions -> file or None]]
    Manifests,          \* [runtime of jre_manifest.json -> the entries of its manifest,
                        \*  [type, path, exec], or Malformed if it cannot be read]
    Java,               \* [runtime -> its bin/java]
    AssetsDir,          \* .minecraft/assets
    LogConfigs,         \* .minecraft/assets/log_configs
    Accounts,
    MaxVersions,        \* bound: how many versions a list is kept of
    TargetOf,           \* [name -> the version the server asks for]
    SoundTrees          \* the names of those any launcher must be able to start

IsSequence(s) == s \in Seq(ToSet(s))

\* A file is refused, or everything it names has its type.
IsRule(rule) == \A j \in DOMAIN rule.conds : IsSequence(rule.conds[j])
IsElement(e) == e.rules = None \/ \A i \in DOMAIN e.rules : IsRule(e.rules[i])
IsArgument(arg) == DOMAIN arg = {"text", "var"}
IsJar(jar) == IF jar.sort = "dir" THEN jar.path \in Dirs ELSE jar.path \in Files

IsVersionFile(file) ==
    /\ DOMAIN file = Keys
    /\ Readable(file) =>
        /\ file.asset \in Files \cup {None} /\ file.log \in Files \cup {None}
        /\ file.inherits \in Versions \cup {None}
        /\ \A k \in Lists : IsSequence(file[k]) /\ \A e \in ToSet(file[k]) : IsElement(e)
        /\ \A e \in ToSet(file.game) \cup ToSet(file.jvm) :
              IsSequence(e.values) /\ \A arg \in ToSet(e.values) : IsArgument(arg)
        /\ \A e \in ToSet(file.jars) : IsJar(e.jar)

IsEntry(e) ==
    \/ e.type = "directory"
    \/ e.type = "file" /\ e.path \in Files /\ e.exec \in BOOLEAN
    \/ e.type = "link" /\ e.path \in Links /\ e.exec = FALSE

ASSUME GameStartAssumption ==
    /\ None \notin Versions \cup KnownVariables \cup IgnoredTwopart \cup DOMAIN Manifests
    /\ AssetsDir \in Dirs /\ LogConfigs \in Dirs
    /\ IsSequence(BaseJvm)
    /\ MaxVersions \in Nat \ {0}
    /\ \A t \in DOMAIN Trees :
        /\ TargetOf[t] \in Versions
        /\ \A v \in Versions : Trees[t][v] = None \/ IsVersionFile(Trees[t][v])
    /\ \A r \in DOMAIN Manifests :
        /\ Java[r] \in Files
        /\ Manifests[r] # Malformed =>
              IsSequence(Manifests[r]) /\ \A e \in ToSet(Manifests[r]) : IsEntry(e)

VARIABLES
    tree,       \* the name of the version files on the disk, which no step changes
    stage,      \* "off", "loading", "installing" or "playing"
    list,       \* MCLauncher.versions_list
    current,    \* the version load_versions reads next
    target,     \* the target's JSONVersion once it has inherited
    account,    \* the account the server gave
    command     \* the command that started the game

Target == TargetOf[tree]

gvars == <<tree, stage, list, current, target, account, command>>
vars == <<gvars, ivars>>

Idle == step = "idle"

-----------------------------------------------------------------------------

RaiseJob == [op |-> "raise", path |-> Manifest, exec |-> FALSE]
ManifestJob == [op |-> "manifest", path |-> Manifest, exec |-> FALSE]

\* Nothing is done for a directory of the runtime: its files bring it along.
ReadRuntimeManifest(r) ==
    LET JobOf(e) == [op |-> e.type, path |-> e.path, exec |-> e.exec]
    IN  FlattenSeq([i \in DOMAIN Manifests[r] |->
            IF Manifests[r][i].type = "directory" THEN <<>> ELSE <<JobOf(Manifests[r][i])>>])

MustBe(p) == [op |-> "present", path |-> p, exec |-> FALSE]

\* JavaRuntime(name), setup_runtime and get_java.  There is nothing to do for a
\* name that is no runtime's, or one that jre_manifest.json lacks.
RuntimeOf(t) ==
    IF t.java \notin DOMAIN Manifests THEN <<RaiseJob>>
    ELSE IF Manifests[t.java] = Malformed THEN <<[ManifestJob EXCEPT !.op = "unreadable"]>>
    ELSE <<ManifestJob>> \o ReadRuntimeManifest(t.java) \o <<MustBe(Java[t.java])>>

\* The asset index or the log config: nothing makes the directory dir, which
\* the game's own launcher leaves, and everything raises without it.
FileBelow(dir, f) ==
    IF f = None THEN <<RaiseJob>>
    ELSE <<MustBe(dir), [op |-> "file", path |-> f, exec |-> FALSE]>>

JarJobs(jars) ==
    [i \in DOMAIN jars |->
        [op |-> IF jars[i].sort = "dir" THEN "present" ELSE "file", path |-> jars[i].path, exec |-> FALSE]]

\* What download_all does for a version, in its order.
DownloadAll(t) ==
    FileBelow(AssetsDir, t.asset) \o RuntimeOf(t) \o JarJobs(t.jars) \o FileBelow(LogConfigs, t.log)

ComputeClasspath(t) == [i \in DOMAIN t.jars |-> t.jars[i].path] 
                         \o (IF t.id \in MainJars THEN <<t.id>> ELSE <<>>)

-----------------------------------------------------------------------------

Init ==
    /\ tree \in DOMAIN Trees
    /\ stage = "off"
    /\ list = <<>>
    /\ current = None
    /\ target = None
    /\ account = None
    /\ command = None
    /\ jobs = <<>> /\ pos = 1 /\ step = "idle" /\ faults = 0
    /\ links = {} /\ execs = {}
    /\ \/ disk = [f \in Downloaded |-> "absent"] /\ dirs \in {{}, {AssetsDir}, {AssetsDir, LogConfigs}}
       \/ \E f \in Downloaded : disk = [g \in Downloaded |-> IF g = f THEN "bad" ELSE "good"] /\ dirs = Dirs

\* MCLauncher(version, account).
Start(a) ==
    /\ stage = "off" /\ Idle
    /\ IsValidMinecraftVersion(Target)
    /\ stage' = "loading"
    /\ account' = a
    /\ current' = Target
    /\ list' = <<>>
    /\ command' = None
    /\ target' = None
    /\ UNCHANGED <<tree, ivars>>

Fail == stage' = "off" /\ UNCHANGED <<tree, list, current, target, account, command>>

\* JSONVersion.from_version: the file is missing, or it is refused.
FromVersion ==
    [t \in DOMAIN Trees |-> [v \in Versions |->
        IF ~IsValidMinecraftVersion(v) \/ Trees[t][v] = None THEN Raised ELSE JSONVersion(Trees[t][v])]]

\* One turn of the loop in load_versions.
LoadVersion ==
    /\ stage = "loading"
    /\ current # None
    /\ LET v == FromVersion[tree][current]
       IN  IF v = Raised THEN Fail
           ELSE /\ list' = IF Len(list) < MaxVersions THEN Append(list, v) ELSE list
                /\ current' = v.inherits
                /\ UNCHANGED <<tree, stage, target, account, command>>
    /\ UNCHANGED ivars

\* The end of load_versions, and download_all begins.
Inherit ==
    /\ stage = "loading"
    /\ current = None
    /\ stage' = "installing"
    /\ \E t \in {InheritAll(list)} : target' = t /\ Begin(DownloadAll(t))
    /\ UNCHANGED <<tree, list, current, account, command>>

Install ==
    /\ stage = "installing"
    /\ Work
    /\ IF step' = "idle" THEN Fail ELSE UNCHANGED gvars

InstallFails ==
    /\ stage = "installing"
    /\ Fails
    /\ Fail

\* start_game after download_all, and the game thread: the version is reduced
\* to its numbers, the command is made and run.
Launch ==
    /\ stage = "installing"
    /\ step = "ready"
    /\ GetVersionNumbers(Target) # Raised
    /\ LET made == MakeLaunchCommand(target, Java[target.java], account, ComputeClasspath(target))
       IN  /\ made # Raised
           /\ command' = made
    /\ stage' = "playing"
    /\ UNCHANGED <<tree, list, current, target, account, ivars>>

LaunchRaises ==
    /\ stage = "installing"
    /\ step = "ready"
    /\ \/ GetVersionNumbers(Target) = Raised
       \/ MakeLaunchCommand(target, Java[target.java], account, ComputeClasspath(target)) = Raised
    /\ Leave
    /\ Fail

\* As GameEnds, if the game thread did not wait for the game.
GameEndsUnnoticed ==
    /\ stage = "playing"
    /\ Leave
    /\ UNCHANGED gvars

GameEnds ==
    /\ stage = "playing"
    /\ Leave
    /\ Fail

Killed ==
    /\ stage # "off"
    /\ Kill
    /\ Fail

Progress ==
    \/ \E a \in Accounts : Start(a)
    \/ LoadVersion \/ Inherit \/ Install \/ Launch \/ LaunchRaises \/ GameEnds

Next == Progress \/ InstallFails \/ Killed

Spec == Init /\ [][Next]_vars

\* The client goes on, and its user tries again.
Fairness == WF_vars(Progress)

FairSpec == Spec /\ Fairness

-----------------------------------------------------------------------------
(* Properties                                                              *)

TypeOK ==
    /\ InstallerTypeOK
    /\ stage \in {"off", "loading", "installing", "playing"}
    /\ Len(list) <= MaxVersions
    /\ current \in Versions \cup {None}
    /\ account \in Accounts \cup {None}
    /\ stage = "playing" => step = "ready"
    /\ step = "idle" \/ stage \in {"installing", "playing"}

\* What the target has inherited once load_versions is through: the lists of
\* all its ancestors behind its own, nearest first, and of everything else
\* what the nearest version says that says anything (JSONVersion.inherit_from,
\* called from the furthest ancestor down).
Nearest(k) == LET says == {i \in DOMAIN list : list[i][k] # None}
              IN  IF says = {} THEN None
                  ELSE list[CHOOSE i \in says : \A j \in says : i <= j][k]

InheritanceComplete ==
    target # None =>
        /\ \A k \in Lists : target[k] = FlattenSeq([i \in DOMAIN list |-> list[i][k]])
        /\ \A k \in Singles : target[k] = Nearest(k)

\* The game is started with no argument, and nothing is downloaded, but what
\* the version files give to this system: where all the rules of an element
\* only allow it on conditions that do not hold here, nothing of it gets through
\* to the target, nor from there to the disk (resolve_rulelist, read_arglist,
\* read_one_jar).
ForOthersOnly(elem) ==
    /\ elem.rules # None
    /\ \A i \in DOMAIN elem.rules :
        /\ elem.rules[i].action = "allow"
        /\ \A j \in DOMAIN elem.rules[i].conds : ToSet(elem.rules[i].conds[j]) \cap Here = {}

FilesRead ==
    LET files == Trees[tree]
    IN  {file \in {files[v] : v \in Versions} \ {None} : Readable(file)}
ForUs(k) == {e \in UNION {ToSet(file[k]) : file \in FilesRead} : ~ForOthersOnly(e)}

RuntimePaths(r) ==
    {Manifest} \cup (IF Manifests[r] = Malformed THEN {}
                     ELSE {Java[r]} \cup {e.path : e \in ToSet(Manifests[r])})

RulesObeyed ==
    target # None =>
        /\ ToSet(target.game) \subseteq UNION {ToSet(e.values) : e \in ForUs("game")}
        /\ ToSet(target.jvm) \subseteq ToSet(BaseJvm) \cup UNION {ToSet(e.values) : e \in ForUs("jvm")}
        /\ \A i \in DOMAIN jobs :
            \/ jobs[i].op = "raise"
            \/ jobs[i].path \in {target.asset, target.log}
            \/ jobs[i].op = "present" /\ jobs[i].path \in {AssetsDir, LogConfigs}
            \/ target.java \in DOMAIN Manifests /\ jobs[i].path \in RuntimePaths(target.java)
            \/ jobs[i].path \in {e.jar.path : e \in ForUs("jars")}

\* The game is started for the account the server gave this client, each of
\* its three fields behind the flag that names it, and no flag of a variable
\* that is left out reaches the game, wherever in the list they are, as long as
\* the version's own arguments come in such pairs (make_launch_command,
\* remove_ignored_variables_from_list, replace_variables_in_list).
FieldOf ==
    [flag \in {"--username", "--uuid", "--accessToken"} |->
        CASE flag = "--username" -> "auth_player_name"
          [] flag = "--uuid" -> "auth_uuid"
          [] flag = "--accessToken" -> "auth_access_token"]

FlagsOfIgnored(args) ==
    {args[i - 1].text : i \in {i \in 2..Len(args) : args[i].var \in IgnoredTwopart}}

InPairs(args) ==
    \A i \in DOMAIN args :
        /\ args[i].text \in DOMAIN FieldOf =>
             args[i].var = None /\ i < Len(args) /\ args[i + 1].var = FieldOf[args[i].text]
        /\ args[i].var \in IgnoredTwopart => i > 1 /\ args[i - 1].var = None
        /\ args[i].text \in FlagsOfIgnored(args) => i < Len(args) /\ args[i + 1].var \in IgnoredTwopart

CommandCarriesAccount ==
    stage = "playing" /\ InPairs(target.game) =>
        LET game == command.game
        IN  /\ \A flag \in DOMAIN FieldOf :
                /\ \E i \in DOMAIN game : game[i].text = flag
                /\ \A i \in DOMAIN game : game[i].text = flag =>
                     /\ i < Len(game)
                     /\ game[i + 1].var = <<FieldOf[flag], account>>
            /\ \A i \in DOMAIN game : game[i].text \notin FlagsOfIgnored(target.game)

\* Reading the version files ends, unless two or more versions inherit from
\* each other in a circle, which nothing detects (load_versions).
Parent(t, v) == IF v = None THEN None
                ELSE IF Trees[t][v] = None THEN None
                ELSE IF Trees[t][v].inherits \in {Trees[t][v].id, Malformed} THEN None ELSE Trees[t][v].inherits
Ancestors(t, generations) == FoldLeft(LAMBDA v, i : Parent(t, v), TargetOf[t], [i \in 1..generations |-> i])

Circular == {t \in DOMAIN Trees : Ancestors(t, Cardinality(Versions)) # None}

LoadEnds ==
    tree \notin Circular => (stage = "loading" ~> stage # "loading")

\* Complete version files get the game started where the game's own launcher
\* has left its directories, however often the client was killed or a download
\* broke off before: what is left on the disk is never in the way of the next
\* attempt (DownloadFile.download, JavaRuntimeFile.install,
\* delete_runtime_manifest).  Without these directories every start raises.
Completed == tree \in SoundTrees /\ {AssetsDir, LogConfigs} \subseteq dirs => []<>(stage = "playing")

=============================================================================

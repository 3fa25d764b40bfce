----------------------------- MODULE MCGameStart -----------------------------
(* A launcher with five files and three runtimes; version files that are   *)
(* complete, inherit, lack something, or cannot be started with.           *)
EXTENDS GameStart

Text(t) == [text |-> t, var |-> None]
Var(v) == [text |-> "", var |-> v]
Always(args) == [rules |-> None, values |-> args]
When(key, value, args) == [rules |-> <<[action |-> "allow", conds |-> << <<<<key, value>>>> >>]>>, values |-> args]

MCBaseJvm == <<Text("-Xmx2G")>>

JarA == [rules |-> None, jar |-> [sort |-> "file", path |-> "a.jar"]]
JarOsx == [rules |-> <<[action |-> "allow", conds |-> << << <<"os.name", "osx">> >> >>]>>,
           jar |-> [sort |-> "file", path |-> "osx.jar"]]
JarDir == [rules |-> None, jar |-> [sort |-> "dir", path |-> "jardir"]]

Full(v) ==
    [id |-> v, inherits |-> None, asset |-> "index.json", java |-> "jre", log |-> "log.xml",
     logArg |-> [text |-> "-Dlog4j=", var |-> "path"], main |-> "Main", type |-> "release",
     game |-> << Always(<<Text("--username")>>), Always(<<Var("auth_player_name")>>),
                 Always(<<Text("--clientId")>>), Always(<<Var("clientid")>>),
                 Always(<<Text("--uuid")>>), Always(<<Var("auth_uuid")>>),
                 Always(<<Text("--xuid")>>), Always(<<Var("auth_xuid")>>),
                 Always(<<Text("--accessToken")>>), Always(<<Var("auth_access_token")>>),
                 When("features.is_demo_user", "true", <<Text("--demo")>>) >>,
     jvm |-> << When("os.name", "osx", <<Text("-XstartOnFirstThread")>>),
                When("os.arch", "x86", <<Text("-Xss1M")>>),
                Always(<<Text("-cp")>>), Always(<<Var("classpath")>>) >>,
     jars |-> <<JarOsx, JarA>>]

Child(v, parent) ==
    [id |-> v, inherits |-> parent, asset |-> None, java |-> None, log |-> None, logArg |-> None,
     main |-> "Loader", type |-> None, game |-> <<Always(<<Text("--fabric")>>)>>, jvm |-> <<>>,
     jars |-> <<>>]

MCVersions == {"v1", "v2", "v3", "v1-pre"}
Nothing == [v \in MCVersions |-> None]

Single == [Nothing EXCEPT !["v1"] = Full("v1")]
Two == [Nothing EXCEPT !["v1"] = Child("v1", "v2"), !["v2"] = Full("v2")]
Three == [Nothing EXCEPT !["v1"] = Child("v1", "v2"), !["v2"] = Child("v2", "v3"), !["v3"] = Full("v3")]

MCSoundTrees == 1..3

MCTrees ==
    << Single, Two, Three,
      [Nothing EXCEPT !["v1"] = Child("v1", "v1")],
      [Nothing EXCEPT !["v1"] = Child("v1", "v2")],
      [Nothing EXCEPT !["v1"] = Child("v1", "v2"), !["v2"] = Child("v2", "v1")],
      [Nothing EXCEPT !["v1"] = [Child("v1", "v1") EXCEPT !.id = "v2"]],
      [Nothing EXCEPT !["v1"] = [Full("v1") EXCEPT !.java = Malformed]],
      [Nothing EXCEPT !["v1"] = [Full("v1") EXCEPT !.main = None]],
      [Nothing EXCEPT !["v1"] = [Full("v1") EXCEPT !.game = Tail(@)]],
      [Nothing EXCEPT !["v1"] = [Full("v1") EXCEPT !.java = "bare"]],
      [Nothing EXCEPT !["v1"] = [Full("v1") EXCEPT !.jars = <<JarDir>> \o @]],
      [Nothing EXCEPT !["v1"] = [Full("v1") EXCEPT !.log = None]],
      [Nothing EXCEPT !["v1"] = [Full("v1") EXCEPT !.java = "corrupt"]],
      [Nothing EXCEPT !["v1"] = [Full("v1") EXCEPT !.java = "gone"]],
      [Nothing EXCEPT !["v1-pre"] = Full("v1-pre")] >>

MCNumParts == [v \in MCVersions |-> IF v = "v1-pre" THEN 2 ELSE 3]
MCSuffixed == {"v1-pre"}
MCTargetOf == [t \in DOMAIN MCTrees |-> IF MCTrees[t]["v1"] = None THEN "v1-pre" ELSE "v1"]

MCFiles == {"index.json", "java", "a.jar", "log.xml", "osx.jar"}
MCLinks == {"link", "deeplink"}
MCDirs == {"assets", "indexes", "log_configs", "runtime", "libraries", "deep", "jardir"}
MCDirOf == [p \in MCFiles \cup MCLinks \cup {"manifest"} |->
    CASE p = "index.json" -> "indexes" [] p \in {"a.jar", "osx.jar"} -> "libraries" [] p = "log.xml" -> "log_configs"
      [] p = "deeplink" -> "deep" [] OTHER -> "runtime"]

Entry(type, path) == [type |-> type, path |-> path, exec |-> path = "java"]
MCManifests ==
    [r \in {"jre", "bare", "corrupt"} |->
        IF r = "corrupt" THEN Malformed
        ELSE <<Entry("directory", "deep"), Entry("file", "java"),
               Entry("link", IF r = "jre" THEN "link" ELSE "deeplink")>>]
MCJava == [r \in DOMAIN MCManifests |-> "java"]

=============================================================================

------------------------------ MODULE Installer ------------------------------
(***************************************************************************)
(* The installation of the files a version of the game needs: DownloadFile *)
(* and JavaRuntime, driven by the lists of jobs that download_all works    *)
(* through.  What is on the disk outlives the process, which may be killed *)
(* between any two accesses and starts over the next time.                 *)
(*                                                                         *)
(* A file is "absent", "good" (its hash is the expected one) or "bad":     *)
(* empty, cut off or of another content.                                   *)
(***************************************************************************)
EXTENDS Naturals, Sequences

CONSTANTS
    Files,      \* the files that are downloaded and stay
    Manifest,   \* the manifest of the Java runtime, deleted after reading
    Links,      \* the symbolic links of the runtime
    Dirs,       \* the directories all of these may be in
    DirOf,      \* [file, link or manifest -> its directory]
    MaxFaults   \* bound: how often the process is killed or a download fails

Job == [op : {"file"}, path : Files, exec : BOOLEAN]
         \cup [op : {"manifest", "unreadable"}, path : {Manifest}, exec : {FALSE}]
         \cup [op : {"link"}, path : Links, exec : {FALSE}]
         \cup [op : {"present"}, path : Files \cup Dirs, exec : {FALSE}]
         \cup [op : {"raise"}, path : {Manifest}, exec : {FALSE}]

\* The jobs that download something; a manifest may turn out unreadable.
Downloading == {"file", "manifest", "unreadable"}

ASSUME InstallerAssumption ==
    /\ Manifest \notin Files
    /\ Files \cap Dirs = {}
    /\ DirOf \in [Files \cup {Manifest} \cup Links -> Dirs]
    /\ MaxFaults \in Nat

VARIABLES
    disk,       \* [file -> its state]
    execs,      \* the files marked executable
    links,      \* the links that exist
    dirs,       \* the directories that exist
    jobs, pos,  \* the list being worked through, and the job at hand
    step,       \* "idle", "check", "write", "mark" or "ready"
    faults

onDisk == <<disk, execs, links, dirs>>
ivars == <<disk, execs, links, dirs, jobs, pos, step, faults>>

Downloaded == Files \cup {Manifest}
Contents == {"absent", "bad", "good"}

InstallerTypeOK ==
    /\ disk \in [Downloaded -> Contents]
    /\ execs \subseteq Files
    /\ links \subseteq Links
    /\ dirs \subseteq Dirs
    /\ jobs \in Seq(Job)
    /\ pos \in 1..(Len(jobs) + 1)
    /\ step \in {"idle", "check", "write", "mark", "ready"}
    /\ step \in {"write", "mark"} => pos \in DOMAIN jobs /\ jobs[pos].op \in Downloading
    /\ faults \in 0..MaxFaults

\* Whatever an earlier session left: a file may be in any state, with its
\* directory.
InstallerInit ==
    /\ disk \in [Downloaded -> Contents]
    /\ execs \in SUBSET Files
    /\ links \in SUBSET Links
    /\ dirs \in SUBSET Dirs
    /\ jobs = <<>>
    /\ pos = 1
    /\ step = "idle"
    /\ faults = 0

-----------------------------------------------------------------------------

job == jobs[pos]
At(s, op) == step = s /\ pos \in DOMAIN jobs /\ job.op \in op

Begin(js) ==
    /\ step = "idle"
    /\ jobs' = js
    /\ pos' = 1
    /\ step' = "check"
    /\ UNCHANGED <<onDisk, faults>>

Fault == faults < MaxFaults /\ faults' = faults + 1

NextJob == pos' = pos + 1 /\ step' = "check"
Raise == pos' = pos /\ step' = "idle"

\* download: the file is there and its hash is right.
Have ==
    /\ At("check", Downloading)
    /\ disk[job.path] = "good"
    /\ step' = "mark"
    /\ UNCHANGED <<onDisk, jobs, pos, faults>>

\* As Fetch, without a look at the hash.
FetchAnyway ==
    /\ At("check", Downloading)
    /\ dirs' = dirs \cup {DirOf[job.path]}
    /\ disk' = [disk EXCEPT ![job.path] = "bad"]
    /\ step' = "write"
    /\ UNCHANGED <<execs, links, jobs, pos, faults>>

\* download: the directory is made, the response has begun, and open(.., "wb")
\* empties the file at its final place.
Fetch ==
    /\ At("check", Downloading)
    /\ disk[job.path] # "good"
    /\ dirs' = dirs \cup {DirOf[job.path]}
    /\ disk' = [disk EXCEPT ![job.path] = "bad"]
    /\ step' = "write"
    /\ UNCHANGED <<execs, links, jobs, pos, faults>>

\* There is no answer: requests.get raises.
NoAnswer ==
    /\ At("check", Downloading)
    /\ disk[job.path] # "good"
    /\ dirs' \in {dirs, dirs \cup {DirOf[job.path]}}
    /\ Raise
    /\ Fault
    /\ UNCHANGED <<disk, execs, links, jobs>>

\* As Arrive, whatever has arrived.
ArriveUnverified ==
    /\ step = "write"
    /\ disk' \in {disk, [disk EXCEPT ![job.path] = "good"]}
    /\ execs' = execs \ {job.path}
    /\ step' = "mark"
    /\ UNCHANGED <<links, dirs, jobs, pos, faults>>

\* All of the expected content arrives; chmod, then the hash is right.
Arrive ==
    /\ step = "write"
    /\ disk' = [disk EXCEPT ![job.path] = "good"]
    /\ execs' = execs \ {job.path}
    /\ step' = "mark"
    /\ UNCHANGED <<links, dirs, jobs, pos, faults>>

\* The connection breaks, or something else arrives (an error page: the
\* status is not looked at) and the hash is wrong.
ArriveBroken ==
    /\ step = "write"
    /\ execs' \in {execs, execs \ {job.path}}
    /\ Raise
    /\ Fault
    /\ UNCHANGED <<disk, links, dirs, jobs>>

\* JavaRuntimeFile.install after download; the manifest is read and deleted.
Mark ==
    /\ step = "mark"
    /\ job.op # "unreadable"
    /\ execs' = IF job.exec THEN execs \cup {job.path} ELSE execs
    /\ disk' = IF job.op = "manifest" THEN [disk EXCEPT ![Manifest] = "absent"] ELSE disk
    /\ NextJob
    /\ UNCHANGED <<links, dirs, jobs, faults>>

\* read_runtime_manifest raises: the manifest is as it should be but of no
\* use, and stays where it is.
ReadRaises ==
    /\ step = "mark"
    /\ job.op = "unreadable"
    /\ Raise
    /\ UNCHANGED <<onDisk, jobs, faults>>

\* As Link, without a look at whether the link is there: making it again
\* raises.
LinkAnew ==
    /\ At("check", {"link"})
    /\ DirOf[job.path] \in dirs
    /\ links' = links \cup {job.path}
    /\ IF job.path \in links THEN Raise ELSE NextJob
    /\ UNCHANGED <<disk, execs, dirs, jobs, faults>>

\* JavaRuntimeFile.install of a link: nothing makes the directory it is in.
Link ==
    /\ At("check", {"link"})
    /\ \/ job.path \in links /\ UNCHANGED links
       \/ job.path \notin links /\ DirOf[job.path] \in dirs /\ links' = links \cup {job.path}
    /\ NextJob
    /\ UNCHANGED <<disk, execs, dirs, jobs, faults>>

LinkRaises ==
    /\ At("check", {"link"})
    /\ job.path \notin links
    /\ DirOf[job.path] \notin dirs
    /\ Raise
    /\ UNCHANGED <<onDisk, jobs, faults>>

IsPresent(p) == IF p \in Dirs THEN p \in dirs ELSE disk[p] # "absent"

\* get_java, the directory of jars that cannot be downloaded, and those of the
\* assets, which nothing makes.
Present ==
    /\ At("check", {"present"})
    /\ IF IsPresent(job.path) THEN NextJob ELSE Raise
    /\ UNCHANGED <<onDisk, jobs, faults>>

\* There is nothing to make a DownloadFile or a JavaRuntime of.
Refuse ==
    /\ At("check", {"raise"})
    /\ Raise
    /\ UNCHANGED <<onDisk, jobs, faults>>

Finish ==
    /\ step = "check"
    /\ pos > Len(jobs)
    /\ step' = "ready"
    /\ UNCHANGED <<onDisk, jobs, pos, faults>>

\* What was installed for has ended, or was not started after all.
Leave ==
    /\ step = "ready"
    /\ step' = "idle"
    /\ UNCHANGED <<onDisk, jobs, pos, faults>>

Kill ==
    /\ Fault
    /\ step' = "idle"
    /\ UNCHANGED <<onDisk, jobs, pos>>

Work == Have \/ Fetch \/ Arrive \/ Mark \/ ReadRaises \/ Link \/ LinkRaises \/ Present \/ Refuse \/ Finish
Fails == NoAnswer \/ ArriveBroken

\* Any list of jobs may come next.
InstallerNext == (jobs' \in Seq(Job) /\ Begin(jobs')) \/ Work \/ Fails \/ Leave \/ Kill

InstallerSpec == InstallerInit /\ [][InstallerNext]_ivars

-----------------------------------------------------------------------------
(* Properties                                                              *)

Installed(j) ==
    /\ j.op = "file" => disk[j.path] = "good" /\ (j.exec => j.path \in execs)
    /\ j.op = "link" => j.path \in links
    /\ j.op = "present" => IsPresent(j.path)
    /\ j.op \notin {"unreadable", "raise"}

\* When the game is started, everything on the list is in place: every file
\* has the right hash, what must be executable is, every link exists, in
\* spite of kills and broken downloads before (DownloadFile.download,
\* JavaRuntimeFile.install).
InstalledIntact == step = "ready" => \A i \in DOMAIN jobs : Installed(jobs[i])

\* No installation damages what an earlier one has completed: a file with the
\* right hash is neither emptied nor does it lose its mark, whatever is
\* interrupted (DownloadFile.download looks at the hash before it opens).
IntactIsKept ==
    [][\A f \in Files : disk[f] = "good" =>
          disk'[f] = "good" /\ (f \in execs => f \in execs')]_onDisk

=============================================================================

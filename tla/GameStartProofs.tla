---------------------------- MODULE GameStartProofs ----------------------------
(***************************************************************************)
(* Proofs about the installation of files, for any files, links, lists of  *)
(* jobs and any number of kills and failed downloads, and about the start  *)
(* of a game, for any version files, however long their lists and however  *)
(* many versions inherit from one another.                                 *)
(***************************************************************************)
EXTENDS GameStart, SequenceInduction

-----------------------------------------------------------------------------
(* The installation (Installer)                                            *)

\* What makes InstalledIntact inductive: all the jobs that are behind are
\* installed, and the file at hand is what its step takes it to be.  Without
\* the last two, making room for one file could damage an earlier one of the
\* same list.
InstallerInv ==
    /\ InstallerTypeOK
    /\ step # "idle" => \A i \in DOMAIN jobs : i < pos => Installed(jobs[i])
    /\ step = "write" => disk[job.path] = "bad"
    /\ step = "mark" => disk[job.path] = "good"
    /\ step = "ready" => pos > Len(jobs)

\* What the fields of a job can be.
LEMMA JobType ==
    ASSUME NEW j \in Job
    PROVE  /\ j.op \in {"file", "manifest", "unreadable", "link", "present", "raise"}
           /\ j.exec \in BOOLEAN
           /\ j.op = "file" => j.path \in Files
           /\ j.op \in {"manifest", "unreadable"} => j.path = Manifest /\ j.exec = FALSE
           /\ j.op = "link" => j.path \in Links
           /\ j.op = "present" => j.path \in Files \cup Dirs
BY DEF Job

\* The job at hand is a job, and its path is one of the files or links.
LEMMA JobAtHand ==
    ASSUME InstallerTypeOK, InstallerAssumption, pos \in DOMAIN jobs
    PROVE  /\ job \in Job /\ job = jobs[pos]
           /\ job.op \in {"file", "manifest", "unreadable", "link", "present", "raise"}
           /\ job.op \in Downloading => job.path \in Downloaded /\ DirOf[job.path] \in Dirs
           /\ job.op = "file" => job.path \in Files
           /\ job.exec => job.path \in Files \/ job.op \notin Downloading
           /\ job.op = "link" => job.path \in Links
<1>1. job \in Job /\ job = jobs[pos]
      BY DEF InstallerTypeOK, job
<1> QED BY <1>1, JobType DEF InstallerAssumption, Downloaded, Downloading

\* A job that is done stays done as long as nothing good becomes bad or loses
\* its mark, nothing present disappears, and no link or directory does.
LEMMA StaysInstalled ==
    ASSUME NEW j \in Job, Installed(j), InstallerAssumption,
           \A f \in Files : disk[f] = "good" => disk'[f] = "good" /\ (f \in execs => f \in execs'),
           \A f \in Files : disk[f] # "absent" => disk'[f] # "absent",
           links \subseteq links', dirs \subseteq dirs'
    PROVE  Installed(j)'
<1>1. CASE j.op = "file"
      BY <1>1, JobType DEF Installed
<1>2. CASE j.op = "link"
      BY <1>2 DEF Installed
<1>3. CASE j.op = "present"
      BY <1>3, JobType DEF Installed, IsPresent, InstallerAssumption
<1>4. CASE j.op \notin {"file", "link", "present"}
      BY <1>4 DEF Installed
<1> QED BY <1>1, <1>2, <1>3, <1>4

\* Before the first job nothing has to be installed.
LEMMA InstallationStarts == InstallerInit => InstallerInv
BY InstallerAssumption DEF InstallerInit, InstallerInv, InstallerTypeOK, Downloaded, Contents, Job, Downloading

-----------------------------------------------------------------------------
(* A step keeps the jobs behind installed, action by action                *)

\* The facts about the files that StaysInstalled needs, for the files.
Undamaged ==
    /\ \A f \in Files : disk[f] = "good" => disk'[f] = "good" /\ (f \in execs => f \in execs')
    /\ \A f \in Files : disk[f] # "absent" => disk'[f] # "absent"
    /\ links \subseteq links'
    /\ dirs \subseteq dirs'

\* No action damages a file that is right.
LEMMA StepUndamaged ==
    ASSUME InstallerInv, InstallerNext
    PROVE  Undamaged
<1> USE InstallerAssumption DEF InstallerInv, InstallerTypeOK, Undamaged, Downloaded, onDisk
<1> DEFINE InJobs == pos \in DOMAIN jobs /\ job \in Job
<1>1. ASSUME InJobs, job.op \in Downloading PROVE job.path \in Downloaded
      BY <1>1, JobType DEF job, Downloading
<1>2. CASE Fetch
  <2>1. InJobs
        BY <1>2 DEF Fetch, At, job
  <2> QED BY <1>1, <1>2, <2>1 DEF Fetch, At
<1>3. CASE Arrive
  <2>1. InJobs /\ job.op \in Downloading /\ disk[job.path] = "bad"
        BY <1>3 DEF Arrive, job
  <2> QED BY <1>1, <1>3, <2>1 DEF Arrive
<1>4. CASE ArriveBroken
  <2>1. InJobs /\ job.op \in Downloading /\ disk[job.path] = "bad"
        BY <1>4 DEF ArriveBroken, job
  <2> QED BY <1>1, <1>4, <2>1 DEF ArriveBroken
<1>5. CASE Mark
      BY <1>5 DEF Mark
<1>6. CASE NoAnswer
      BY <1>6 DEF NoAnswer
<1>7. CASE Link
      BY <1>7 DEF Link
<1>8. CASE \/ jobs' \in Seq(Job) /\ Begin(jobs')
           \/ Have \/ ReadRaises \/ LinkRaises \/ Present \/ Refuse \/ Finish \/ Leave \/ Kill
      BY <1>8 DEF Begin, Have, ReadRaises, LinkRaises, Present, Refuse, Finish, Leave, Kill
<1> QED BY <1>2, <1>3, <1>4, <1>5, <1>6, <1>7, <1>8 DEF InstallerNext, Work, Fails

\* Every action keeps the types.
LEMMA StepType ==
    ASSUME InstallerInv, InstallerNext
    PROVE  InstallerTypeOK'
<1> USE InstallerAssumption DEF InstallerInv, InstallerTypeOK, Downloaded, Downloading, Contents, onDisk, Raise, NextJob, Fault
<1>0. /\ pos \in DOMAIN jobs => job \in Job
      /\ pos \in DOMAIN jobs <=> pos # Len(jobs) + 1
      BY DEF job
<1>1. CASE jobs' \in Seq(Job) /\ Begin(jobs')
      BY <1>1 DEF Begin
<1>2. CASE Have
      BY <1>2 DEF Have, At, job
<1>3. CASE Fetch
      BY <1>0, <1>3, JobType DEF Fetch, At, job
<1>4. CASE Arrive
      BY <1>0, <1>4, JobType DEF Arrive, job
<1>5. CASE ArriveBroken
      BY <1>5 DEF ArriveBroken
<1>6. CASE NoAnswer
      BY <1>6, JobAtHand DEF NoAnswer, At
<1>7. CASE Mark
  <2>1. job.exec => job.path \in Files
        BY <1>0, <1>7, JobType DEF Mark, job
  <2> QED BY <1>0, <1>7, <2>1 DEF Mark
<1>8. CASE Link
      BY <1>8, JobAtHand DEF Link, At
<1>9. CASE Present
      BY <1>0, <1>9 DEF Present, At
<1>10. CASE ReadRaises \/ LinkRaises \/ Refuse \/ Finish \/ Leave \/ Kill
      BY <1>10 DEF ReadRaises, LinkRaises, Refuse, Finish, Leave, Kill
<1> QED BY <1>1, <1>2, <1>3, <1>4, <1>5, <1>6, <1>7, <1>8, <1>9, <1>10 DEF InstallerNext, Work, Fails

\* Every action keeps what is behind installed, and adds the job it is done with.
LEMMA StepBehind ==
    ASSUME InstallerInv, InstallerNext, step' # "idle"
    PROVE  (\A i \in DOMAIN jobs : i < pos => Installed(jobs[i]))'
<1> USE InstallerAssumption DEF InstallerInv, InstallerTypeOK
<1>0. ASSUME NEW j \in Job, Installed(j) PROVE Installed(j)'
      BY <1>0, StepUndamaged, StaysInstalled DEF Undamaged
<1>1. CASE jobs' \in Seq(Job) /\ Begin(jobs')
      BY <1>1 DEF Begin
<1>2. CASE jobs' = jobs /\ pos' = pos /\ step # "idle"
      BY <1>0, <1>2 DEF Installed, IsPresent
<1>3. ASSUME jobs' = jobs, pos' = pos + 1, step # "idle", pos \in DOMAIN jobs,
             NEW j \in Job, j = jobs[pos], Installed(j)'
      PROVE  (\A i \in DOMAIN jobs : i < pos => Installed(jobs[i]))'
  <2>1. \A i \in DOMAIN jobs : i < pos + 1 => i < pos \/ i = pos
        OBVIOUS
  <2>2. \A i \in DOMAIN jobs : i < pos => Installed(jobs[i])
        BY <1>3
  <2> QED BY <1>0, <1>3, <2>1, <2>2 DEF Installed, IsPresent
<1>4. CASE Mark
  <2>1. /\ pos \in DOMAIN jobs /\ job \in Job /\ job.op \in {"file", "manifest"} /\ job = jobs[pos]
        /\ disk[job.path] = "good" /\ (job.op = "file" => job.path \in Files /\ job.path # Manifest)
        BY <1>4, JobAtHand DEF Mark, Downloading
  <2>2. PICK j \in Job : j = job
        BY <2>1
  <2>3. j.op = "file" => disk'[j.path] = "good" /\ (j.exec => j.path \in execs')
        BY <1>4, <2>1, <2>2 DEF Mark, Downloaded
  <2>4. Installed(j)'
        BY <2>1, <2>2, <2>3 DEF Installed
  <2> QED BY <1>3, <1>4, <2>1, <2>2, <2>4 DEF Mark, NextJob
<1>5. CASE Link
  <2>1. pos \in DOMAIN jobs /\ job \in Job /\ job.op = "link" /\ job = jobs[pos]
        BY <1>5, JobAtHand DEF Link, At
  <2>2. PICK j \in Job : j = job
        BY <2>1
  <2>3. Installed(j)'
        BY <1>5, <2>1, <2>2 DEF Link, Installed
  <2> QED BY <1>3, <1>5, <2>1, <2>2, <2>3 DEF Link, NextJob, At
<1>6. CASE Present
  <2>1. pos \in DOMAIN jobs /\ job \in Job /\ job.op = "present" /\ job = jobs[pos]
        BY <1>6, JobAtHand DEF Present, At
  <2>2. PICK j \in Job : j = job
        BY <2>1
  <2>3. IsPresent(job.path) /\ pos' = pos + 1
        BY <1>6 DEF Present, Raise, NextJob
  <2>4. Installed(j)'
        BY <1>6, <2>1, <2>2, <2>3 DEF Present, Installed, IsPresent, onDisk
  <2> QED BY <1>3, <1>6, <2>1, <2>2, <2>3, <2>4 DEF Present, At
<1>7. CASE Have \/ Fetch \/ Arrive \/ Finish
      BY <1>2, <1>7 DEF Have, Fetch, Arrive, Finish, At
<1>8. CASE NoAnswer \/ ArriveBroken \/ ReadRaises \/ LinkRaises \/ Refuse \/ Leave \/ Kill
      BY <1>8 DEF NoAnswer, ArriveBroken, ReadRaises, LinkRaises, Refuse, Leave, Kill, Raise
<1> QED BY <1>1, <1>4, <1>5, <1>6, <1>7, <1>8 DEF InstallerNext, Work, Fails

\* What the file at hand is, before its download and after.
LEMMA StepAtHand ==
    ASSUME InstallerInv, InstallerNext
    PROVE  /\ step' = "write" => disk'[job'.path] = "bad"
           /\ step' = "mark" => disk'[job'.path] = "good"
           /\ step' = "ready" => pos' > Len(jobs')
<1> USE DEF InstallerInv, InstallerTypeOK, NextJob, Raise, onDisk, job, Downloaded
<1>1. CASE jobs' \in Seq(Job) /\ Begin(jobs')
      BY <1>1 DEF Begin
<1>2. CASE Have
      BY <1>2 DEF Have
<1>3. CASE Fetch
      BY <1>3, JobAtHand, InstallerAssumption DEF Fetch, At
<1>4. CASE Arrive
      BY <1>4, JobAtHand, InstallerAssumption DEF Arrive
<1>5. CASE NoAnswer \/ ArriveBroken \/ Mark \/ Link
      BY <1>5 DEF NoAnswer, ArriveBroken, Mark, Link
<1>6. CASE ReadRaises \/ LinkRaises \/ Present \/ Refuse \/ Finish \/ Leave \/ Kill
      BY <1>6 DEF ReadRaises, LinkRaises, Present, Refuse, Finish, Leave, Kill
<1> QED BY <1>1, <1>2, <1>3, <1>4, <1>5, <1>6 DEF InstallerNext, Work, Fails

\* The invariant is inductive.
LEMMA InstallationSteps == InstallerInv /\ [InstallerNext]_ivars => InstallerInv'
<1> SUFFICES ASSUME InstallerInv, [InstallerNext]_ivars PROVE InstallerInv'
    OBVIOUS
<1>1. CASE InstallerNext
  <2>1. InstallerTypeOK'
        BY <1>1, StepType
  <2>2. (step # "idle" => \A i \in DOMAIN jobs : i < pos => Installed(jobs[i]))'
        BY <1>1, StepBehind
  <2>3. (step = "write" => disk[job.path] = "bad")' /\ (step = "mark" => disk[job.path] = "good")'
        BY <1>1, StepAtHand
  <2>4. (step = "ready" => pos > Len(jobs))'
        BY <1>1, StepAtHand
  <2> QED BY <2>1, <2>2, <2>3, <2>4 DEF InstallerInv
<1>2. CASE UNCHANGED ivars
      BY <1>2 DEF InstallerInv, InstallerTypeOK, ivars, Installed, IsPresent, job, Contents
<1> QED BY <1>1, <1>2

-----------------------------------------------------------------------------

\* What every run of the installation keeps, typing included.
THEOREM InstallationInv == InstallerSpec => []InstallerInv
BY InstallationStarts, InstallationSteps, PTL DEF InstallerSpec

\* The state keeps its type: the job at hand exists while a file of it is
\* being written or marked (DownloadFile.download, JavaRuntimeFile.install).
THEOREM InstallerTypeCorrect == InstallerSpec => []InstallerTypeOK
<1>1. InstallerInv => InstallerTypeOK
      BY DEF InstallerInv
<1> QED BY <1>1, InstallationInv, PTL

\* When the game is started, every file, link and directory on the list is in
\* place and right, for every list, whatever was killed or broke off before
\* (download_all).
THEOREM InstalledIntactHolds == InstallerSpec => []InstalledIntact
<1>1. InstallerInv => InstalledIntact
      BY DEF InstallerInv, InstallerTypeOK, InstalledIntact
<1> QED BY <1>1, InstallationInv, PTL

\* No step of any installation damages a file that has its hash, or takes its
\* mark from it (DownloadFile.download looks before it opens).
THEOREM IntactIsKeptHolds == InstallerSpec => IntactIsKept
<1>1. InstallerInv /\ [InstallerNext]_ivars =>
        [\A f \in Files : disk[f] = "good" =>
            disk'[f] = "good" /\ (f \in execs => f \in execs')]_onDisk
      BY StepUndamaged DEF Undamaged, ivars, onDisk
<1> QED BY <1>1, InstallationInv, PTL DEF InstallerSpec, IntactIsKept

-----------------------------------------------------------------------------
(* What one version file lets in (VersionFile)                             *)

\* What IsSequence says, in the library's words.
LEMMA SequenceIs ==
  ASSUME NEW s, IsSequence(s)
  PROVE  /\ Len(s) \in Nat /\ DOMAIN s = 1..Len(s) /\ ToSet(s) = {s[i] : i \in 1..Len(s)}
         /\ \A S : ToSet(s) \subseteq S => s \in Seq(S)
<1>1. s \in Seq(ToSet(s))
  BY DEF IsSequence
<1>2. Len(s) \in Nat /\ DOMAIN s = 1..Len(s)
  BY <1>1, LenProperties
<1>3. \A S : ToSet(s) \subseteq S => s \in Seq(S)
  BY <1>1, SeqMonotonic
<1> QED BY <1>2, <1>3 DEF ToSet

\* An element that a rule lets in is not for others only: the rule that lets it
\* in names this system.
LEMMA IncludedIsForUs ==
  ASSUME NEW e, IsElement(e), Included(e)
  PROVE  ~ForOthersOnly(e)
<1>1. CASE e.rules = None
  BY <1>1 DEF ForOthersOnly
<1>2. CASE e.rules # None
  <2>1. PICK i \in DOMAIN e.rules : ResolveRule(e.rules[i])
    BY <1>2 DEF Included, ResolveRulelist
  <2>2. PICK j \in DOMAIN e.rules[i].conds :
            e.rules[i].conds[j] # <<>> /\ Head(e.rules[i].conds[j]) \in Here
    BY <2>1 DEF ResolveRule
  <2> DEFINE cond == e.rules[i].conds[j]
  <2>3. IsSequence(cond)
    BY <1>2, <2>1, <2>2 DEF IsElement, IsRule
  <2>4. Head(cond) \in ToSet(cond)
    <3>1. cond \in Seq(ToSet(cond))
      BY <2>3 DEF IsSequence
    <3> HIDE DEF cond
    <3>2. cond # <<>>
      BY <2>2 DEF cond
    <3> QED BY <3>1, <3>2, HeadTailProperties
  <2> QED BY <2>2, <2>4, <1>2 DEF ForOthersOnly
<1> QED BY <1>1, <1>2

\* The arguments read are those of elements that are for this system.
LEMMA ArglistIs ==
  ASSUME NEW elems, IsSequence(elems), \A e \in ToSet(elems) : IsElement(e) /\ IsSequence(e.values)
  PROVE  /\ IsSequence(ReadArglist(elems))
         /\ ToSet(ReadArglist(elems))
              \subseteq UNION {ToSet(e.values) : e \in {e \in ToSet(elems) : ~ForOthersOnly(e)}}
<1> DEFINE n == Len(elems)
           S == UNION {ToSet(e.values) : e \in ToSet(elems)}
           parts == [i \in 1..n |-> IF Included(elems[i]) THEN elems[i].values ELSE <<>>]
<1>1. n \in Nat /\ DOMAIN elems = 1..n /\ \A i \in 1..n : elems[i] \in ToSet(elems)
  BY SequenceIs
<1>2. ASSUME NEW i \in 1..n PROVE elems[i].values \in Seq(S) /\ <<>> \in Seq(S)
  <2>1. IsSequence(elems[i].values) /\ ToSet(elems[i].values) \subseteq S
    BY <1>1
  <2> HIDE DEF S
  <2> QED BY <2>1, SequenceIs, EmptySeq
<1>3. \A i \in 1..n : parts[i] \in Seq(S)
  <2> HIDE DEF n, S
  <2> QED BY <1>2
<1>4. parts \in Seq(Seq(S)) /\ Len(parts) = n
  <2>1. DOMAIN parts = 1..n /\ parts = [i \in 1..n |-> parts[i]]
    OBVIOUS
  <2> HIDE DEF n, S, parts
  <2> QED BY <2>1, <1>1, <1>3, PartsAre
<1>5. ReadArglist(elems) = FlattenSeq(parts)
  BY <1>1 DEF ReadArglist
<1>6. FlattenSeq(parts) \in Seq(S) /\ ToSet(FlattenSeq(parts)) = UNION {ToSet(parts[i]) : i \in 1..n}
  <2> HIDE DEF n, S, parts
  <2> QED BY <1>4, FlattenSeqType, FlattenSeqRange
<1>7. IsSequence(ReadArglist(elems))
  <2> DEFINE r == ReadArglist(elems)
  <2>1. r \in Seq(S)
    BY <1>5, <1>6
  <2>2. r \in Seq(Range(r)) /\ Range(r) = ToSet(r)
    <3> HIDE DEF r, S
    <3> QED BY <2>1, SeqOfRange DEF Range, ToSet
  <2> QED BY <2>2 DEF IsSequence
<1>8. ASSUME NEW i \in 1..n
      PROVE  ToSet(parts[i]) \subseteq UNION {ToSet(e.values) : e \in {e \in ToSet(elems) : ~ForOthersOnly(e)}}
  <2>1. CASE Included(elems[i])
    <3>1. parts[i] = elems[i].values /\ ~ForOthersOnly(elems[i])
      BY <2>1, <1>1, IncludedIsForUs
    <3> QED BY <3>1, <1>1
  <2>2. CASE ~Included(elems[i])
    <3>1. parts[i] = <<>>
      BY <2>2
    <3> QED BY <3>1 DEF ToSet
  <2> QED BY <2>1, <2>2
<1> QED BY <1>5, <1>6, <1>7, <1>8

\* So are the jars.
LEMMA LibrariesAre ==
  ASSUME NEW elems, IsSequence(elems), \A e \in ToSet(elems) : IsElement(e)
  PROVE  /\ IsSequence(ReadLibraries(elems))
         /\ ToSet(ReadLibraries(elems)) \subseteq {e.jar : e \in {e \in ToSet(elems) : ~ForOthersOnly(e)}}
<1> DEFINE n == Len(elems)
           S == {e.jar : e \in ToSet(elems)}
           parts == [i \in 1..n |-> IF Included(elems[i]) THEN <<elems[i].jar>> ELSE <<>>]
<1>1. n \in Nat /\ DOMAIN elems = 1..n /\ \A i \in 1..n : elems[i] \in ToSet(elems)
  BY SequenceIs
<1>2. ASSUME NEW i \in 1..n PROVE <<elems[i].jar>> \in Seq(S) /\ <<>> \in Seq(S)
  <2>1. elems[i].jar \in S
    BY <1>1
  <2> HIDE DEF S
  <2> QED BY <2>1, EmptySeq
<1>3. \A i \in 1..n : parts[i] \in Seq(S)
  <2> HIDE DEF n, S
  <2> QED BY <1>2
<1>4. parts \in Seq(Seq(S)) /\ Len(parts) = n
  <2>1. DOMAIN parts = 1..n /\ parts = [i \in 1..n |-> parts[i]]
    OBVIOUS
  <2> HIDE DEF n, S, parts
  <2> QED BY <2>1, <1>1, <1>3, PartsAre
<1>5. ReadLibraries(elems) = FlattenSeq(parts)
  BY <1>1 DEF ReadLibraries
<1>6. FlattenSeq(parts) \in Seq(S) /\ ToSet(FlattenSeq(parts)) = UNION {ToSet(parts[i]) : i \in 1..n}
  <2> HIDE DEF n, S, parts
  <2> QED BY <1>4, FlattenSeqType, FlattenSeqRange
<1>7. IsSequence(ReadLibraries(elems))
  <2> DEFINE r == ReadLibraries(elems)
  <2>1. r \in Seq(S)
    BY <1>5, <1>6
  <2>2. r \in Seq(Range(r)) /\ Range(r) = ToSet(r)
    <3> HIDE DEF r, S
    <3> QED BY <2>1, SeqOfRange DEF Range, ToSet
  <2> QED BY <2>2 DEF IsSequence
<1>8. ASSUME NEW i \in 1..n
      PROVE  ToSet(parts[i]) \subseteq {e.jar : e \in {e \in ToSet(elems) : ~ForOthersOnly(e)}}
  <2>1. CASE Included(elems[i])
    <3>1. parts[i] = <<elems[i].jar>> /\ ~ForOthersOnly(elems[i])
      BY <2>1, <1>1, IncludedIsForUs
    <3>2. ToSet(<<elems[i].jar>>) = {elems[i].jar}
      BY DEF ToSet
    <3> QED BY <3>1, <3>2, <1>1
  <2>2. CASE ~Included(elems[i])
    <3>1. parts[i] = <<>>
      BY <2>2
    <3> QED BY <3>1 DEF ToSet
  <2> QED BY <2>1, <2>2
<1>9. UNION {ToSet(parts[i]) : i \in 1..n} \subseteq {e.jar : e \in {e \in ToSet(elems) : ~ForOthersOnly(e)}}
  <2> HIDE DEF n, parts
  <2> QED BY <1>8
<1>10. ToSet(ReadLibraries(elems)) = UNION {ToSet(parts[i]) : i \in 1..n}
  <2> HIDE DEF n, parts
  <2> QED BY <1>5, <1>6
<1> QED BY <1>7, <1>9, <1>10

-----------------------------------------------------------------------------
(* What a file is read as                                                  *)

\* What the version files of this tree can be read as.
AllRead == {ReadJson(file) : file \in FilesRead}

\* One version, as it was read, has its types, and nothing that its rules keep
\* out.
LEMMA ReadIs ==
  ASSUME GameStartAssumption, tree \in DOMAIN Trees, NEW v \in AllRead
  PROVE  /\ v = [k \in Keys |-> v[k]]
         /\ \A k \in Lists : IsSequence(v[k])
         /\ ToSet(v.game) \subseteq UNION {ToSet(e.values) : e \in ForUs("game")}
         /\ ToSet(v.jvm) \subseteq ToSet(BaseJvm) \cup UNION {ToSet(e.values) : e \in ForUs("jvm")}
         /\ ToSet(v.jars) \subseteq {e.jar : e \in ForUs("jars")}
         /\ \A jar \in ToSet(v.jars) : IsJar(jar)
         /\ v.asset \in Files \cup {None} /\ v.log \in Files \cup {None}
         /\ v.inherits \in Versions \cup {None}
<1>1. PICK file \in FilesRead : v = ReadJson(file)
  BY DEF AllRead
<1>2. Readable(file) /\ IsVersionFile(file)
  BY <1>1 DEF FilesRead, GameStartAssumption
<1>3. /\ v.game = ReadArglist(file.game) /\ v.jvm = BaseJvm \o ReadArglist(file.jvm)
      /\ v.jars = ReadLibraries(file.jars) /\ v.asset = file.asset /\ v.log = file.log
      /\ v.java = file.java /\ v.inherits = file.inherits
  BY <1>1 DEF ReadJson, ReadArguments, ReadReferences, ReadLogging, ReadLabels
<1>4. v = [k \in Keys |-> v[k]]
  BY <1>1 DEF ReadJson, Keys, Lists, Singles
<1>5. \A k \in Lists : \A e \in ToSet(file[k]) : ~ForOthersOnly(e) => e \in ForUs(k)
  BY <1>1 DEF ForUs
<1>6. /\ IsSequence(v.game)
      /\ ToSet(v.game) \subseteq UNION {ToSet(e.values) : e \in ForUs("game")}
  <2>1. IsSequence(file.game) /\ \A e \in ToSet(file.game) : IsElement(e) /\ IsSequence(e.values)
    BY <1>2 DEF IsVersionFile, Lists
  <2>2. \A e \in ToSet(file.game) : ~ForOthersOnly(e) => e \in ForUs("game")
    BY <1>5 DEF Lists
  <2> QED BY <2>1, <2>2, <1>3, ArglistIs
<1>7. /\ IsSequence(v.jvm)
      /\ ToSet(v.jvm) \subseteq ToSet(BaseJvm) \cup UNION {ToSet(e.values) : e \in ForUs("jvm")}
  <2>1. IsSequence(file.jvm) /\ \A e \in ToSet(file.jvm) : IsElement(e) /\ IsSequence(e.values)
    BY <1>2 DEF IsVersionFile, Lists
  <2>2. \A e \in ToSet(file.jvm) : ~ForOthersOnly(e) => e \in ForUs("jvm")
    BY <1>5 DEF Lists
  <2> DEFINE read == ReadArglist(file.jvm)
             S == ToSet(BaseJvm) \cup ToSet(read)
  <2>3. IsSequence(BaseJvm)
    BY DEF GameStartAssumption
  <2>4. IsSequence(read)
    BY <2>1, ArglistIs
  <2>5. BaseJvm \in Seq(S) /\ read \in Seq(S)
    <3>1. ToSet(BaseJvm) \subseteq S /\ ToSet(read) \subseteq S
      OBVIOUS
    <3> HIDE DEF S, read
    <3> QED BY <2>3, <2>4, <3>1, SequenceIs
  <2>6. v.jvm \in Seq(S) /\ ToSet(v.jvm) = S
    <3>1. v.jvm = BaseJvm \o read
      BY <1>3
    <3>2. S = ToSet(BaseJvm) \cup ToSet(read)
      OBVIOUS
    <3> HIDE DEF S, read
    <3> QED BY <2>5, <3>1, <3>2, ConcatRange
  <2>7. ToSet(read) \subseteq UNION {ToSet(e.values) : e \in ForUs("jvm")}
    BY <2>1, <2>2, ArglistIs
  <2> QED BY <2>6, <2>7 DEF IsSequence
<1>8. /\ IsSequence(v.jars)
      /\ ToSet(v.jars) \subseteq {e.jar : e \in ForUs("jars")}
      /\ \A jar \in ToSet(v.jars) : IsJar(jar)
  <2>1. /\ IsSequence(file.jars) /\ \A e \in ToSet(file.jars) : IsElement(e)
        /\ \A e \in ToSet(file.jars) : IsJar(e.jar)
    BY <1>2 DEF IsVersionFile, Lists
  <2>2. \A e \in ToSet(file.jars) : ~ForOthersOnly(e) => e \in ForUs("jars")
    BY <1>5 DEF Lists
  <2>3. IsSequence(v.jars) /\ ToSet(v.jars) \subseteq {e.jar : e \in {e \in ToSet(file.jars) : ~ForOthersOnly(e)}}
    BY <1>3, <2>1, LibrariesAre
  <2> QED BY <2>1, <2>2, <2>3
<1>9. \A k \in Lists : IsSequence(v[k])
  BY <1>6, <1>7, <1>8 DEF Lists
<1>10. /\ v.asset \in Files \cup {None} /\ v.log \in Files \cup {None}
       /\ v.inherits \in Versions \cup {None}
  BY <1>2, <1>3 DEF IsVersionFile
<1> QED BY <1>4, <1>6, <1>7, <1>8, <1>9, <1>10

\* Whatever from_version returns has been read from a file.
LEMMA LoadedIs ==
  ASSUME GameStartAssumption, tree \in DOMAIN Trees, NEW v \in Versions, FromVersion[tree][v] # Raised
  PROVE  FromVersion[tree][v] \in AllRead
<1>1. /\ Trees[tree][v] # None
      /\ FromVersion[tree][v] = JSONVersion(Trees[tree][v])
  BY DEF FromVersion
<1>2. Readable(Trees[tree][v]) /\ FromVersion[tree][v] = ReadJson(Trees[tree][v])
  BY <1>1 DEF JSONVersion
<1> QED BY <1>1, <1>2 DEF AllRead, FilesRead

-----------------------------------------------------------------------------
(* Inheritance                                                             *)

\* What the nearest of the versions from place i on says about a key.
NearestFrom(k, i) ==
    LET says == {j \in i..Len(list) : list[j][k] # None}
    IN  IF says = {} THEN None
        ELSE list[CHOOSE j \in says : \A m \in says : j <= m][k]

\* The nearest one is here, or it is nearest from the next place on.
LEMMA NearestStep ==
  ASSUME Len(list) \in Nat, DOMAIN list = 1..Len(list), NEW k
  PROVE  /\ \A i \in 1..Len(list) :
              NearestFrom(k, i) = IF list[i][k] # None THEN list[i][k] ELSE NearestFrom(k, i + 1)
         /\ NearestFrom(k, Len(list) + 1) = None
         /\ NearestFrom(k, 1) = Nearest(k)
<1> DEFINE n == Len(list)
           Says(i) == {j \in i..n : list[j][k] # None}
           Least(i) == CHOOSE j \in Says(i) : \A m \in Says(i) : j <= m
<1>1. ASSUME NEW i \in 1..n PROVE NearestFrom(k, i) = IF list[i][k] # None THEN list[i][k] ELSE NearestFrom(k, i + 1)
  <2>1. CASE list[i][k] # None
    <3>1. i \in Says(i) /\ \A m \in Says(i) : m \in Int /\ i <= m
      BY <2>1
    <3>2. Least(i) = i
      <4>1. \A j \in Says(i) : (\A m \in Says(i) : j <= m) => j = i
        BY <3>1
      <4> HIDE DEF Says
      <4> QED BY <4>1, <3>1
    <3> QED BY <2>1, <3>1, <3>2 DEF NearestFrom
  <2>2. CASE list[i][k] = None
    <3>1. Says(i) = Says(i + 1)
      BY <2>2
    <3>2. \A j \in 1..(n + 1) : NearestFrom(k, j) = IF Says(j) = {} THEN None ELSE list[Least(j)][k]
      BY DEF NearestFrom
    <3>3. Least(i) = Least(i + 1)
      <4> HIDE DEF Says
      <4> QED BY <3>1
    <3>4. i + 1 \in 1..(n + 1) /\ i \in 1..(n + 1)
      OBVIOUS
    <3> HIDE DEF Says, Least
    <3> QED BY <2>2, <3>1, <3>2, <3>3, <3>4
  <2> QED BY <2>1, <2>2
<1>2. NearestFrom(k, n + 1) = None
  <2>1. (n + 1)..n = {}
    OBVIOUS
  <2> QED BY <2>1 DEF NearestFrom
<1>3. NearestFrom(k, 1) = Nearest(k)
  BY DEF NearestFrom, Nearest
<1> QED BY <1>1, <1>2, <1>3

\* inherit_from, called from the furthest ancestor down, makes the lists of all
\* versions into one and takes every single value from the nearest that has it.
LEMMA InheritedIs ==
  ASSUME GameStartAssumption, tree \in DOMAIN Trees, list \in Seq(AllRead), list # <<>>
  PROVE  InheritAll(list) =
            [k \in Keys |-> IF k \in Lists THEN FlattenSeq([i \in DOMAIN list |-> list[i][k]])
                            ELSE IF k \in Singles THEN Nearest(k) ELSE list[1][k]]
<1> DEFINE n == Len(list)
           Column(k) == [i \in 1..n |-> list[i][k]]
           W(i) == [k \in Keys |-> IF k \in Lists THEN FlattenSeq(From(Column(k), n, i))
                                   ELSE IF k \in Singles THEN NearestFrom(k, i) ELSE list[i][k]]
           w == [i \in 1..n |-> W(i)]
           F(g) == [i \in 1..n |-> IF i = n THEN list[i] ELSE InheritFrom(list[i], g[i + 1])]
           f == CHOOSE g : g = F(g)
<1>1. n \in Nat /\ n # 0 /\ DOMAIN list = 1..n
  BY EmptySeq, LenProperties
<1>2. ASSUME NEW i \in 1..n PROVE list[i] = [k \in Keys |-> list[i][k]] /\ \A k \in Lists : IsSequence(list[i][k])
  <2>1. list[i] \in AllRead
    BY <1>1
  <2> QED BY <2>1, ReadIs
<1>3. ASSUME NEW k \in Lists
      PROVE  \E S : Column(k) \in [1..n -> Seq(S)]
  <2> DEFINE S == UNION {ToSet(list[i][k]) : i \in 1..n}
  <2>1. ASSUME NEW i \in 1..n PROVE list[i][k] \in Seq(S)
    <3>1. IsSequence(list[i][k]) /\ ToSet(list[i][k]) \subseteq S
      BY <1>2
    <3> HIDE DEF S
    <3> QED BY <3>1, SequenceIs
  <2>2. Column(k) \in [1..n -> Seq(S)]
    <3> HIDE DEF S
    <3> QED BY <2>1
  <2> QED BY <2>2
<1>4. ASSUME NEW k \in Lists
      PROVE  /\ FlattenSeq(From(Column(k), n, n)) = list[n][k]
             /\ \A i \in 1..(n - 1) : FlattenSeq(From(Column(k), n, i)) = list[i][k] \o FlattenSeq(From(Column(k), n, i + 1))
             /\ From(Column(k), n, 1) = [i \in DOMAIN list |-> list[i][k]]
  <2> DEFINE c == Column(k)
  <2>1. PICK S : c \in [1..n -> Seq(S)]
    BY <1>3
  <2>2. \A i \in 1..n : c[i] = list[i][k]
    OBVIOUS
  <2>3. c = [i \in DOMAIN list |-> list[i][k]]
    BY <1>1
  <2> HIDE DEF c, n
  <2>4. /\ FlattenSeq(From(c, n, n + 1)) = <<>>
        /\ \A i \in 1..n : FlattenSeq(From(c, n, i)) = c[i] \o FlattenSeq(From(c, n, i + 1))
        /\ From(c, n, 1) = c
    <3>1. n \in Nat
      BY <1>1 DEF n
    <3>2. FlattenSeq(From(c, n, n + 1)) = <<>>
      BY <3>1, <2>1, FlattenFrom
    <3>3. Unfolds(c, n)
      BY <3>1, <2>1, FlattenFrom
    <3>4. From(c, n, 1) = c
      BY <3>1, <2>1, FlattenFrom
    <3> QED BY <3>2, <3>3, <3>4 DEF Unfolds
  <2>5. n \in 1..n /\ c[n] \in Seq(S)
    BY <1>1, <2>1
  <2>6. FlattenSeq(From(c, n, n)) = c[n]
    <3>1. FlattenSeq(From(c, n, n)) = c[n] \o <<>>
      BY <2>4, <2>5
    <3> QED BY <3>1, <2>5, ConcatEmptySeq
  <2>7. \A i \in 1..(n - 1) : i \in 1..n
    BY <1>1
  <2>8. \A i \in 1..(n - 1) : FlattenSeq(From(c, n, i)) = list[i][k] \o FlattenSeq(From(c, n, i + 1))
    BY <2>2, <2>4, <2>7
  <2> QED BY <2>2, <2>3, <2>4, <2>5, <2>6, <2>8 DEF c
<1>5. /\ \A i \in 1..n, k \in Keys : NearestFrom(k, i) = IF list[i][k] # None THEN list[i][k] ELSE NearestFrom(k, i + 1)
      /\ \A k \in Keys : NearestFrom(k, n + 1) = None /\ NearestFrom(k, 1) = Nearest(k)
  BY <1>1, NearestStep
<1>6. W(n) = list[n]
  <2>1. n \in 1..n
    BY <1>1
  <2>2. ASSUME NEW k \in Keys PROVE W(n)[k] = list[n][k]
    <3>1. CASE k \in Lists
      BY <3>1, <1>4
    <3>2. CASE k \in Singles \ Lists
      <4>1. NearestFrom(k, n) = list[n][k]
        BY <2>1, <1>5
      <4> QED BY <3>2, <4>1
    <3> QED BY <3>1, <3>2
  <2>3. W(n) = [k \in Keys |-> W(n)[k]]
    OBVIOUS
  <2>4. list[n] = [k \in Keys |-> list[n][k]]
    BY <1>2, <2>1
  <2> HIDE DEF W
  <2> QED BY <2>2, <2>3, <2>4, Zenon
<1>7. ASSUME NEW i \in 1..(n - 1) PROVE W(i) = InheritFrom(list[i], W(i + 1))
  <2>1. i \in 1..n /\ i + 1 \in 1..n
    BY <1>1
  <2>2. DOMAIN list[i] = Keys
    BY <1>2, <2>1
  <2>3. InheritFrom(list[i], W(i + 1)) =
          [k \in Keys |-> IF k \in Lists THEN list[i][k] \o W(i + 1)[k]
                          ELSE IF k \in Singles /\ list[i][k] = None THEN W(i + 1)[k] ELSE list[i][k]]
    BY <2>2 DEF InheritFrom
  <2>4. ASSUME NEW k \in Keys
        PROVE  W(i)[k] = IF k \in Lists THEN list[i][k] \o W(i + 1)[k]
                          ELSE IF k \in Singles /\ list[i][k] = None THEN W(i + 1)[k] ELSE list[i][k]
    <3>1. CASE k \in Lists
      BY <3>1, <1>4
    <3>2. CASE k \in Singles \ Lists
      <4>1. NearestFrom(k, i) = IF list[i][k] # None THEN list[i][k] ELSE NearestFrom(k, i + 1)
        BY <2>1, <1>5
      <4> QED BY <3>2, <4>1
    <3>3. CASE k \notin Singles \cup Lists
      BY <3>3
    <3> QED BY <3>1, <3>2, <3>3
  <2>5. W(i) = [k \in Keys |-> W(i)[k]]
    OBVIOUS
  <2> HIDE DEF W
  <2> QED BY <2>3, <2>4, <2>5
<1>8. w = F(w)
  <2>1. ASSUME NEW i \in 1..n PROVE w[i] = IF i = n THEN list[i] ELSE InheritFrom(list[i], w[i + 1])
    <3>1. CASE i = n
      <4>1. w[n] = W(n)
        BY <1>1, <3>1
      <4> HIDE DEF w, W
      <4> QED BY <4>1, <3>1, <1>6
    <3>2. CASE i # n
      <4>1. i \in 1..(n - 1) /\ i + 1 \in 1..n
        <5> HIDE DEF n
        <5> QED BY <1>1, <3>2
      <4>2. w[i] = W(i) /\ w[i + 1] = W(i + 1)
        BY <4>1
      <4> HIDE DEF w, W
      <4> QED BY <3>2, <4>1, <4>2, <1>7
    <3> QED BY <3>1, <3>2
  <2>2. w = [i \in 1..n |-> w[i]]
    OBVIOUS
  <2> HIDE DEF w
  <2> QED BY <2>1, <2>2
<1>9. f = F(f)
  <2> HIDE DEF F, w
  <2> QED BY <1>8, Zenon
<1>10. 1 \in {i \in 1..n : f[i] = w[i]}
  <2> DEFINE R == {i \in 1..n : f[i] = w[i]}
  <2> HIDE DEF f, w
  <2>1. \A i \in 1..n : /\ f[i] = IF i = n THEN list[i] ELSE InheritFrom(list[i], f[i + 1])
                        /\ w[i] = IF i = n THEN list[i] ELSE InheritFrom(list[i], w[i + 1])
    BY <1>8, <1>9
  <2>2. n \in R
    BY <1>1, <2>1
  <2>3. \A i \in (1 + 1)..n : i \in R => i - 1 \in R
    <3> SUFFICES ASSUME NEW i \in (1 + 1)..n, i \in R PROVE i - 1 \in R
      OBVIOUS
    <3>1. i - 1 \in 1..n /\ i - 1 # n /\ (i - 1) + 1 = i /\ f[i] = w[i]
      BY <1>1
    <3> QED BY <3>1, <2>1
  <2>4. 1..n \subseteq R
    <3>1. 1 \in Int /\ n \in Int
      BY <1>1
    <3> HIDE DEF n, R
    <3> QED BY <3>1, <2>2, <2>3, DownwardInduction
  <2>5. 1 \in 1..n
    BY <1>1
  <2> QED BY <2>4, <2>5
<1>11. InheritAll(list) = f[1]
  BY DEF InheritAll
<1>12. InheritAll(list) = W(1)
  <2>1. 1 \in 1..n
    BY <1>1
  <2>2. w[1] = W(1)
    BY <2>1
  <2> HIDE DEF f, w, W
  <2> QED BY <1>10, <1>11, <2>2
<1>13. ASSUME NEW k \in Keys
       PROVE W(1)[k] = IF k \in Lists THEN FlattenSeq([i \in DOMAIN list |-> list[i][k]])
                            ELSE IF k \in Singles THEN Nearest(k) ELSE list[1][k]
  BY <1>4, <1>5
<1>14. W(1) = [k \in Keys |-> W(1)[k]]
  OBVIOUS
<1> HIDE DEF W
<1> QED BY <1>12, <1>13, <1>14

-----------------------------------------------------------------------------
(* What the target is made of                                              *)

\* All the target has comes from a version of the list.
Inherited(t) ==
    /\ t = [k \in Keys |-> t[k]]
    /\ \A k \in Lists : t[k] \in Seq(UNION {ToSet(list[i][k]) : i \in DOMAIN list})
    /\ \A k \in Singles : t[k] = None \/ \E i \in DOMAIN list : t[k] = list[i][k]

\* The nearest value is none, or some version's.
LEMMA NearestIs ==
  ASSUME Len(list) \in Nat, DOMAIN list = 1..Len(list), NEW k
  PROVE  Nearest(k) = None \/ \E i \in DOMAIN list : Nearest(k) = list[i][k]
<1> DEFINE says == {i \in DOMAIN list : list[i][k] # None}
           least == CHOOSE i \in says : \A j \in says : i <= j
<1>1. CASE says = {}
  BY <1>1 DEF Nearest
<1>2. CASE says # {}
  <2>1. says \in SUBSET Nat
    OBVIOUS
  <2>2. \E i \in says : \A j \in says : i <= j
    <3> HIDE DEF says
    <3> QED BY <1>2, <2>1, LeastOf
  <2>3. least \in says
    <3> HIDE DEF says
    <3> QED BY <2>2
  <2>4. Nearest(k) = list[least][k]
    BY <1>2 DEF Nearest
  <2> QED BY <2>3, <2>4
<1> QED BY <1>1, <1>2

\* InheritAll adds nothing of its own.
LEMMA TargetIs ==
  ASSUME GameStartAssumption, tree \in DOMAIN Trees, list \in Seq(AllRead), list # <<>>
  PROVE  Inherited(InheritAll(list))
<1> DEFINE n == Len(list)
           t == InheritAll(list)
<1>1. n \in Nat /\ n # 0 /\ DOMAIN list = 1..n
  BY EmptySeq, LenProperties
<1>2. t = [k \in Keys |-> IF k \in Lists THEN FlattenSeq([i \in DOMAIN list |-> list[i][k]])
                            ELSE IF k \in Singles THEN Nearest(k) ELSE list[1][k]]
  BY InheritedIs
<1> HIDE DEF t
<1>3. t = [k \in Keys |-> t[k]]
  BY <1>2
<1>4. ASSUME NEW k \in Lists
      PROVE  t[k] \in Seq(UNION {ToSet(list[i][k]) : i \in DOMAIN list})
  <2> DEFINE S == UNION {ToSet(list[i][k]) : i \in DOMAIN list}
             c == [i \in 1..n |-> list[i][k]]
  <2>1. ASSUME NEW i \in 1..n PROVE list[i][k] \in Seq(S)
    <3>1. list[i] \in AllRead
      BY <1>1
    <3>2. IsSequence(list[i][k]) /\ ToSet(list[i][k]) \subseteq S
      BY <1>1, <3>1, ReadIs
    <3> HIDE DEF S
    <3> QED BY <3>2, SequenceIs
  <2>2. c \in Seq(Seq(S))
    <3> DEFINE U == Seq(S)
    <3>1. \A i \in 1..n : c[i] \in U
      BY <2>1
    <3>2. DOMAIN c = 1..n /\ c = [i \in 1..n |-> c[i]]
      OBVIOUS
    <3> HIDE DEF c, U, n
    <3>3. c \in Seq(U)
      BY <1>1, <3>1, <3>2, PartsAre
    <3> QED BY <3>3 DEF U
  <2>3. t[k] = FlattenSeq(c)
    BY <1>1, <1>2 DEF Keys
  <2> HIDE DEF c, S
  <2>4. t[k] \in Seq(S)
    BY <2>2, <2>3, FlattenSeqType
  <2> QED BY <2>4 DEF S
<1>5. ASSUME NEW k \in Singles
      PROVE  t[k] = None \/ \E i \in DOMAIN list : t[k] = list[i][k]
  <2>1. t[k] = Nearest(k)
    BY <1>2 DEF Keys, Singles, Lists
  <2> HIDE DEF n
  <2>2. Nearest(k) = None \/ \E i \in DOMAIN list : Nearest(k) = list[i][k]
    BY <1>1, NearestIs DEF n
  <2> QED BY <2>1, <2>2
<1>6. Inherited(t)
  BY <1>3, <1>4, <1>5 DEF Inherited
<1> QED BY <1>6 DEF t

\* What there is in the target is what the version files give to this system.
Given(t) ==
    /\ ToSet(t.game) \subseteq UNION {ToSet(e.values) : e \in ForUs("game")}
    /\ ToSet(t.jvm) \subseteq ToSet(BaseJvm) \cup UNION {ToSet(e.values) : e \in ForUs("jvm")}
    /\ t.jars \in Seq({e.jar : e \in ForUs("jars")} \cap {jar \in ToSet(t.jars) : IsJar(jar)})
    /\ t.asset \in Files \cup {None} /\ t.log \in Files \cup {None}

\* InheritAll lets nothing else through.
LEMMA GivenIs ==
  ASSUME GameStartAssumption, tree \in DOMAIN Trees, list \in Seq(AllRead), list # <<>>,
         NEW t, t = InheritAll(list)
  PROVE  Given(t)
<1>1. Inherited(t)
  BY TargetIs
<1>2. \A i \in DOMAIN list : list[i] \in AllRead
  OBVIOUS
<1> DEFINE S(k) == UNION {ToSet(list[i][k]) : i \in DOMAIN list}
<1>3. ASSUME NEW k \in Lists PROVE t[k] \in Seq(S(k)) /\ ToSet(t[k]) \subseteq S(k)
  <2>1. t[k] \in Seq(S(k))
    BY <1>1 DEF Inherited
  <2> HIDE DEF S
  <2>2. ToSet(t[k]) \subseteq S(k)
    BY <2>1 DEF ToSet
  <2> QED BY <2>1, <2>2
<1>4. ToSet(t.game) \subseteq UNION {ToSet(e.values) : e \in ForUs("game")}
  <2>1. ToSet(t.game) \subseteq S("game")
    BY <1>3 DEF Lists
  <2>2. \A i \in DOMAIN list : ToSet(list[i].game) \subseteq UNION {ToSet(e.values) : e \in ForUs("game")}
    BY <1>2, ReadIs
  <2> QED BY <2>1, <2>2
<1>5. ToSet(t.jvm) \subseteq ToSet(BaseJvm) \cup UNION {ToSet(e.values) : e \in ForUs("jvm")}
  <2>1. ToSet(t.jvm) \subseteq S("jvm")
    BY <1>3 DEF Lists
  <2>2. \A i \in DOMAIN list : ToSet(list[i].jvm) \subseteq ToSet(BaseJvm) \cup UNION {ToSet(e.values) : e \in ForUs("jvm")}
    BY <1>2, ReadIs
  <2> QED BY <2>1, <2>2
<1>6. t.jars \in Seq({e.jar : e \in ForUs("jars")} \cap {jar \in ToSet(t.jars) : IsJar(jar)})
  <2> DEFINE J == {e.jar : e \in ForUs("jars")} \cap {jar \in ToSet(t.jars) : IsJar(jar)}
  <2>1. ToSet(t.jars) \subseteq S("jars") /\ t.jars \in Seq(S("jars"))
    BY <1>3 DEF Lists
  <2>2. \A i \in DOMAIN list : /\ ToSet(list[i].jars) \subseteq {e.jar : e \in ForUs("jars")}
                               /\ \A jar \in ToSet(list[i].jars) : IsJar(jar)
    BY <1>2, ReadIs
  <2>3. ToSet(t.jars) \subseteq J
    BY <2>1, <2>2
  <2> DEFINE seq == t.jars
             T == S("jars")
  <2>4. seq \in Seq(T) /\ ToSet(seq) \subseteq J
    BY <2>1, <2>3
  <2> HIDE DEF J, seq, T
  <2>5. seq \in Seq(J)
    <3>1. seq \in Seq(Range(seq)) /\ Range(seq) = ToSet(seq)
      BY <2>4, SeqOfRange DEF Range, ToSet
    <3> QED BY <3>1, <2>4, SeqMonotonic
  <2> QED BY <2>5 DEF J, seq
<1>7. t.asset \in Files \cup {None} /\ t.log \in Files \cup {None}
  <2>1. \A i \in DOMAIN list : list[i].asset \in Files \cup {None} /\ list[i].log \in Files \cup {None}
    BY <1>2, ReadIs
  <2>2. \A k \in {"asset", "log"} : t[k] = None \/ \E i \in DOMAIN list : t[k] = list[i][k]
    BY <1>1 DEF Inherited, Singles
  <2>3. t.asset \in Files \cup {None}
    BY <2>1, <2>2
  <2>4. t.log \in Files \cup {None}
    BY <2>1, <2>2
  <2> QED BY <2>3, <2>4
<1> QED BY <1>4, <1>5, <1>6, <1>7 DEF Given

-----------------------------------------------------------------------------
(* What is downloaded for it                                               *)

\* The jobs of a runtime are jobs, for paths of its manifest.
LEMMA RuntimeIs ==
  ASSUME GameStartAssumption, NEW r \in DOMAIN Manifests, Manifests[r] # Malformed
  PROVE  /\ ReadRuntimeManifest(r) \in Seq(Job)
         /\ \A j \in ToSet(ReadRuntimeManifest(r)) : j.path \in RuntimePaths(r)
<1> DEFINE entries == Manifests[r]
           n == Len(entries)
           J == {j \in Job : j.path \in RuntimePaths(r)}
           JobOf(e) == [op |-> e.type, path |-> e.path, exec |-> e.exec]
           parts == [i \in 1..n |-> IF entries[i].type = "directory" THEN <<>> ELSE <<JobOf(entries[i])>>]
<1>1. IsSequence(entries) /\ \A e \in ToSet(entries) : IsEntry(e)
  BY DEF GameStartAssumption
<1>2. n \in Nat /\ DOMAIN entries = 1..n /\ \A i \in 1..n : entries[i] \in ToSet(entries)
  <2> HIDE DEF entries
  <2> QED BY <1>1, SequenceIs
<1>3. ASSUME NEW i \in 1..n PROVE parts[i] \in Seq(J)
  <2>1. CASE entries[i].type = "directory"
    <3>1. parts[i] = <<>>
      BY <2>1
    <3> HIDE DEF parts, J
    <3> QED BY <3>1, EmptySeq
  <2>2. CASE entries[i].type # "directory"
    <3> DEFINE e == entries[i]
               job1 == JobOf(e)
    <3>1. IsEntry(e) /\ e.path \in RuntimePaths(r)
      BY <1>1, <1>2 DEF RuntimePaths
    <3>2. job1 \in Job
      BY <3>1, <2>2 DEF IsEntry, Job
    <3>3. job1.path = e.path
      OBVIOUS
    <3>4. parts[i] = <<job1>>
      BY <2>2
    <3>5. job1 \in J
      BY <3>1, <3>2, <3>3
    <3> HIDE DEF J, parts, job1
    <3> QED BY <3>4, <3>5
  <2> QED BY <2>1, <2>2
<1>4. parts \in Seq(Seq(J))
  <2> DEFINE U == Seq(J)
  <2>1. DOMAIN parts = 1..n /\ parts = [i \in 1..n |-> parts[i]]
    OBVIOUS
  <2>2. \A i \in 1..n : parts[i] \in U
    BY <1>3
  <2> HIDE DEF n, U, parts
  <2>3. parts \in Seq(U)
    BY <2>1, <2>2, <1>2, PartsAre
  <2> QED BY <2>3 DEF U
<1>5. ReadRuntimeManifest(r) = FlattenSeq(parts)
  BY <1>2 DEF ReadRuntimeManifest
<1>6. FlattenSeq(parts) \in Seq(J)
  <2> HIDE DEF parts, J
  <2> QED BY <1>4, FlattenSeqType
<1> HIDE DEF parts
<1>7. FlattenSeq(parts) \in Seq(Job)
  <2>1. J \subseteq Job
    OBVIOUS
  <2> HIDE DEF J
  <2> QED BY <2>1, <1>6, SeqMonotonic
<1>8. ToSet(FlattenSeq(parts)) \subseteq J
  <2> HIDE DEF J
  <2> QED BY <1>6 DEF ToSet
<1> QED BY <1>5, <1>7, <1>8

\* Where the jobs of a version come from.
Allowed(t) ==
    {j \in Job : \/ j.path \in {e.jar.path : e \in ForUs("jars")}
                 \/ j.op = "raise"
                 \/ j.path \in {t.asset, t.log}
                 \/ j.op = "present" /\ j.path \in {AssetsDir, LogConfigs}
                 \/ t.java \in DOMAIN Manifests /\ j.path \in RuntimePaths(t.java)}

\* download_all does nothing else.
LEMMA JobsAre ==
  ASSUME GameStartAssumption, NEW t, Given(t)
  PROVE  DownloadAll(t) \in Seq(Allowed(t))
<1> DEFINE A == Allowed(t)
<1>1. RaiseJob \in A
  BY DEF RaiseJob, Allowed, Job
<1>2. FileBelow(AssetsDir, t.asset) \in Seq(A) /\ FileBelow(LogConfigs, t.log) \in Seq(A)
  <2>1. ASSUME NEW f \in {t.asset, t.log}, NEW dir \in {AssetsDir, LogConfigs} PROVE FileBelow(dir, f) \in Seq(A)
    <3>1. f \in Files \cup {None} /\ dir \in Dirs
      BY DEF Given, GameStartAssumption
    <3>2. CASE f = None
      <4>1. FileBelow(dir, f) = <<RaiseJob>>
        BY <3>2 DEF FileBelow
      <4> HIDE DEF A
      <4> QED BY <4>1, <1>1
    <3>3. CASE f # None
      <4> DEFINE j == [op |-> "file", path |-> f, exec |-> FALSE]
                 there == MustBe(dir)
      <4>1. FileBelow(dir, f) = <<there, j>>
        BY <3>3 DEF FileBelow
      <4>2. j \in A
        BY <3>1, <3>3 DEF Allowed, Job
      <4>3. there \in A
        BY <3>1 DEF Allowed, Job, MustBe
      <4> HIDE DEF A, j, there
      <4> QED BY <4>1, <4>2, <4>3
    <3> QED BY <3>2, <3>3
  <2> QED BY <2>1
<1>3. RuntimeOf(t) \in Seq(A)
  <2>1. CASE t.java \notin DOMAIN Manifests
    <3>1. RuntimeOf(t) = <<RaiseJob>>
      BY <2>1 DEF RuntimeOf
    <3> HIDE DEF A
    <3> QED BY <3>1, <1>1
  <2>2. CASE t.java \in DOMAIN Manifests /\ Manifests[t.java] = Malformed
    <3> DEFINE j == [ManifestJob EXCEPT !.op = "unreadable"]
    <3>1. RuntimeOf(t) = <<j>>
      BY <2>2 DEF RuntimeOf
    <3>2. j \in A
      BY <2>2 DEF ManifestJob, Allowed, Job, RuntimePaths
    <3> HIDE DEF A, j
    <3> QED BY <3>1, <3>2
  <2>3. CASE t.java \in DOMAIN Manifests /\ Manifests[t.java] # Malformed
    <3> DEFINE r == t.java
               present == MustBe(Java[r])
               read == ReadRuntimeManifest(r)
    <3>1. r \in DOMAIN Manifests /\ Java[r] \in Files
      BY <2>3 DEF GameStartAssumption
    <3>2. ManifestJob \in A
      BY <2>3 DEF ManifestJob, Allowed, Job, RuntimePaths
    <3>3. present \in A
      BY <2>3, <3>1 DEF Allowed, Job, RuntimePaths, MustBe
    <3>4. read \in Seq(A)
      <4>1. read \in Seq(Job) /\ \A j \in ToSet(read) : j.path \in RuntimePaths(r)
        BY <2>3, <3>1, RuntimeIs
      <4>2. \A j \in ToSet(read) : j \in Job
        <5> HIDE DEF read
        <5> QED BY <4>1 DEF ToSet
      <4>3. ToSet(read) \subseteq A
        <5> HIDE DEF read
        <5> QED BY <4>1, <4>2, <2>3 DEF Allowed, r
      <4> HIDE DEF read, A
      <4>4. read \in Seq(Range(read)) /\ Range(read) = ToSet(read)
        BY <4>1, SeqOfRange DEF Range, ToSet
      <4> QED BY <4>3, <4>4, SeqMonotonic
    <3>5. RuntimeOf(t) = <<ManifestJob>> \o read \o <<present>>
      BY <2>3 DEF RuntimeOf
    <3> HIDE DEF A, read, present
    <3>6. <<ManifestJob>> \in Seq(A) /\ <<present>> \in Seq(A)
      BY <3>2, <3>3
    <3> QED BY <3>4, <3>5, <3>6, ConcatProperties
  <2> QED BY <2>1, <2>2, <2>3
<1>4. JarJobs(t.jars) \in Seq(A)
  <2> DEFINE jars == t.jars
             n == Len(jars)
             J == {e.jar : e \in ForUs("jars")} \cap {jar \in ToSet(t.jars) : IsJar(jar)}
             all == JarJobs(jars)
  <2>1. jars \in Seq(J)
    BY DEF Given
  <2>2. n \in Nat /\ DOMAIN jars = 1..n
    <3> HIDE DEF jars, J
    <3> QED BY <2>1, LenProperties
  <2>3. ASSUME NEW i \in 1..n PROVE all[i] \in A
    <3>1. jars[i] \in J
      <4> HIDE DEF jars, J
      <4> QED BY <2>1, <2>2
    <3>2. IsJar(jars[i]) /\ jars[i].path \in {e.jar.path : e \in ForUs("jars")}
      BY <3>1
    <3>3. all[i] = [op |-> IF jars[i].sort = "dir" THEN "present" ELSE "file",
                    path |-> jars[i].path, exec |-> FALSE]
      BY <2>2 DEF JarJobs
    <3>4. all[i] \in Job /\ all[i].path = jars[i].path
      BY <3>2, <3>3 DEF IsJar, Job
    <3> QED BY <3>2, <3>4 DEF Allowed
  <2>4. DOMAIN all = 1..n /\ all = [i \in 1..n |-> all[i]]
    BY <2>2 DEF JarJobs
  <2> HIDE DEF all, n, A
  <2>5. all \in Seq(A)
    BY <2>2, <2>3, <2>4, PartsAre
  <2> QED BY <2>5 DEF all
<1>5. DownloadAll(t) = FileBelow(AssetsDir, t.asset) \o RuntimeOf(t) \o JarJobs(t.jars) \o FileBelow(LogConfigs, t.log)
  BY DEF DownloadAll
<1> HIDE DEF A
<1>6. FileBelow(AssetsDir, t.asset) \o RuntimeOf(t) \in Seq(A)
  BY <1>2, <1>3, ConcatProperties
<1>7. FileBelow(AssetsDir, t.asset) \o RuntimeOf(t) \o JarJobs(t.jars) \in Seq(A)
  BY <1>4, <1>6, ConcatProperties
<1>8. DownloadAll(t) \in Seq(A)
  BY <1>2, <1>5, <1>7, ConcatProperties
<1> QED BY <1>8 DEF A

\* What it does are jobs an installation can be given.
LEMMA JobsTyped ==
  ASSUME GameStartAssumption, NEW t, Given(t)
  PROVE  DownloadAll(t) \in Seq(Job)
<1>1. Allowed(t) \subseteq Job
  BY DEF Allowed
<1> QED BY <1>1, JobsAre, SeqMonotonic

-----------------------------------------------------------------------------
(* The launcher                                                            *)

\* The command that is made of the target.
Made == MakeLaunchCommand(target, Java[target.java], account, ComputeClasspath(target))

\* The target is made of the list, the list is made of version files, and the
\* jobs and the command are made of the target.  As long as the list is read
\* there is no target, and once it has been read it is not empty.
StartInv ==
    /\ tree \in DOMAIN Trees
    /\ stage \in {"off", "loading", "installing", "playing"}
    /\ current \in Versions \cup {None}
    /\ account \in Accounts \cup {None}
    /\ list \in Seq(AllRead) /\ Len(list) <= MaxVersions
    /\ stage = "loading" => target = None /\ (current = None => list # <<>>)
    /\ stage \in {"installing", "playing"} \/ target # None =>
         list # <<>> /\ target = InheritAll(list) /\ jobs = DownloadAll(target)
    /\ stage = "playing" => command = Made /\ command # Raised

\* Where the launcher is, and where the installation is.
StageInv ==
    /\ stage = "playing" => step = "ready"
    /\ step = "idle" \/ stage \in {"installing", "playing"}

\* What is inductive: the two together.
GInv == StartInv /\ StageInv

\* It holds before anything is read.
LEMMA StartInit == Init => GInv
<1> SUFFICES ASSUME Init PROVE GInv
  OBVIOUS
<1>1. list \in Seq(AllRead) /\ Len(list) <= MaxVersions
  <2>1. list = <<>> /\ Len(list) = 0
    BY DEF Init
  <2> QED BY <2>1, EmptySeq, GameStartAssumption DEF GameStartAssumption
<1> QED BY <1>1 DEF Init, GInv, StartInv, StageInv

\* What is installed does not change on the way.
LEMMA WorkKeepsJobs == (Work \/ Fails \/ Leave \/ Kill) => jobs' = jobs
BY DEF Work, Fails, Leave, Kill, Have, Fetch, Arrive, Mark, ReadRaises, Link, LinkRaises, Present, Refuse,
       Finish, NoAnswer, ArriveBroken

\* A step that fails leaves the installation.
LEMMA FailsIsIdle == (Fails \/ Leave \/ Kill) => step' = "idle"
BY DEF Fails, Leave, Kill, NoAnswer, ArriveBroken, Raise

\* Leaving to "off" keeps what was read.
LEMMA FailKeeps ==
  ASSUME GInv, Fail, jobs' = jobs, step' = "idle"
  PROVE  GInv'
<1>1. UNCHANGED <<tree, list, current, target, account, command, jobs>> /\ stage' = "off"
  BY DEF Fail
<1>2. AllRead' = AllRead
  BY <1>1 DEF AllRead, FilesRead
<1>3. StartInv'
  BY <1>1, <1>2 DEF GInv, StartInv
<1> QED BY <1>1, <1>3 DEF GInv, StageInv

\* Every step keeps it, action by action.
LEMMA StartStep == GInv /\ [Next]_vars => GInv'
<1> SUFFICES ASSUME GInv, [Next]_vars PROVE GInv'
  OBVIOUS
<1> USE DEF GInv
<1>1. ASSUME NEW a \in Accounts, Start(a) PROVE GInv'
  <2>1. /\ tree' = tree /\ list' = <<>> /\ stage' = "loading" /\ current' = Target /\ target' = None
        /\ account' = a /\ step' = step
    BY <1>1 DEF Start, ivars
  <2>2. list' \in Seq(AllRead') /\ Len(list') <= MaxVersions
    <3>1. list' = <<>> /\ Len(<<>>) = 0
      BY <2>1
    <3>2. list' \in Seq(AllRead')
      BY <2>1, EmptySeq
    <3> QED BY <3>1, <3>2, GameStartAssumption DEF GameStartAssumption
  <2>3. Target \in Versions /\ Target # None
    BY GameStartAssumption DEF GameStartAssumption, Target, StartInv
  <2>4. StartInv'
    BY <2>1, <2>2, <2>3 DEF StartInv
  <2>5. StageInv'
    BY <1>1, <2>1 DEF StageInv, Start, Idle
  <2> QED BY <2>4, <2>5
<1>2. CASE LoadVersion
  <2> DEFINE v == FromVersion[tree][current]
  <2>0. UNCHANGED ivars /\ step = "idle"
    BY <1>2 DEF LoadVersion, StageInv
  <2>1. CASE v = Raised
    <3>1. Fail
      BY <1>2, <2>1 DEF LoadVersion
    <3> QED BY <2>0, <3>1, FailKeeps DEF ivars
  <2>2. CASE v # Raised
    <3>1. /\ list' = IF Len(list) < MaxVersions THEN Append(list, v) ELSE list
          /\ current' = v.inherits
          /\ UNCHANGED <<tree, stage, target, account, command>>
      BY <1>2, <2>2 DEF LoadVersion
    <3>2. v \in AllRead
      BY <1>2, <2>2, LoadedIs, GameStartAssumption DEF LoadVersion, StartInv
    <3>3. current' \in Versions \cup {None}
      BY <3>1, <3>2, ReadIs, GameStartAssumption DEF StartInv
    <3>4. list' \in Seq(AllRead) /\ Len(list') <= MaxVersions /\ list' # <<>>
      <4> HIDE DEF v
      <4>1. list \in Seq(AllRead) /\ Len(list) \in Nat /\ Len(list) <= MaxVersions /\ MaxVersions \in Nat \ {0}
        BY GameStartAssumption, LenProperties DEF StartInv, GameStartAssumption
      <4>2. Append(list, v) \in Seq(AllRead) /\ Len(Append(list, v)) = Len(list) + 1
        BY <3>2, <4>1, AppendProperties
      <4>3. Len(list') # 0 /\ list' \in Seq(AllRead) /\ Len(list') <= MaxVersions
        BY <3>1, <4>1, <4>2
      <4> QED BY <4>3
    <3>5. AllRead' = AllRead
      BY <3>1 DEF AllRead, FilesRead
    <3>6. stage' = "loading" /\ target' = None
      BY <1>2, <3>1 DEF LoadVersion, StartInv
    <3> HIDE DEF v
    <3>7. StartInv'
      BY <3>1, <3>3, <3>4, <3>5, <3>6 DEF StartInv
    <3> QED BY <2>0, <3>6, <3>7 DEF StageInv, ivars
  <2> QED BY <2>1, <2>2
<1>3. CASE Inherit
  <2>1. /\ stage' = "installing" /\ target' = InheritAll(list) /\ jobs' = DownloadAll(target')
        /\ UNCHANGED <<tree, list, current, account, command>> /\ list # <<>> /\ step' = "check"
    BY <1>3 DEF Inherit, Begin, StartInv
  <2>2. AllRead' = AllRead
    BY <2>1 DEF AllRead, FilesRead
  <2>3. InheritAll(list') = InheritAll(list) /\ DownloadAll(target)' = DownloadAll(target')
    BY <2>1
  <2>4. StartInv'
    BY <2>1, <2>2, <2>3 DEF StartInv
  <2> QED BY <2>1, <2>4 DEF StageInv
<1>4. CASE Install
  <2>1. jobs' = jobs
    BY <1>4, WorkKeepsJobs DEF Install
  <2>2. CASE step' = "idle"
    BY <1>4, <2>1, <2>2, FailKeeps DEF Install
  <2>3. CASE step' # "idle"
    <3>1. UNCHANGED gvars /\ stage = "installing"
      BY <1>4, <2>3 DEF Install
    <3>2. AllRead' = AllRead
      BY <3>1 DEF AllRead, FilesRead, gvars
    <3>3. StartInv'
      BY <2>1, <3>1, <3>2 DEF StartInv, gvars
    <3> QED BY <3>1, <3>3 DEF StageInv, gvars
  <2> QED BY <2>2, <2>3
<1>5. CASE InstallFails
  BY <1>5, WorkKeepsJobs, FailsIsIdle, FailKeeps DEF InstallFails
<1>6. CASE Launch
  <2>1. /\ stage = "installing" /\ step = "ready" /\ command' = Made /\ Made # Raised /\ stage' = "playing"
        /\ UNCHANGED <<tree, list, current, target, account, ivars>>
    BY <1>6 DEF Launch, Made
  <2>2. AllRead' = AllRead /\ Made' = Made
    BY <2>1 DEF AllRead, FilesRead, Made
  <2>3. StartInv'
    BY <2>1, <2>2 DEF StartInv, ivars
  <2> QED BY <2>1, <2>3 DEF StageInv, ivars
<1>7. CASE LaunchRaises \/ GameEnds \/ Killed
  <2>1. Fail /\ (Leave \/ Kill)
    BY <1>7 DEF LaunchRaises, GameEnds, Killed
  <2> QED BY <2>1, WorkKeepsJobs, FailsIsIdle, FailKeeps
<1>8. CASE UNCHANGED vars
  <2>1. UNCHANGED <<tree, stage, list, current, target, account, command, jobs, step>>
    BY <1>8 DEF vars, gvars, ivars
  <2>2. AllRead' = AllRead /\ Made' = Made
    BY <2>1 DEF AllRead, FilesRead, Made
  <2> QED BY <2>1, <2>2 DEF StartInv, StageInv
<1> QED BY <1>1, <1>2, <1>3, <1>4, <1>5, <1>6, <1>7, <1>8 DEF Next, Progress

\* What every run of the launcher keeps.
THEOREM StartInvHolds == Spec => []GInv
BY StartInit, StartStep, PTL DEF Spec

\* The disk begins in a state an installation may find.
LEMMA InitIsInstallation == Init => InstallerInit
BY GameStartAssumption DEF Init, InstallerInit, Downloaded, Contents, GameStartAssumption

\* Each step is one of the installation or leaves the disk alone.
LEMMA StepIsInstallation == GInv /\ [Next]_vars => [InstallerNext]_ivars
<1> SUFFICES ASSUME GInv, [Next]_vars PROVE [InstallerNext]_ivars
  OBVIOUS
<1>1. CASE Inherit
  <2>1. Begin(DownloadAll(InheritAll(list))) /\ jobs' = DownloadAll(InheritAll(list))
    BY <1>1 DEF Inherit, Begin
  <2>2. Given(InheritAll(list))
    BY <1>1, GivenIs, GameStartAssumption DEF Inherit, GInv, StartInv
  <2>3. jobs' \in Seq(Job)
    BY <2>1, <2>2, JobsTyped, GameStartAssumption
  <2> QED BY <2>1, <2>3 DEF InstallerNext, Begin
<1>2. CASE ~Inherit
  BY <1>2 DEF Next, Progress, Start, LoadVersion, Install, InstallFails, Launch, LaunchRaises, GameEnds, Killed,
              InstallerNext, vars
<1> QED BY <1>1, <1>2

\* What is proved of the installation holds of the launcher: the jobs it begins
\* with are jobs an installation can be given.
LEMMA IsInstallation == Spec => InstallerSpec
BY InitIsInstallation, StepIsInstallation, StartInvHolds, PTL DEF Spec, InstallerSpec

\* The state keeps its types, and the game only plays on what is installed
\* (MCLauncher).
THEOREM GameStartTypeCorrect == Spec => []TypeOK
<1>1. GInv /\ InstallerTypeOK => TypeOK
  BY DEF GInv, StartInv, StageInv, TypeOK
<1> QED BY <1>1, StartInvHolds, IsInstallation, InstallerTypeCorrect, PTL

\* Once load_versions is through, the target has the lists of all its ancestors
\* behind its own, nearest first, and each single value of the nearest version
\* that has one, for chains of any length (JSONVersion.inherit_from).
THEOREM InheritanceIsComplete == Spec => []InheritanceComplete
<1>1. GInv => InheritanceComplete
  BY InheritedIs, GameStartAssumption DEF GInv, StartInv, InheritanceComplete, Keys, Lists, Singles
<1> QED BY <1>1, StartInvHolds, PTL

\* Nothing that all the rules of an element keep from this system gets into an
\* argument of the game or onto the disk (resolve_rulelist, read_arglist,
\* read_one_jar).
THEOREM RulesAreObeyed == Spec => []RulesObeyed
<1>1. GInv => RulesObeyed
  <2> SUFFICES ASSUME GInv, target # None PROVE RulesObeyed
    BY DEF RulesObeyed
  <2>1. jobs = DownloadAll(target) /\ Given(target)
    BY GivenIs, GameStartAssumption DEF GInv, StartInv
  <2>2. jobs \in Seq(Allowed(target))
    BY <2>1, JobsAre, GameStartAssumption
  <2>3. \A i \in DOMAIN jobs : jobs[i] \in Allowed(target)
    BY <2>2
  <2> QED BY <2>1, <2>3 DEF RulesObeyed, Given, Allowed
<1> QED BY <1>1, StartInvHolds, PTL

\* When the game is started everything on the list of jobs is in place, and no
\* start of any game damages what an earlier one has completed.
THEOREM GameStartsIntact == Spec => []InstalledIntact /\ IntactIsKept
BY IsInstallation, InstalledIntactHolds, IntactIsKeptHolds, PTL

-----------------------------------------------------------------------------
(* The command                                                             *)

\* A variable that is left out.
IsIgnored(arg) == arg.var \in IgnoredTwopart

\* The places of args that RemoveIgnored keeps.
Kept(args) ==
    [i \in 1..Len(args) |-> ~IsIgnored(args[i]) /\ ~(i < Len(args) /\ IsIgnored(args[i + 1]))]

\* If arguments come in pairs, the backwards loop of
\* remove_ignored_variables_from_list removes just the ignored variables and what
\* is in front of each.
LEMMA RemovedIs ==
  ASSUME GameStartAssumption, NEW A, NEW args \in Seq(A), InPairs(args)
  PROVE  RemoveIgnored(args) = Chosen(args, Kept(args), Len(args))
<1> DEFINE n == Len(args)
           F(g) == [i \in 1..(n + 1) |-> i <= n /\ args[i].var \in IgnoredTwopart /\ ~g[i + 1]]
           P(i) == i <= n /\ args[i].var \in IgnoredTwopart
           w == [i \in 1..(n + 1) |-> P(i)]
           f == CHOOSE g : g = F(g)
<1>1. n \in Nat /\ DOMAIN args = 1..n
  BY LenProperties
<1>2. None \notin IgnoredTwopart
  BY DEF GameStartAssumption
<1>3. ASSUME NEW i \in 1..n, args[i].var \in IgnoredTwopart
      PROVE  i > 1 /\ args[i - 1].var \notin IgnoredTwopart
  BY <1>1, <1>2, <1>3 DEF InPairs
<1>4. \A i \in 1..(n + 1) : w[i] \in BOOLEAN
  OBVIOUS
<1>5. \A i \in 1..n : w[i] <=> args[i].var \in IgnoredTwopart
  <2>1. \A i \in 1..n : i \in 1..(n + 1) /\ (P(i) <=> args[i].var \in IgnoredTwopart)
    BY <1>1
  <2>2. \A i \in 1..(n + 1) : w[i] = P(i)
    <3> HIDE DEF n, P
    <3> QED BY Zenon
  <2> HIDE DEF n, P, w
  <2> QED BY <2>1, <2>2
<1>6. ~w[n + 1]
  <2>1. n + 1 \in 1..(n + 1) /\ ~P(n + 1)
    BY <1>1
  <2>2. \A i \in 1..(n + 1) : w[i] = P(i)
    <3> HIDE DEF n, P
    <3> QED BY Zenon
  <2> HIDE DEF P, w
  <2> QED BY <2>1, <2>2
<1>7. ASSUME NEW i \in 1..(n + 1)
      PROVE  w[i] = (i <= n /\ args[i].var \in IgnoredTwopart /\ ~w[i + 1])
  <2>1. CASE i = n + 1
    BY <1>1, <2>1
  <2>2. CASE i # n + 1 /\ args[i].var \notin IgnoredTwopart
    BY <1>1, <2>2
  <2>3. CASE i # n + 1 /\ args[i].var \in IgnoredTwopart
    <3>1. i \in 1..n /\ i <= n /\ i + 1 \in 1..(n + 1)
      BY <1>1, <2>3
    <3>2. ~w[i + 1]
      <4>1. CASE i = n
        BY <4>1, <1>6
      <4>2. CASE i # n
        <5>1. i + 1 \in 1..n /\ (i + 1) - 1 = i
          <6> HIDE DEF n
          <6> QED BY <1>1, <3>1, <4>2
        <5>2. args[i + 1].var \notin IgnoredTwopart
          BY <5>1, <2>3, <1>3
        <5> HIDE DEF w
        <5> QED BY <5>1, <5>2, <1>5
      <4> QED BY <4>1, <4>2
    <3> HIDE DEF w
    <3> QED BY <2>3, <3>1, <3>2, <1>5, <1>4
  <2> QED BY <2>1, <2>2, <2>3
<1>8. w = F(w)
  <2>1. w = [i \in 1..(n + 1) |-> w[i]]
    OBVIOUS
  <2> HIDE DEF w
  <2> QED BY <1>7, <2>1
<1>9. f = F(f)
  <2> HIDE DEF F, w
  <2> QED BY <1>8, Zenon
<1>10. \A i \in 1..(n + 1) : f[i] = w[i]
  <2> DEFINE m == n + 1
             R == {i \in 1..m : f[i] = w[i]}
  <2>1. \A i \in 1..m : /\ f[i] = (i <= n /\ args[i].var \in IgnoredTwopart /\ ~f[i + 1])
                        /\ w[i] = (i <= n /\ args[i].var \in IgnoredTwopart /\ ~w[i + 1])
    <3> HIDE DEF f, w
    <3> QED BY <1>7, <1>9
  <2> HIDE DEF f, w
  <2>2. m \in R
    <3>1. m \in 1..m /\ ~(m <= n)
      BY <1>1
    <3> QED BY <3>1, <2>1
  <2>3. \A i \in (1 + 1)..m : i \in R => i - 1 \in R
    <3> SUFFICES ASSUME NEW i \in (1 + 1)..m, i \in R PROVE i - 1 \in R
      OBVIOUS
    <3>1. i - 1 \in 1..m /\ (i - 1) + 1 = i /\ f[i] = w[i]
      BY <1>1
    <3> DEFINE k == i - 1
    <3>2. k \in 1..m /\ k + 1 = i
      BY <3>1
    <3> HIDE DEF k, m
    <3>3. f[k] = w[k]
      BY <3>1, <3>2, <2>1
    <3> QED BY <3>2, <3>3 DEF k
  <2>4. 1..m \subseteq R
    <3>1. 1 \in Int /\ m \in Int
      BY <1>1
    <3> HIDE DEF m, R
    <3> QED BY <3>1, <2>2, <2>3, DownwardInduction
  <2> QED BY <2>4
<1> HIDE DEF f, w
<1>11. 1 \in 1..(n + 1) /\ ~f[1]
  <2>1. 1 \in 1..(n + 1)
    BY <1>1
  <2>2. ~w[1]
    <3>1. CASE n = 0
      BY <3>1, <1>6
    <3>2. CASE n # 0
      <4>1. 1 \in 1..n /\ ~(1 > 1)
        BY <1>1, <3>2
      <4> QED BY <4>1, <1>3, <1>5
    <3> QED BY <3>1, <3>2
  <2> QED BY <2>1, <2>2, <1>10
<1>12. RemoveIgnored(args) = FlattenSeq([i \in DOMAIN args |-> IF f[i] \/ f[i + 1] THEN <<>> ELSE <<args[i]>>])
  BY <1>11 DEF RemoveIgnored, f
<1>13. ASSUME NEW i \in 1..n
       PROVE  (f[i] \/ f[i + 1]) <=> ~Kept(args)[i]
  <2>1. i \in 1..(n + 1) /\ i + 1 \in 1..(n + 1)
    BY <1>1
  <2>2. f[i] = w[i] /\ f[i + 1] = w[i + 1]
    BY <2>1, <1>10
  <2>3. w[i] <=> IsIgnored(args[i])
    BY <1>5 DEF IsIgnored
  <2>4. w[i + 1] <=> i < n /\ IsIgnored(args[i + 1])
    <3>1. CASE i = n
      BY <3>1, <1>1, <1>6
    <3>2. CASE i # n
      <4>1. i < n /\ i + 1 \in 1..n
        BY <3>2, <1>1
      <4> QED BY <4>1, <1>5 DEF IsIgnored
    <3> QED BY <3>1, <3>2
  <2>5. Kept(args)[i] <=> ~IsIgnored(args[i]) /\ ~(i < n /\ IsIgnored(args[i + 1]))
    BY DEF Kept
  <2> HIDE DEF n
  <2> QED BY <2>2, <2>3, <2>4, <2>5
<1>14. [i \in DOMAIN args |-> IF f[i] \/ f[i + 1] THEN <<>> ELSE <<args[i]>>]
         = [i \in 1..n |-> IF Kept(args)[i] THEN <<args[i]>> ELSE <<>>]
  <2> DEFINE k == Kept(args)
  <2> HIDE DEF n, k
  <2>1. \A i \in 1..n : (IF f[i] \/ f[i + 1] THEN <<>> ELSE <<args[i]>>) = IF k[i] THEN <<args[i]>> ELSE <<>>
    BY <1>13 DEF k
  <2>2. [i \in DOMAIN args |-> IF f[i] \/ f[i + 1] THEN <<>> ELSE <<args[i]>>]
         = [i \in 1..n |-> IF k[i] THEN <<args[i]>> ELSE <<>>]
    BY <1>1, <2>1
  <2> QED BY <2>2 DEF k
<1> QED BY <1>12, <1>14 DEF Chosen

\* The arguments of the game are arguments.
LEMMA ArgumentsTyped ==
  ASSUME GameStartAssumption, tree \in DOMAIN Trees, NEW t, Given(t)
  PROVE  \A arg \in ToSet(t.game) : IsArgument(arg)
<1> SUFFICES ASSUME NEW arg \in ToSet(t.game) PROVE IsArgument(arg)
  OBVIOUS
<1>1. PICK e \in ForUs("game") : arg \in ToSet(e.values)
  BY DEF Given
<1>2. PICK file \in FilesRead : e \in ToSet(file["game"])
  BY DEF ForUs
<1>3. IsVersionFile(file) /\ Readable(file)
  BY DEF FilesRead, GameStartAssumption
<1> QED BY <1>1, <1>2, <1>3 DEF IsVersionFile

\* The flag and what is behind it, in what is left of arguments in pairs.
LEMMA PairsStay ==
  ASSUME GameStartAssumption, NEW A, NEW args \in Seq(A), InPairs(args), NEW kept, kept = RemoveIgnored(args)
  PROVE  /\ kept \in Seq(A)
         /\ \A flag \in DOMAIN FieldOf : Flag(flag) \in ToSet(args) => Flag(flag) \in ToSet(kept)
         /\ \A j \in 1..Len(kept) : kept[j].text \in DOMAIN FieldOf =>
              j < Len(kept) /\ kept[j + 1].var = FieldOf[kept[j].text]
         /\ \A j \in 1..Len(kept) : kept[j].text \notin FlagsOfIgnored(args)
<1> DEFINE n == Len(args)
           K == Kept(args)
<1>1. n \in Nat /\ DOMAIN args = 1..n /\ args \in [1..n -> A]
  BY LenProperties
<1>2. kept \in Seq(A) /\ Follow(kept, args, K, n) /\ \A p \in 1..n : K[p] => args[p] \in ToSet(kept)
  <2>1. kept = Chosen(args, K, n)
    BY RemovedIs
  <2> HIDE DEF n, K
  <2> QED BY <1>1, <2>1, NeighboursStay
<1>3. \A i \in 1..n : K[i] <=> ~IsIgnored(args[i]) /\ ~(i < n /\ IsIgnored(args[i + 1]))
  BY DEF Kept
<1>4. \A flag \in DOMAIN FieldOf : FieldOf[flag] \in AccountVariables
  BY DEF FieldOf, AccountVariables
<1>5. \A v \in AccountVariables \cup {None} : v \notin IgnoredTwopart
  BY DEF GameStartAssumption, AccountVariables, IgnoredTwopart
<1>6. None \notin AccountVariables
  BY DEF GameStartAssumption, KnownVariables
<1> HIDE DEF K

\* A flag of the account and its variable are both kept.
<1>7. ASSUME NEW i \in 1..n, args[i].text \in DOMAIN FieldOf
      PROVE  i < n /\ args[i + 1].var = FieldOf[args[i].text] /\ K[i] /\ K[i + 1]
  <2>1. args[i].var = None /\ i < n /\ args[i + 1].var = FieldOf[args[i].text]
    BY <1>1, <1>7 DEF InPairs
  <2>2. i + 1 \in 1..n /\ args[i + 1].var \in AccountVariables
    BY <1>1, <1>4, <1>7, <2>1
  <2>3. K[i]
    BY <1>3, <1>5, <2>1, <2>2 DEF IsIgnored
  <2>4. ~(i + 1 < n /\ IsIgnored(args[(i + 1) + 1]))
    <3> SUFFICES ASSUME i + 1 < n, IsIgnored(args[(i + 1) + 1]) PROVE FALSE
      OBVIOUS
    <3> DEFINE m == (i + 1) + 1
    <3>1. m \in 1..n /\ m - 1 = i + 1 /\ args[m].var \in IgnoredTwopart
      BY <1>1 DEF IsIgnored
    <3> HIDE DEF m, n
    <3>2. args[m - 1].var = None
      BY <1>1, <3>1 DEF InPairs
    <3> QED BY <3>1, <3>2, <2>2, <1>6
  <2>5. K[i + 1]
    BY <1>3, <1>5, <2>2, <2>4 DEF IsIgnored
  <2> QED BY <2>1, <2>3, <2>5
<1>8. ASSUME NEW flag \in DOMAIN FieldOf, Flag(flag) \in ToSet(args) PROVE Flag(flag) \in ToSet(kept)
  <2>1. PICK i \in 1..n : args[i] = Flag(flag)
    BY <1>1, <1>8 DEF ToSet
  <2>2. K[i]
    BY <1>7, <2>1 DEF Flag
  <2> QED BY <1>2, <2>1, <2>2
<1>9. ASSUME NEW j \in 1..Len(kept), kept[j].text \in DOMAIN FieldOf
      PROVE  j < Len(kept) /\ kept[j + 1].var = FieldOf[kept[j].text]
  <2>1. PICK p \in 1..n : /\ K[p] /\ kept[j] = args[p]
                          /\ p < n /\ K[p + 1] => j < Len(kept) /\ kept[j + 1] = args[p + 1]
    BY <1>2 DEF Follow
  <2>2. p < n /\ args[p + 1].var = FieldOf[args[p].text] /\ K[p + 1]
    BY <1>7, <1>9, <2>1
  <2> QED BY <2>1, <2>2
<1>10. ASSUME NEW j \in 1..Len(kept) PROVE kept[j].text \notin FlagsOfIgnored(args)
  <2>1. PICK p \in 1..n : K[p] /\ kept[j] = args[p]
    BY <1>2 DEF Follow
  <2>2. ASSUME args[p].text \in FlagsOfIgnored(args) PROVE FALSE
    <3>1. p < n /\ args[p + 1].var \in IgnoredTwopart
      BY <1>1, <2>2 DEF InPairs
    <3> QED BY <1>3, <2>1, <3>1 DEF IsIgnored
  <2> QED BY <2>1, <2>2
<1> QED BY <1>2, <1>8, <1>9, <1>10

\* replace_variables_in_list changes nothing but the variables.
LEMMA ReplacedIs ==
  ASSUME NEW A, NEW args \in Seq(A), \A arg \in ToSet(args) : IsArgument(arg), NEW value,
         NEW done, done = ReplaceVariables(args, value), done # Raised
  PROVE  /\ DOMAIN done = 1..Len(args)
         /\ \A i \in 1..Len(args) :
              /\ done[i].text = args[i].text
              /\ args[i].var # None => done[i].var = value[args[i].var]
<1>1. DOMAIN args = 1..Len(args)
  OBVIOUS
<1>2. done = [i \in 1..Len(args) |->
                IF args[i].var = None THEN args[i] ELSE [args[i] EXCEPT !.var = value[args[i].var]]]
  BY <1>1 DEF ReplaceVariables
<1>3. ASSUME NEW i \in 1..Len(args)
      PROVE  /\ done[i].text = args[i].text
             /\ args[i].var # None => done[i].var = value[args[i].var]
  <2>1. IsArgument(args[i])
    BY <1>1 DEF ToSet
  <2>2. DOMAIN args[i] = {"text", "var"}
    BY <2>1 DEF IsArgument
  <2>3. done[i] = IF args[i].var = None THEN args[i] ELSE [args[i] EXCEPT !.var = value[args[i].var]]
    BY <1>2
  <2> DEFINE arg == args[i]
             val == value[arg.var]
  <2>4. CASE arg.var # None
    <3>1. done[i] = [arg EXCEPT !.var = val] /\ DOMAIN arg = {"text", "var"}
      BY <2>2, <2>3, <2>4
    <3> HIDE DEF arg, val
    <3>2. done[i].text = arg.text /\ done[i].var = val
      BY <3>1
    <3> QED BY <3>2 DEF arg, val
  <2>5. CASE arg.var = None
    BY <2>3, <2>5
  <2> QED BY <2>4, <2>5
<1> QED BY <1>2, <1>3

\* The game is started for the account the server gave this client: behind each
\* of the three flags is its own field, for arguments in pairs, however many there
\* are and wherever the ignored ones are between them (make_launch_command).
THEOREM CommandIsForAccount == Spec => []CommandCarriesAccount
<1>1. GInv => CommandCarriesAccount
  <2> SUFFICES ASSUME GInv, stage = "playing", InPairs(target.game) PROVE CommandCarriesAccount
    BY DEF CommandCarriesAccount
  <2> DEFINE args == target.game
             kept == RemoveIgnored(args)
             value == Values(target, account, ComputeClasspath(target))
             game == command.game
  <2>1. Given(target) /\ Inherited(target)
    BY GivenIs, TargetIs, GameStartAssumption DEF GInv, StartInv
  <2>2. args \in Seq(ToSet(args))
    <3>1. args \in Seq(UNION {ToSet(list[i]["game"]) : i \in DOMAIN list})
      BY <2>1 DEF Inherited, Lists
    <3> DEFINE S == UNION {ToSet(list[i]["game"]) : i \in DOMAIN list}
    <3> HIDE DEF args, S
    <3>2. args \in Seq(S)
      BY <3>1 DEF S
    <3>3. args \in Seq(Range(args)) /\ Range(args) = ToSet(args)
      BY <3>2, SeqOfRange DEF Range, ToSet
    <3> QED BY <3>3
  <2>3. \A arg \in ToSet(args) : IsArgument(arg)
    BY <2>1, ArgumentsTyped, GameStartAssumption DEF GInv, StartInv
  <2>4. command = Made /\ command # Raised
    BY DEF GInv, StartInv
  <2>5. CheckLaunchReady(target) /\ kept # Raised /\ game = ReplaceVariables(kept, value) /\ game # Raised
    BY <2>4 DEF Made, MakeLaunchCommand
  <2> HIDE DEF args, kept, value, game
  <2>6. /\ kept \in Seq(ToSet(args))
        /\ \A flag \in DOMAIN FieldOf : Flag(flag) \in ToSet(args) => Flag(flag) \in ToSet(kept)
        /\ \A j \in 1..Len(kept) : kept[j].text \in DOMAIN FieldOf =>
             j < Len(kept) /\ kept[j + 1].var = FieldOf[kept[j].text]
        /\ \A j \in 1..Len(kept) : kept[j].text \notin FlagsOfIgnored(args)
    BY <2>2, PairsStay, GameStartAssumption DEF args, kept
  <2>7. \A arg \in ToSet(kept) : IsArgument(arg)
    <3>1. ToSet(kept) \subseteq ToSet(args)
      BY <2>6 DEF ToSet
    <3> QED BY <2>3, <3>1
  <2>8. /\ DOMAIN game = 1..Len(kept)
        /\ \A i \in 1..Len(kept) :
              /\ game[i].text = kept[i].text
              /\ kept[i].var # None => game[i].var = value[kept[i].var]
    BY <2>5, <2>6, <2>7, ReplacedIs
  <2>9. Len(kept) \in Nat /\ Len(game) = Len(kept) /\ DOMAIN kept = 1..Len(kept)
    BY <2>6, <2>8
  <2>10. \A v \in AccountVariables : value[v] = <<v, account>> /\ v # None
    <3> SUFFICES ASSUME NEW v \in AccountVariables PROVE value[v] = <<v, account>> /\ v # None
      OBVIOUS
    <3>1. v \in KnownVariables
      BY DEF KnownVariables
    <3>2. v # None
      BY <3>1, GameStartAssumption DEF GameStartAssumption
    <3>3. v \in {"auth_player_name", "auth_uuid", "auth_access_token"}
      BY DEF AccountVariables
    <3> DEFINE classpath == ComputeClasspath(target)
    <3>4. value = Values(target, account, classpath)
      BY DEF value
    <3> HIDE DEF classpath
    <3>5. value[v] = CASE v \in AccountVariables -> <<v, account>>
                       [] v = "version_name" -> target.id
                       [] v = "version_type" -> target.type
                       [] v = "natives_directory" -> <<"bin", target.id>>
                       [] v = "assets_index_name" -> target.asset
                       [] v = "classpath" -> classpath
                       [] v = "path" -> target.log
                       [] OTHER -> v
      BY <3>1, <3>4 DEF Values
    <3>6. value[v] = <<v, account>>
      BY <3>3, <3>5
    <3> QED BY <3>2, <3>6
  <2>11. \A flag \in DOMAIN FieldOf : FieldOf[flag] \in AccountVariables
    BY DEF FieldOf, AccountVariables
  <2>12. ASSUME NEW flag \in DOMAIN FieldOf PROVE \E i \in DOMAIN game : game[i].text = flag
    <3>1. Flag(flag) \in ToSet(args)
      BY <2>5 DEF CheckLaunchReady, FieldOf, args
    <3>2. PICK i \in 1..Len(kept) : kept[i] = Flag(flag)
      BY <2>6, <2>9, <3>1 DEF ToSet
    <3> QED BY <2>8, <3>2 DEF Flag
  <2>13. ASSUME NEW flag \in DOMAIN FieldOf, NEW i \in DOMAIN game, game[i].text = flag
         PROVE  i < Len(game) /\ game[i + 1].var = <<FieldOf[flag], account>>
    <3>1. i \in 1..Len(kept) /\ kept[i].text = flag
      BY <2>8, <2>13
    <3>2. i < Len(kept) /\ kept[i + 1].var = FieldOf[flag]
      BY <2>6, <3>1
    <3>3. i + 1 \in 1..Len(kept)
      BY <2>9, <3>1, <3>2
    <3>4. FieldOf[flag] \in AccountVariables
      BY <2>11
    <3>5. game[i + 1].var = value[FieldOf[flag]]
      BY <2>8, <2>10, <3>2, <3>3, <3>4
    <3> QED BY <2>9, <2>10, <3>2, <3>4, <3>5
  <2>14. \A i \in DOMAIN game : game[i].text \notin FlagsOfIgnored(args)
    BY <2>6, <2>8
  <2> QED BY <2>12, <2>13, <2>14 DEF CommandCarriesAccount, game, args
<1> QED BY <1>1, StartInvHolds, PTL
================================================================================

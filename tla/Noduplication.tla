---------------------------- MODULE Noduplication ----------------------------
(***************************************************************************)
(* The pidfile of nydus.client.noduplication: how the clients that one     *)
(* user starts keep each other out.  Process ids are used again after a    *)
(* process has ended, by clients and by other programs, and a process may  *)
(* be killed between any two of its accesses to the file.                  *)
(***************************************************************************)
CONSTANTS
  Pids,
  NoFile,           \* the pidfile does not exist
  Blank, Garbled,   \* contents that are not a positive integer: none, or what is
                    \* left when two processes wrote over each other
  NoPid

ASSUME NoduplicationAssumption ==
  /\ {NoFile, Blank, Garbled, NoPid} \cap Pids = {}
  /\ NoFile # Blank /\ NoFile # Garbled

VARIABLES
  pidfile,  \* NoFile, or the contents
  pc,       \* what the process with each id does
  seen,     \* the process id a client found in the pidfile
  raced     \* history: two clients set up at the same time, and one of the clients
            \* that were alive then, or came since, may still be

vars == <<pidfile, pc, seen, raced>>

\* Where a client is in setup_pidfile: before the file is looked for, read, its pid
\* looked up; then before open(..., "w") and before the write.  "unlinked" is "opened"
\* when the file has been removed since: what is written is lost.
Setup == {"starting", "reading", "checking", "clear", "opened", "unlinked"}

\* A client past its set-up: before the end of client_main, then in delete_pidfile
\* before the file is read and before it is removed.
Active == {"running", "leaving", "removing"}

\* "free": no process has this id; "other": another program has it; "raised":
\* delete_pidfile has raised.
Stages == Setup \cup Active \cup {"free", "other", "raised"}

TypeOK ==
  /\ pidfile \in Pids \cup {NoFile, Blank, Garbled}
  /\ pc \in [Pids -> Stages]
  /\ seen \in [Pids -> Pids \cup {NoPid}]
  /\ \A p \in Pids : seen[p] \in Pids <=> pc[p] = "checking"
  /\ raced \in BOOLEAN

Init ==
  /\ pidfile = NoFile
  /\ pc = [p \in Pids |-> "free"]
  /\ seen = [p \in Pids |-> NoPid]
  /\ raced = FALSE

Goto(p, stage) == pc' = [pc EXCEPT ![p] = stage]

-----------------------------------------------------------------------------
(* Processes come and go.                                                  *)

Start(p) ==
  /\ pc[p] = "free" /\ Goto(p, "starting")
  /\ raced' = \/ \E q \in Pids : pc[q] \in Setup
              \/ raced /\ \E q \in Pids : pc[q] \in Active \cup {"raised"}
  /\ UNCHANGED <<pidfile, seen>>

\* A client is killed, or ends with the exception it raised.
Die(p) ==
  /\ pc[p] \in Setup \cup Active \cup {"raised"} /\ Goto(p, "free")
  /\ seen' = [seen EXCEPT ![p] = NoPid]
  /\ UNCHANGED <<pidfile, raced>>

OtherStarts(p) == pc[p] = "free" /\ Goto(p, "other") /\ UNCHANGED <<pidfile, seen, raced>>
OtherEnds(p) == pc[p] = "other" /\ Goto(p, "free") /\ UNCHANGED <<pidfile, seen, raced>>

-----------------------------------------------------------------------------
(* setup_pidfile.                                                          *)

\* os.path.isfile, twice: what counts is whether the file is there both times.
Look(p) ==
  /\ pc[p] = "starting"
  /\ Goto(p, IF pidfile = NoFile THEN "clear" ELSE "reading")
  /\ UNCHANGED <<pidfile, seen, raced>>

ReadUnchecked(p) ==
  /\ pc[p] = "reading" /\ pidfile # NoFile
  /\ Goto(p, "checking") /\ seen' = [seen EXCEPT ![p] = pidfile]
  /\ UNCHANGED <<pidfile, raced>>

\* get_pidfile_contents and is_positive_integer.
Read(p) ==
  /\ pc[p] = "reading" /\ pidfile # NoFile
  /\ IF pidfile \in Pids THEN Goto(p, "checking") /\ seen' = [seen EXCEPT ![p] = pidfile]
                         ELSE Goto(p, "clear") /\ UNCHANGED seen
  /\ UNCHANGED <<pidfile, raced>>

\* The file was removed in between: open raises, and nothing catches it.
ReadRaises(p) ==
  /\ pc[p] = "reading" /\ pidfile = NoFile /\ Goto(p, "free")
  /\ UNCHANGED <<pidfile, seen, raced>>

CheckForNothing(p) ==
  /\ pc[p] = "checking" /\ Goto(p, "clear")
  /\ seen' = [seen EXCEPT ![p] = NoPid]
  /\ UNCHANGED <<pidfile, raced>>

\* psutil.pid_exists: of any process, this one included.  If so, exit(0).
Check(p) ==
  /\ pc[p] = "checking"
  /\ Goto(p, IF pc[seen[p]] = "free" THEN "clear" ELSE "free")
  /\ seen' = [seen EXCEPT ![p] = NoPid]
  /\ UNCHANGED <<pidfile, raced>>

Open(p) ==
  /\ pc[p] = "clear" /\ Goto(p, "opened") /\ pidfile' = Blank
  /\ UNCHANGED <<seen, raced>>

WriteNothing(p) ==
  /\ pc[p] \in {"opened", "unlinked"} /\ Goto(p, "running")
  /\ UNCHANGED <<pidfile, seen, raced>>

\* Over the text of another process, which may be longer.
Write(p) ==
  /\ pc[p] = "opened" /\ Goto(p, "running")
  /\ pidfile' \in IF pidfile = Blank THEN {p} ELSE {p, Garbled}
  /\ UNCHANGED <<seen, raced>>

WriteUnlinked(p) ==
  /\ pc[p] = "unlinked" /\ Goto(p, "running")
  /\ UNCHANGED <<pidfile, seen, raced>>

-----------------------------------------------------------------------------
(* client_main ends, by itself or with an exception; delete_pidfile.       *)

End(p) == pc[p] = "running" /\ Goto(p, "leaving") /\ UNCHANGED <<pidfile, seen, raced>>

\* isfile, twice, and the contents: only this client's own id will do.
Examine(p) ==
  /\ pc[p] = "leaving"
  /\ Goto(p, IF pidfile = p THEN "removing" ELSE "raised")
  /\ UNCHANGED <<pidfile, seen, raced>>

\* os.remove, whatever the file says by now.
Remove(p) ==
  /\ pc[p] = "removing" /\ pidfile # NoFile /\ pidfile' = NoFile
  /\ pc' = [q \in Pids |-> IF q = p THEN "free"
                           ELSE IF pc[q] = "opened" THEN "unlinked" ELSE pc[q]]
  /\ UNCHANGED <<seen, raced>>

RemoveRaises(p) ==
  /\ pc[p] = "removing" /\ pidfile = NoFile /\ Goto(p, "raised")
  /\ UNCHANGED <<pidfile, seen, raced>>

-----------------------------------------------------------------------------

SetupStep(p) ==
  \/ Look(p) \/ Read(p) \/ ReadRaises(p) \/ Check(p)
  \/ Open(p) \/ Write(p) \/ WriteUnlinked(p)

DeleteStep(p) == End(p) \/ Examine(p) \/ Remove(p) \/ RemoveRaises(p)

Next == \E p \in Pids : \/ Start(p) \/ Die(p) \/ OtherStarts(p) \/ OtherEnds(p)
                        \/ SetupStep(p) \/ DeleteStep(p)

Spec == Init /\ [][Next]_vars

-----------------------------------------------------------------------------
(* Properties.                                                             *)

\* "If an instance of Nydus Client already exists for the current user, any attempts
\* to open a new one will shut down immediately" (noduplication): no two run.
OneClient == \A p, q \in Pids : pc[p] = "running" /\ pc[q] = "running" => p = q

\* That holds as long as no two clients set up at the same time; and when they did, it
\* holds again once all clients of that time are gone, whatever they left in the file
\* and whoever has their ids by now.
OneAtATime == ~raced => OneClient

\* "A valid Nydus Launcher invocation should never create any of those situations"
\* (delete_pidfile): a client always finds its own id in the file it is to delete,
\* though any number of others have been started and refused meanwhile.
DeletesItsOwn == ~raced => \A p \in Pids : pc[p] # "raised"
==============================================================================

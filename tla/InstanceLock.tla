---------------------------- MODULE InstanceLock ----------------------------
(***************************************************************************)
(* The single-instance lock file (platform_adapters/instance_lock.py) and  *)
(* the activation file (platform_adapters/desktop.py), as the program      *)
(* (desktop_runtime.py) and the restore command (operations_cli.py) use    *)
(* them.                                                                   *)
(*                                                                         *)
(* Each process runs once, with a process identifier of its own, and       *)
(* creates the lock file at most once: a lock file is known by the process *)
(* that created it and by whether its contents are written.  That pair is  *)
(* also its signature (device, inode, modification time, size).  A step is *)
(* one system call on a file.                                              *)
(***************************************************************************)
EXTENDS Naturals, FiniteSets

CONSTANTS
  Apps,          \* processes that run the program
  Restores,      \* processes that run the restore command
  OpensOnStart,  \* the program opens the dashboard as it starts
  MaxCrashes     \* bound: processes that die

Procs == Apps \union Restores
NoProc == "none"
NoFile == [owner |-> NoProc, written |-> FALSE]
MaxAttempts == 3

ASSUME LockAssumption ==
  /\ IsFiniteSet(Procs) /\ NoProc \notin Procs
  /\ Apps \intersect Restores = {}
  /\ OpensOnStart \in BOOLEAN
  /\ MaxCrashes \in Nat

VARIABLES
  file,        \* the lock file, or NoFile
  old,         \* processes whose lock file is older than the grace period
  pc,          \* where each process is
  attempt,     \* the round of acquire() each process is in
  seen,        \* the file that lstat found
  payload,     \* the owner that its contents named, if they could be read
  activation,  \* the activation file exists
  asked,       \* history: apps that asked for a dashboard not opened since
  raced,       \* history: two processes were about to unlink at the same time
  crashes

lockVars == <<file, old, attempt, seen, payload, raced>>
actVars  == <<activation, asked>>
vars == <<lockVars, actVars, pc, crashes>>

Owning    == {"owner", "starting", "serving", "consume"}
Releasing == {"release", "releaseCompare", "releaseUnlink"}
Locations == {"new", "create", "write", "lstat", "read", "decide", "compare", "unlink",
              "refused", "done", "dead"} \union Owning \union Releasing

Alive(p) == pc[p] \notin {"new", "done", "dead"}
Goto(p, location) == pc' = [pc EXCEPT ![p] = location]

Init ==
  /\ file = NoFile
  /\ old = {}
  /\ pc = [p \in Procs |-> "new"]
  /\ attempt = [p \in Procs |-> 1]
  /\ seen = [p \in Procs |-> NoFile]
  /\ payload = [p \in Procs |-> NoProc]
  /\ activation = FALSE
  /\ asked = {}
  /\ raced = FALSE
  /\ crashes = 0

-----------------------------------------------------------------------------
(* acquire().                                                              *)

Start(p) ==
  /\ pc[p] = "new"
  /\ Goto(p, "create")
  /\ UNCHANGED <<lockVars, actVars, crashes>>

\* _create, first half: O_CREAT | O_EXCL.
Create(p) ==
  /\ pc[p] = "create"
  /\ IF file = NoFile
     THEN file' = [owner |-> p, written |-> FALSE] /\ Goto(p, "write")
     ELSE UNCHANGED file /\ Goto(p, "lstat")
  /\ UNCHANGED <<old, attempt, seen, payload, raced, actVars, crashes>>

\* ... second half: the contents, into the file that was opened.
Write(p) ==
  /\ pc[p] = "write"
  /\ file' = IF file.owner = p THEN [file EXCEPT !.written = TRUE] ELSE file
  /\ Goto(p, "owner")
  /\ UNCHANGED <<old, attempt, seen, payload, raced, actVars, crashes>>

\* ... or an error, after which the path is unlinked and the process ends.
WriteFails(p) ==
  /\ pc[p] = "write"
  /\ file' = NoFile
  /\ Goto(p, "done")
  /\ UNCHANGED <<old, attempt, seen, payload, raced, actVars, crashes>>

\* The next of the three rounds.
Again(p) ==
  IF attempt[p] < MaxAttempts
  THEN attempt' = [attempt EXCEPT ![p] = @ + 1] /\ Goto(p, "create")
  ELSE UNCHANGED attempt /\ Goto(p, "refused")

\* _read_existing: the metadata, then the contents of what is there by then.
Lstat(p) ==
  /\ pc[p] = "lstat"
  /\ IF file = NoFile
     THEN Again(p) /\ UNCHANGED seen
     ELSE seen' = [seen EXCEPT ![p] = file] /\ Goto(p, "read") /\ UNCHANGED attempt
  /\ UNCHANGED <<file, old, payload, raced, actVars, crashes>>

Read(p) ==
  /\ pc[p] = "read"
  /\ payload' = [payload EXCEPT ![p] = IF file.written THEN file.owner ELSE NoProc]
  /\ Goto(p, "decide")
  /\ UNCHANGED <<file, old, attempt, seen, raced, actVars, crashes>>

\* Mutant: an old file is stale, whoever it names.
Stale_ByAge(p) == seen[p].owner \in old

\* _is_stale: the named process is gone; without contents, the file is old.
Stale(p) ==
  IF payload[p] # NoProc THEN ~Alive(payload[p]) ELSE seen[p].owner \in old

Decide(p) ==
  /\ pc[p] = "decide"
  /\ Goto(p, IF Stale(p) THEN "compare" ELSE "refused")
  /\ UNCHANGED <<lockVars, actVars, crashes>>

\* Mutant: the file is unlinked without being looked at again.
Compare_Skipped(p) ==
  /\ pc[p] = "compare"
  /\ Goto(p, "unlink")
  /\ UNCHANGED <<file, old, attempt, seen, payload, raced, actVars, crashes>>

\* _remove_if_unchanged, first half: lstat again and compare.
Compare(p) ==
  /\ pc[p] = "compare"
  /\ \/ file = NoFile /\ Again(p)
     \/ file \notin {NoFile, seen[p]} /\ Goto(p, "refused") /\ UNCHANGED attempt
     \/ file = seen[p] /\ Goto(p, "unlink") /\ UNCHANGED attempt
  /\ raced' = (raced \/ (file = seen[p] /\ \E q \in Procs \ {p} : pc[q] = "unlink"))
  /\ UNCHANGED <<file, old, seen, payload, actVars, crashes>>

\* ... second half: unlink takes whatever is at the path.
Unlink(p) ==
  /\ pc[p] = "unlink"
  /\ file' = NoFile
  /\ Again(p)
  /\ UNCHANGED <<old, seen, payload, raced, actVars, crashes>>

-----------------------------------------------------------------------------
(* What the processes do with the lock.                                    *)

\* DesktopRuntime.start and run_operation, when the lock is refused.
Refused(p) ==
  /\ pc[p] = "refused"
  /\ \/ p \in Apps /\ activation' = TRUE /\ asked' = asked \union {p}
     \/ p \in Restores /\ UNCHANGED actVars
  /\ Goto(p, "done")
  /\ UNCHANGED <<lockVars, crashes>>

\* start: old requests are cleared, then the server and the dashboard come up.
Clear(p) ==
  /\ pc[p] = "owner" /\ p \in Apps
  /\ activation' = FALSE
  /\ Goto(p, "starting")
  /\ UNCHANGED <<lockVars, asked, crashes>>

\* Mutant: old requests are cleared after the dashboard is up.
Serve_LateClear(p) ==
  /\ pc[p] = "starting"
  /\ activation' = FALSE
  /\ Goto(p, "serving")
  /\ UNCHANGED <<lockVars, asked, crashes>>

Serve(p) ==
  /\ pc[p] = "starting"
  /\ asked' = IF OpensOnStart THEN {} ELSE asked
  /\ Goto(p, "serving")
  /\ UNCHANGED <<lockVars, activation, crashes>>

\* poll_once: consume reads a request ...
Poll(p) ==
  /\ pc[p] = "serving" /\ activation
  /\ Goto(p, "consume")
  /\ UNCHANGED <<lockVars, actVars, crashes>>

\* ... and removes the file, whatever it holds by now; the dashboard opens.
Consume(p) ==
  /\ pc[p] = "consume"
  /\ activation' = FALSE
  /\ asked' = {}
  /\ Goto(p, "serving")
  /\ UNCHANGED <<lockVars, crashes>>

\* shutdown, which also ends a start that failed: requests are cleared.  The
\* restore command just ends.
Exit(p) ==
  /\ \/ pc[p] \in {"starting", "serving"} /\ activation' = FALSE
     \/ pc[p] = "owner" /\ p \in Restores /\ UNCHANGED activation
  /\ Goto(p, "release")
  /\ UNCHANGED <<lockVars, asked, crashes>>

\* release: the file must hold this process's token ...
ReleaseRead(p) ==
  /\ pc[p] = "release"
  /\ IF file = [owner |-> p, written |-> TRUE]
     THEN seen' = [seen EXCEPT ![p] = file] /\ Goto(p, "releaseCompare")
     ELSE UNCHANGED seen /\ Goto(p, "done")
  /\ UNCHANGED <<file, old, attempt, payload, raced, actVars, crashes>>

\* ... and _remove_if_unchanged removes it.
ReleaseCompare(p) ==
  /\ pc[p] = "releaseCompare"
  /\ Goto(p, IF file = seen[p] THEN "releaseUnlink" ELSE "done")
  /\ UNCHANGED <<lockVars, actVars, crashes>>

ReleaseUnlink(p) ==
  /\ pc[p] = "releaseUnlink"
  /\ file' = NoFile
  /\ Goto(p, "done")
  /\ UNCHANGED <<old, attempt, seen, payload, raced, actVars, crashes>>

Crash(p) ==
  /\ Alive(p)
  /\ crashes < MaxCrashes /\ crashes' = crashes + 1
  /\ Goto(p, "dead")
  /\ UNCHANGED <<lockVars, actVars>>

\* A file becomes older than the grace period; its creator writes it in time.
Age(p) ==
  /\ file.owner = p /\ pc[p] # "write" /\ p \notin old
  /\ old' = old \union {p}
  /\ UNCHANGED <<file, attempt, seen, payload, raced, actVars, pc, crashes>>

Step(p) ==
  \/ Create(p) \/ Write(p) \/ Lstat(p) \/ Read(p) \/ Decide(p) \/ Compare(p)
  \/ Unlink(p) \/ Refused(p) \/ Clear(p) \/ Serve(p) \/ Poll(p) \/ Consume(p)
  \/ ReleaseRead(p) \/ ReleaseCompare(p) \/ ReleaseUnlink(p)

Next ==
  \E p \in Procs : Step(p) \/ Start(p) \/ WriteFails(p) \/ Exit(p) \/ Crash(p) \/ Age(p)

Spec == Init /\ [][Next]_vars

\* A process that lives goes on; nobody has to start, end or die.
FairSpec == Spec /\ \A p \in Procs : WF_vars(Step(p))

-----------------------------------------------------------------------------
Files == [owner : Procs \union {NoProc}, written : BOOLEAN]

TypeOK ==
  /\ file \in Files /\ (file.owner = NoProc => file = NoFile)
  /\ old \subseteq Procs
  /\ pc \in [Procs -> Locations]
  /\ attempt \in [Procs -> 1 .. MaxAttempts]
  /\ seen \in [Procs -> Files]
  /\ payload \in [Procs -> Procs \union {NoProc}]
  /\ activation \in BOOLEAN
  /\ asked \subseteq Apps
  /\ raced \in BOOLEAN
  /\ crashes \in 0 .. MaxCrashes

Owners == {p \in Procs : pc[p] \in Owning}

\* At most one process owns the lock, over crashes, recoveries and releases,
\* as long as no two processes that recover a stale lock are both between the
\* comparison and the unlink of _remove_if_unchanged.
OneOwner == raced \/ Cardinality(Owners) <= 1

\* An owner's lock file stays where it is until the owner releases it: with
\* the exception of OneOwner, neither a recovery nor a release removes it.
OwnersFileStays == raced \/ \A p \in Owners : file = [owner |-> p, written |-> TRUE]

\* "A stale lock is recovered only after its owner is confirmed gone"
\* (troubleshooting.md): no process unlinks the lock of one that lives.
RecoveredOnlyWhenGone ==
  [][\A p \in Procs : pc[p] = "unlink" /\ pc'[p] # "unlink" /\ pc'[p] # "dead"
                        => file.owner = NoProc \/ ~Alive(file.owner)]_vars

\* A second instance that finds the lock taken gets a dashboard: a primary
\* that keeps serving does not leave its request unanswered for ever.
ActivationServed ==
  ~ <>[](asked # {} /\ \E p \in Owners : pc[p] \in {"serving", "consume"})
=============================================================================

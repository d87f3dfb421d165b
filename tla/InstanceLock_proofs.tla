------------------------- MODULE InstanceLock_proofs -------------------------
(***************************************************************************)
(* There is one owner of the instance lock, and its file stays, unless two *)
(* recoveries of a stale lock overlapped: for any number of processes that *)
(* start, die and release in any order.                                    *)
(***************************************************************************)
EXTENDS InstanceLock, FiniteSetTheorems, TLAPS

\* Where a process has not created its lock file yet, and where it has it.
Before   == {"new", "create", "lstat", "read", "decide", "compare", "unlink", "refused"}
Judging  == {"read", "decide", "compare", "unlink"}
Holding  == Owning \union Releasing
Created(p) == pc[p] \notin Before

\* A lock file is created once in the life of its process, so a file that was
\* seen and is gone never comes back ...
FilesOnce ==
  /\ file # NoFile => Created(file.owner)
  /\ \A p \in Procs : seen[p] # NoFile => seen[p].owner \in Procs /\ Created(seen[p].owner)
  /\ \A p \in old : Created(p) /\ pc[p] # "write"

\* ... nor does it lose its contents; without contents its creator is writing
\* them or has died.
Contents ==
  /\ file # NoFile /\ ~file.written => pc[file.owner] \in {"write", "dead"}
  /\ \A p \in Procs : file # NoFile /\ seen[p].owner = file.owner /\ seen[p].written
                        => file.written

\* A file that a recovering process judges, and that is still there, is the
\* one it read, and once judged stale it belongs to a process that is gone.
Judgement ==
  /\ \A p \in Procs : pc[p] \in Judging => seen[p] # NoFile
  /\ \A p \in Procs : pc[p] = "decide" /\ file = seen[p] =>
       payload[p] = IF seen[p].written THEN seen[p].owner ELSE NoProc
  /\ \A p \in Procs : pc[p] \in {"compare", "unlink"} /\ file = seen[p]
                        => ~Alive(file.owner)

\* Without a race, whoever holds the lock has its file at the path, and the
\* one process about to unlink a stale file still finds that file there.
Exclusion ==
  /\ \A p \in Procs : pc[p] = "write" => file = [owner |-> p, written |-> FALSE]
  /\ \A p \in Procs : pc[p] \in Holding => file = [owner |-> p, written |-> TRUE]
  /\ \A p \in Procs : pc[p] = "unlink" => file = seen[p]
  /\ \A p, q \in Procs : pc[p] = "unlink" /\ pc[q] = "unlink" => p = q

LockInv ==
  /\ TypeOK
  /\ FilesOnce
  /\ Contents
  /\ Judgement
  /\ raced \/ Exclusion
-----------------------------------------------------------------------------
LEMMA LockStart == Init => LockInv
<1> SUFFICES ASSUME Init PROVE LockInv
  OBVIOUS
<1> USE LockAssumption DEF LockAssumption, Init
<1>1. TypeOK
  <2>1. file \in Files /\ seen \in [Procs -> Files]
    BY DEF Files, NoFile
  <2>2. pc \in [Procs -> Locations] /\ attempt \in [Procs -> 1 .. MaxAttempts]
    BY DEF Locations, MaxAttempts
  <2>3. crashes \in 0 .. MaxCrashes
    OBVIOUS
  <2> QED BY <2>1, <2>2, <2>3 DEF TypeOK
<1>2. FilesOnce
  BY DEF FilesOnce
<1>3. Contents
  BY DEF Contents
<1>4. Judgement
  BY DEF Judgement, Judging
<1>5. Exclusion
  BY DEF Exclusion, Holding, Owning, Releasing
<1> QED BY <1>1, <1>2, <1>3, <1>4, <1>5 DEF LockInv

LEMMA LockIdle == LockInv /\ UNCHANGED vars => LockInv'
  BY DEF LockInv, vars, lockVars, actVars, TypeOK, FilesOnce, Contents, Judgement,
     Exclusion, Created, Alive

LEMMA StartKeeps ==
  ASSUME LockInv, NEW p \in Procs, Start(p)
  PROVE  LockInv'
<1> USE LockAssumption DEF LockAssumption, LockInv, NoFile, Files,
                           Start, Goto, lockVars, actVars
<1>1. TypeOK'
  BY DEF TypeOK, Locations
<1>2. FilesOnce'
  BY DEF TypeOK, FilesOnce, Created, Before
<1>3. Contents'
  BY DEF TypeOK, Contents
<1>4. Judgement'
  BY DEF TypeOK, FilesOnce, Judgement, Judging, Alive, Created, Before
<1>5. (raced \/ Exclusion)'
  BY DEF TypeOK, Exclusion, Holding, Owning, Releasing
<1> QED BY <1>1, <1>2, <1>3, <1>4, <1>5

LEMMA CreateKeeps ==
  ASSUME LockInv, NEW p \in Procs, Create(p)
  PROVE  LockInv'
<1> USE LockAssumption DEF LockAssumption, LockInv, NoFile, Files,
                           Create, Goto, lockVars, actVars
<1>1. TypeOK'
  <2>1. CASE file = NoFile
    <3>1. file' = [owner |-> p, written |-> FALSE] /\ file'.owner # NoProc
      BY <2>1
    <3>2. file' \in Files
      BY <3>1
    <3>3. pc' \in [Procs -> Locations]
      BY <2>1 DEF TypeOK, Locations
    <3> QED BY <3>1, <3>2, <3>3 DEF TypeOK
  <2>2. CASE file # NoFile
    <3>1. pc' \in [Procs -> Locations]
      BY <2>2 DEF TypeOK, Locations
    <3> QED BY <2>2, <3>1 DEF TypeOK
  <2> QED BY <2>1, <2>2
<1>2. FilesOnce'
  BY DEF TypeOK, FilesOnce, Created, Before
<1>3. Contents'
  BY DEF TypeOK, FilesOnce, Contents, Created, Before
<1>4. Judgement'
  BY DEF TypeOK, FilesOnce, Judgement, Judging, Alive, Created, Before
<1>5. (raced \/ Exclusion)'
  BY DEF TypeOK, Judgement, Judging, Exclusion, Holding, Owning, Releasing
<1> QED BY <1>1, <1>2, <1>3, <1>4, <1>5

LEMMA WriteKeeps ==
  ASSUME LockInv, NEW p \in Procs, Write(p)
  PROVE  LockInv'
<1> USE LockAssumption DEF LockAssumption, LockInv, NoFile, Files,
                           Write, Goto, lockVars, actVars
<1>1. TypeOK'
  BY DEF TypeOK, Locations, Owning
<1>2. FilesOnce'
  BY DEF TypeOK, FilesOnce, Created, Before
<1>3. Contents'
  BY DEF TypeOK, Contents
<1>4. Judgement'
  BY DEF TypeOK, Contents, Judgement, Judging, Alive
<1>5. (raced \/ Exclusion)'
  <2> SUFFICES ASSUME Exclusion PROVE Exclusion'
    OBVIOUS
  <2>1. file = [owner |-> p, written |-> FALSE]
    BY DEF Exclusion
  <2>2. file' = [owner |-> p, written |-> TRUE]
    BY <2>1
  <2>3. pc' = [pc EXCEPT ![p] = "owner"] /\ pc \in [Procs -> Locations] /\ seen' = seen
    BY DEF TypeOK
  <2>4. \A q \in Procs : pc[q] \in Holding \union {"write"} => q = p
    <3> SUFFICES ASSUME NEW q \in Procs, pc[q] \in Holding \union {"write"} PROVE q = p
      OBVIOUS
    <3>1. file.owner = q
      BY DEF Exclusion
    <3> QED BY <3>1, <2>1
  <2>5. \A q \in Procs : pc[q] # "unlink"
    <3> SUFFICES ASSUME NEW q \in Procs, pc[q] = "unlink" PROVE FALSE
      OBVIOUS
    <3>1. file = seen[q] /\ file.owner = p
      BY <2>1 DEF Exclusion
    <3> QED BY <3>1 DEF Judgement, Alive
  <2> QED BY <2>2, <2>3, <2>4, <2>5 DEF Exclusion, Holding, Owning, Releasing
<1> QED BY <1>1, <1>2, <1>3, <1>4, <1>5

LEMMA WriteFailsKeeps ==
  ASSUME LockInv, NEW p \in Procs, WriteFails(p)
  PROVE  LockInv'
<1> USE LockAssumption DEF LockAssumption, LockInv, NoFile, Files,
                           WriteFails, Goto, lockVars, actVars
<1>1. TypeOK'
  BY DEF TypeOK, Locations
<1>2. FilesOnce'
  BY DEF TypeOK, FilesOnce, Created, Before
<1>3. Contents'
  BY DEF TypeOK, Contents
<1>4. Judgement'
  BY DEF TypeOK, Judgement, Judging
<1>5. (raced \/ Exclusion)'
  BY DEF TypeOK, Judgement, Exclusion, Holding, Owning, Releasing, Alive
<1> QED BY <1>1, <1>2, <1>3, <1>4, <1>5

LEMMA LstatKeeps ==
  ASSUME LockInv, NEW p \in Procs, Lstat(p)
  PROVE  LockInv'
<1> USE LockAssumption DEF LockAssumption, LockInv, NoFile, Files,
                           Lstat, Goto, Again, lockVars, actVars
<1>1. TypeOK'
  BY DEF TypeOK, Locations, MaxAttempts
<1>2. FilesOnce'
  <2>1. CASE file = NoFile
    BY <2>1 DEF TypeOK, FilesOnce, Created, Before
  <2>2. CASE file # NoFile
    <3>1. file.owner \in Procs /\ Created(file.owner)
      BY <2>2 DEF TypeOK, FilesOnce
    <3>2. \A q \in Procs : Created(q) => Created(q)' /\ (pc[q] # "write" => pc'[q] # "write")
      BY <2>2 DEF TypeOK, Created, Before
    <3>3. \A q \in Procs : seen'[q] \in {seen[q], file}
      BY <2>2 DEF TypeOK
    <3>4. file' = file /\ old' = old /\ old \subseteq Procs
      BY DEF TypeOK
    <3>5. (file # NoFile => Created(file.owner))'
      BY <3>1, <3>2, <3>4
    <3>6. (\A q \in Procs : seen[q] # NoFile => seen[q].owner \in Procs /\ Created(seen[q].owner))'
      BY <3>1, <3>2, <3>3 DEF FilesOnce
    <3>7. (\A q \in old : Created(q) /\ pc[q] # "write")'
      BY <3>2, <3>4 DEF FilesOnce
    <3> QED BY <3>5, <3>6, <3>7 DEF FilesOnce, Created
  <2> QED BY <2>1, <2>2
<1>3. Contents'
  BY DEF TypeOK, Contents
<1>4. Judgement'
  BY DEF TypeOK, Judgement, Judging, Alive
<1>5. (raced \/ Exclusion)'
  BY DEF TypeOK, Exclusion, Holding, Owning, Releasing
<1> QED BY <1>1, <1>2, <1>3, <1>4, <1>5

LEMMA ReadKeeps ==
  ASSUME LockInv, NEW p \in Procs, Read(p)
  PROVE  LockInv'
<1> USE LockAssumption DEF LockAssumption, LockInv, NoFile, Files,
                           Read, Goto, lockVars, actVars
<1>1. TypeOK'
  BY DEF TypeOK, Locations
<1>2. FilesOnce'
  BY DEF TypeOK, FilesOnce, Created, Before
<1>3. Contents'
  BY DEF TypeOK, Contents
<1>4. Judgement'
  BY DEF TypeOK, Judgement, Judging, Alive
<1>5. (raced \/ Exclusion)'
  BY DEF TypeOK, Exclusion, Holding, Owning, Releasing
<1> QED BY <1>1, <1>2, <1>3, <1>4, <1>5

LEMMA DecideKeeps ==
  ASSUME LockInv, NEW p \in Procs, Decide(p)
  PROVE  LockInv'
<1> USE LockAssumption DEF LockAssumption, LockInv, NoFile, Files,
                           Decide, Goto, Stale, lockVars, actVars
<1>1. TypeOK'
  BY DEF TypeOK, Locations
<1>2. FilesOnce'
  BY DEF TypeOK, FilesOnce, Created, Before
<1>3. Contents'
  BY DEF TypeOK, Contents
<1>4. Judgement'
  BY DEF TypeOK, FilesOnce, Contents, Judgement, Judging, Alive
<1>5. (raced \/ Exclusion)'
  BY DEF TypeOK, Exclusion, Holding, Owning, Releasing
<1> QED BY <1>1, <1>2, <1>3, <1>4, <1>5

LEMMA CompareKeeps ==
  ASSUME LockInv, NEW p \in Procs, Compare(p)
  PROVE  LockInv'
<1> USE LockAssumption DEF LockAssumption, LockInv, NoFile, Files,
                           Compare, Goto, Again, lockVars, actVars
<1>1. TypeOK'
  BY DEF TypeOK, Locations, MaxAttempts
<1>2. FilesOnce'
  BY DEF TypeOK, FilesOnce, Created, Before
<1>3. Contents'
  BY DEF TypeOK, Contents
<1>4. Judgement'
  BY DEF TypeOK, Judgement, Judging, Alive
<1>5. (raced \/ Exclusion)'
  <2> SUFFICES ASSUME ~raced' PROVE Exclusion'
    OBVIOUS
  <2>1. ~raced /\ Exclusion
    BY DEF TypeOK
  <2>2. file' = file /\ seen' = seen
    OBVIOUS
  <2>3. \A q \in Procs : q # p => pc'[q] = pc[q]
    BY DEF TypeOK
  <2>4. pc'[p] \in {"create", "refused", "unlink"}
    BY DEF TypeOK
  <2>5. pc'[p] = "unlink" => file = seen[p]
    BY DEF TypeOK
  <2>6. pc'[p] = "unlink" => \A q \in Procs \ {p} : pc[q] # "unlink"
    BY <2>5
  <2>7. \A q \in Procs : pc'[q] \in Holding \union {"write"} => q # p /\ pc[q] = pc'[q]
    BY <2>3, <2>4 DEF Holding, Owning, Releasing
  <2>8. \A q \in Procs : pc'[q] = "unlink" => file = seen[q]
    BY <2>1, <2>3, <2>5 DEF Exclusion
  <2>9. \A q, r \in Procs : pc'[q] = "unlink" /\ pc'[r] = "unlink" => q = r
    BY <2>1, <2>3, <2>6 DEF Exclusion
  <2> QED BY <2>1, <2>2, <2>7, <2>8, <2>9 DEF Exclusion
<1> QED BY <1>1, <1>2, <1>3, <1>4, <1>5

LEMMA UnlinkKeeps ==
  ASSUME LockInv, NEW p \in Procs, Unlink(p)
  PROVE  LockInv'
<1> USE LockAssumption DEF LockAssumption, LockInv, NoFile, Files,
                           Unlink, Goto, Again, lockVars, actVars
<1>1. TypeOK'
  BY DEF TypeOK, Locations, MaxAttempts
<1>2. FilesOnce'
  BY DEF TypeOK, FilesOnce, Created, Before
<1>3. Contents'
  BY DEF TypeOK, Contents
<1>4. Judgement'
  BY DEF TypeOK, Judgement, Judging
<1>5. (raced \/ Exclusion)'
  BY DEF TypeOK, Judgement, Exclusion, Holding, Owning, Releasing, Alive
<1> QED BY <1>1, <1>2, <1>3, <1>4, <1>5

LEMMA RefusedKeeps ==
  ASSUME LockInv, NEW p \in Procs, Refused(p)
  PROVE  LockInv'
<1> USE LockAssumption DEF LockAssumption, LockInv, NoFile, Files,
                           Refused, Goto, lockVars, actVars
<1>1. TypeOK'
  BY DEF TypeOK, Locations
<1>2. FilesOnce'
  BY DEF TypeOK, FilesOnce, Created, Before
<1>3. Contents'
  BY DEF TypeOK, Contents
<1>4. Judgement'
  BY DEF TypeOK, Judgement, Judging, Alive
<1>5. (raced \/ Exclusion)'
  BY DEF TypeOK, Exclusion, Holding, Owning, Releasing
<1> QED BY <1>1, <1>2, <1>3, <1>4, <1>5

LEMMA ClearKeeps ==
  ASSUME LockInv, NEW p \in Procs, Clear(p)
  PROVE  LockInv'
<1> USE LockAssumption DEF LockAssumption, LockInv, NoFile, Files,
                           Clear, Goto, lockVars, actVars
<1>1. TypeOK'
  BY DEF TypeOK, Locations, Owning
<1>2. FilesOnce'
  BY DEF TypeOK, FilesOnce, Created, Before
<1>3. Contents'
  BY DEF TypeOK, Contents
<1>4. Judgement'
  BY DEF TypeOK, Judgement, Judging, Alive
<1>5. (raced \/ Exclusion)'
  BY DEF TypeOK, Exclusion, Holding, Owning
<1> QED BY <1>1, <1>2, <1>3, <1>4, <1>5

LEMMA ServeKeeps ==
  ASSUME LockInv, NEW p \in Procs, Serve(p)
  PROVE  LockInv'
<1> USE LockAssumption DEF LockAssumption, LockInv, NoFile, Files,
                           Serve, Goto, lockVars, actVars
<1>1. TypeOK'
  BY DEF TypeOK, Locations, Owning
<1>2. FilesOnce'
  BY DEF TypeOK, FilesOnce, Created, Before
<1>3. Contents'
  BY DEF TypeOK, Contents
<1>4. Judgement'
  BY DEF TypeOK, Judgement, Judging, Alive
<1>5. (raced \/ Exclusion)'
  BY DEF TypeOK, Exclusion, Holding, Owning
<1> QED BY <1>1, <1>2, <1>3, <1>4, <1>5

LEMMA PollKeeps ==
  ASSUME LockInv, NEW p \in Procs, Poll(p)
  PROVE  LockInv'
<1> USE LockAssumption DEF LockAssumption, LockInv, NoFile, Files,
                           Poll, Goto, lockVars, actVars
<1>1. TypeOK'
  BY DEF TypeOK, Locations, Owning
<1>2. FilesOnce'
  BY DEF TypeOK, FilesOnce, Created, Before
<1>3. Contents'
  BY DEF TypeOK, Contents
<1>4. Judgement'
  BY DEF TypeOK, Judgement, Judging, Alive
<1>5. (raced \/ Exclusion)'
  BY DEF TypeOK, Exclusion, Holding, Owning
<1> QED BY <1>1, <1>2, <1>3, <1>4, <1>5

LEMMA ConsumeKeeps ==
  ASSUME LockInv, NEW p \in Procs, Consume(p)
  PROVE  LockInv'
<1> USE LockAssumption DEF LockAssumption, LockInv, NoFile, Files,
                           Consume, Goto, lockVars, actVars
<1>1. TypeOK'
  BY DEF TypeOK, Locations, Owning
<1>2. FilesOnce'
  BY DEF TypeOK, FilesOnce, Created, Before
<1>3. Contents'
  BY DEF TypeOK, Contents
<1>4. Judgement'
  BY DEF TypeOK, Judgement, Judging, Alive
<1>5. (raced \/ Exclusion)'
  BY DEF TypeOK, Exclusion, Holding, Owning
<1> QED BY <1>1, <1>2, <1>3, <1>4, <1>5

LEMMA ExitKeeps ==
  ASSUME LockInv, NEW p \in Procs, Exit(p)
  PROVE  LockInv'
<1> USE LockAssumption DEF LockAssumption, LockInv, NoFile, Files,
                           Exit, Goto, lockVars, actVars
<1>1. TypeOK'
  BY DEF TypeOK, Locations, Releasing
<1>2. FilesOnce'
  BY DEF TypeOK, FilesOnce, Created, Before
<1>3. Contents'
  BY DEF TypeOK, Contents
<1>4. Judgement'
  BY DEF TypeOK, Judgement, Judging, Alive
<1>5. (raced \/ Exclusion)'
  BY DEF TypeOK, Exclusion, Holding, Owning
<1> QED BY <1>1, <1>2, <1>3, <1>4, <1>5

LEMMA ReleaseReadKeeps ==
  ASSUME LockInv, NEW p \in Procs, ReleaseRead(p)
  PROVE  LockInv'
<1> USE LockAssumption DEF LockAssumption, LockInv, NoFile, Files,
                           ReleaseRead, Goto, lockVars, actVars
<1>1. TypeOK'
  BY DEF TypeOK, Locations, Releasing
<1>2. FilesOnce'
  <2>1. \A q \in Procs : Created(q) => Created(q)' /\ (pc[q] # "write" => pc'[q] # "write")
    BY DEF TypeOK, Created, Before
  <2>2. Created(p)
    BY DEF Created, Before
  <2>3. \A q \in Procs : seen'[q] = seen[q] \/ seen'[q] = [owner |-> p, written |-> TRUE]
    BY DEF TypeOK
  <2>4. file' = file /\ old' = old /\ old \subseteq Procs
    BY DEF TypeOK
  <2>5. (file # NoFile => Created(file.owner))'
    BY <2>1, <2>4 DEF FilesOnce, TypeOK
  <2>6. (\A q \in Procs : seen[q] # NoFile => seen[q].owner \in Procs /\ Created(seen[q].owner))'
    BY <2>1, <2>2, <2>3 DEF FilesOnce
  <2>7. (\A q \in old : Created(q) /\ pc[q] # "write")'
    BY <2>1, <2>4 DEF FilesOnce
  <2> QED BY <2>5, <2>6, <2>7 DEF FilesOnce, Created
<1>3. Contents'
  BY DEF TypeOK, Contents
<1>4. Judgement'
  BY DEF TypeOK, Judgement, Judging, Alive
<1>5. (raced \/ Exclusion)'
  BY DEF TypeOK, Exclusion, Holding, Releasing
<1> QED BY <1>1, <1>2, <1>3, <1>4, <1>5

LEMMA ReleaseCompareKeeps ==
  ASSUME LockInv, NEW p \in Procs, ReleaseCompare(p)
  PROVE  LockInv'
<1> USE LockAssumption DEF LockAssumption, LockInv, NoFile, Files,
                           ReleaseCompare, Goto, lockVars, actVars
<1>1. TypeOK'
  BY DEF TypeOK, Locations, Releasing
<1>2. FilesOnce'
  BY DEF TypeOK, FilesOnce, Created, Before
<1>3. Contents'
  BY DEF TypeOK, Contents
<1>4. Judgement'
  BY DEF TypeOK, Judgement, Judging, Alive
<1>5. (raced \/ Exclusion)'
  BY DEF TypeOK, Exclusion, Holding, Releasing
<1> QED BY <1>1, <1>2, <1>3, <1>4, <1>5

LEMMA ReleaseUnlinkKeeps ==
  ASSUME LockInv, NEW p \in Procs, ReleaseUnlink(p)
  PROVE  LockInv'
<1> USE LockAssumption DEF LockAssumption, LockInv, NoFile, Files,
                           ReleaseUnlink, Goto, lockVars, actVars
<1>1. TypeOK'
  BY DEF TypeOK, Locations
<1>2. FilesOnce'
  BY DEF TypeOK, FilesOnce, Created, Before
<1>3. Contents'
  BY DEF TypeOK, Contents
<1>4. Judgement'
  BY DEF TypeOK, Judgement, Judging
<1>5. (raced \/ Exclusion)'
  BY DEF TypeOK, Judgement, Exclusion, Holding, Owning, Releasing, Alive
<1> QED BY <1>1, <1>2, <1>3, <1>4, <1>5

LEMMA CrashKeeps ==
  ASSUME LockInv, NEW p \in Procs, Crash(p)
  PROVE  LockInv'
<1> USE LockAssumption DEF LockAssumption, LockInv, NoFile, Files,
                           Crash, Goto, lockVars, actVars
<1>1. TypeOK'
  BY DEF TypeOK, Locations
<1>2. FilesOnce'
  BY DEF TypeOK, FilesOnce, Created, Before
<1>3. Contents'
  BY DEF TypeOK, Contents
<1>4. Judgement'
  BY DEF TypeOK, Judgement, Judging, Alive
<1>5. (raced \/ Exclusion)'
  BY DEF TypeOK, Exclusion, Holding, Owning, Releasing
<1> QED BY <1>1, <1>2, <1>3, <1>4, <1>5

LEMMA AgeKeeps ==
  ASSUME LockInv, NEW p \in Procs, Age(p)
  PROVE  LockInv'
<1> USE LockAssumption DEF LockAssumption, LockInv, NoFile, Files,
                           Age, Goto, lockVars, actVars
<1>1. TypeOK'
  BY DEF TypeOK
<1>2. FilesOnce'
  BY DEF TypeOK, FilesOnce, Created
<1>3. Contents'
  BY DEF TypeOK, Contents
<1>4. Judgement'
  BY DEF TypeOK, Judgement, Alive
<1>5. (raced \/ Exclusion)'
  BY DEF TypeOK, Exclusion
<1> QED BY <1>1, <1>2, <1>3, <1>4, <1>5

LEMMA LockStep == LockInv /\ [Next]_vars => LockInv'
<1> SUFFICES ASSUME LockInv, Next PROVE LockInv'
  BY LockIdle
<1>1. PICK p \in Procs : \/ Step(p) \/ Start(p) \/ WriteFails(p) \/ Exit(p)
                         \/ Crash(p) \/ Age(p)
  BY DEF Next
<1> QED BY <1>1, StartKeeps, CreateKeeps, WriteKeeps, WriteFailsKeeps, LstatKeeps,
           ReadKeeps, DecideKeeps, CompareKeeps, UnlinkKeeps, RefusedKeeps, ClearKeeps,
           ServeKeeps, PollKeeps, ConsumeKeeps, ExitKeeps, ReleaseReadKeeps,
           ReleaseCompareKeeps, ReleaseUnlinkKeeps, CrashKeeps, AgeKeeps DEF Step
-----------------------------------------------------------------------------
\* The inductive invariant of the lock holds throughout.
THEOREM LockInvariant == Spec => []LockInv
<1>1. Init => LockInv
  BY LockStart
<1>2. LockInv /\ [Next]_vars => LockInv'
  BY LockStep
<1> QED BY <1>1, <1>2, PTL DEF Spec

\* The state has its type.
THEOREM LockTypeCorrect == Spec => []TypeOK
<1>1. LockInv => TypeOK
  BY DEF LockInv
<1> QED BY <1>1, LockInvariant, PTL

\* An owner's lock file stays at the path (instance_lock.py), unless raced.
THEOREM LockFileStays == Spec => []OwnersFileStays
<1>1. LockInv => OwnersFileStays
  BY DEF LockInv, OwnersFileStays, Exclusion, Owners, Holding
<1> QED BY <1>1, LockInvariant, PTL

\* At most one process owns the lock, unless two recoveries raced.
THEOREM LockHasOneOwner == Spec => []OneOwner
<1>1. LockInv => OneOwner
  <2> SUFFICES ASSUME LockInv, ~raced PROVE Cardinality(Owners) <= 1
    BY DEF OneOwner
  <2>1. \A p \in Owners : file.owner = p
    BY DEF LockInv, Exclusion, Owners, Holding
  <2>2. Owners \subseteq {file.owner}
    BY <2>1
  <2>3. IsFiniteSet({file.owner}) /\ Cardinality({file.owner}) = 1
    BY FS_Singleton
  <2>4. Cardinality(Owners) <= Cardinality({file.owner})
    BY <2>2, <2>3, FS_Subset
  <2> QED BY <2>3, <2>4
<1> QED BY <1>1, LockInvariant, PTL
=============================================================================

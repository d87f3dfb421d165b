----------------------- MODULE ProfileScheduler_proofs -----------------------
(***************************************************************************)
(* Proofs about ProfileScheduler for every set of profiles and every       *)
(* number of edits, clicks and faults.  SchedulerInv: collections never    *)
(* overlap, and a scheduler has a deadline exactly when it is not paused.  *)
(* MonitorInv: what is paused, blocked or shut down collects nothing.      *)
(***************************************************************************)
EXTENDS ProfileScheduler, FiniteSetTheorems, TLAPS

\* A call is inside the execution lock.
Holds(c) ==
  \/ c.at \in {"select", "pick", "run", "read", "sync", "finish", "pauseEach"}
  \/ c.at \in {"list", "refresh"} /\ c.op \in {"tick", "run_now"}

\* tick moves its turn within a set of profiles that is not empty.
TurnOK(c) ==
  c.op = "tick" => /\ c.at # "run"
                   /\ c.at \in {"pick", "read", "sync", "finish"} => c.ids # {}

\* A collection works for a scheduler made before, and the scheduler, if it
\* is still in the table, is not paused meanwhile.
RunOK(c) ==
  /\ c.at \in {"run", "read", "sync", "finish"} =>
       c.cur \in Profiles \X Nat /\ c.cur[2] <= made[c.cur[1]]
  /\ c.at \in {"read", "sync", "finish"} /\ Current(c.cur) =>
       ~schedulers[c.cur[1]].halted

LockInv == \A t \in Threads : Holds(th[t]) => execution = t
CallInv == \A t \in Threads : TurnOK(th[t]) /\ RunOK(th[t])
TableInv ==
  \A p \in Profiles : /\ schedulers[p].gen <= made[p]
                      /\ schedulers[p].halted <=> schedulers[p].next = Never

SchedulerInv == TypeOK /\ LockInv /\ CallInv /\ TableInv

LEMMA InitTypeOK == Init => TypeOK
<1> SUFFICES ASSUME Init PROVE TypeOK OBVIOUS
<1>1. th \in [Threads -> Calls]
  BY DEF Init, Threads, Secrets, Outcomes, Calls, Labels, Ops, Resting, NoRef
<1>2. schedulers \in [Profiles -> Schedulers]
  BY SchedulerAssumption DEF Init, Schedulers, NoScheduler, Never
<1>3. enabled \subseteq Profiles /\ secret \in [Profiles -> Secrets]
  BY SchedulerAssumption DEF Init
<1>4. made \in [Profiles -> Nat] /\ offset \in Nat /\ execution \in Threads \union {Free}
  BY DEF Init
<1>5. edits \in 0 .. MaxEdits /\ clicks \in 0 .. MaxClicks /\ faults \in 0 .. MaxFaults
  BY SchedulerAssumption DEF Init
<1>6. blocked \subseteq Profiles /\ paused \in BOOLEAN /\ stop \in BOOLEAN /\ owner \in BOOLEAN
  BY DEF Init
<1> QED BY <1>1, <1>2, <1>3, <1>4, <1>5, <1>6 DEF TypeOK

LEMMA InitSchedulerInv == Init => SchedulerInv
<1> SUFFICES ASSUME Init PROVE SchedulerInv OBVIOUS
<1>1. \A t \in Threads : th[t].at \in {"begin", "unborn", "idle"}
  BY DEF Init, Threads, Resting
<1>2. LockInv
  BY <1>1 DEF LockInv, Holds
<1>3. CallInv
  BY <1>1 DEF CallInv, TurnOK, RunOK
<1>4. TableInv
  BY DEF Init, TableInv, NoScheduler
<1> QED BY <1>2, <1>3, <1>4, InitTypeOK DEF SchedulerInv

\* One thread moves on: what its new call must satisfy.
LEMMA MoveKeeps ==
  ASSUME SchedulerInv, NEW t \in Threads, NEW c \in Calls,
         th' = [th EXCEPT ![t] = c],
         execution' \in Threads \union {Free},
         Holds(c) => execution' = t,
         \A u \in Threads \ {t} : execution = u => execution' = u,
         TurnOK(c), RunOK(th[t])',
         \A u \in Threads \ {t} : RunOK(th[u]) => RunOK(th[u])'
  PROVE  /\ th' \in [Threads -> Calls] /\ execution' \in Threads \union {Free}
         /\ LockInv' /\ CallInv'
<1> USE DEF SchedulerInv
<1>1. th' \in [Threads -> Calls]
  BY DEF TypeOK
<1>2. LockInv'
  BY DEF TypeOK, LockInv, Holds
<1>3. CallInv'
  BY DEF TypeOK, CallInv, TurnOK, RunOK
<1> QED BY <1>1, <1>2, <1>3

\* ... and when the table stays as it is.
LEMMA MoveAloneKeeps ==
  ASSUME SchedulerInv, NEW t \in Threads, NEW c \in Calls,
         th' = [th EXCEPT ![t] = c],
         execution' \in Threads \union {Free},
         Holds(c) => execution' = t,
         \A u \in Threads \ {t} : execution = u => execution' = u,
         TurnOK(c), RunOK(c),
         UNCHANGED <<schedulers, made>>
  PROVE  /\ th' \in [Threads -> Calls] /\ execution' \in Threads \union {Free}
         /\ LockInv' /\ CallInv' /\ TableInv'
<1>1. RunOK(th[t])'
  <2>1. th'[t] = c
    BY DEF SchedulerInv, TypeOK
  <2> QED BY <2>1 DEF RunOK, Current, Known, RefOf
<1>2. \A u \in Threads \ {t} : RunOK(th[u]) => RunOK(th[u])'
  <2> SUFFICES ASSUME NEW u \in Threads \ {t}, RunOK(th[u]) PROVE RunOK(th[u])'
    OBVIOUS
  <2>1. th'[u] = th[u]
    BY DEF SchedulerInv, TypeOK
  <2> QED BY <2>1 DEF RunOK, Current, Known, RefOf
<1>3. TableInv'
  BY DEF SchedulerInv, TableInv
<1> QED BY <1>1, <1>2, <1>3, MoveKeeps

\* The calls before and after the lock: clicks, polls, queries, the shutdown.
LEMMA OutsideKeeps ==
  ASSUME SchedulerInv, NEW t \in Threads,
         \/ BeginStart /\ t = "main"
         \/ Poll /\ t = "loop"
         \/ TickCheck /\ t = "loop"
         \/ TogglePause /\ t = "tray"
         \/ (SyncNow({}) \/ \E p \in Profiles : SyncNow({p})) /\ t = "tray"
         \/ Exit(t) \/ Release(t) \/ Acquire(t) \/ ListEnabled(t) \/ ListFails(t)
  PROVE  SchedulerInv'
<1> DEFINE c == th'[t]
<1>1. th' = [th EXCEPT ![t] = c] /\ c \in Calls
  BY DEF BeginStart, Poll, TickCheck, TogglePause, SyncNow, Exit, Release, Acquire,
         ListEnabled, ListFails, At, Goto, Return, Die, SchedulerInv, TypeOK, Calls, Labels,
         Ops, Resting, NoRef, Secrets, Outcomes, Threads
<1>2. c.at \notin {"select", "pick", "run", "read", "sync", "finish", "pauseEach"}
  BY DEF BeginStart, Poll, TickCheck, TogglePause, SyncNow, Exit, Release, Acquire,
         ListEnabled, ListFails, At, Goto, Return, Die, SchedulerInv, TypeOK, Calls, Resting,
         Threads, Click
<1>3. UNCHANGED <<schedulers, made, blocked, paused, offset>>
  BY DEF BeginStart, Poll, TickCheck, TogglePause, SyncNow, Exit, Release, Acquire,
         ListEnabled, ListFails, coordVars
<1>4. Holds(c) => execution' = t
  BY DEF BeginStart, Poll, TickCheck, TogglePause, SyncNow, Exit, Release, Acquire,
         ListEnabled, ListFails, At, Goto, Return, Die, SchedulerInv, TypeOK, Calls, Resting,
         Threads, Click, Holds, LockInv, Unlock
<1>5. /\ execution' \in Threads \union {Free}
      /\ \A u \in Threads \ {t} : execution = u => execution' = u
  BY DEF BeginStart, Poll, TickCheck, TogglePause, SyncNow, Exit, Release, Acquire,
         ListEnabled, ListFails, SchedulerInv, TypeOK, Unlock, Free, Threads
<1>6. /\ th' \in [Threads -> Calls] /\ execution' \in Threads \union {Free}
      /\ LockInv' /\ CallInv' /\ TableInv'
  <2>1. TurnOK(c) /\ RunOK(c)
    BY <1>2 DEF TurnOK, RunOK
  <2> HIDE DEF c
  <2> QED BY <1>1, <1>3, <1>4, <1>5, <2>1, MoveAloneKeeps
<1>7. UNCHANGED envVars
  BY DEF BeginStart, Poll, TickCheck, TogglePause, SyncNow, Exit, Release, Acquire,
         ListEnabled, ListFails
<1>8. stop' \in BOOLEAN /\ owner' \in BOOLEAN
  BY DEF BeginStart, Poll, TickCheck, TogglePause, SyncNow, Exit, Release, Acquire,
         ListEnabled, ListFails, SchedulerInv, TypeOK, runVars
<1>9. clicks' \in 0 .. MaxClicks /\ faults' \in 0 .. MaxFaults
  BY SchedulerAssumption
     DEF BeginStart, Poll, TickCheck, TogglePause, SyncNow, Exit, Release, Acquire,
         ListEnabled, ListFails, SchedulerInv, TypeOK, Click
<1> QED BY <1>3, <1>6, <1>7, <1>8, <1>9 DEF SchedulerInv, TypeOK, envVars

\* A reference to a scheduler in the table is typed.
LEMMA RefsTyped ==
  ASSUME TypeOK
  PROVE  /\ \A S \in SUBSET Known : {RefOf(p) : p \in S} \in SUBSET (Profiles \X Nat)
         /\ \A p \in Known : RefOf(p) \in Profiles \X Nat
BY DEF TypeOK, Known, RefOf, Schedulers

\* A thread that returns is outside the lock.
LEMMA RestingFits ==
  Resting \in Calls /\ TurnOK(Resting) /\ RunOK(Resting) /\ ~Holds(Resting)
BY DEF Resting, Calls, Labels, Ops, NoRef, Secrets, Outcomes, TurnOK, RunOK, Holds

\* A call stays typed when its label and its references, or its scheduler, change.
LEMMA RefsCall ==
  ASSUME NEW l \in Labels, NEW R \in SUBSET (Profiles \X Nat), NEW t \in Threads,
         th \in [Threads -> Calls],
         th' = [th EXCEPT ![t].at = l, ![t].refs = R]
  PROVE  /\ th' = [th EXCEPT ![t] = th'[t]]
         /\ th'[t] \in Calls /\ th'[t].at = l
<1>1. th' = [th EXCEPT ![t] = [th[t] EXCEPT !.at = l, !.refs = R]]
  OBVIOUS
<1>2. th'[t] = [th[t] EXCEPT !.at = l, !.refs = R]
  BY <1>1
<1>3. [th[t] EXCEPT !.at = l, !.refs = R] \in Calls /\ th'[t].at = l
  BY <1>2 DEF Calls
<1> QED BY <1>1, <1>2, <1>3

LEMMA CurCall ==
  ASSUME NEW l \in Labels, NEW r \in Profiles \X Nat, NEW t \in Threads,
         th \in [Threads -> Calls],
         th' = [th EXCEPT ![t].at = l, ![t].cur = r]
  PROVE  /\ th' = [th EXCEPT ![t] = th'[t]]
         /\ th'[t] \in Calls /\ th'[t].at = l /\ th'[t].cur = r
         /\ th'[t].op = th[t].op /\ th'[t].ids = th[t].ids
<1>1. th' = [th EXCEPT ![t] = [th[t] EXCEPT !.at = l, !.cur = r]]
  OBVIOUS
<1>2. th'[t] = [th[t] EXCEPT !.at = l, !.cur = r]
  BY <1>1
<1>3. [th[t] EXCEPT !.at = l, !.cur = r] \in Calls
  BY DEF Calls
<1>4. /\ th'[t].at = l /\ th'[t].cur = r /\ th'[t].op = th[t].op
      /\ th'[t].ids = th[t].ids
  BY <1>2 DEF Calls
<1> QED BY <1>1, <1>2, <1>3, <1>4

LEMMA OpenKeeps ==
  ASSUME SchedulerInv, NEW t \in Threads, Open(t)
  PROVE  SchedulerInv'
<1> USE DEF SchedulerInv
<1> DEFINE c == th'[t]
<1>1. PICK R \in SUBSET (Profiles \X Nat) :
        th' = [th EXCEPT ![t].at = "each", ![t].refs = R]
  BY RefsTyped DEF Open
<1>2. th' = [th EXCEPT ![t] = c] /\ c \in Calls /\ c.at = "each"
  <2>1. "each" \in Labels /\ th \in [Threads -> Calls]
    BY DEF Labels, TypeOK
  <2> QED BY <1>1, <2>1, RefsCall
<1>3. ~Holds(c) /\ TurnOK(c) /\ RunOK(c)
  BY <1>2 DEF Holds, TurnOK, RunOK
<1>4. UNCHANGED <<schedulers, made, execution>> /\ execution \in Threads \union {Free}
  BY DEF Open, TypeOK
<1> HIDE DEF c
<1>5. /\ th' \in [Threads -> Calls] /\ execution' \in Threads \union {Free}
      /\ LockInv' /\ CallInv' /\ TableInv'
  BY <1>2, <1>3, <1>4, MoveAloneKeeps
<1> QED BY <1>4, <1>5 DEF Open, TypeOK, envVars, runVars

LEMMA PauseLockKeeps ==
  ASSUME SchedulerInv, NEW t \in Threads, PauseLock(t)
  PROVE  SchedulerInv'
<1> USE DEF SchedulerInv
<1> DEFINE c == th'[t]
<1>1. PICK R \in SUBSET (Profiles \X Nat) :
        th' = [th EXCEPT ![t].at = "pauseEach", ![t].refs = R]
  BY RefsTyped DEF PauseLock
<1>2. th' = [th EXCEPT ![t] = c] /\ c \in Calls /\ c.at = "pauseEach"
  <2>1. "pauseEach" \in Labels /\ th \in [Threads -> Calls]
    BY DEF Labels, TypeOK
  <2> QED BY <1>1, <2>1, RefsCall
<1>3. TurnOK(c) /\ RunOK(c)
  BY <1>2 DEF TurnOK, RunOK
<1>4. UNCHANGED <<schedulers, made>> /\ execution' = t /\ execution = Free
  BY DEF PauseLock, TypeOK
<1>5. \A u \in Threads \ {t} : execution = u => execution' = u
  BY <1>4 DEF Threads, Free
<1> HIDE DEF c
<1>6. /\ th' \in [Threads -> Calls] /\ execution' \in Threads \union {Free}
      /\ LockInv' /\ CallInv' /\ TableInv'
  BY <1>2, <1>3, <1>4, <1>5, MoveAloneKeeps
<1> QED BY <1>4, <1>6 DEF PauseLock, TypeOK, envVars, runVars

LEMMA SelectKeeps ==
  ASSUME SchedulerInv, NEW t \in Threads, Select(t)
  PROVE  SchedulerInv'
<1> USE DEF SchedulerInv
<1> DEFINE c == th'[t]
<1>1. Holds(th[t]) /\ execution = t
  BY DEF Select, At, Holds, LockInv
<1>2. UNCHANGED <<schedulers, made>>
  BY DEF Select, coordVars
<1>3. /\ th' = [th EXCEPT ![t] = c] /\ c \in Calls
      /\ TurnOK(c) /\ RunOK(c)
      /\ \/ ~Holds(c) /\ execution' = Free
         \/ execution' = t
  <2>1. CASE Unlock(t) /\ Return(t)
    <3>1. c = Resting /\ execution' = Free
      BY <1>1, <2>1 DEF Unlock, Return, TypeOK
    <3>2. Resting \in Calls /\ TurnOK(Resting) /\ RunOK(Resting) /\ ~Holds(Resting)
      BY RestingFits
    <3>3. th' = [th EXCEPT ![t] = c]
      BY <2>1, <3>1 DEF Return
    <3>4. TurnOK(c) /\ RunOK(c) /\ ~Holds(c) /\ c \in Calls
      BY <3>1, <3>2
    <3> QED BY <3>1, <3>3, <3>4
  <2>2. CASE /\ th[t].op = "tick" /\ Known # {} /\ UNCHANGED execution
             /\ th' = [th EXCEPT ![t].at = "pick", ![t].ids = Known, ![t].todo = Known]
    <3>1. Known \in SUBSET Profiles
      BY DEF Known
    <3>2. c = [th[t] EXCEPT !.at = "pick", !.ids = Known, !.todo = Known]
      BY <2>2 DEF TypeOK
    <3>3. c \in Calls /\ c.at = "pick" /\ c.ids = Known
      <4>1. th[t] \in Calls
        BY DEF TypeOK
      <4> HIDE DEF c, SchedulerInv
      <4> QED BY <3>1, <3>2, <4>1 DEF Calls, Labels
    <3>4. th' = [th EXCEPT ![t] = c]
      BY <2>2, <3>2
    <3> QED BY <1>1, <2>2, <3>3, <3>4 DEF TurnOK, RunOK
  <2>3. CASE /\ th[t].op # "tick" /\ UNCHANGED execution
             /\ \E p \in Known : th' = [th EXCEPT ![t].at = "run", ![t].cur = RefOf(p)]
    <3>1. PICK p \in Known : th' = [th EXCEPT ![t].at = "run", ![t].cur = RefOf(p)]
      BY <2>3
    <3>2. RefOf(p) \in Profiles \X Nat /\ RefOf(p)[2] <= made[RefOf(p)[1]]
      BY DEF RefOf, Known, TypeOK, Schedulers, TableInv
    <3>3. /\ th' = [th EXCEPT ![t] = c] /\ c \in Calls
          /\ c.at = "run" /\ c.op # "tick" /\ c.cur = RefOf(p)
      <4>1. "run" \in Labels /\ th \in [Threads -> Calls]
        BY DEF Labels, TypeOK
      <4> QED BY ZenonT(30), <2>3, <3>1, <3>2, <4>1, CurCall
    <3> QED BY <1>1, <2>3, <3>2, <3>3 DEF TurnOK, RunOK
  <2>4. \A W \in SUBSET Known : W # {} => (CHOOSE p \in W : TRUE) \in Known
    OBVIOUS
  <2> QED BY <2>1, <2>2, <2>3, <2>4 DEF Select
<1>4. \A u \in Threads \ {t} : execution = u => execution' = u
  BY <1>1
<1> HIDE DEF c
<1>5. /\ th' \in [Threads -> Calls] /\ execution' \in Threads \union {Free}
      /\ LockInv' /\ CallInv' /\ TableInv'
  BY <1>2, <1>3, <1>4, MoveAloneKeeps
<1> QED BY <1>2, <1>5 DEF Select, TypeOK, envVars, runVars, coordVars

\* The parts of a collection that read the stores and call the service.
LEMMA CollectKeeps ==
  ASSUME SchedulerInv, NEW t \in Threads, CollectRead(t) \/ CollectSync(t)
  PROVE  SchedulerInv'
<1> USE DEF SchedulerInv
<1> DEFINE c == th'[t]
<1>1. execution = t
  BY DEF CollectRead, CollectSync, At, Holds, LockInv
<1>2. UNCHANGED <<schedulers, made, paused, offset, execution, stop, owner, enabled, secret, edits,
                  clicks>>
  BY DEF CollectRead, CollectSync, envVars, runVars
<1>3. th[t].cur[1] \in Profiles
  BY DEF CollectRead, CollectSync, At, CallInv, RunOK
<1>4. blocked' \subseteq Profiles /\ faults' \in 0 .. MaxFaults
  BY <1>3, SchedulerAssumption DEF CollectRead, CollectSync, TypeOK
<1>5. th' = [th EXCEPT ![t] = c] /\ c \in Calls
  BY <1>3 DEF CollectRead, CollectSync, TypeOK, Calls, Labels, Secrets, Outcomes
<1>6. /\ th[t].at \in {"read", "sync"} /\ c.at \in {"sync", "finish"}
      /\ c.op = th[t].op /\ c.ids = th[t].ids /\ c.cur = th[t].cur
  BY DEF CollectRead, CollectSync, TypeOK, At, Calls
<1>7. TurnOK(th[t]) /\ RunOK(th[t])
  BY DEF CallInv
<1>8. TurnOK(c) /\ RunOK(c)
  BY <1>6, <1>7 DEF TurnOK, RunOK
<1> HIDE DEF c
<1>9. /\ th' \in [Threads -> Calls] /\ execution' \in Threads \union {Free}
      /\ LockInv' /\ CallInv' /\ TableInv'
  BY <1>1, <1>2, <1>5, <1>8, MoveAloneKeeps
<1> QED BY <1>2, <1>4, <1>9 DEF TypeOK

\* A call that is not touched keeps its part of the invariant when its
\* scheduler keeps its generation and is not paused under it.
LEMMA BystanderKeeps ==
  ASSUME NEW u \in Threads, th'[u] = th[u], RunOK(th[u]),
         \A p \in Profiles : schedulers'[p].gen = schedulers[p].gen,
         UNCHANGED made,
         \/ th[u].at \notin {"read", "sync", "finish"}
         \/ \A p \in Profiles : schedulers'[p].halted => schedulers[p].halted
  PROVE  RunOK(th[u])'
BY DEF RunOK, Current, Known, RefOf

LEMMA RefreshKeeps ==
  ASSUME SchedulerInv, NEW t \in Threads, Refresh(t)
  PROVE  SchedulerInv'
<1> USE DEF SchedulerInv
<1> DEFINE c == th'[t]
<1>1. th[t] \in Calls /\ th[t].at = "refresh"
  BY DEF TypeOK, Refresh, At
<1>2. /\ th' = [th EXCEPT ![t] = c] /\ c \in Calls
      /\ c.at = IF th[t].op \in {"tick", "run_now"} THEN "select" ELSE "open"
  BY <1>1 DEF Refresh, Goto, TypeOK, Calls, Labels
<1>3. Holds(c) => execution = t
  BY <1>1, <1>2 DEF Holds, LockInv
<1>4. UNCHANGED <<execution, envVars, paused, offset, runVars, clicks, faults>>
  BY DEF Refresh
<1>5. \A p \in Profiles :
        \/ schedulers'[p] = NoScheduler /\ made'[p] = made[p]
        \/ schedulers'[p] = NewScheduler(made[p] + 1) /\ made'[p] = made[p] + 1
        \/ schedulers'[p] = schedulers[p] /\ made'[p] = made[p]
  BY DEF Refresh, Known, TypeOK
<1>6. /\ schedulers' \in [Profiles -> Schedulers] /\ made' \in [Profiles -> Nat]
      /\ blocked' \subseteq Profiles
  <2>1. \A p \in Profiles : schedulers[p] \in Schedulers /\ made[p] \in Nat
    BY DEF TypeOK
  <2>2. NoScheduler \in Schedulers /\ \A g \in Nat : NewScheduler(g) \in Schedulers
    <3>1. NoScheduler \in Schedulers
      BY SchedulerAssumption DEF NoScheduler, Schedulers
    <3> QED BY <3>1 DEF NewScheduler, Schedulers
  <2>3. \A p \in Profiles : schedulers'[p] \in Schedulers /\ made'[p] \in Nat
    BY <1>5, <2>1, <2>2
  <2>4. /\ schedulers' = [p \in Profiles |-> schedulers'[p]]
        /\ made' = [p \in Profiles |-> made'[p]]
        /\ blocked' \subseteq Profiles
    BY DEF Refresh, TypeOK
  <2> QED BY <2>3, <2>4
<1>7. TableInv'
  <2> SUFFICES ASSUME NEW p \in Profiles
               PROVE  /\ schedulers'[p].gen <= made'[p]
                      /\ schedulers'[p].halted <=> schedulers'[p].next = Never
    BY DEF TableInv
  <2>1. made[p] \in Nat /\ schedulers[p].gen <= made[p]
        /\ (schedulers[p].halted <=> schedulers[p].next = Never)
    BY DEF TypeOK, TableInv
  <2>2. NoScheduler.gen = 0 /\ NoScheduler.halted /\ NoScheduler.next = Never
    BY DEF NoScheduler
  <2>3. /\ NewScheduler(made[p] + 1).gen = made[p] + 1
        /\ NewScheduler(made[p] + 1).halted /\ NewScheduler(made[p] + 1).next = Never
    BY DEF NewScheduler, NoScheduler
  <2> QED BY <1>5, <2>1, <2>2, <2>3
<1>8. \A u \in Threads \ {t} : RunOK(th[u]) => RunOK(th[u])'
  <2> SUFFICES ASSUME NEW u \in Threads \ {t}, RunOK(th[u]) PROVE RunOK(th[u])'
    OBVIOUS
  <2>1. th'[u] = th[u]
    BY <1>2 DEF TypeOK
  <2> DEFINE r == th[u].cur
  <2>2. CASE th[u].at \notin {"run", "read", "sync", "finish"}
    BY <2>1, <2>2 DEF RunOK
  <2>3. CASE th[u].at \in {"run", "read", "sync", "finish"}
    <3>1. r \in Profiles \X Nat /\ r[2] <= made[r[1]] /\ r = <<r[1], r[2]>>
      BY <2>3 DEF RunOK
    <3>2. made[r[1]] \in Nat /\ r[1] \in Profiles /\ r[2] \in Nat
      BY <3>1 DEF TypeOK
    <3>3. r[2] <= made'[r[1]]
      BY <1>5, <3>1, <3>2
    <3>4. /\ NoScheduler.gen = 0
          /\ NewScheduler(made[r[1]] + 1).gen = made[r[1]] + 1
      BY DEF NoScheduler, NewScheduler
    <3>5. Current(r)' => schedulers'[r[1]].gen # 0 /\ schedulers'[r[1]].gen = r[2]
      BY <2>1, <3>1 DEF Current, Known, RefOf
    <3>6. Current(r)' => schedulers'[r[1]] = schedulers[r[1]]
      BY <1>5, <3>1, <3>2, <3>4, <3>5
    <3>7. Current(r)' => Current(r)
      BY <3>1, <3>2, <3>5, <3>6 DEF Current, Known, RefOf
    <3> QED BY <2>1, <3>1, <3>3, <3>6, <3>7 DEF RunOK
  <2> QED BY <2>2, <2>3
<1>9. TurnOK(c) /\ RunOK(th[t])'
  BY <1>2 DEF TurnOK, RunOK
<1>10. execution' \in Threads \union {Free}
  BY <1>4 DEF TypeOK
<1> HIDE DEF c
<1>11. th' \in [Threads -> Calls] /\ LockInv' /\ CallInv'
  BY <1>2, <1>3, <1>4, <1>8, <1>9, <1>10, MoveKeeps
<1> QED BY <1>4, <1>6, <1>7, <1>10, <1>11 DEF TypeOK, envVars, runVars

\* The end of start: main rests, and the loop thread exists.
LEMMA StartedKeeps ==
  ASSUME SchedulerInv, Started,
         execution' \in Threads \union {Free},
         \A u \in Threads \ {"main"} : execution = u => execution' = u,
         UNCHANGED <<schedulers, made>>
  PROVE  /\ th' \in [Threads -> Calls] /\ stop' \in BOOLEAN
         /\ LockInv' /\ CallInv' /\ TableInv'
<1> USE DEF SchedulerInv
<1>1. th' \in [Threads -> Calls] /\ stop' \in BOOLEAN
  BY RestingFits DEF Started, TypeOK
<1>2. \A u \in Threads : th'[u] = Resting \/ (th'[u] = th[u] /\ u # "main")
  BY DEF Started, TypeOK, Threads
<1>3. LockInv'
  BY <1>2, RestingFits DEF LockInv, Holds
<1>4. CallInv'
  <2> SUFFICES ASSUME NEW u \in Threads PROVE TurnOK(th'[u]) /\ RunOK(th[u])'
    BY DEF CallInv, TurnOK
  <2>1. CASE th'[u] = Resting
    BY <2>1 DEF Resting, TurnOK, RunOK
  <2>2. CASE th'[u] = th[u]
    BY <2>2 DEF CallInv, TurnOK, RunOK, Current, Known, RefOf
  <2> QED BY <1>2, <2>1, <2>2
<1>5. TableInv'
  BY DEF TableInv
<1> QED BY <1>1, <1>3, <1>4, <1>5

\* Starting or pausing the schedulers of a list, one by one.
LEMMA StartEachKeeps ==
  ASSUME SchedulerInv, NEW t \in Threads, StartEach(t)
  PROVE  SchedulerInv'
<1> USE DEF SchedulerInv
<1>1. UNCHANGED <<enabled, secret, edits, made, blocked, paused, offset, execution, owner,
                  clicks, faults>>
  BY DEF StartEach, envVars
<1>2. th \in [Threads -> Calls] /\ execution \in Threads \union {Free}
  BY DEF TypeOK
<1>3. CASE th[t].refs = {} /\ t = "main"
  <2>1. Started /\ UNCHANGED <<schedulers, made>>
    BY <1>3 DEF StartEach
  <2>2. /\ th' \in [Threads -> Calls] /\ stop' \in BOOLEAN
        /\ LockInv' /\ CallInv' /\ TableInv'
    BY <1>1, <1>2, <2>1, StartedKeeps
  <2> QED BY <1>1, <2>1, <2>2 DEF TypeOK
<1>4. CASE th[t].refs = {} /\ t # "main"
  <2>1. th' = [th EXCEPT ![t] = Resting] /\ UNCHANGED <<schedulers, made, stop>>
    BY <1>4 DEF StartEach, Return
  <2>2. /\ th' \in [Threads -> Calls]
        /\ LockInv' /\ CallInv' /\ TableInv'
    BY <1>1, <1>2, <2>1, RestingFits, MoveAloneKeeps
  <2> QED BY <1>1, <2>1, <2>2 DEF TypeOK
<1>5. CASE th[t].refs # {}
  <2>1. PICK r \in th[t].refs :
          /\ \/ schedulers' = schedulers
             \/ /\ Current(r)
                /\ \E d \in {0, Interval} :
                     schedulers' = [schedulers EXCEPT ![r[1]].halted = FALSE, ![r[1]].next = d]
          /\ th' = [th EXCEPT ![t].refs = @ \ {r}]
          /\ UNCHANGED stop
    BY <1>5 DEF StartEach
  <2> DEFINE c == [th[t] EXCEPT !.refs = @ \ {r}]
  <2>2. c \in Calls /\ th' = [th EXCEPT ![t] = c]
    BY <1>2, <2>1 DEF Calls
  <2>3. c.at = "each"
    BY <1>2 DEF StartEach, At, Calls
  <2>4. \A p \in Profiles :
          /\ schedulers'[p] \in Schedulers /\ schedulers'[p].gen = schedulers[p].gen
          /\ schedulers'[p].halted => schedulers[p].halted
          /\ schedulers'[p].halted <=> schedulers'[p].next = Never
    <3>1. CASE schedulers' = schedulers
      BY <3>1 DEF TypeOK, TableInv
    <3>2. CASE schedulers' # schedulers
      <4>1. PICK d \in {0, Interval} :
              schedulers' = [schedulers EXCEPT ![r[1]].halted = FALSE, ![r[1]].next = d]
        BY <2>1, <3>2
      <4>2. r[1] \in Profiles /\ d \in 0 .. MaxWait /\ d # Never
        BY <2>1, <3>2, SchedulerAssumption DEF Current, Known, MaxWait, Never
      <4>3. \A p \in Profiles : schedulers[p] \in Schedulers
        BY DEF TypeOK
      <4>4. \A p \in Profiles : p # r[1] => schedulers'[p] = schedulers[p]
        BY <4>1 DEF TypeOK
      <4>5. schedulers'[r[1]] = [schedulers[r[1]] EXCEPT !.halted = FALSE, !.next = d]
        BY <4>1, <4>2 DEF TypeOK
      <4>6. /\ schedulers'[r[1]] \in Schedulers
            /\ schedulers'[r[1]].gen = schedulers[r[1]].gen
            /\ schedulers'[r[1]].halted = FALSE /\ schedulers'[r[1]].next = d
        BY <4>2, <4>3, <4>5 DEF Schedulers
      <4> QED BY <4>2, <4>3, <4>4, <4>6 DEF TableInv
    <3> QED BY <3>1, <3>2
  <2>5. schedulers' \in [Profiles -> Schedulers]
    <3>1. schedulers' = [p \in Profiles |-> schedulers'[p]]
      BY <2>1 DEF TypeOK
    <3> QED BY <2>4, <3>1
  <2>6. TableInv'
    BY <1>1, <2>4 DEF TableInv
  <2>7. \A u \in Threads \ {t} : RunOK(th[u]) => RunOK(th[u])'
    <3>1. \A u \in Threads \ {t} : th'[u] = th[u]
      BY <1>2, <2>2
    <3> QED BY <1>1, <2>4, <3>1, BystanderKeeps
  <2>8. TurnOK(c) /\ RunOK(th[t])' /\ ~Holds(c)
    <3>1. th'[t] = c
      BY <1>2, <2>2
    <3> QED BY <2>3, <3>1 DEF TurnOK, RunOK, Holds
  <2> HIDE DEF c
  <2>9. th' \in [Threads -> Calls] /\ LockInv' /\ CallInv'
    BY <1>1, <1>2, <2>2, <2>7, <2>8, MoveKeeps
  <2> QED BY <1>1, <2>1, <2>5, <2>6, <2>9 DEF TypeOK
<1> QED BY <1>3, <1>4, <1>5

\* One scheduler of the table changes, by the thread that holds the lock.
LEMMA TableStepKeeps ==
  ASSUME SchedulerInv, NEW p \in Profiles, NEW s \in Schedulers,
         schedulers' = [schedulers EXCEPT ![p] = s],
         s.gen = schedulers[p].gen,
         s.halted <=> s.next = Never,
         UNCHANGED made
  PROVE  /\ schedulers' \in [Profiles -> Schedulers] /\ TableInv'
         /\ \A q \in Profiles : schedulers'[q].gen = schedulers[q].gen
BY DEF SchedulerInv, TypeOK, TableInv

\* Nobody else collects while a thread holds the lock.
LEMMA OthersOutside ==
  ASSUME SchedulerInv, NEW t \in Threads, Holds(th[t])
  PROVE  \A u \in Threads \ {t} :
           /\ ~Holds(th[u]) /\ th[u].at \notin {"read", "sync", "finish"}
           /\ execution # u
BY DEF SchedulerInv, LockInv, Holds

\* The holder of the lock changes the table and moves on.
LEMMA HolderKeeps ==
  ASSUME SchedulerInv, NEW t \in Threads, NEW c \in Calls, Holds(th[t]),
         th' = [th EXCEPT ![t] = c],
         execution' \in {t, Free}, Holds(c) => execution' = t,
         TurnOK(c), RunOK(th[t])',
         \A q \in Profiles : schedulers'[q].gen = schedulers[q].gen,
         UNCHANGED made
  PROVE  /\ th' \in [Threads -> Calls] /\ execution' \in Threads \union {Free}
         /\ LockInv' /\ CallInv'
<1>1. \A u \in Threads \ {t} : th'[u] = th[u]
  BY DEF SchedulerInv, TypeOK
<1>2. \A u \in Threads \ {t} : RunOK(th[u]) => RunOK(th[u])'
  BY <1>1, OthersOutside, BystanderKeeps
<1>3. /\ execution' \in Threads \union {Free}
      /\ \A u \in Threads \ {t} : execution = u => execution' = u
  BY OthersOutside
<1> QED BY <1>2, <1>3, MoveKeeps

LEMMA PauseEachKeeps ==
  ASSUME SchedulerInv, NEW t \in Threads, PauseEach(t)
  PROVE  SchedulerInv'
<1> USE DEF SchedulerInv
<1>1. UNCHANGED <<enabled, secret, edits, made, blocked, paused, offset, owner, clicks, faults>>
  BY DEF PauseEach, envVars
<1>2. /\ th \in [Threads -> Calls] /\ th[t] \in Calls /\ th[t].at = "pauseEach"
      /\ Holds(th[t]) /\ execution = t
  BY DEF TypeOK, PauseEach, At, Holds, LockInv
<1>3. CASE th[t].refs = {}
  <2>1. /\ execution' = Free /\ UNCHANGED <<schedulers, made>>
        /\ \/ Goto(t, "release") /\ UNCHANGED stop
           \/ t = "main" /\ Started
           \/ Return(t) /\ UNCHANGED stop
    BY <1>1, <1>2, <1>3 DEF PauseEach, Unlock
  <2>2. \A u \in Threads \ {t} : execution = u => execution' = u
    BY <1>2
  <2>3. CASE Goto(t, "release") /\ UNCHANGED stop
    <3> DEFINE c == [th[t] EXCEPT !.at = "release"]
    <3>1. c \in Calls /\ c.at = "release" /\ th' = [th EXCEPT ![t] = c]
      BY <1>2, <2>3 DEF Goto, Calls, Labels
    <3>2. TurnOK(c) /\ RunOK(c) /\ ~Holds(c)
      BY <3>1 DEF TurnOK, RunOK, Holds
    <3> HIDE DEF c
    <3>3. /\ th' \in [Threads -> Calls] /\ execution' \in Threads \union {Free}
          /\ LockInv' /\ CallInv' /\ TableInv'
      BY <2>1, <2>2, <3>1, <3>2, MoveAloneKeeps
    <3> QED BY <1>1, <2>1, <2>3, <3>3 DEF TypeOK
  <2>4. CASE t = "main" /\ Started
    <3>1. /\ th' \in [Threads -> Calls] /\ stop' \in BOOLEAN
          /\ LockInv' /\ CallInv' /\ TableInv'
      BY <2>1, <2>2, <2>4, StartedKeeps
    <3> QED BY <1>1, <2>1, <3>1 DEF TypeOK
  <2>5. CASE Return(t) /\ UNCHANGED stop
    <3>1. th' = [th EXCEPT ![t] = Resting]
      BY <2>5 DEF Return
    <3>2. /\ th' \in [Threads -> Calls] /\ execution' \in Threads \union {Free}
          /\ LockInv' /\ CallInv' /\ TableInv'
      BY <2>1, <2>2, <3>1, RestingFits, MoveAloneKeeps
    <3> QED BY <1>1, <2>1, <2>5, <3>2 DEF TypeOK
  <2> QED BY <2>1, <2>3, <2>4, <2>5
<1>4. CASE th[t].refs # {}
  <2>1. PICK r \in th[t].refs :
          /\ \/ schedulers' = schedulers
             \/ /\ Current(r)
                /\ schedulers' =
                     [schedulers EXCEPT ![r[1]].halted = TRUE, ![r[1]].next = Never]
          /\ th' = [th EXCEPT ![t].refs = @ \ {r}]
          /\ UNCHANGED <<execution, stop>>
    BY <1>4 DEF PauseEach
  <2> DEFINE c == [th[t] EXCEPT !.refs = @ \ {r}]
  <2>2. c \in Calls /\ c.at = "pauseEach" /\ th' = [th EXCEPT ![t] = c]
    BY <1>2, <2>1 DEF Calls
  <2>3. /\ schedulers' \in [Profiles -> Schedulers] /\ TableInv'
        /\ \A q \in Profiles : schedulers'[q].gen = schedulers[q].gen
    <3>1. CASE schedulers' = schedulers
      BY <1>1, <3>1 DEF TypeOK, TableInv
    <3>2. CASE schedulers' # schedulers
      <4> DEFINE p == r[1]
      <4> DEFINE s == [schedulers[p] EXCEPT !.halted = TRUE, !.next = Never]
      <4>1. p \in Profiles /\ schedulers' = [schedulers EXCEPT ![p] = s]
        BY <2>1, <3>2 DEF Current, Known, TypeOK
      <4>2. /\ s \in Schedulers /\ s.gen = schedulers[p].gen
            /\ s.halted <=> s.next = Never
        BY <4>1 DEF TypeOK, Schedulers
      <4> HIDE DEF s, p
      <4> QED BY <1>1, <4>1, <4>2, TableStepKeeps
    <3> QED BY <3>1, <3>2
  <2>4. TurnOK(c) /\ RunOK(th[t])'
    <3>1. th'[t] = c
      BY <1>2, <2>2
    <3> QED BY <2>2, <3>1 DEF TurnOK, RunOK
  <2> HIDE DEF c
  <2>5. /\ th' \in [Threads -> Calls] /\ execution' \in Threads \union {Free}
        /\ LockInv' /\ CallInv'
    BY <1>1, <1>2, <2>1, <2>2, <2>3, <2>4, HolderKeeps
  <2> QED BY <1>1, <2>1, <2>3, <2>5 DEF TypeOK
<1> QED BY <1>3, <1>4

\* A collection begins: by tick on a due scheduler, or by run_now.
LEMMA RunBegins ==
  ASSUME SchedulerInv, NEW t \in Threads, NEW p \in Known, Ready(p), Holds(th[t]),
         th[t].op = "tick" => th[t].ids # {},
         schedulers' = [schedulers EXCEPT ![p].running = TRUE],
         th' = [th EXCEPT ![t].at = "read", ![t].cur = RefOf(p)],
         UNCHANGED <<made, execution>>
  PROVE  /\ th' \in [Threads -> Calls] /\ execution' \in Threads \union {Free}
         /\ schedulers' \in [Profiles -> Schedulers]
         /\ LockInv' /\ CallInv' /\ TableInv'
<1> USE DEF SchedulerInv
<1> DEFINE s == [schedulers[p] EXCEPT !.running = TRUE]
<1>1. p \in Profiles /\ RefOf(p) \in Profiles \X Nat /\ ~schedulers[p].halted
  BY RefsTyped DEF Known, Ready
<1>2. schedulers' = [schedulers EXCEPT ![p] = s]
  BY <1>1 DEF TypeOK
<1>3. /\ s \in Schedulers /\ s.gen = schedulers[p].gen /\ s.halted = schedulers[p].halted
      /\ s.next = schedulers[p].next
  BY <1>1 DEF TypeOK, Schedulers
<1>4. /\ schedulers' \in [Profiles -> Schedulers] /\ TableInv'
      /\ \A q \in Profiles : schedulers'[q].gen = schedulers[q].gen
  <2>1. s.halted <=> s.next = Never
    BY <1>1, <1>3 DEF TableInv
  <2> HIDE DEF s
  <2> QED BY <1>1, <1>2, <1>3, <2>1, TableStepKeeps
<1>5. /\ th' = [th EXCEPT ![t] = th'[t]] /\ th'[t] \in Calls
      /\ th'[t].at = "read" /\ th'[t].cur = RefOf(p)
      /\ th'[t].op = th[t].op /\ th'[t].ids = th[t].ids
  <2>1. "read" \in Labels /\ th \in [Threads -> Calls]
    BY DEF TypeOK, Labels
  <2> DEFINE r == RefOf(p)
  <2>2. r \in Profiles \X Nat /\ th' = [th EXCEPT ![t].at = "read", ![t].cur = r]
    BY <1>1
  <2> HIDE DEF r, s, SchedulerInv
  <2>3. /\ th' = [th EXCEPT ![t] = th'[t]] /\ th'[t] \in Calls
        /\ th'[t].at = "read" /\ th'[t].cur = r
        /\ th'[t].op = th[t].op /\ th'[t].ids = th[t].ids
    <3>1. th' = [th EXCEPT ![t] = [th[t] EXCEPT !.at = "read", !.cur = r]]
      BY <2>1, <2>2
    <3>2. th[t] \in Calls /\ th'[t] = [th[t] EXCEPT !.at = "read", !.cur = r]
      BY <2>1, <3>1
    <3>3. /\ [th[t] EXCEPT !.at = "read", !.cur = r] \in Calls
          /\ th'[t].at = "read" /\ th'[t].cur = r
          /\ th'[t].op = th[t].op /\ th'[t].ids = th[t].ids
      BY <2>1, <2>2, <3>2 DEF Calls
    <3> QED BY <3>1, <3>2, <3>3
  <2> QED BY <2>3 DEF r
<1>6. TurnOK(th'[t])
  BY <1>5 DEF TurnOK
<1>7. RunOK(th[t])'
  <2>1. RefOf(p)[1] = p /\ RefOf(p)[2] = schedulers[p].gen
    BY DEF RefOf
  <2>2. schedulers[p].gen <= made'[p] /\ ~schedulers'[p].halted
    BY <1>1, <1>2, <1>3 DEF TypeOK, TableInv
  <2> QED BY <1>1, <1>5, <2>1, <2>2 DEF RunOK
<1>8. execution' = t
  BY DEF LockInv
<1> DEFINE c == th'[t]
<1>9. c \in Calls /\ th' = [th EXCEPT ![t] = c] /\ TurnOK(c)
  BY <1>5, <1>6
<1> HIDE DEF c, s
<1>10. /\ th' \in [Threads -> Calls] /\ execution' \in Threads \union {Free}
       /\ LockInv' /\ CallInv'
  BY <1>4, <1>7, <1>8, <1>9, HolderKeeps
<1> QED BY <1>4, <1>10

\* A thread inside the lock gives up: it frees the lock and rests or dies.
LEMMA LeaveKeeps ==
  ASSUME SchedulerInv, NEW t \in Threads, Holds(th[t]),
         Unlock(t), Return(t) \/ Die(t), UNCHANGED <<schedulers, made>>
  PROVE  /\ th' \in [Threads -> Calls] /\ execution' \in Threads \union {Free}
         /\ LockInv' /\ CallInv' /\ TableInv'
<1>1. execution = t /\ execution' = Free
  BY DEF SchedulerInv, LockInv, Unlock
<1>2. PICK c \in Calls : /\ th' = [th EXCEPT ![t] = c]
                         /\ TurnOK(c) /\ RunOK(c) /\ ~Holds(c)
  <2>1. CASE Return(t)
    BY <2>1, RestingFits DEF Return
  <2>2. CASE Die(t)
    <3> DEFINE c == [Resting EXCEPT !.at = "dead"]
    <3>1. c \in Calls /\ c.at = "dead"
      BY RestingFits DEF Calls, Labels
    <3>2. TurnOK(c) /\ RunOK(c) /\ ~Holds(c)
      BY <3>1 DEF TurnOK, RunOK, Holds
    <3>3. th' = [th EXCEPT ![t] = c]
      BY <2>2 DEF Die
    <3> HIDE DEF c
    <3> QED BY <3>1, <3>2, <3>3
  <2> QED BY <2>1, <2>2
<1>3. \A u \in Threads \ {t} : execution = u => execution' = u
  BY <1>1
<1> QED BY <1>1, <1>2, <1>3, MoveAloneKeeps

LEMMA TickNextKeeps ==
  ASSUME SchedulerInv, TickNext
  PROVE  SchedulerInv'
<1> USE DEF SchedulerInv
<1> DEFINE p == NextInTurn(th["loop"].ids, th["loop"].todo)
<1>1. UNCHANGED <<enabled, secret, edits, made, blocked, paused, offset, stop, owner, clicks,
                  faults>>
  BY DEF TickNext, envVars, runVars
<1>2. /\ "loop" \in Threads /\ th["loop"] \in Calls /\ th["loop"].at = "pick"
      /\ Holds(th["loop"]) /\ execution = "loop"
      /\ th["loop"].op = "tick" => th["loop"].ids # {}
  BY DEF TypeOK, TickNext, At, Holds, LockInv, CallInv, TurnOK, Threads
<1>3. \/ Unlock("loop") /\ (Return("loop") \/ Die("loop")) /\ UNCHANGED schedulers
      \/ /\ p \in Known /\ Ready(p)
         /\ schedulers' = [schedulers EXCEPT ![p].running = TRUE]
         /\ th' = [th EXCEPT !["loop"].at = "read", !["loop"].cur = RefOf(p)]
         /\ UNCHANGED execution
      \/ /\ th' = [th EXCEPT !["loop"].todo = @ \ {p}]
         /\ UNCHANGED <<schedulers, execution>>
  BY DEF TickNext
<1>4. /\ th' \in [Threads -> Calls] /\ execution' \in Threads \union {Free}
      /\ schedulers' \in [Profiles -> Schedulers]
      /\ LockInv' /\ CallInv' /\ TableInv'
  <2>1. CASE Unlock("loop") /\ (Return("loop") \/ Die("loop")) /\ UNCHANGED schedulers
    <3>1. /\ th' \in [Threads -> Calls] /\ execution' \in Threads \union {Free}
          /\ LockInv' /\ CallInv' /\ TableInv'
      BY <1>1, <1>2, <2>1, LeaveKeeps
    <3> QED BY <2>1, <3>1 DEF TypeOK
  <2>2. CASE /\ p \in Known /\ Ready(p)
             /\ schedulers' = [schedulers EXCEPT ![p].running = TRUE]
             /\ th' = [th EXCEPT !["loop"].at = "read", !["loop"].cur = RefOf(p)]
             /\ UNCHANGED execution
    <3> HIDE DEF p
    <3> QED BY <1>1, <1>2, <2>2, RunBegins
  <2>3. CASE /\ th' = [th EXCEPT !["loop"].todo = @ \ {p}]
             /\ UNCHANGED <<schedulers, execution>>
    <3> DEFINE c == [th["loop"] EXCEPT !.todo = @ \ {p}]
    <3> HIDE DEF p
    <3>1. c \in Calls /\ th' = [th EXCEPT !["loop"] = c]
      BY <1>2, <2>3 DEF Calls
    <3>2. c.at = "pick" /\ c.op = th["loop"].op /\ c.ids = th["loop"].ids
      BY <1>2 DEF Calls
    <3>3. TurnOK(c) /\ RunOK(c)
      BY <1>2, <3>2 DEF TurnOK, RunOK
    <3> HIDE DEF c
    <3>4. /\ th' \in [Threads -> Calls] /\ execution' \in Threads \union {Free}
          /\ LockInv' /\ CallInv' /\ TableInv'
      <4>1. UNCHANGED <<schedulers, made>> /\ execution' = "loop" /\ execution = "loop"
        BY <1>1, <1>2, <2>3
      <4>2. execution' \in Threads \union {Free}
        BY <1>2, <4>1
      <4> QED BY <1>2, <3>1, <3>3, <4>1, <4>2, MoveAloneKeeps
    <3> QED BY <2>3, <3>4 DEF TypeOK
  <2> HIDE DEF p
  <2> QED BY <1>3, <2>1, <2>2, <2>3
<1> QED BY <1>1, <1>4 DEF TypeOK

LEMMA RunNowKeeps ==
  ASSUME SchedulerInv, NEW t \in Threads, RunNow(t)
  PROVE  SchedulerInv'
<1> USE DEF SchedulerInv
<1>1. UNCHANGED <<enabled, secret, edits, made, blocked, paused, offset, stop, owner, clicks,
                  faults>>
  BY DEF RunNow, envVars, runVars
<1>2. /\ th[t] \in Calls /\ th[t].at = "run" /\ Holds(th[t]) /\ execution = t
      /\ th[t].op # "tick"
  BY DEF TypeOK, RunNow, At, Holds, LockInv, CallInv, TurnOK
<1>3. CASE ~(Current(th[t].cur) /\ Ready(th[t].cur[1]))
  <2>1. Unlock(t) /\ Return(t) /\ UNCHANGED schedulers
    BY <1>3 DEF RunNow
  <2>2. /\ th' \in [Threads -> Calls] /\ execution' \in Threads \union {Free}
        /\ LockInv' /\ CallInv' /\ TableInv'
    BY <1>1, <1>2, <2>1, LeaveKeeps
  <2> QED BY <1>1, <2>1, <2>2 DEF TypeOK
<1>4. CASE Current(th[t].cur) /\ Ready(th[t].cur[1])
  <2> DEFINE p == th[t].cur[1]
  <2>1. p \in Known /\ RefOf(p) = th[t].cur /\ Ready(p)
    BY <1>4 DEF Current
  <2>2. /\ schedulers' = [schedulers EXCEPT ![p].running = TRUE]
        /\ th' = [th EXCEPT ![t].at = "read"]
        /\ UNCHANGED execution
    BY <1>4 DEF RunNow, Goto
  <2>3. th' = [th EXCEPT ![t].at = "read", ![t].cur = RefOf(p)]
    <3>1. [th[t] EXCEPT !.at = "read"] = [th[t] EXCEPT !.at = "read", !.cur = RefOf(p)]
      BY <1>2, <2>1 DEF Calls
    <3> QED BY <2>1, <2>2, <3>1 DEF TypeOK
  <2> HIDE DEF p
  <2>4. /\ th' \in [Threads -> Calls] /\ execution' \in Threads \union {Free}
        /\ schedulers' \in [Profiles -> Schedulers]
        /\ LockInv' /\ CallInv' /\ TableInv'
    BY <1>1, <1>2, <2>1, <2>2, <2>3, RunBegins
  <2> QED BY <1>1, <2>4 DEF TypeOK
<1> QED BY <1>3, <1>4

\* The backoff: a delay never exceeds the cap, and never misses a deadline.
LEMMA BackoffBounded ==
  ASSUME NEW d \in 0 .. BackoffMax
  PROVE  /\ RawDelay(d) \in 0 .. BackoffMax
         /\ Delays(RawDelay(d)) \subseteq 0 .. MaxWait
<1>1. RawDelay(d) \in 0 .. BackoffMax
  BY SchedulerAssumption DEF RawDelay, Lower
<1>2. \A r \in 0 .. BackoffMax : Delays(r) \subseteq 0 .. MaxWait
  BY SchedulerAssumption DEF Delays, Lower, MaxWait
<1> QED BY <1>1, <1>2

LEMMA RunResultsFit ==
  ASSUME NEW s \in Schedulers, NEW o \in Outcomes, NEW r \in RunResults(s, o),
         ~s.halted
  PROVE  r \in Schedulers /\ r.gen = s.gen /\ (r.halted <=> r.next = Never)
<1>1. s.delay \in 0 .. BackoffMax
  BY DEF Schedulers
<1>2. Interval \in 0 .. MaxWait /\ Interval # Never /\ 0 \in 0 .. BackoffMax
  BY SchedulerAssumption DEF MaxWait, Never
<1>3. CASE o \in {"success", "partial"}
  <2>1. r = [s EXCEPT !.running = FALSE, !.next = Interval, !.delay = 0]
    BY <1>3 DEF RunResults
  <2> QED BY <1>2, <2>1 DEF Schedulers
<1>4. CASE o = "auth"
  <2>1. r = [s EXCEPT !.running = FALSE, !.next = Never, !.halted = TRUE]
    BY <1>4 DEF RunResults
  <2> QED BY <2>1 DEF Schedulers
<1>5. CASE o = "retryable"
  <2>1. PICK n \in Delays(RawDelay(s.delay)) :
          r = [s EXCEPT !.running = FALSE, !.next = n, !.delay = RawDelay(s.delay)]
    BY <1>5 DEF RunResults
  <2>2. n \in 0 .. MaxWait /\ n # Never /\ RawDelay(s.delay) \in 0 .. BackoffMax
    BY <1>1, BackoffBounded DEF Never
  <2> HIDE DEF Never, MaxWait
  <2> QED BY <2>1, <2>2 DEF Schedulers
<1> QED BY <1>3, <1>4, <1>5 DEF Outcomes

LEMMA TurnIsNat ==
  ASSUME SchedulerInv, NEW t \in Threads, th[t].at = "finish"
  PROVE  TurnAfter(t) \in Nat
<1> USE DEF SchedulerInv
<1>1. CASE th[t].op # "tick"
  BY <1>1 DEF TurnAfter, TypeOK
<1>2. CASE th[t].op = "tick"
  <2> DEFINE ids == th[t].ids
  <2> DEFINE before == {q \in ids : q < th[t].cur[1]}
  <2>1. ids # {} /\ ids \subseteq Profiles
    BY <1>2 DEF CallInv, TurnOK, TypeOK, Calls
  <2>2. IsFiniteSet(ids)
    BY <2>1, SchedulerAssumption, FS_Subset
  <2>3. Cardinality(ids) \in Nat /\ Cardinality(ids) # 0
    BY <2>1, <2>2, FS_CardinalityType, FS_EmptySet
  <2>4. Cardinality(before) \in Nat
    BY <2>2, FS_Subset, FS_CardinalityType
  <2>5. TurnAfter(t) = (Cardinality(before) + 1) % Cardinality(ids)
    BY <1>2 DEF TurnAfter, Position
  <2> QED BY <2>3, <2>4, <2>5
<1> QED BY <1>1, <1>2

LEMMA CollectFinishKeeps ==
  ASSUME SchedulerInv, NEW t \in Threads, CollectFinish(t)
  PROVE  SchedulerInv'
<1> USE DEF SchedulerInv
<1> DEFINE p == th[t].cur[1]
<1>1. UNCHANGED <<enabled, secret, edits, made, blocked, paused, stop, owner, clicks, faults>>
  BY DEF CollectFinish, envVars, runVars
<1>2. /\ th[t] \in Calls /\ th[t].at = "finish" /\ Holds(th[t]) /\ execution = t
      /\ RunOK(th[t])
  BY DEF TypeOK, CollectFinish, At, Holds, LockInv, CallInv
<1>3. offset' \in Nat
  BY <1>2, TurnIsNat DEF CollectFinish
<1>4. /\ schedulers' \in [Profiles -> Schedulers] /\ TableInv'
      /\ \A q \in Profiles : schedulers'[q].gen = schedulers[q].gen
  <2>1. CASE ~Current(th[t].cur)
    <3>1. UNCHANGED schedulers
      BY <2>1 DEF CollectFinish
    <3> QED BY <1>1, <3>1 DEF TypeOK, TableInv
  <2>2. CASE Current(th[t].cur)
    <3>1. PICK s \in RunResults(schedulers[p], th[t].outcome) :
            schedulers' = [schedulers EXCEPT ![p] = s]
      BY <2>2 DEF CollectFinish
    <3>2. p \in Profiles /\ schedulers[p] \in Schedulers /\ ~schedulers[p].halted
      BY <1>2, <2>2 DEF RunOK, TypeOK
    <3>3. th[t].outcome \in Outcomes
      BY <1>2 DEF Calls
    <3> HIDE DEF p
    <3>4. s \in Schedulers /\ s.gen = schedulers[p].gen /\ (s.halted <=> s.next = Never)
      BY <3>1, <3>2, <3>3, RunResultsFit
    <3> QED BY <1>1, <3>1, <3>2, <3>4, TableStepKeeps
  <2> QED BY <2>1, <2>2
<1>5. th' = [th EXCEPT ![t] = Resting] /\ execution' = Free
  BY <1>2 DEF CollectFinish, Return, Unlock
<1>6. RunOK(th[t])'
  <2>1. th'[t] = Resting
    BY <1>5 DEF TypeOK
  <2> QED BY <2>1 DEF RunOK, Resting
<1>7. /\ th' \in [Threads -> Calls] /\ execution' \in Threads \union {Free}
      /\ LockInv' /\ CallInv'
  BY <1>1, <1>2, <1>4, <1>5, <1>6, RestingFits, HolderKeeps
<1> QED BY <1>1, <1>3, <1>4, <1>7 DEF TypeOK

\* Time only brings deadlines nearer.
LEMMA TimeKeeps ==
  ASSUME SchedulerInv, Time
  PROVE  SchedulerInv'
<1> USE DEF SchedulerInv
<1>1. UNCHANGED <<enabled, secret, edits, made, blocked, paused, offset, execution, stop, owner,
                  th, clicks, faults>>
  BY DEF Time, envVars, runVars
<1>2. ASSUME NEW p \in Profiles
      PROVE  /\ schedulers'[p] \in Schedulers /\ schedulers'[p].gen = schedulers[p].gen
             /\ schedulers'[p].halted = schedulers[p].halted
             /\ schedulers'[p].next = Never <=> schedulers[p].next = Never
  <2>1. schedulers[p] \in Schedulers
    BY DEF TypeOK
  <2>2. schedulers'[p] = [schedulers[p] EXCEPT !.next = IF @ > 0 THEN @ - 1 ELSE @]
    BY DEF Time
  <2>3. schedulers[p].next \in {Never} \union (0 .. MaxWait) /\ MaxWait \in Nat
    BY <2>1, SchedulerAssumption DEF Schedulers, MaxWait
  <2> HIDE DEF MaxWait
  <2> QED BY <2>1, <2>2, <2>3 DEF Schedulers, Never
<1>3. schedulers' \in [Profiles -> Schedulers]
  BY <1>2 DEF Time
<1>4. TableInv'
  BY <1>1, <1>2 DEF TableInv
<1>5. LockInv'
  BY <1>1 DEF LockInv, Holds
<1>6. CallInv'
  <2> SUFFICES ASSUME NEW u \in Threads PROVE TurnOK(th[u])' /\ RunOK(th[u])'
    BY DEF CallInv
  <2>1. TurnOK(th[u]) /\ RunOK(th[u]) /\ th'[u] = th[u]
    BY <1>1 DEF CallInv
  <2>2. RunOK(th[u])'
    BY <1>1, <1>2, <2>1, BystanderKeeps
  <2> QED BY <2>1, <2>2 DEF TurnOK
<1> QED BY <1>1, <1>3, <1>4, <1>5, <1>6 DEF TypeOK

LEMMA EditKeeps ==
  ASSUME SchedulerInv,
         \E p \in Profiles : EditProfile(p) \/ \E s \in Secrets : EditSecret(p, s)
  PROVE  SchedulerInv'
<1> USE DEF SchedulerInv
<1>1. UNCHANGED <<schedulers, made, blocked, paused, offset, execution, stop, owner, th, clicks,
                  faults>>
  BY DEF EditProfile, EditSecret, coordVars, runVars
<1>2. enabled' \subseteq Profiles /\ secret' \in [Profiles -> Secrets]
  BY DEF EditProfile, EditSecret, TypeOK
<1>3. edits' \in 0 .. MaxEdits
  <2>1. edits \in 0 .. MaxEdits /\ edits < MaxEdits /\ edits' = edits + 1
    BY DEF EditProfile, EditSecret, TypeOK
  <2> QED BY <2>1, SchedulerAssumption
<1>4. TypeOK'
  BY <1>1, <1>2, <1>3 DEF TypeOK
<1>5. LockInv' /\ CallInv' /\ TableInv'
  BY <1>1 DEF LockInv, Holds, CallInv, TurnOK, RunOK, TableInv, Current, Known, RefOf
<1> QED BY <1>4, <1>5

LEMMA StutterKeeps == SchedulerInv /\ UNCHANGED vars => SchedulerInv'
BY DEF SchedulerInv, TypeOK, LockInv, Holds, CallInv, TurnOK, RunOK, TableInv, Current, Known,
       RefOf, vars, envVars, coordVars, runVars

LEMMA NextKeeps == SchedulerInv /\ [Next]_vars => SchedulerInv'
<1> SUFFICES ASSUME SchedulerInv, [Next]_vars PROVE SchedulerInv'
  OBVIOUS
<1>1. {"main", "loop", "tray"} \subseteq Threads
  BY DEF Threads
<1>2. CASE BeginStart \/ Poll \/ TickCheck \/ TogglePause \/ SyncNow({})
             \/ \E p \in Profiles : SyncNow({p})
  <2>1. \E t \in Threads :
          \/ BeginStart /\ t = "main"
          \/ Poll /\ t = "loop"
          \/ TickCheck /\ t = "loop"
          \/ TogglePause /\ t = "tray"
          \/ (SyncNow({}) \/ \E p \in Profiles : SyncNow({p})) /\ t = "tray"
    BY <1>1, <1>2
  <2> QED BY <2>1, OutsideKeeps
<1>3. CASE TickNext \/ Time
  BY <1>3, TickNextKeeps, TimeKeeps
<1>4. CASE \E p \in Profiles : EditProfile(p) \/ \E s \in Secrets : EditSecret(p, s)
  BY <1>4, EditKeeps
<1>5. ASSUME NEW t \in Threads, Call(t)
      PROVE  SchedulerInv'
  BY <1>5, OutsideKeeps, RefreshKeeps, OpenKeeps, StartEachKeeps, PauseEachKeeps, SelectKeeps,
     RunNowKeeps, CollectKeeps, CollectFinishKeeps DEF Call
<1>6. ASSUME NEW t \in Threads, PauseLock(t) \/ ListFails(t) \/ Exit(t)
      PROVE  SchedulerInv'
  BY <1>6, OutsideKeeps, PauseLockKeeps
<1> QED BY <1>2, <1>3, <1>4, <1>5, <1>6, StutterKeeps DEF Next

THEOREM SchedulerInvariant == Spec => []SchedulerInv
<1>1. Init => SchedulerInv
  BY InitSchedulerInv
<1>2. SchedulerInv /\ [Next]_vars => SchedulerInv'
  BY NextKeeps
<1> QED BY <1>1, <1>2, PTL DEF Spec

\* The tables, the locks and the threads' calls keep their types.
THEOREM SchedulerTypeCorrect == Spec => []TypeOK
<1>1. SchedulerInv => TypeOK
  BY DEF SchedulerInv
<1> QED BY <1>1, SchedulerInvariant, PTL

\* Manual and background collections never overlap: both hold the execution
\* lock from before the choice of the profile to after the end of _run.
THEOREM CollectionsNeverOverlap == Spec => []OneCollection
<1>1. SchedulerInv => OneCollection
  BY DEF SchedulerInv, LockInv, Holds, OneCollection, Collecting
<1> QED BY <1>1, SchedulerInvariant, PTL

\* A scheduler has a deadline exactly when it is not paused, so that resume
\* never skips one that is paused: pause waits for the collection under way,
\* whose end would give the paused scheduler a new deadline.
THEOREM DeadlinesFollowPause == Spec => []DeadlineUnlessPaused
<1>1. SchedulerInv => DeadlineUnlessPaused
  BY DEF SchedulerInv, TableInv, DeadlineUnlessPaused, Known
<1> QED BY <1>1, SchedulerInvariant, PTL

----------------------------------------------------------------------------
\* The stages of each operation, and the thread that runs it.
Stages(op) ==
  CASE op \in {"start", "resume"} -> {"list", "refresh", "open", "each"}
    [] op = "tick"    -> {"check", "acquire", "list", "refresh", "select", "pick",
                          "read", "sync", "finish"}
    [] op = "run_now" -> {"acquire", "list", "refresh", "select", "run",
                          "read", "sync", "finish"}
    [] op = "pause"   -> {"pauseLock", "pauseEach"}
    [] op = "exit"    -> {"pauseLock", "pauseEach", "release", "gone"}
    [] OTHER          -> {"idle", "unborn", "dead", "begin"}
OpsOf(t) ==
  CASE t = "main" -> {"none", "start", "pause", "exit"}
    [] t = "loop" -> {"none", "tick"}
    [] OTHER      -> {"none", "run_now", "resume", "pause", "exit"}

StageInv == \A t \in Threads : th[t].op \in OpsOf(t) /\ th[t].at \in Stages(th[t].op)

Opening(t) == th[t].op \in {"start", "resume"}
Exiting(t) == th[t].op = "exit" /\ th[t].at # "pauseLock"

\* Nobody else acts while the program starts; one thread shuts it down.
TurnsInv ==
  /\ At("main", "begin") \/ th["main"].op \in {"start", "pause"} => At("loop", "unborn")
  /\ At("loop", "unborn") => th["tray"].op = "none" /\ th["main"].op # "exit"
  /\ th["tray"].op \in {"run_now", "resume", "pause"} => clicks > 0
  /\ \A t \in Threads : th[t].op = "exit" => t \in Exits
  /\ ~owner => \E t \in Threads : At(t, "gone")

\* A start or resume finds monitoring paused and turns it on; a shutdown
\* leaves it paused.
PausedInv ==
  /\ At("main", "begin") => paused
  /\ \A t \in Threads : /\ Opening(t) => (paused <=> th[t].at # "each")
                        /\ Exiting(t) => paused

\* While monitoring is paused every scheduler is, but those pause has still to reach.
HaltedInv ==
  paused => \A p \in Known : \/ schedulers[p].halted
                             \/ \E t \in Threads : At(t, "pauseEach") /\ RefOf(p) \in th[t].refs

\* A collection runs while monitoring is on, for a scheduler of the table,
\* whose profile is blocked when and only when it failed to authenticate.
RunsInv ==
  \A t \in Collecting :
    /\ ~paused /\ Current(th[t].cur) /\ schedulers[th[t].cur[1]].running
    /\ th[t].at # "finish" \/ th[t].outcome # "auth" => th[t].cur[1] \notin blocked

BlockedInv == \A p \in blocked \intersect Known : schedulers[p].halted \/ schedulers[p].running

\* The schedulers that a start or resume has still to start are paused and
\* not blocked.
RefsInv ==
  \A t \in Threads : At(t, "each") =>
    \A r \in th[t].refs : /\ r[2] <= made[r[1]]
                          /\ Current(r) => schedulers[r[1]].halted /\ r[1] \notin blocked

MonitorInv ==
  /\ StageInv /\ TurnsInv /\ PausedInv
  /\ HaltedInv /\ RunsInv /\ BlockedInv /\ RefsInv

LEMMA InitMonitorInv == Init => MonitorInv
<1> SUFFICES ASSUME Init PROVE MonitorInv OBVIOUS
<1>1. \A t \in Threads : /\ th[t].op = "none" /\ th[t].refs = {}
                         /\ th[t].at = CASE t = "main" -> "begin" [] t = "loop" -> "unborn"
                                         [] OTHER -> "idle"
  BY DEF Init, Resting
<1>2. StageInv
  BY <1>1 DEF StageInv, Stages, OpsOf, Threads
<1>3. TurnsInv
  BY <1>1 DEF TurnsInv, At, Threads, Init
<1>4. PausedInv
  BY <1>1 DEF PausedInv, Opening, Exiting, Init
<1>5. Known = {} /\ Collecting = {}
  BY <1>1 DEF Known, Collecting, Init, NoScheduler, Threads
<1>6. HaltedInv /\ RunsInv /\ BlockedInv /\ RefsInv
  BY <1>1, <1>5 DEF HaltedInv, RunsInv, BlockedInv, RefsInv, At, Threads
<1> QED BY <1>2, <1>3, <1>4, <1>6 DEF MonitorInv

\* What the stage of a thread says of its operation.
LEMMA StagesOfOps ==
  ASSUME StageInv, NEW t \in Threads
  PROVE  /\ th[t].at \in {"each", "open"} => Opening(t)
         /\ th[t].at \in {"list", "refresh"} => Opening(t) \/ th[t].op \in {"tick", "run_now"}
         /\ th[t].at \in {"pauseLock", "pauseEach"} => th[t].op \in {"pause", "exit"}
         /\ th[t].at \in {"release", "gone"} => th[t].op = "exit"
         /\ th[t].at \in {"idle", "unborn", "dead", "begin"} <=> th[t].op = "none"
         /\ t \in Collecting => th[t].op \in {"tick", "run_now"}
BY DEF StageInv, Stages, OpsOf, Opening, Collecting, Threads

\* One thread moves, inside its operation, into one or out of one.
LEMMA TurnsKeep ==
  ASSUME StageInv, TurnsInv, TypeOK, NEW t \in Threads, NEW c \in Calls,
         th' = [th EXCEPT ![t] = c],
         c.op \in OpsOf(t), c.at \in Stages(c.op), c.at \notin {"begin", "unborn"},
         th[t].at \notin {"unborn", "gone"}, owner' = owner \/ c.at = "gone",
         clicks' \in Nat, clicks' >= clicks,
         \/ c.op = th[t].op
         \/ c.op = "none"
         \/ /\ th[t].op = "none" /\ ~At("loop", "unborn")
            /\ c.op = "exit" => t \in Exits
            /\ t = "tray" /\ c.op # "exit" => clicks' > 0
            /\ t = "main" => c.op \notin {"start", "pause"}
         \/ t = "main" /\ th[t].at = "begin" /\ c.op \in {"start", "pause"}
  PROVE  StageInv' /\ TurnsInv'
<1>1. th'[t] = c /\ \A u \in Threads \ {t} : th'[u] = th[u]
  BY DEF TypeOK
<1>2. StageInv'
  BY <1>1 DEF StageInv
<1>3. TurnsInv'
  <2>0. /\ "main" \in Threads /\ "loop" \in Threads /\ "tray" \in Threads
        /\ c.op # "none" => c.at # "begin" /\ c.at # "unborn"
        /\ At("loop", "unborn") => t # "loop"
        /\ At("loop", "unborn")' <=> At("loop", "unborn")
    BY <1>1 DEF At, Threads
  <2>1. (At("main", "begin") \/ th["main"].op \in {"start", "pause"} => At("loop", "unborn"))'
    <3>1. CASE t = "main"
      <4>1. c.op \in {"start", "pause"} => th[t].op = c.op \/ th[t].at = "begin"
        BY <3>1
      <4> QED BY <1>1, <2>0, <3>1, <4>1 DEF TurnsInv, At
    <3>2. CASE t # "main"
      BY <1>1, <2>0, <3>2 DEF TurnsInv, At
    <3> QED BY <3>1, <3>2
  <2>2. (At("loop", "unborn") => th["tray"].op = "none" /\ th["main"].op # "exit")'
    <3> SUFFICES ASSUME At("loop", "unborn")
                 PROVE  th'["tray"].op = "none" /\ th'["main"].op # "exit"
      BY <2>0
    <3>1. th["tray"].op = "none" /\ th["main"].op # "exit"
      BY DEF TurnsInv
    <3> QED BY <1>1, <2>0, <3>1
  <2>5. (th["tray"].op \in {"run_now", "resume", "pause"} => clicks > 0)'
    <3>1. CASE t # "tray"
      BY <1>1, <2>0, <3>1 DEF TurnsInv, TypeOK
    <3>2. CASE t = "tray" /\ c.op = th[t].op
      BY <1>1, <3>2 DEF TurnsInv, TypeOK
    <3>3. CASE t = "tray" /\ c.op # th[t].op
      BY <1>1, <3>3
    <3> QED BY <3>1, <3>2, <3>3
  <2>3. (\A u \in Threads : th[u].op = "exit" => u \in Exits)'
    BY <1>1 DEF TurnsInv, StageInv, Stages, OpsOf, At, Threads
  <2>4. (~owner => \E u \in Threads : At(u, "gone"))'
    BY <1>1 DEF TurnsInv, At
  <2> QED BY <2>1, <2>2, <2>3, <2>4, <2>5 DEF TurnsInv
<1> QED BY <1>2, <1>3

\* ... and monitoring stays on or paused as the operation needs it.
LEMMA PhasesKeep ==
  ASSUME StageInv, TurnsInv, PausedInv, TypeOK, NEW t \in Threads, NEW c \in Calls,
         th' = [th EXCEPT ![t] = c],
         c.op \in OpsOf(t), c.at \in Stages(c.op), c.at \notin {"begin", "unborn"},
         th[t].at \notin {"unborn", "gone"}, UNCHANGED <<owner, paused>>,
         clicks' \in Nat, clicks' >= clicks,
         c.op \in {"start", "resume"} => (paused <=> c.at # "each"),
         c.op = "exit" /\ c.at # "pauseLock" => paused,
         \/ c.op = th[t].op
         \/ c.op = "none"
         \/ /\ th[t].op = "none" /\ ~At("loop", "unborn")
            /\ c.op = "exit" => t \in Exits
            /\ t = "tray" /\ c.op # "exit" => clicks' > 0
            /\ t = "main" => c.op \notin {"start", "pause"}
         \/ t = "main" /\ th[t].at = "begin" /\ c.op \in {"start", "pause"}
  PROVE  StageInv' /\ TurnsInv' /\ PausedInv'
<1>1. th'[t] = c /\ \A u \in Threads \ {t} : th'[u] = th[u]
  BY DEF TypeOK
<1>2. PausedInv'
  BY <1>1 DEF PausedInv, Opening, Exiting, At, Threads
<1>3. StageInv' /\ TurnsInv'
  BY TurnsKeep
<1> QED BY <1>2, <1>3

\* A thread moves and leaves the schedulers alone.
LEMMA QuietKeeps ==
  ASSUME HaltedInv, RunsInv, BlockedInv, RefsInv, TypeOK, NEW t \in Threads, NEW c \in Calls,
         th' = [th EXCEPT ![t] = c],
         c.at \notin {"read", "sync", "finish", "each"},
         th[t].at # "pauseEach" \/ th[t].refs = {},
         UNCHANGED <<schedulers, made, blocked, paused>>
  PROVE  HaltedInv' /\ RunsInv' /\ BlockedInv' /\ RefsInv'
<1>1. th'[t] = c /\ \A u \in Threads \ {t} : th'[u] = th[u]
  BY DEF TypeOK
<1>2. Known' = Known /\ \A p \in Profiles : RefOf(p)' = RefOf(p)
  BY DEF Known, RefOf
<1>3. HaltedInv'
  BY <1>1, <1>2 DEF HaltedInv, At, Known
<1>4. RunsInv'
  BY <1>1, <1>2 DEF RunsInv, Collecting, Current, Known
<1>5. BlockedInv'
  BY <1>2 DEF BlockedInv
<1>6. RefsInv'
  BY <1>1, <1>2 DEF RefsInv, At, Current, Known
<1> QED BY <1>3, <1>4, <1>5, <1>6

\* A thread that rests or dies.
LEMMA LeaveCalls ==
  /\ Resting \in Calls /\ Resting.op = "none" /\ Resting.at = "idle"
  /\ [Resting EXCEPT !.at = "dead"] \in Calls
  /\ [Resting EXCEPT !.at = "dead"].op = "none" /\ [Resting EXCEPT !.at = "dead"].at = "dead"
BY DEF Resting, Calls, Labels, Ops, NoRef, Secrets, Outcomes

LEMMA LeaveMonitored ==
  ASSUME SchedulerInv, MonitorInv, NEW t \in Threads, Return(t) \/ Die(t),
         th[t].at \notin {"unborn", "gone"}, th[t].at # "pauseEach" \/ th[t].refs = {},
         UNCHANGED <<owner, coordVars, clicks>>
  PROVE  MonitorInv'
<1>1. PICK c \in Calls : /\ th' = [th EXCEPT ![t] = c]
                         /\ c.op = "none" /\ c.at \in {"idle", "dead"}
  BY LeaveCalls DEF Return, Die
<1>2. c.op \in OpsOf(t) /\ c.at \in Stages(c.op)
  BY <1>1 DEF OpsOf, Stages, Threads
<1>3. TypeOK /\ clicks' \in Nat /\ clicks' >= clicks
  BY DEF SchedulerInv, TypeOK
<1>4. UNCHANGED <<schedulers, made, blocked, paused, owner>>
  BY DEF coordVars
<1>5. StageInv' /\ TurnsInv' /\ PausedInv'
  BY <1>1, <1>2, <1>3, <1>4, PhasesKeep DEF MonitorInv
<1>6. HaltedInv' /\ RunsInv' /\ BlockedInv' /\ RefsInv'
  BY <1>1, <1>3, <1>4, QuietKeeps DEF MonitorInv
<1> QED BY <1>5, <1>6 DEF MonitorInv

\* A thread goes on to another stage of its operation, or begins one.
LEMMA GoMonitored ==
  ASSUME SchedulerInv, MonitorInv, NEW t \in Threads, NEW c \in Calls,
         th' = [th EXCEPT ![t] = c],
         c.op \in OpsOf(t), c.at \in Stages(c.op), c.op # "none",
         c.at \notin {"read", "sync", "finish", "each", "pauseEach", "release", "gone"},
         th[t].at \notin {"unborn", "gone", "pauseEach"},
         c.op \in {"start", "resume"} => paused,
         \/ c.op = th[t].op
         \/ /\ th[t].op = "none" /\ ~At("loop", "unborn")
            /\ c.op = "exit" => t \in Exits
            /\ t = "tray" /\ c.op # "exit" => clicks' > 0
            /\ t = "main" => c.op \notin {"start", "pause"}
         \/ t = "main" /\ th[t].at = "begin" /\ c.op \in {"start", "pause"},
         UNCHANGED <<owner, coordVars>>, clicks' \in {clicks, clicks + 1}
  PROVE  MonitorInv'
<1>1. c.at \notin {"begin", "unborn"}
  BY DEF Stages, OpsOf, Threads
<1>2. TypeOK /\ clicks' \in Nat /\ clicks' >= clicks
  BY DEF SchedulerInv, TypeOK
<1>3. UNCHANGED <<schedulers, made, blocked, paused, owner>>
  BY DEF coordVars
<1>4. c.op = "exit" => c.at = "pauseLock"
  BY DEF Stages
<1>5. StageInv' /\ TurnsInv' /\ PausedInv'
  BY <1>1, <1>2, <1>3, <1>4, PhasesKeep DEF MonitorInv
<1>6. HaltedInv' /\ RunsInv' /\ BlockedInv' /\ RefsInv'
  BY <1>2, <1>3, QuietKeeps DEF MonitorInv
<1> QED BY <1>5, <1>6 DEF MonitorInv

\* Nothing that the invariant speaks of changes, but for the clicks.
LEMMA SameMonitored ==
  ASSUME SchedulerInv, MonitorInv,
         UNCHANGED <<th, owner, coordVars>>, clicks' \in {clicks, clicks + 1}
  PROVE  MonitorInv'
<1> USE DEF MonitorInv, coordVars
<1>1. clicks \in Nat
  BY DEF SchedulerInv, TypeOK
<1>2. Known' = Known /\ Collecting' = Collecting /\ \A p \in Profiles : RefOf(p)' = RefOf(p)
  BY DEF Known, Collecting, RefOf
<1>3. StageInv' /\ PausedInv'
  BY DEF StageInv, PausedInv, Opening, Exiting, At
<1>4. TurnsInv'
  BY <1>1 DEF TurnsInv, At
<1>5. HaltedInv' /\ BlockedInv'
  BY <1>2 DEF HaltedInv, BlockedInv, At, Known
<1>6. RunsInv' /\ RefsInv'
  BY <1>2 DEF RunsInv, RefsInv, At, Current, Known
<1> QED BY <1>3, <1>4, <1>5, <1>6

\* The calls before the lock: polls, clicks, the shutdown.
LEMMA EnterMonitored ==
  ASSUME SchedulerInv, MonitorInv, NEW t \in Threads,
         \/ BeginStart /\ t = "main"
         \/ Poll /\ t = "loop"
         \/ TogglePause /\ t = "tray"
         \/ (SyncNow({}) \/ \E p \in Profiles : SyncNow({p})) /\ t = "tray"
         \/ Exit(t)
  PROVE  MonitorInv'
<1> DEFINE c == th'[t]
<1>0. th \in [Threads -> Calls] /\ th[t] \in Calls /\ clicks \in Nat
  BY DEF SchedulerInv, TypeOK
<1>1. th' = [th EXCEPT ![t] = c] /\ c \in Calls
  BY DEF BeginStart, Poll, TogglePause, SyncNow, Exit, At, Goto, Return, SchedulerInv, TypeOK,
         Calls, Labels, Ops, Resting, NoRef, Secrets, Outcomes, Threads
<1>2. UNCHANGED <<owner, coordVars>> /\ clicks' \in {clicks, clicks + 1}
  BY DEF BeginStart, Poll, TogglePause, SyncNow, Exit, runVars, Click
<1>3. CASE BeginStart /\ t = "main"
  <2>1. PICK op \in {"start", "pause"} :
          th' = [th EXCEPT ![t].op = op, ![t].at = IF op = "start" THEN "list" ELSE "pauseLock"]
    BY <1>3 DEF BeginStart
  <2>2. c.op = op /\ c.at = IF op = "start" THEN "list" ELSE "pauseLock"
    BY <1>0, <2>1 DEF Calls
  <2>3. th[t].at = "begin" /\ paused /\ c.op \in OpsOf(t) /\ c.at \in Stages(c.op)
    BY <1>3, <2>2 DEF BeginStart, At, OpsOf, Stages, MonitorInv, PausedInv
  <2> HIDE DEF c
  <2> QED BY <1>1, <1>2, <1>3, <2>2, <2>3, GoMonitored
<1>4. CASE Poll /\ t = "loop"
  <2>1. c.op = "tick" /\ c.at = "check" /\ th[t].at = "idle"
    BY <1>0, <1>4 DEF Poll, At, Calls
  <2>2. ~At("loop", "unborn") /\ th[t].op = "none" /\ c.op \in OpsOf(t) /\ c.at \in Stages(c.op)
    BY <1>4, <2>1, StagesOfOps DEF MonitorInv, At, OpsOf, Stages
  <2> HIDE DEF c
  <2> QED BY <1>1, <1>2, <1>4, <2>1, <2>2, GoMonitored
<1>5. CASE TogglePause /\ t = "tray"
  <2>1. /\ th[t].at = "idle" /\ ~At("loop", "unborn") /\ clicks' = clicks + 1
        /\ \/ paused /\ c.op = "resume" /\ c.at = "list"
           \/ c.op = "pause" /\ c.at = "pauseLock"
    BY <1>0, <1>5 DEF TogglePause, Click, At, Calls
  <2>2. th[t].op = "none" /\ c.op \in OpsOf(t) /\ c.at \in Stages(c.op) /\ clicks' > 0
    BY <1>0, <1>5, <2>1, StagesOfOps DEF MonitorInv, OpsOf, Stages
  <2> HIDE DEF c
  <2> QED BY <1>1, <1>2, <1>5, <2>1, <2>2, GoMonitored
<1>6. CASE (SyncNow({}) \/ \E p \in Profiles : SyncNow({p})) /\ t = "tray"
  <2>1. CASE paused
    BY <1>2, <1>6, <2>1, SameMonitored DEF SyncNow
  <2>2. CASE ~paused
    <3>1. /\ th[t].at = "idle" /\ ~At("loop", "unborn") /\ clicks' = clicks + 1
          /\ c.op = "run_now" /\ c.at = "acquire"
      BY <1>0, <1>6, <2>2 DEF SyncNow, Click, At, Calls
    <3>2. th[t].op = "none" /\ c.op \in OpsOf(t) /\ c.at \in Stages(c.op) /\ clicks' > 0
      BY <1>0, <1>6, <3>1, StagesOfOps DEF MonitorInv, OpsOf, Stages
    <3> HIDE DEF c
    <3> QED BY <1>1, <1>2, <1>6, <3>1, <3>2, GoMonitored
  <2> QED BY <2>1, <2>2
<1>7. CASE Exit(t)
  <2>1. /\ t \in Exits /\ th[t].at = "idle" /\ ~At("loop", "unborn")
        /\ c.op = "exit" /\ c.at = "pauseLock"
    BY <1>0, <1>7 DEF Exit, At, Calls
  <2>2. t # "loop" => c.op \in OpsOf(t)
    BY <2>1 DEF OpsOf
  <2>3. t # "loop"
    BY <2>1, SchedulerAssumption
  <2>4. th[t].op = "none" /\ c.at \in Stages(c.op)
    BY <2>1, StagesOfOps DEF MonitorInv, Stages
  <2> HIDE DEF c
  <2> QED BY <1>1, <1>2, <2>1, <2>2, <2>3, <2>4, GoMonitored
<1> QED BY <1>3, <1>4, <1>5, <1>6, <1>7

\* ... taking the lock, or giving up, and the query of the profiles.
LEMMA QueryMonitored ==
  ASSUME SchedulerInv, MonitorInv, NEW t \in Threads,
         (TickCheck /\ t = "loop") \/ Acquire(t) \/ ListEnabled(t) \/ ListFails(t)
  PROVE  MonitorInv'
<1>1. th \in [Threads -> Calls] /\ th[t] \in Calls
  BY DEF SchedulerInv, TypeOK
<1>2. /\ UNCHANGED <<owner, coordVars, clicks>>
      /\ th[t].at \in {"check", "acquire", "list"}
  BY DEF TickCheck, Acquire, ListEnabled, ListFails, runVars, At
<1>3. CASE Return(t) \/ Die(t)
  BY <1>2, <1>3, LeaveMonitored
<1>4. CASE ~(Return(t) \/ Die(t))
  <2> DEFINE c == th'[t]
  <2>1. /\ th' = [th EXCEPT ![t] = c] /\ c \in Calls /\ c.op = th[t].op
        /\ c.at = CASE th[t].at = "check" -> "acquire" [] th[t].at = "acquire" -> "list"
                     [] OTHER -> "refresh"
    <3>1. CASE ListEnabled(t)
      <4>1. c = [th[t] EXCEPT !.at = "refresh", !.ids = enabled] /\ enabled \subseteq Profiles
        BY <1>1, <3>1 DEF ListEnabled, SchedulerInv, TypeOK
      <4>2. th[t].at = "list" /\ th' = [th EXCEPT ![t] = c]
        BY <1>1, <3>1, <4>1 DEF ListEnabled, At
      <4> QED BY <1>1, <4>1, <4>2 DEF Calls, Labels
    <3>2. CASE ~ListEnabled(t)
      <4>1. PICK l \in {"acquire", "list"} :
              /\ th' = [th EXCEPT ![t].at = l]
              /\ \/ th[t].at = "check" /\ l = "acquire"
                 \/ th[t].at = "acquire" /\ l = "list"
        BY <1>4, <3>2 DEF TickCheck, Acquire, ListFails, Goto, At
      <4>2. c = [th[t] EXCEPT !.at = l] /\ th' = [th EXCEPT ![t] = c]
        BY <1>1, <4>1
      <4> QED BY <1>1, <4>1, <4>2 DEF Calls, Labels
    <3> QED BY <3>1, <3>2
  <2>2. th[t].op \in OpsOf(t) /\ th[t].at \in Stages(th[t].op)
    BY DEF MonitorInv, StageInv
  <2>3. c.at \in Stages(c.op) /\ c.op # "none"
    BY <1>2, <2>1, <2>2 DEF Stages, OpsOf, Threads
  <2>4. c.op \in {"start", "resume"} => paused
    BY <1>2, <2>1 DEF MonitorInv, PausedInv, Opening
  <2> HIDE DEF c
  <2> QED BY <1>2, <2>1, <2>2, <2>3, <2>4, GoMonitored
<1> QED BY <1>3, <1>4

\* Select takes a profile, or all of them, or gives the lock back.
LEMMA SelectMonitored ==
  ASSUME SchedulerInv, MonitorInv, NEW t \in Threads, Select(t)
  PROVE  MonitorInv'
<1> DEFINE c == th'[t]
<1>1. th \in [Threads -> Calls] /\ th[t] \in Calls /\ th[t].at = "select"
  BY DEF SchedulerInv, TypeOK, Select, At
<1>2. UNCHANGED <<owner, coordVars, clicks>>
  BY DEF Select, runVars
<1>3. CASE Return(t)
  BY <1>1, <1>2, <1>3, LeaveMonitored
<1>4. CASE ~Return(t)
  <2>1. th[t].op \in {"tick", "run_now"} /\ th[t].op \in OpsOf(t)
    BY <1>1 DEF MonitorInv, StageInv, Stages
  <2>2. \/ /\ th[t].op = "tick"
           /\ th' = [th EXCEPT ![t].at = "pick", ![t].ids = Known, ![t].todo = Known]
        \/ /\ th[t].op # "tick"
           /\ \E r \in {RefOf(p) : p \in Known} :
                th' = [th EXCEPT ![t].at = "run", ![t].cur = r]
    <3>1. \A W \in SUBSET Known : W # {} => (CHOOSE p \in W : TRUE) \in Known
      OBVIOUS
    <3> QED BY <1>4, <3>1 DEF Select
  <2>3. /\ th' = [th EXCEPT ![t] = c] /\ c \in Calls /\ c.op = th[t].op
        /\ c.at = IF th[t].op = "tick" THEN "pick" ELSE "run"
    <3>1. CASE th[t].op = "tick"
      <4>1. c = [th[t] EXCEPT !.at = "pick", !.ids = Known, !.todo = Known]
        BY <1>1, <2>2, <3>1
      <4>2. th' = [th EXCEPT ![t] = c] /\ Known \subseteq Profiles
        BY <2>2, <3>1, <4>1 DEF Known
      <4> QED BY <1>1, <3>1, <4>1, <4>2 DEF Calls, Labels
    <3>2. CASE th[t].op # "tick"
      <4>1. PICK p \in Known : th' = [th EXCEPT ![t].at = "run", ![t].cur = RefOf(p)]
        BY <2>2, <3>2
      <4>2. RefOf(p) \in Profiles \X Nat
        BY RefsTyped DEF SchedulerInv
      <4>3. "run" \in Labels
        BY DEF Labels
      <4> DEFINE r == RefOf(p)
      <4>4. r \in Profiles \X Nat /\ th' = [th EXCEPT ![t].at = "run", ![t].cur = r]
        BY <4>1, <4>2
      <4> HIDE DEF r
      <4>5. /\ th' = [th EXCEPT ![t] = th'[t]] /\ th'[t] \in Calls /\ th'[t].at = "run"
            /\ th'[t].op = th[t].op
        BY <1>1, <4>3, <4>4, CurCall
      <4> QED BY <3>2, <4>5
    <3> QED BY <3>1, <3>2
  <2>4. c.at \in Stages(c.op)
    BY <2>1, <2>3 DEF Stages
  <2> HIDE DEF c
  <2> QED BY <1>1, <1>2, <2>1, <2>3, <2>4, GoMonitored
<1> QED BY <1>3, <1>4

\* A collection moves on: the one thread that collects is t.
LEMMA CollectorAlone ==
  ASSUME SchedulerInv, NEW t \in Threads, Holds(th[t])
  PROVE  /\ execution = t /\ \A u \in Threads \ {t} : u \notin Collecting /\ ~At(u, "pauseEach")
BY OthersOutside DEF SchedulerInv, LockInv, Collecting, At, Holds

\* While monitoring is paused no scheduler is ready for the holder of the lock.
LEMMA ReadyUnpaused ==
  ASSUME SchedulerInv, MonitorInv, NEW t \in Threads, Holds(th[t]), ~At(t, "pauseEach"),
         NEW p \in Known, Ready(p)
  PROVE  ~paused /\ p \notin blocked
<1>1. \A u \in Threads : ~At(u, "pauseEach")
  BY CollectorAlone
<1>2. ~paused
  BY <1>1 DEF MonitorInv, HaltedInv, Ready
<1>3. p \notin blocked
  BY DEF MonitorInv, BlockedInv, Ready
<1> QED BY <1>2, <1>3

LEMMA RunMonitored ==
  ASSUME SchedulerInv, MonitorInv, NEW t \in Threads, NEW p \in Known, Ready(p),
         th[t].at \in {"pick", "run"},
         schedulers' = [schedulers EXCEPT ![p].running = TRUE],
         th' = [th EXCEPT ![t].at = "read", ![t].cur = RefOf(p)],
         UNCHANGED <<made, blocked, paused, owner, clicks>>
  PROVE  MonitorInv'
<1> DEFINE c == th'[t]
<1>0. TypeOK /\ th \in [Threads -> Calls] /\ th[t] \in Calls /\ Holds(th[t]) /\ clicks \in Nat
  BY DEF SchedulerInv, TypeOK, Holds
<1>1. th' = [th EXCEPT ![t] = c] /\ c \in Calls /\ c.at = "read" /\ c.cur = RefOf(p) /\ c.op = th[t].op
  <2>1. "read" \in Labels /\ RefOf(p) \in Profiles \X Nat
    BY <1>0, RefsTyped DEF Labels
  <2> QED BY ZenonT(30), <1>0, <2>1, CurCall
<1>2. p \in Profiles /\ ~paused /\ p \notin blocked
  BY <1>0, ReadyUnpaused DEF Known, At
<1>3. \A q \in Profiles : /\ schedulers'[q].gen = schedulers[q].gen
                          /\ schedulers'[q].halted = schedulers[q].halted
                          /\ schedulers'[q].running <=> schedulers[q].running \/ q = p
  BY <1>0, <1>2 DEF TypeOK, Schedulers
<1>4. Known' = Known /\ \A q \in Profiles : RefOf(q)' = RefOf(q)
  BY <1>3 DEF Known, RefOf
<1>5. \A u \in Threads \ {t} : th'[u] = th[u] /\ u \notin Collecting
  BY <1>0, <1>1, CollectorAlone
<1>6. th[t].op \in {"tick", "run_now"} /\ th[t].op \in OpsOf(t)
  BY DEF MonitorInv, StageInv, Stages
<1>7. c.at \in Stages(c.op) /\ c.op # "none"
  BY <1>1, <1>6 DEF Stages
<1>8. StageInv' /\ TurnsInv' /\ PausedInv'
  <2>1. clicks' \in Nat /\ clicks' >= clicks
    BY <1>0
  <2>2. c.op \notin {"start", "resume", "exit"} /\ c.at \notin {"begin", "unborn"}
    BY <1>1, <1>6
  <2> HIDE DEF c
  <2> QED BY <1>0, <1>1, <1>6, <1>7, <2>1, <2>2, PhasesKeep DEF MonitorInv
<1>9. HaltedInv'
  BY <1>2 DEF HaltedInv
<1>10. RunsInv'
  <2> SUFFICES ASSUME NEW u \in Threads, u \in Collecting'
               PROVE  /\ ~paused' /\ Current(th[u].cur)' /\ schedulers'[th'[u].cur[1]].running
                      /\ th'[u].cur[1] \notin blocked'
    BY DEF RunsInv, Collecting
  <2>1. u = t
    BY <1>5 DEF Collecting
  <2>2. th'[u].cur = RefOf(p) /\ RefOf(p)[1] = p
    BY <1>1, <2>1 DEF RefOf
  <2> QED BY <1>2, <1>3, <1>4, <2>2 DEF Current
<1>11. BlockedInv'
  BY <1>3, <1>4 DEF MonitorInv, BlockedInv, Known
<1>12. RefsInv'
  <2> SUFFICES ASSUME NEW u \in Threads, At(u, "each")', NEW r \in th'[u].refs
               PROVE  /\ r[2] <= made'[r[1]]
                      /\ Current(r)' => schedulers'[r[1]].halted /\ r[1] \notin blocked'
    BY DEF RefsInv
  <2>1. u # t /\ At(u, "each") /\ r \in th[u].refs
    BY <1>1, <1>5 DEF At
  <2> QED BY <1>3, <1>4, <2>1 DEF MonitorInv, RefsInv, Current, Known
<1> QED BY <1>8, <1>9, <1>10, <1>11, <1>12 DEF MonitorInv

LEMMA TickNextMonitored ==
  ASSUME SchedulerInv, MonitorInv, TickNext
  PROVE  MonitorInv'
<1> DEFINE p == NextInTurn(th["loop"].ids, th["loop"].todo)
<1>1. /\ "loop" \in Threads /\ th["loop"] \in Calls /\ th["loop"].at = "pick"
      /\ th \in [Threads -> Calls]
  BY DEF SchedulerInv, TypeOK, TickNext, At, Threads
<1>2. UNCHANGED <<owner, made, blocked, paused, offset, clicks>>
  BY DEF TickNext, runVars
<1>3. \/ (Return("loop") \/ Die("loop")) /\ UNCHANGED schedulers
      \/ /\ p \in Known /\ Ready(p)
         /\ schedulers' = [schedulers EXCEPT ![p].running = TRUE]
         /\ th' = [th EXCEPT !["loop"].at = "read", !["loop"].cur = RefOf(p)]
      \/ /\ th' = [th EXCEPT !["loop"].todo = @ \ {p}]
         /\ UNCHANGED schedulers
  BY DEF TickNext
<1> HIDE DEF p
<1>4. CASE (Return("loop") \/ Die("loop")) /\ UNCHANGED schedulers
  BY <1>1, <1>2, <1>4, LeaveMonitored DEF coordVars
<1>5. CASE /\ p \in Known /\ Ready(p)
           /\ schedulers' = [schedulers EXCEPT ![p].running = TRUE]
           /\ th' = [th EXCEPT !["loop"].at = "read", !["loop"].cur = RefOf(p)]
  BY <1>1, <1>2, <1>5, RunMonitored
<1>6. CASE /\ th' = [th EXCEPT !["loop"].todo = @ \ {p}]
           /\ UNCHANGED schedulers
  <2> DEFINE c == [th["loop"] EXCEPT !.todo = @ \ {p}]
  <2>1. c \in Calls /\ th' = [th EXCEPT !["loop"] = c] /\ c.at = "pick" /\ c.op = th["loop"].op
    BY <1>1, <1>6 DEF Calls
  <2>2. c.op \in OpsOf("loop") /\ c.at \in Stages(c.op) /\ c.op = "tick"
    BY <1>1, <2>1 DEF MonitorInv, StageInv, Stages, OpsOf
  <2> HIDE DEF c
  <2> QED BY <1>1, <1>2, <1>6, <2>1, <2>2, GoMonitored DEF coordVars
<1> QED BY <1>3, <1>4, <1>5, <1>6

LEMMA RunNowMonitored ==
  ASSUME SchedulerInv, MonitorInv, NEW t \in Threads, RunNow(t)
  PROVE  MonitorInv'
<1>1. /\ th[t] \in Calls /\ th[t].at = "run" /\ th \in [Threads -> Calls]
  BY DEF SchedulerInv, TypeOK, RunNow, At
<1>2. UNCHANGED <<owner, made, blocked, paused, offset, clicks>>
  BY DEF RunNow, runVars
<1>3. CASE ~(Current(th[t].cur) /\ Ready(th[t].cur[1]))
  <2>1. Return(t) /\ UNCHANGED schedulers
    BY <1>3 DEF RunNow
  <2> QED BY <1>1, <1>2, <2>1, LeaveMonitored DEF coordVars
<1>4. CASE Current(th[t].cur) /\ Ready(th[t].cur[1])
  <2> DEFINE p == th[t].cur[1]
  <2>1. p \in Known /\ RefOf(p) = th[t].cur /\ Ready(p)
    BY <1>4 DEF Current
  <2>2. /\ schedulers' = [schedulers EXCEPT ![p].running = TRUE]
        /\ th' = [th EXCEPT ![t].at = "read"]
    BY <1>4 DEF RunNow, Goto
  <2>3. th' = [th EXCEPT ![t].at = "read", ![t].cur = RefOf(p)]
    <3>1. [th[t] EXCEPT !.at = "read"] = [th[t] EXCEPT !.at = "read", !.cur = RefOf(p)]
      BY <1>1, <2>1 DEF Calls
    <3> QED BY <1>1, <2>1, <2>2, <3>1
  <2> HIDE DEF p
  <2> QED BY <1>1, <1>2, <2>1, <2>2, <2>3, RunMonitored
<1> QED BY <1>3, <1>4

\* The thread that collects reads the stores and gets its answer.
LEMMA CollectMonitored ==
  ASSUME SchedulerInv, MonitorInv, NEW t \in Threads, CollectRead(t) \/ CollectSync(t)
  PROVE  MonitorInv'
<1> DEFINE c == th'[t]
<1> DEFINE p == th[t].cur[1]
<1>1. /\ TypeOK /\ th \in [Threads -> Calls] /\ th[t] \in Calls /\ clicks \in Nat
      /\ th[t].at \in {"read", "sync"} /\ t \in Collecting /\ Holds(th[t])
  BY DEF SchedulerInv, TypeOK, CollectRead, CollectSync, At, Collecting, Holds
<1>2. UNCHANGED <<schedulers, made, paused, offset, owner, clicks>>
  BY DEF CollectRead, CollectSync, runVars
<1>3. /\ ~paused /\ Current(th[t].cur) /\ schedulers[p].running /\ p \notin blocked
  BY <1>1 DEF MonitorInv, RunsInv
<1>4. /\ th' = [th EXCEPT ![t] = c] /\ c \in Calls
      /\ c.op = th[t].op /\ c.cur = th[t].cur /\ c.at \in {"sync", "finish"}
      /\ \/ c.at = "finish" /\ c.outcome = "auth" /\ blocked' = blocked \union {p}
         \/ ~(c.at = "finish" /\ c.outcome = "auth") /\ blocked' = blocked
  <2>1. CASE CollectRead(t)
    BY <1>1, <2>1 DEF CollectRead, Calls, Labels, Secrets, Outcomes, TypeOK, Current, Known
  <2>2. CASE CollectSync(t)
    <3>1. PICK o \in Outcomes :
            /\ th' = [th EXCEPT ![t].at = "finish", ![t].outcome = o]
            /\ blocked' = IF o = "auth" THEN blocked \union {p} ELSE blocked
      BY <2>2 DEF CollectSync, Outcomes
    <3>2. c = [th[t] EXCEPT !.at = "finish", !.outcome = o] /\ th' = [th EXCEPT ![t] = c]
      BY <1>1, <3>1
    <3> QED BY <1>1, <3>1, <3>2 DEF Calls, Labels
  <2> QED BY <2>1, <2>2
<1>5. \A u \in Threads \ {t} : th'[u] = th[u] /\ u \notin Collecting
  BY <1>1, <1>4, CollectorAlone
<1>6. th[t].op \in {"tick", "run_now"} /\ th[t].op \in OpsOf(t)
  BY <1>1 DEF MonitorInv, StageInv, Stages
<1>7. /\ c.at \in Stages(c.op) /\ c.op \notin {"start", "resume", "exit"}
      /\ c.at \notin {"begin", "unborn"} /\ clicks' \in Nat /\ clicks' >= clicks
  BY <1>1, <1>2, <1>4, <1>6 DEF Stages
<1>8. Known' = Known /\ \A q \in Profiles : RefOf(q)' = RefOf(q)
  BY <1>2 DEF Known, RefOf
<1>9. p \in Known /\ RefOf(p) = th[t].cur /\ ~schedulers[p].halted
  <2>1. RunOK(th[t])
    BY DEF SchedulerInv, CallInv
  <2> QED BY <1>1, <1>3, <2>1 DEF RunOK, Current
<1>10. StageInv' /\ TurnsInv' /\ PausedInv'
  <2> HIDE DEF c, p
  <2> QED BY <1>1, <1>2, <1>4, <1>6, <1>7, PhasesKeep DEF MonitorInv
<1>11. HaltedInv'
  BY <1>2, <1>3 DEF HaltedInv
<1>12. RunsInv'
  <2> SUFFICES ASSUME NEW u \in Threads, u \in Collecting'
               PROVE  /\ ~paused' /\ Current(th[u].cur)' /\ schedulers'[th'[u].cur[1]].running
                      /\ th'[u].at # "finish" \/ th'[u].outcome # "auth" =>
                           th'[u].cur[1] \notin blocked'
    BY DEF RunsInv, Collecting
  <2>1. u = t
    BY <1>5 DEF Collecting
  <2>2. Current(th[u].cur)'
    <3>1. th'[u].cur = th[t].cur /\ p \in Profiles
      BY <1>4, <1>9, <2>1 DEF Known
    <3> QED BY <1>8, <1>9, <3>1 DEF Current
  <2> HIDE DEF c, p
  <2>3. th'[t] = c
    BY DEF c
  <2>4. c.at # "finish" \/ c.outcome # "auth" => p \notin blocked'
    BY <1>3, <1>4
  <2>5. c.cur[1] = p
    BY <1>4 DEF p
  <2> QED BY <1>2, <1>3, <2>1, <2>2, <2>3, <2>4, <2>5
<1>13. BlockedInv'
  <2>1. blocked' \subseteq blocked \union {p}
    BY <1>4
  <2> QED BY <1>2, <1>3, <1>8, <2>1 DEF MonitorInv, BlockedInv, Known
<1>14. RefsInv'
  <2> SUFFICES ASSUME NEW u \in Threads, At(u, "each")', NEW r \in th'[u].refs
               PROVE  /\ r[2] <= made'[r[1]]
                      /\ Current(r)' => schedulers'[r[1]].halted /\ r[1] \notin blocked'
    BY DEF RefsInv
  <2>1. u # t /\ At(u, "each") /\ r \in th[u].refs
    BY <1>4, <1>5 DEF At
  <2>2. /\ r[2] <= made[r[1]]
        /\ Current(r) => schedulers[r[1]].halted /\ r[1] \notin blocked
    BY <2>1 DEF MonitorInv, RefsInv
  <2>3. Current(r)' = Current(r)
    BY <1>8 DEF Current, Known
  <2>4. blocked' \subseteq blocked \union {p}
    BY <1>4
  <2> HIDE DEF c, p
  <2> QED BY <1>2, <1>9, <2>2, <2>3, <2>4
<1> QED BY <1>10, <1>11, <1>12, <1>13, <1>14 DEF MonitorInv

\* What an outcome makes of a scheduler that runs: it stops running, and is
\* paused exactly after a failure to authenticate.
LEMMA RunResultsHalt ==
  ASSUME NEW s \in Schedulers, NEW o \in Outcomes, NEW r \in RunResults(s, o)
  PROVE  r.gen = s.gen /\ ~r.running /\ (r.halted <=> s.halted \/ o = "auth")
<1>1. CASE o \in {"success", "partial"}
  <2>1. r = [s EXCEPT !.running = FALSE, !.next = Interval, !.delay = 0]
    BY <1>1 DEF RunResults
  <2> QED BY <1>1, <2>1 DEF Schedulers
<1>2. CASE o = "auth"
  <2>1. r = [s EXCEPT !.running = FALSE, !.next = Never, !.halted = TRUE]
    BY <1>2 DEF RunResults
  <2> QED BY <1>2, <2>1 DEF Schedulers
<1>3. CASE o = "retryable"
  <2>1. PICK n \in Delays(RawDelay(s.delay)) :
          r = [s EXCEPT !.running = FALSE, !.next = n, !.delay = RawDelay(s.delay)]
    BY <1>3 DEF RunResults
  <2> QED BY <1>3, <2>1 DEF Schedulers
<1> QED BY <1>1, <1>2, <1>3 DEF Outcomes

LEMMA FinishMonitored ==
  ASSUME SchedulerInv, MonitorInv, NEW t \in Threads, CollectFinish(t)
  PROVE  MonitorInv'
<1> DEFINE p == th[t].cur[1]
<1>1. /\ TypeOK /\ th \in [Threads -> Calls] /\ th[t] \in Calls /\ clicks \in Nat
      /\ th[t].at = "finish" /\ t \in Collecting /\ Holds(th[t])
  BY DEF SchedulerInv, TypeOK, CollectFinish, At, Collecting, Holds
<1>2. UNCHANGED <<made, blocked, paused, owner, clicks>>
  BY DEF CollectFinish, runVars
<1>3. /\ ~paused /\ Current(th[t].cur)
      /\ th[t].outcome # "auth" => p \notin blocked
  BY <1>1 DEF MonitorInv, RunsInv
<1>4. p \in Known /\ RefOf(p) = th[t].cur /\ ~schedulers[p].halted
  <2>1. RunOK(th[t])
    BY DEF SchedulerInv, CallInv
  <2> QED BY <1>1, <1>3, <2>1 DEF RunOK, Current
<1>5. PICK s \in RunResults(schedulers[p], th[t].outcome) :
        schedulers' = [schedulers EXCEPT ![p] = s]
  BY <1>3 DEF CollectFinish
<1>6. s.gen = schedulers[p].gen /\ (s.halted <=> th[t].outcome = "auth")
  <2>1. schedulers[p] \in Schedulers /\ th[t].outcome \in Outcomes
    BY <1>1, <1>4 DEF TypeOK, Calls, Known
  <2> HIDE DEF p
  <2>2. s.gen = schedulers[p].gen /\ (s.halted <=> schedulers[p].halted \/ th[t].outcome = "auth")
    BY <1>5, <2>1, RunResultsHalt
  <2> QED BY <1>4, <2>2
<1>7. \A q \in Profiles : /\ schedulers'[q].gen = schedulers[q].gen
                          /\ q # p => schedulers'[q] = schedulers[q]
  BY <1>1, <1>5, <1>6 DEF TypeOK
<1>8. Known' = Known /\ \A q \in Profiles : RefOf(q)' = RefOf(q)
  BY <1>2, <1>7 DEF Known, RefOf
<1>9. th' = [th EXCEPT ![t] = Resting]
  BY DEF CollectFinish, Return
<1>10. \A u \in Threads \ {t} : th'[u] = th[u] /\ u \notin Collecting
  BY <1>1, <1>9, CollectorAlone
<1>11. StageInv' /\ TurnsInv' /\ PausedInv'
  <2>1. /\ Resting.op \in OpsOf(t) /\ Resting.at \in Stages(Resting.op)
        /\ clicks' \in Nat /\ clicks' >= clicks
    BY <1>1, <1>2, LeaveCalls DEF OpsOf, Stages
  <2> HIDE DEF p
  <2> QED BY <1>1, <1>2, <1>9, <2>1, LeaveCalls, PhasesKeep DEF MonitorInv
<1>12. HaltedInv'
  BY <1>2, <1>3 DEF HaltedInv
<1>13. RunsInv'
  <2>1. th'[t].at = "idle"
    BY <1>1, <1>9, LeaveCalls
  <2>2. Collecting' = {}
    BY <1>10, <2>1 DEF Collecting
  <2> QED BY <2>2 DEF RunsInv
<1>14. BlockedInv'
  <2> SUFFICES ASSUME NEW q \in Known, q \in blocked
               PROVE  schedulers'[q].halted \/ schedulers'[q].running
    BY <1>2, <1>8 DEF BlockedInv
  <2>1. CASE q = p
    BY <1>1, <1>3, <1>4, <1>5, <1>6, <2>1 DEF TypeOK, Known
  <2>2. CASE q # p
    BY <1>7, <2>2 DEF MonitorInv, BlockedInv, Known
  <2> QED BY <2>1, <2>2
<1>15. RefsInv'
  <2> SUFFICES ASSUME NEW u \in Threads, At(u, "each")', NEW r \in th'[u].refs
               PROVE  /\ r[2] <= made'[r[1]]
                      /\ Current(r)' => schedulers'[r[1]].halted /\ r[1] \notin blocked'
    BY DEF RefsInv
  <2>1. u # t /\ At(u, "each") /\ r \in th[u].refs
    BY <1>1, <1>9, <1>10, LeaveCalls DEF At
  <2>2. /\ r[2] <= made[r[1]]
        /\ Current(r) => schedulers[r[1]].halted /\ r[1] \notin blocked
    BY <2>1 DEF MonitorInv, RefsInv
  <2>3. Current(r)' = Current(r) /\ (Current(r) => r[1] \in Profiles)
    BY <1>8 DEF Current, Known
  <2> QED BY <1>2, <1>4, <1>7, <2>2, <2>3
<1> QED BY <1>11, <1>12, <1>13, <1>14, <1>15 DEF MonitorInv

LEMMA TimeMonitored ==
  ASSUME SchedulerInv, MonitorInv, Time
  PROVE  MonitorInv'
<1>1. UNCHANGED <<th, owner, made, blocked, paused, clicks>>
  BY DEF Time, runVars
<1>2. \A p \in Profiles : /\ schedulers'[p].gen = schedulers[p].gen
                          /\ schedulers'[p].halted = schedulers[p].halted
                          /\ schedulers'[p].running = schedulers[p].running
  BY DEF Time, SchedulerInv, TypeOK, Schedulers
<1>3. Known' = Known /\ Collecting' = Collecting /\ \A p \in Profiles : RefOf(p)' = RefOf(p)
  BY <1>1, <1>2 DEF Known, Collecting, RefOf
<1>4. StageInv' /\ PausedInv' /\ TurnsInv'
  BY <1>1 DEF MonitorInv, StageInv, PausedInv, Opening, Exiting, At, TurnsInv
<1>5. HaltedInv' /\ BlockedInv'
  BY <1>1, <1>2, <1>3 DEF MonitorInv, HaltedInv, BlockedInv, At, Known
<1>6. RunsInv' /\ RefsInv'
  BY <1>1, <1>2, <1>3 DEF MonitorInv, RunsInv, RefsInv, At, Current, Known
<1> QED BY <1>4, <1>5, <1>6 DEF MonitorInv

\* A shutdown by the main thread (Ctrl-C) and a resume clicked in the tray do not
\* meet.  A resume that overlaps such a shutdown undoes its pause: TLC finds each
\* of BlockedStaysStopped, PausedIsQuiet and ExitQuiesces violated there.
QuietShutdown == ~(th["main"].op = "exit" /\ th["tray"].op = "resume")

\* A start or resume is the only call that turns monitoring on or off.
LEMMA OpenerAlone ==
  ASSUME QuietShutdown, SchedulerInv, MonitorInv, NEW t \in Threads, Opening(t)
  PROVE  /\ ~At("main", "begin") /\ t # "loop"
         /\ \A u \in Threads \ {t} : ~Opening(u) /\ th[u].op \notin {"pause", "exit"}
                                     /\ ~At(u, "pauseEach") /\ ~Exiting(u)
<1> USE DEF MonitorInv
<1>1. \A u \in Threads : th[u].op \in OpsOf(u) /\ th[u].at \in Stages(th[u].op)
  BY DEF StageInv
<1>3. t # "loop" /\ th["loop"].op \in {"none", "tick"}
  BY <1>1 DEF OpsOf, Opening, Threads
<1>4. CASE t = "main"
  <2>1. th[t].op = "start" /\ th["tray"].op = "none" /\ ~At("main", "begin")
    BY <1>1, <1>4 DEF OpsOf, Opening, TurnsInv, At, Stages
  <2>2. \A u \in Threads \ {t} : th[u].op \in {"none", "tick"}
    BY <1>3, <1>4, <2>1 DEF Threads
  <2>3. \A u \in Threads \ {t} : th[u].at # "pauseEach"
    BY <1>1, <2>2 DEF Stages
  <2> QED BY <1>3, <2>1, <2>2, <2>3 DEF Opening, Exiting, At
<1>5. CASE t = "tray"
  <2>1. th[t].op = "resume"
    BY <1>1, <1>5 DEF OpsOf, Opening
  <2>3. th["main"].op \notin {"start", "pause", "exit"} /\ ~At("main", "begin")
    BY <1>5, <2>1 DEF TurnsInv, QuietShutdown
  <2>4. \A u \in Threads \ {t} : th[u].op \in {"none", "tick"}
    BY <1>1, <1>3, <1>5, <2>3 DEF Threads, OpsOf
  <2>5. \A u \in Threads \ {t} : th[u].at # "pauseEach"
    BY <1>1, <2>4 DEF Stages
  <2> QED BY <1>3, <2>3, <2>4, <2>5 DEF Opening, Exiting, At
<1> QED BY <1>3, <1>4, <1>5 DEF Threads

\* ... and what it meets is quiet: no collection, and every scheduler paused.
LEMMA OpeningQuiet ==
  ASSUME QuietShutdown, SchedulerInv, MonitorInv, NEW t \in Threads, Opening(t),
         th[t].at # "each"
  PROVE  paused /\ Collecting = {} /\ \A p \in Known : schedulers[p].halted
<1>1. paused
  BY DEF MonitorInv, PausedInv
<1>2. Collecting = {}
  BY <1>1 DEF MonitorInv, RunsInv
<1>3. \A u \in Threads : ~At(u, "pauseEach")
  <2>1. ~At(t, "pauseEach")
    BY StagesOfOps DEF MonitorInv, Opening, At
  <2> QED BY <2>1, OpenerAlone
<1>4. \A p \in Known : schedulers[p].halted
  BY <1>1, <1>3 DEF MonitorInv, HaltedInv
<1> QED BY <1>1, <1>2, <1>4

LEMMA OpenMonitored ==
  ASSUME QuietShutdown, SchedulerInv, MonitorInv, NEW t \in Threads, Open(t)
  PROVE  MonitorInv'
<1> DEFINE c == th'[t]
<1> DEFINE R == {RefOf(p) : p \in Known \ blocked}
<1>1. TypeOK /\ th \in [Threads -> Calls] /\ th[t] \in Calls /\ clicks \in Nat /\ th[t].at = "open"
  BY DEF SchedulerInv, TypeOK, Open, At
<1>2. UNCHANGED <<schedulers, made, blocked, owner, clicks>> /\ paused' = FALSE
  BY DEF Open, runVars
<1>3. th' = [th EXCEPT ![t] = c] /\ c \in Calls /\ c.at = "each" /\ c.op = th[t].op /\ c.refs = R
  <2>1. R \in SUBSET (Profiles \X Nat)
    BY <1>1, RefsTyped
  <2> HIDE DEF R
  <2>2. th' = [th EXCEPT ![t].at = "each", ![t].refs = R]
    BY DEF Open, R
  <2>3. c = [th[t] EXCEPT !.at = "each", !.refs = R] /\ th' = [th EXCEPT ![t] = c]
    BY <1>1, <2>2
  <2> QED BY <1>1, <2>1, <2>3 DEF Calls, Labels
<1>4. Opening(t) /\ c.op \in OpsOf(t) /\ c.at \in Stages(c.op)
  BY <1>1, <1>3, StagesOfOps DEF MonitorInv, StageInv, Stages, Opening
<1>5. \A p \in Known : schedulers[p].halted
  BY <1>1, <1>4, OpeningQuiet
<1>6. Collecting = {}
  BY <1>1, <1>4, OpeningQuiet
<1>7. \A u \in Threads \ {t} : th'[u] = th[u]
  BY <1>1, <1>3
<1>8. StageInv' /\ TurnsInv'
  <2>1. clicks' \in Nat /\ clicks' >= clicks /\ owner' = owner
    BY <1>1, <1>2
  <2>2. c.at \notin {"begin", "unborn"} /\ th[t].at \notin {"unborn", "gone"}
    BY <1>1, <1>3
  <2> HIDE DEF c
  <2> QED BY <1>1, <1>3, <1>4, <2>1, <2>2, TurnsKeep DEF MonitorInv
<1>9. PausedInv'
  <2>1. \A u \in Threads \ {t} : ~Opening(u) /\ ~Exiting(u)
    BY <1>4, OpenerAlone
  <2>2. ~At("main", "begin") /\ c.op # "exit"
    BY <1>3, <1>4, OpenerAlone DEF Opening
  <2> QED BY <1>2, <1>3, <1>7, <2>1, <2>2 DEF PausedInv, Opening, Exiting, At, Threads
<1>10. HaltedInv'
  BY <1>2 DEF HaltedInv
<1>11. Collecting' = {}
  BY <1>3, <1>6, <1>7 DEF Collecting
<1>12. RunsInv'
  BY <1>11 DEF RunsInv
<1>13. Known' = Known /\ \A q \in Profiles : RefOf(q)' = RefOf(q)
  BY <1>2 DEF Known, RefOf
<1>14. BlockedInv'
  BY <1>2, <1>13 DEF MonitorInv, BlockedInv
<1>15. RefsInv'
  <2> SUFFICES ASSUME NEW u \in Threads, At(u, "each")', NEW r \in th'[u].refs
               PROVE  /\ r[2] <= made'[r[1]]
                      /\ Current(r)' => schedulers'[r[1]].halted /\ r[1] \notin blocked'
    BY DEF RefsInv
  <2>1. CASE u = t
    <3>1. PICK p \in Known \ blocked : r = RefOf(p)
      BY <1>3, <2>1
    <3>2. r[1] = p /\ r[2] = schedulers[p].gen /\ schedulers[p].gen <= made[p] /\ p \notin blocked
      BY <3>1 DEF RefOf, SchedulerInv, TableInv, Known
    <3> QED BY <1>2, <1>5, <3>1, <3>2
  <2>2. CASE u # t
    <3>1. At(u, "each") /\ r \in th[u].refs
      BY <1>7, <2>2 DEF At
    <3> QED BY <1>2, <1>13, <3>1 DEF MonitorInv, RefsInv, Current, Known
  <2> QED BY <2>1, <2>2
<1> QED BY <1>8, <1>9, <1>10, <1>12, <1>14, <1>15 DEF MonitorInv

LEMMA PauseLockMonitored ==
  ASSUME QuietShutdown, SchedulerInv, MonitorInv, NEW t \in Threads, PauseLock(t)
  PROVE  MonitorInv'
<1> DEFINE c == th'[t]
<1> DEFINE R == {RefOf(p) : p \in Known}
<1>1. TypeOK /\ th \in [Threads -> Calls] /\ th[t] \in Calls /\ clicks \in Nat /\ th[t].at = "pauseLock"
  BY DEF SchedulerInv, TypeOK, PauseLock, At
<1>2. UNCHANGED <<schedulers, made, blocked, owner, clicks>> /\ paused' = TRUE /\ execution = Free
  BY DEF PauseLock, runVars
<1>3. /\ th' = [th EXCEPT ![t] = c] /\ c \in Calls
      /\ c.at = "pauseEach" /\ c.op = th[t].op /\ c.refs = R
  <2>1. R \in SUBSET (Profiles \X Nat)
    BY <1>1, RefsTyped
  <2> HIDE DEF R
  <2>2. th' = [th EXCEPT ![t].at = "pauseEach", ![t].refs = R]
    BY DEF PauseLock, R
  <2>3. c = [th[t] EXCEPT !.at = "pauseEach", !.refs = R] /\ th' = [th EXCEPT ![t] = c]
    BY <1>1, <2>2
  <2> QED BY <1>1, <2>1, <2>3 DEF Calls, Labels
<1>4. c.op \in {"pause", "exit"} /\ c.op \in OpsOf(t) /\ c.at \in Stages(c.op)
  BY <1>1, <1>3, StagesOfOps DEF MonitorInv, StageInv, Stages
<1>5. Collecting = {}
  <2>1. \A u \in Collecting : execution = u
    BY DEF Collecting, SchedulerInv, LockInv, Holds
  <2> QED BY <1>2, <2>1 DEF Collecting, Threads, Free
<1>6. \A u \in Threads \ {t} : th'[u] = th[u] /\ ~Opening(u)
  BY <1>1, <1>3, <1>4, OpenerAlone
<1>7. StageInv' /\ TurnsInv'
  <2>1. clicks' \in Nat /\ clicks' >= clicks /\ owner' = owner
    BY <1>1, <1>2
  <2>2. c.at \notin {"begin", "unborn"} /\ th[t].at \notin {"unborn", "gone"}
    BY <1>1, <1>3
  <2> HIDE DEF c
  <2> QED BY <1>1, <1>3, <1>4, <2>1, <2>2, TurnsKeep DEF MonitorInv
<1>8. PausedInv'
  BY <1>2, <1>3, <1>4, <1>6 DEF PausedInv, Opening, Exiting
<1>9. Known' = Known /\ \A q \in Profiles : RefOf(q)' = RefOf(q)
  BY <1>2 DEF Known, RefOf
<1>10. HaltedInv'
  <2> SUFFICES ASSUME NEW p \in Known
               PROVE  At(t, "pauseEach")' /\ RefOf(p)' \in th'[t].refs
    BY <1>9 DEF HaltedInv
  <2> QED BY <1>3, <1>9 DEF At, Known
<1>11. Collecting' = {}
  BY <1>3, <1>5, <1>6 DEF Collecting
<1>12. RunsInv'
  BY <1>11 DEF RunsInv
<1>13. BlockedInv'
  BY <1>2, <1>9 DEF MonitorInv, BlockedInv
<1>14. RefsInv'
  <2> SUFFICES ASSUME NEW u \in Threads, At(u, "each")', NEW r \in th'[u].refs
               PROVE  /\ r[2] <= made'[r[1]]
                      /\ Current(r)' => schedulers'[r[1]].halted /\ r[1] \notin blocked'
    BY DEF RefsInv
  <2>1. u # t /\ At(u, "each") /\ r \in th[u].refs
    BY <1>3, <1>6 DEF At
  <2> QED BY <1>2, <1>9, <2>1 DEF MonitorInv, RefsInv, Current, Known
<1> QED BY <1>7, <1>8, <1>10, <1>12, <1>13, <1>14 DEF MonitorInv

LEMMA RefreshMonitored ==
  ASSUME QuietShutdown, SchedulerInv, MonitorInv, NEW t \in Threads, Refresh(t)
  PROVE  MonitorInv'
<1> DEFINE c == th'[t]
<1>1. TypeOK /\ th \in [Threads -> Calls] /\ th[t] \in Calls /\ clicks \in Nat /\ th[t].at = "refresh"
  BY DEF SchedulerInv, TypeOK, Refresh, At
<1>2. UNCHANGED <<paused, owner, clicks>> /\ blocked' \subseteq blocked
  BY DEF Refresh, runVars
<1>3. /\ th' = [th EXCEPT ![t] = c] /\ c \in Calls /\ c.op = th[t].op
      /\ c.at = IF th[t].op \in {"tick", "run_now"} THEN "select" ELSE "open"
  BY <1>1 DEF Refresh, Goto, Calls, Labels
<1>4. \A p \in Profiles :
        \/ schedulers'[p] = NoScheduler /\ made'[p] = made[p]
        \/ schedulers'[p] = NewScheduler(made[p] + 1) /\ made'[p] = made[p] + 1
        \/ schedulers'[p] = schedulers[p] /\ made'[p] = made[p]
  BY <1>1 DEF Refresh, Known, TypeOK
<1>5. /\ NoScheduler.gen = 0
      /\ \A g \in Nat : NewScheduler(g).gen = g /\ NewScheduler(g).halted
  BY DEF NoScheduler, NewScheduler
<1>6. \A p \in Known' : \/ schedulers'[p].halted /\ schedulers'[p].gen = made[p] + 1
                        \/ schedulers'[p] = schedulers[p] /\ p \in Known
  <2> SUFFICES ASSUME NEW p \in Profiles, schedulers'[p].gen # 0
               PROVE  \/ schedulers'[p].halted /\ schedulers'[p].gen = made[p] + 1
                      \/ schedulers'[p] = schedulers[p] /\ p \in Known
    BY DEF Known
  <2>1. made[p] + 1 \in Nat
    BY <1>1 DEF TypeOK
  <2> QED BY <1>4, <1>5, <2>1 DEF Known
<1>7. \A u \in Threads \ {t} : th'[u] = th[u]
  BY <1>1, <1>3
<1>8. Collecting' = {}
  <2>1. Collecting \subseteq {t}
    <3>1. CASE Opening(t)
      BY <1>1, <3>1, OpeningQuiet
    <3>2. CASE ~Opening(t)
      <4>1. Holds(th[t])
        BY <1>1, <3>2, StagesOfOps DEF MonitorInv, Holds
      <4> QED BY <4>1, CollectorAlone DEF Collecting
    <3> QED BY <3>1, <3>2
  <2>2. t \notin Collecting'
    BY <1>3 DEF Collecting
  <2> QED BY <1>7, <2>1, <2>2 DEF Collecting
<1>9. StageInv' /\ TurnsInv' /\ PausedInv'
  <2>1. clicks' \in Nat /\ clicks' >= clicks
    BY <1>1, <1>2
  <2>2. c.op \in OpsOf(t) /\ c.at \in Stages(c.op)
    BY <1>1, <1>3, StagesOfOps DEF MonitorInv, StageInv, Stages, Opening
  <2>3. c.op # "exit" /\ (c.op \in {"start", "resume"} => (paused <=> c.at # "each"))
    BY <1>1, <1>3, StagesOfOps DEF MonitorInv, PausedInv, Opening
  <2>4. c.at \notin {"begin", "unborn"}
    BY <1>3
  <2> HIDE DEF c
  <2> QED BY <1>1, <1>2, <1>3, <2>1, <2>2, <2>3, <2>4, PhasesKeep DEF MonitorInv
<1>10. HaltedInv'
  <2> SUFFICES ASSUME paused, NEW p \in Known', ~schedulers'[p].halted
               PROVE  \E u \in Threads : At(u, "pauseEach")' /\ RefOf(p)' \in th'[u].refs
    BY <1>2 DEF HaltedInv
  <2>1. schedulers'[p] = schedulers[p] /\ p \in Known
    BY <1>6
  <2>2. PICK u \in Threads : At(u, "pauseEach") /\ RefOf(p) \in th[u].refs
    BY <2>1 DEF MonitorInv, HaltedInv
  <2>3. u # t /\ RefOf(p)' = RefOf(p)
    BY <1>1, <2>1, <2>2 DEF At, RefOf
  <2> QED BY <1>7, <2>2, <2>3 DEF At
<1>11. RunsInv'
  BY <1>8 DEF RunsInv
<1>12. BlockedInv'
  BY <1>2, <1>6 DEF MonitorInv, BlockedInv
<1>13. RefsInv'
  <2> SUFFICES ASSUME NEW u \in Threads, At(u, "each")', NEW r \in th'[u].refs
               PROVE  /\ r[2] <= made'[r[1]]
                      /\ Current(r)' => schedulers'[r[1]].halted /\ r[1] \notin blocked'
    BY DEF RefsInv
  <2>1. u # t /\ At(u, "each") /\ r \in th[u].refs
    BY <1>3, <1>7 DEF At
  <2>2. r[1] \in Profiles /\ r[2] \in Nat /\ r[2] <= made[r[1]] /\ made[r[1]] \in Nat
    <3>1. th[u].refs \subseteq Profiles \X Nat
      BY <1>1 DEF Calls
    <3> QED BY <1>1, <2>1, <3>1 DEF MonitorInv, RefsInv, TypeOK
  <2>3. r[2] <= made'[r[1]]
    BY <1>4, <2>2
  <2>4. ASSUME Current(r)'
        PROVE  schedulers'[r[1]].halted /\ r[1] \notin blocked'
    <3>1. r[1] \in Known' /\ schedulers'[r[1]].gen = r[2] /\ r = <<r[1], r[2]>>
      <4>1. r \in Profiles \X Nat
        BY <1>1, <2>1 DEF Calls
      <4> QED BY <2>4, <4>1 DEF Current, RefOf
    <3>2. schedulers'[r[1]] = schedulers[r[1]] /\ r[1] \in Known
      BY <1>6, <2>2, <3>1
    <3>3. Current(r)
      BY <3>1, <3>2 DEF Current, RefOf
    <3> QED BY <1>2, <2>1, <3>2, <3>3 DEF MonitorInv, RefsInv
  <2> QED BY <2>3, <2>4
<1> QED BY <1>9, <1>10, <1>11, <1>12, <1>13 DEF MonitorInv

\* The program has started: main rests and the loop exists.
LEMMA StartedMonitored ==
  ASSUME SchedulerInv, MonitorInv, Started, th["main"].op \in {"start", "pause"},
         th["main"].refs = {}, UNCHANGED <<owner, coordVars, clicks>>
  PROVE  MonitorInv'
<1> USE DEF MonitorInv, coordVars
<1>1. th["loop"].at = "unborn" /\ th["tray"].op = "none" /\ th["main"].op # "exit"
  BY DEF TurnsInv, At
<1>2. th["tray"].at \in {"idle", "unborn", "dead", "begin"} /\ th["loop"].op = "none"
  BY <1>1, StagesOfOps DEF Threads
<1>3. th'["main"] = Resting /\ th'["loop"] = Resting /\ th'["tray"] = th["tray"]
  BY <1>1 DEF Started, At, SchedulerInv, TypeOK, Threads
<1>4. \A u \in Threads : th'[u].op = "none" /\ th'[u].at \in {"idle", "unborn", "dead", "begin"}
  BY <1>1, <1>2, <1>3, LeaveCalls DEF Threads
<1>5. StageInv'
  BY <1>4 DEF StageInv, OpsOf, Stages, Threads
<1>6. owner
  <2>1. \A u \in Threads : th[u].at # "gone"
    BY <1>1, <1>2, StagesOfOps DEF Threads
  <2> QED BY <2>1 DEF TurnsInv, At
<1>7. TurnsInv'
  BY <1>3, <1>4, <1>6, LeaveCalls DEF TurnsInv, At, Threads
<1>8. PausedInv'
  BY <1>3, <1>4, LeaveCalls DEF PausedInv, Opening, Exiting, At
<1>9. Known' = Known
  BY DEF Known
<1>10. HaltedInv'
  <2>1. \A u \in Threads : At(u, "pauseEach") => th[u].refs = {}
    BY <1>1, <1>2 DEF At, Threads
  <2> QED BY <1>9, <2>1 DEF HaltedInv, Known
<1>11. Collecting' = {}
  BY <1>4 DEF Collecting
<1>12. RunsInv' /\ RefsInv'
  BY <1>4, <1>11 DEF RunsInv, RefsInv, At
<1>13. BlockedInv'
  BY <1>9 DEF BlockedInv
<1> QED BY <1>5, <1>7, <1>8, <1>10, <1>12, <1>13

LEMMA StartEachMonitored ==
  ASSUME QuietShutdown, SchedulerInv, MonitorInv, NEW t \in Threads, StartEach(t)
  PROVE  MonitorInv'
<1>1. TypeOK /\ th \in [Threads -> Calls] /\ th[t] \in Calls /\ clicks \in Nat /\ th[t].at = "each"
  BY DEF SchedulerInv, TypeOK, StartEach, At
<1>2. UNCHANGED <<made, blocked, paused, offset, owner, clicks>>
  BY DEF StartEach
<1>3. Opening(t) /\ ~paused
  BY <1>1, StagesOfOps DEF MonitorInv, PausedInv
<1>4. CASE th[t].refs = {} /\ t = "main"
  <2>1. Started /\ UNCHANGED schedulers
    BY <1>4 DEF StartEach
  <2>2. th["main"].op \in {"start", "pause"}
    BY <1>3, <1>4 DEF MonitorInv, StageInv, OpsOf, Opening
  <2> QED BY <1>2, <1>4, <2>1, <2>2, StartedMonitored DEF coordVars
<1>5. CASE th[t].refs = {} /\ t # "main"
  <2>1. Return(t) /\ UNCHANGED schedulers
    BY <1>5 DEF StartEach
  <2> QED BY <1>1, <1>2, <2>1, LeaveMonitored DEF coordVars
<1>6. CASE th[t].refs # {}
  <2>1. PICK r \in th[t].refs :
          /\ \/ schedulers' = schedulers
             \/ /\ Current(r)
                /\ \E d \in {0, Interval} :
                     schedulers' = [schedulers EXCEPT ![r[1]].halted = FALSE, ![r[1]].next = d]
          /\ th' = [th EXCEPT ![t].refs = @ \ {r}]
    BY <1>6 DEF StartEach
  <2> DEFINE c == [th[t] EXCEPT !.refs = @ \ {r}]
  <2>2. /\ c \in Calls /\ th' = [th EXCEPT ![t] = c]
        /\ c.at = "each" /\ c.op = th[t].op /\ c.refs = th[t].refs \ {r}
    BY <1>1, <2>1 DEF Calls
  <2>3. th'[t] = c /\ \A u \in Threads \ {t} : th'[u] = th[u]
    BY <1>1, <2>2
  <2> HIDE DEF c
  <2>4. \A p \in Profiles : /\ schedulers'[p].gen = schedulers[p].gen
                            /\ schedulers'[p].running = schedulers[p].running
                            /\ \/ schedulers'[p] = schedulers[p]
                               \/ Current(r) /\ p = r[1]
    BY <1>1, <2>1 DEF TypeOK, Schedulers
  <2>5. Known' = Known /\ \A q \in Profiles : RefOf(q)' = RefOf(q)
    BY <2>4 DEF Known, RefOf
  <2>6. StageInv' /\ TurnsInv' /\ PausedInv'
    <3>1. /\ clicks' \in Nat /\ clicks' >= clicks
          /\ c.op \in OpsOf(t) /\ c.at \in Stages(c.op)
          /\ c.op # "exit" /\ c.at \notin {"begin", "unborn"}
      BY <1>1, <1>2, <1>3, <2>2 DEF MonitorInv, StageInv, Opening
    <3> QED BY <1>1, <1>2, <1>3, <2>2, <3>1, PhasesKeep DEF MonitorInv
  <2>7. HaltedInv'
    BY <1>2, <1>3 DEF HaltedInv
  <2>8. RunsInv'
    <3>1. Collecting' = Collecting
      BY <1>1, <2>2, <2>3 DEF Collecting
    <3>2. \A u \in Collecting : th'[u] = th[u]
      BY <1>1, <2>3 DEF Collecting
    <3> QED BY <1>2, <2>4, <2>5, <3>1, <3>2 DEF MonitorInv, RunsInv, Current, Known
  <2>9. r[1] \notin blocked \/ ~Current(r)
    BY <1>1, <2>1 DEF MonitorInv, RefsInv, At
  <2>10. BlockedInv'
    BY <1>2, <2>4, <2>5, <2>9 DEF MonitorInv, BlockedInv, Known
  <2>11. RefsInv'
    <3> SUFFICES ASSUME NEW u \in Threads, At(u, "each")', NEW q \in th'[u].refs
                 PROVE  /\ q[2] <= made'[q[1]]
                        /\ Current(q)' => schedulers'[q[1]].halted /\ q[1] \notin blocked'
      BY DEF RefsInv
    <3>1. u = t
      <4>1. u # t => th[u].at = "each"
        BY <2>3 DEF At
      <4>2. u # t => ~Opening(u)
        BY <1>3, OpenerAlone
      <4> QED BY <4>1, <4>2, StagesOfOps DEF MonitorInv
    <3>2. q \in th[t].refs /\ q # r
      BY <2>2, <2>3, <3>1
    <3>3. /\ q[2] <= made[q[1]]
          /\ Current(q) => schedulers[q[1]].halted /\ q[1] \notin blocked
      BY <1>1, <3>2 DEF MonitorInv, RefsInv, At
    <3>4. Current(q)' = Current(q) /\ (Current(q) => q[1] \in Profiles)
      BY <2>5 DEF Current, Known
    <3>5. Current(q) /\ Current(r) => q[1] # r[1]
      BY <3>2 DEF Current
    <3> QED BY <1>2, <2>4, <3>3, <3>4, <3>5
  <2> QED BY <2>6, <2>7, <2>8, <2>10, <2>11 DEF MonitorInv
<1> QED BY <1>4, <1>5, <1>6

LEMMA PauseEachMonitored ==
  ASSUME QuietShutdown, SchedulerInv, MonitorInv, NEW t \in Threads, PauseEach(t)
  PROVE  MonitorInv'
<1>1. /\ TypeOK /\ th \in [Threads -> Calls] /\ th[t] \in Calls /\ clicks \in Nat
      /\ th[t].at = "pauseEach" /\ Holds(th[t])
  BY DEF SchedulerInv, TypeOK, PauseEach, At, Holds
<1>2. UNCHANGED <<made, blocked, paused, offset, owner, clicks>>
  BY DEF PauseEach
<1>3. /\ th[t].op \in {"pause", "exit"} /\ th[t].op \in OpsOf(t)
      /\ th[t].at \in Stages(th[t].op)
      /\ th[t].op = "exit" => paused
  BY <1>1, StagesOfOps DEF MonitorInv, StageInv, PausedInv, Exiting
<1>4. CASE th[t].refs = {}
  <2>1. /\ UNCHANGED schedulers
        /\ \/ th[t].op = "exit" /\ Goto(t, "release")
           \/ t = "main" /\ th[t].op = "pause" /\ Started
           \/ Return(t)
    BY <1>4 DEF PauseEach
  <2>2. CASE th[t].op = "exit" /\ Goto(t, "release")
    <3> DEFINE c == [th[t] EXCEPT !.at = "release"]
    <3>1. c \in Calls /\ c.at = "release" /\ c.op = "exit" /\ th' = [th EXCEPT ![t] = c]
      BY <1>1, <2>2 DEF Goto, Calls, Labels
    <3>2. c.op \in OpsOf(t) /\ c.at \in Stages(c.op) /\ clicks' \in Nat /\ clicks' >= clicks
      BY <1>1, <1>2, <1>3, <2>2, <3>1 DEF Stages
    <3> HIDE DEF c
    <3>3. StageInv' /\ TurnsInv' /\ PausedInv'
      BY <1>1, <1>2, <1>3, <2>2, <3>1, <3>2, PhasesKeep DEF MonitorInv
    <3>4. HaltedInv' /\ RunsInv' /\ BlockedInv' /\ RefsInv'
      BY <1>1, <1>2, <1>4, <2>1, <3>1, QuietKeeps DEF MonitorInv
    <3> QED BY <3>3, <3>4 DEF MonitorInv
  <2>3. CASE t = "main" /\ th[t].op = "pause" /\ Started
    BY <1>2, <1>4, <2>1, <2>3, StartedMonitored DEF coordVars
  <2>4. CASE Return(t)
    BY <1>1, <1>2, <1>4, <2>1, <2>4, LeaveMonitored DEF coordVars
  <2> QED BY <2>1, <2>2, <2>3, <2>4
<1>5. CASE th[t].refs # {}
  <2>1. PICK r \in th[t].refs :
          /\ schedulers' = IF ~Current(r) THEN schedulers
                           ELSE [schedulers EXCEPT ![r[1]].halted = TRUE, ![r[1]].next = Never]
          /\ th' = [th EXCEPT ![t].refs = @ \ {r}]
    BY <1>5 DEF PauseEach
  <2> DEFINE c == [th[t] EXCEPT !.refs = @ \ {r}]
  <2>2. /\ c \in Calls /\ th' = [th EXCEPT ![t] = c]
        /\ c.at = "pauseEach" /\ c.op = th[t].op /\ c.refs = th[t].refs \ {r}
    BY <1>1, <2>1 DEF Calls
  <2>3. th'[t] = c /\ \A u \in Threads \ {t} : th'[u] = th[u]
    BY <1>1, <2>2
  <2> HIDE DEF c
  <2>4. \A p \in Profiles : /\ schedulers'[p].gen = schedulers[p].gen
                            /\ schedulers'[p].running = schedulers[p].running
                            /\ schedulers[p].halted => schedulers'[p].halted
                            /\ Current(r) /\ p = r[1] => schedulers'[p].halted
    BY <1>1, <2>1 DEF TypeOK, Schedulers
  <2>5. Known' = Known /\ \A q \in Profiles : RefOf(q)' = RefOf(q)
    BY <2>4 DEF Known, RefOf
  <2>6. StageInv' /\ TurnsInv' /\ PausedInv'
    <3>1. clicks' \in Nat /\ clicks' >= clicks
      BY <1>1, <1>2
    <3> QED BY <1>1, <1>2, <1>3, <2>2, <3>1, PhasesKeep DEF MonitorInv
  <2>7. HaltedInv'
    <3> SUFFICES ASSUME paused, NEW p \in Known, ~schedulers'[p].halted
                 PROVE  \E u \in Threads : At(u, "pauseEach")' /\ RefOf(p)' \in th'[u].refs
      BY <1>2, <2>5 DEF HaltedInv
    <3>1. p \in Profiles /\ ~schedulers[p].halted /\ RefOf(p)' = RefOf(p)
      BY <2>4, <2>5 DEF Known
    <3>2. PICK u \in Threads : At(u, "pauseEach") /\ RefOf(p) \in th[u].refs
      BY <3>1 DEF MonitorInv, HaltedInv
    <3>3. CASE u # t
      BY <2>3, <3>1, <3>2, <3>3 DEF At
    <3>4. CASE u = t
      <4>1. r # RefOf(p)
        BY <2>4, <3>1 DEF Current, RefOf
      <4> QED BY <2>2, <2>3, <3>1, <3>2, <3>4, <4>1 DEF At
    <3> QED BY <3>3, <3>4
  <2>8. RunsInv'
    <3>1. Collecting' = {}
      BY <1>1, <2>2, <2>3, CollectorAlone DEF Collecting
    <3> QED BY <3>1 DEF RunsInv
  <2>9. BlockedInv'
    BY <1>2, <2>4, <2>5 DEF MonitorInv, BlockedInv, Known
  <2>10. RefsInv'
    <3> SUFFICES ASSUME NEW u \in Threads, At(u, "each")', NEW q \in th'[u].refs
                 PROVE  /\ q[2] <= made'[q[1]]
                        /\ Current(q)' => schedulers'[q[1]].halted /\ q[1] \notin blocked'
      BY DEF RefsInv
    <3>1. At(u, "each") /\ q \in th[u].refs
      BY <2>2, <2>3 DEF At
    <3>2. Current(q)' = Current(q) /\ (Current(q) => q[1] \in Profiles)
      BY <2>5 DEF Current, Known
    <3> QED BY <1>2, <2>4, <3>1, <3>2 DEF MonitorInv, RefsInv
  <2> QED BY <2>6, <2>7, <2>8, <2>9, <2>10 DEF MonitorInv
<1> QED BY <1>4, <1>5

LEMMA ReleaseMonitored ==
  ASSUME SchedulerInv, MonitorInv, NEW t \in Threads, Release(t)
  PROVE  MonitorInv'
<1> DEFINE c == [th[t] EXCEPT !.at = "gone"]
<1>1. TypeOK /\ th \in [Threads -> Calls] /\ th[t] \in Calls /\ clicks \in Nat /\ th[t].at = "release"
  BY DEF SchedulerInv, TypeOK, Release, At
<1>2. UNCHANGED <<schedulers, made, blocked, paused, offset, clicks>>
  BY DEF Release, coordVars
<1>3. th[t].op = "exit" /\ th[t].op \in OpsOf(t) /\ paused
  BY <1>1, StagesOfOps DEF MonitorInv, StageInv, PausedInv, Exiting
<1>4. c \in Calls /\ c.at = "gone" /\ c.op = "exit" /\ th' = [th EXCEPT ![t] = c]
  BY <1>1, <1>3 DEF Release, Goto, Calls, Labels
<1>5. c.op \in OpsOf(t) /\ c.at \in Stages(c.op) /\ clicks' \in Nat /\ clicks' >= clicks
  BY <1>1, <1>2, <1>3, <1>4 DEF Stages
<1> HIDE DEF c
<1>6. StageInv' /\ TurnsInv'
  BY <1>1, <1>3, <1>4, <1>5, TurnsKeep DEF MonitorInv
<1>7. PausedInv'
  <2>1. th'[t] = c /\ \A u \in Threads \ {t} : th'[u] = th[u]
    BY <1>1, <1>4
  <2> QED BY <1>2, <1>3, <1>4, <2>1 DEF MonitorInv, PausedInv, Opening, Exiting, At, Threads
<1>8. HaltedInv' /\ RunsInv' /\ BlockedInv' /\ RefsInv'
  BY <1>1, <1>2, <1>4, QuietKeeps DEF MonitorInv
<1> QED BY <1>6, <1>7, <1>8 DEF MonitorInv

\* A step of the monitored program keeps the invariant.
LEMMA NextMonitored ==
  ASSUME QuietShutdown, SchedulerInv, MonitorInv, [Next]_vars
  PROVE  MonitorInv'
<1>1. {"main", "loop", "tray"} \subseteq Threads /\ clicks \in Nat
  BY DEF Threads, SchedulerInv, TypeOK
<1>2. CASE BeginStart \/ Poll \/ TogglePause \/ SyncNow({}) \/ \E p \in Profiles : SyncNow({p})
  <2>1. \E t \in Threads :
          \/ BeginStart /\ t = "main"
          \/ Poll /\ t = "loop"
          \/ TogglePause /\ t = "tray"
          \/ (SyncNow({}) \/ \E p \in Profiles : SyncNow({p})) /\ t = "tray"
    BY <1>1, <1>2
  <2> QED BY <2>1, EnterMonitored
<1>3. CASE TickCheck \/ TickNext \/ Time
  BY <1>1, <1>3, QueryMonitored, TickNextMonitored, TimeMonitored
<1>4. CASE \E p \in Profiles : EditProfile(p) \/ \E s \in Secrets : EditSecret(p, s)
  <2>1. UNCHANGED <<th, owner, coordVars>> /\ clicks' \in {clicks, clicks + 1}
    BY <1>4 DEF EditProfile, EditSecret, runVars
  <2> QED BY <2>1, SameMonitored
<1>5. ASSUME NEW t \in Threads, Call(t)
      PROVE  MonitorInv'
  BY <1>5, QueryMonitored, RefreshMonitored, OpenMonitored, StartEachMonitored,
     PauseEachMonitored, SelectMonitored, RunNowMonitored, ReleaseMonitored, CollectMonitored,
     FinishMonitored DEF Call
<1>6. ASSUME NEW t \in Threads, PauseLock(t) \/ ListFails(t) \/ Exit(t)
      PROVE  MonitorInv'
  BY <1>6, PauseLockMonitored, QueryMonitored, EnterMonitored
<1>7. CASE UNCHANGED vars
  <2>1. UNCHANGED <<th, owner, coordVars>> /\ clicks' \in {clicks, clicks + 1}
    BY <1>7 DEF vars, runVars
  <2> QED BY <2>1, SameMonitored
<1> QED BY <1>2, <1>3, <1>4, <1>5, <1>6, <1>7 DEF Next

\* While main's shutdown and a resume do not meet, the invariant holds.
THEOREM MonitorInvariant == Spec /\ []QuietShutdown => [](SchedulerInv /\ MonitorInv)
<1>1. Init => SchedulerInv /\ MonitorInv
  BY InitSchedulerInv, InitMonitorInv
<1>2. QuietShutdown /\ SchedulerInv /\ MonitorInv /\ [Next]_vars => (SchedulerInv /\ MonitorInv)'
  BY NextKeeps, NextMonitored
<1> QED BY <1>1, <1>2, PTL DEF Spec

\* They never meet where the tray, whose thread is then busy, is what shuts the
\* program down, or where no menu is clicked.
THEOREM ShutdownIsQuiet ==
  ASSUME MaxClicks = 0 \/ "main" \notin Exits PROVE Spec => []QuietShutdown
<1>1. SchedulerInv /\ MonitorInv => QuietShutdown
  <2> SUFFICES ASSUME SchedulerInv, MonitorInv, th["main"].op = "exit", th["tray"].op = "resume"
               PROVE  FALSE
    BY DEF QuietShutdown
  <2>1. "main" \in Exits /\ clicks > 0
    BY DEF MonitorInv, TurnsInv, Threads
  <2>2. clicks \in 0 .. MaxClicks /\ MaxClicks \in Nat
    BY SchedulerAssumption DEF SchedulerInv, TypeOK
  <2> QED BY <2>1, <2>2
<1>2. Init => SchedulerInv /\ MonitorInv
  BY InitSchedulerInv, InitMonitorInv
<1>3. SchedulerInv /\ MonitorInv /\ [Next]_vars => (SchedulerInv /\ MonitorInv)'
  BY <1>1, NextKeeps, NextMonitored
<1> QED BY <1>1, <1>2, <1>3, PTL DEF Spec

\* A profile that failed to authenticate is not collected again while it is
\* blocked: pause, resume and refresh leave its scheduler paused.
THEOREM BlockedProfilesStayStopped ==
  Spec /\ []QuietShutdown => []BlockedStaysStopped
<1>1. SchedulerInv /\ MonitorInv => BlockedStaysStopped
  BY DEF MonitorInv, BlockedInv, BlockedStaysStopped
<1> QED BY <1>1, MonitorInvariant, PTL

\* While monitoring is paused nothing is collected, whatever tick saw of the
\* flag before it had the lock.
THEOREM PauseQuiesces == Spec /\ []QuietShutdown => []PausedIsQuiet
<1>1. SchedulerInv /\ MonitorInv => PausedIsQuiet
  BY DEF MonitorInv, RunsInv, PausedIsQuiet
<1> QED BY <1>1, MonitorInvariant, PTL

\* The instance lock is given up when no collection is under way.
THEOREM ShutdownQuiesces == Spec /\ []QuietShutdown => []ExitQuiesces
<1>1. SchedulerInv /\ MonitorInv => ExitQuiesces
  <2> SUFFICES ASSUME SchedulerInv, MonitorInv, ~owner PROVE Collecting = {}
    BY DEF ExitQuiesces
  <2>1. PICK t \in Threads : At(t, "gone")
    BY DEF MonitorInv, TurnsInv
  <2>2. Exiting(t)
    BY <2>1, StagesOfOps DEF MonitorInv, At, Exiting
  <2>3. paused
    BY <2>2 DEF MonitorInv, PausedInv
  <2> QED BY <2>3 DEF MonitorInv, RunsInv, Collecting
<1> QED BY <1>1, MonitorInvariant, PTL

\* Where they cannot meet, the three hold of every behaviour.
THEOREM TrayShutdownIsSafe ==
  ASSUME MaxClicks = 0 \/ "main" \notin Exits
  PROVE  Spec => [](BlockedStaysStopped /\ PausedIsQuiet /\ ExitQuiesces)
BY ShutdownIsQuiet, BlockedProfilesStayStopped, PauseQuiesces, ShutdownQuiesces, PTL
=============================================================================

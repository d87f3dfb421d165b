-------------------------- MODULE ProfileScheduler --------------------------
(***************************************************************************)
(* Background monitoring: ProfileSchedulerCoordinator and DesktopRuntime   *)
(* of desktop_runtime.py over one CollectionScheduler (scheduler.py) per   *)
(* profile.                                                                *)
(*                                                                         *)
(* Three threads act: "main" starts monitoring and may shut the program    *)
(* down, "loop" polls tick(), "tray" runs the menu callbacks (sync now,    *)
(* pause or resume, exit) one at a time.  HTTP handlers change profiles    *)
(* and credentials meanwhile.  A step is what happens between two lock     *)
(* operations, or one read of the database or of the credential store.     *)
(*                                                                         *)
(* Monotonic deadlines are kept as the time that remains, 0 when due, so   *)
(* a long sleep is any number of Time steps.  A reference to a scheduler   *)
(* object is its profile and a generation: once the coordinator dropped    *)
(* the object, acting on it has no effect that anyone sees.                *)
(***************************************************************************)
EXTENDS Integers, FiniteSets

CONSTANTS
  Profiles,       \* profile identifiers; their order is that of sorted()
  FirstEnabled,   \* profiles enabled when the program starts
  FirstSecrets,   \* what the credential store may hold then
  Interval,       \* monitoring.interval_seconds
  BackoffBase,    \* BackoffPolicy.base_seconds
  BackoffMax,     \* BackoffPolicy.maximum_seconds
  Exits,          \* threads that may shut the program down
  MaxEdits,       \* bound: changes of profiles and credentials
  MaxClicks,      \* bound: menu clicks
  MaxFaults       \* bound: failing reads of the database or credential store

Threads  == {"main", "loop", "tray"}
Secrets  == {"valid", "rejected", "missing"}
Outcomes == {"success", "partial", "auth", "retryable"}
Free     == "free"
Never    == -1
MaxWait  == IF Interval > BackoffMax THEN Interval ELSE BackoffMax

ASSUME SchedulerAssumption ==
  /\ Profiles \subseteq Nat /\ IsFiniteSet(Profiles)
  /\ FirstEnabled \subseteq Profiles
  /\ FirstSecrets \subseteq Secrets
  /\ Interval \in Nat \ {0} /\ BackoffBase \in Nat \ {0}
  /\ BackoffMax \in Nat /\ BackoffMax >= BackoffBase
  /\ Exits \subseteq {"main", "tray"}
  /\ MaxEdits \in Nat /\ MaxClicks \in Nat /\ MaxFaults \in Nat

VARIABLES
  enabled,     \* profiles enabled in the database
  secret,      \* the credential store, by profile
  schedulers,  \* _schedulers: the scheduler of each profile, or NoScheduler
  made,        \* generations of scheduler objects made, by profile
  blocked,     \* _blocked_profiles
  paused,      \* the coordinator's _paused
  offset,      \* _round_robin_offset
  execution,   \* holder of _execution_lock
  stop,        \* DesktopRuntime._stop
  owner,       \* DesktopRuntime._owns_lock
  th,          \* the call each thread is in
  edits, clicks, faults

envVars   == <<enabled, secret, edits>>
coordVars == <<schedulers, made, blocked, paused, offset>>
runVars   == <<stop, owner>>
vars == <<envVars, coordVars, execution, runVars, th, clicks, faults>>

NoScheduler == [gen |-> 0, halted |-> TRUE, running |-> FALSE, next |-> Never, delay |-> 0]
NewScheduler(g) == [NoScheduler EXCEPT !.gen = g]
NoRef   == <<0, 0>>
Resting == [at |-> "idle", op |-> "none", ids |-> {}, todo |-> {}, refs |-> {},
            cur |-> NoRef, secret |-> "missing", outcome |-> "success"]

Known      == {p \in Profiles : schedulers[p].gen # 0}
RefOf(p)   == <<p, schedulers[p].gen>>
Current(r) == r[1] \in Known /\ RefOf(r[1]) = r

\* The profile that Select puts next: positions are those of the sorted
\* identifiers ids, rotated by the offset.
Position(p, ids) == Cardinality({q \in ids : q < p})
Turn(p, ids) == (Position(p, ids) - offset) % Cardinality(ids)
NextInTurn(ids, todo) ==
  CHOOSE p \in todo : \A q \in todo : Turn(p, ids) <= Turn(q, ids)

\* BackoffPolicy.delay: the delay doubles up to a cap, with up to a fifth of
\* jitter.  A scheduler keeps the delay of its last failure in the place of
\* the number of failures, 0 after a success.
Lower(a, b) == IF a < b THEN a ELSE b
RawDelay(d) == IF d = 0 THEN BackoffBase ELSE Lower(BackoffMax, 2 * d)

Delays(d) == d .. Lower(BackoffMax, d + (d + 4) \div 5)

Labels == {"idle", "unborn", "dead", "gone", "begin", "check", "acquire", "list",
           "refresh", "select", "open", "each", "pick", "run", "read", "sync",
           "finish", "pauseLock", "pauseEach", "release"}
Ops == {"none", "start", "tick", "run_now", "resume", "pause", "exit"}
Schedulers ==
  [gen : Nat, halted : BOOLEAN, running : BOOLEAN, next : {Never} \union (0 .. MaxWait),
   delay : 0 .. BackoffMax]
Calls ==
  [at : Labels, op : Ops, ids : SUBSET Profiles, todo : SUBSET Profiles,
   refs : SUBSET (Profiles \X Nat), cur : (Profiles \X Nat) \union {NoRef},
   secret : Secrets, outcome : Outcomes]

TypeOK ==
  /\ enabled \subseteq Profiles
  /\ secret \in [Profiles -> Secrets]
  /\ schedulers \in [Profiles -> Schedulers]
  /\ made \in [Profiles -> Nat]
  /\ blocked \subseteq Profiles
  /\ paused \in BOOLEAN /\ stop \in BOOLEAN /\ owner \in BOOLEAN
  /\ offset \in Nat
  /\ execution \in Threads \union {Free}
  /\ th \in [Threads -> Calls]
  /\ edits \in 0 .. MaxEdits /\ clicks \in 0 .. MaxClicks /\ faults \in 0 .. MaxFaults

Init ==
  /\ enabled = FirstEnabled
  /\ secret \in [Profiles -> FirstSecrets]
  /\ schedulers = [p \in Profiles |-> NoScheduler]
  /\ made = [p \in Profiles |-> 0]
  /\ blocked = {}
  /\ paused = TRUE
  /\ offset = 0
  /\ execution = Free
  /\ stop = FALSE
  /\ owner = TRUE
  /\ th = [t \in Threads |-> [Resting EXCEPT !.at =
             CASE t = "main" -> "begin" [] t = "loop" -> "unborn" [] OTHER -> "idle"]]
  /\ edits = 0 /\ clicks = 0 /\ faults = 0

----------------------------------------------------------------------------
At(t, label)   == th[t].at = label
Goto(t, label) == th' = [th EXCEPT ![t].at = label]
Return(t)      == th' = [th EXCEPT ![t] = Resting]
Die(t)         == th' = [th EXCEPT ![t] = [Resting EXCEPT !.at = "dead"]]
\* Mutant: only a success frees the lock.
Unlock_OnSuccess(t) ==
  execution' = IF execution = t /\ th[t].outcome = "success" THEN Free ELSE execution

Unlock(t)      == execution' = IF execution = t THEN Free ELSE execution

\* DesktopRuntime.start: monitoring is enabled in the configuration, or not.
BeginStart ==
  /\ At("main", "begin")
  /\ \E op \in {"start", "pause"} :
       th' = [th EXCEPT !["main"].op = op,
                        !["main"].at = IF op = "start" THEN "list" ELSE "pauseLock"]
  /\ UNCHANGED <<envVars, coordVars, execution, runVars, clicks, faults>>

\* ... its last lines clear _stop and start the loop thread.
Started ==
  /\ th' = [th EXCEPT !["main"] = Resting,
                      !["loop"] = IF At("loop", "unborn") THEN Resting ELSE th["loop"]]
  /\ stop' = IF At("loop", "unborn") THEN FALSE ELSE stop

\* poll_once and the first half of tick: both flags are read without the lock.
Poll ==
  /\ At("loop", "idle") /\ owner /\ ~stop
  /\ th' = [th EXCEPT !["loop"].at = "check", !["loop"].op = "tick"]
  /\ UNCHANGED <<envVars, coordVars, execution, runVars, clicks, faults>>

TickCheck ==
  /\ At("loop", "check")
  /\ IF paused THEN Return("loop") ELSE Goto("loop", "acquire")
  /\ UNCHANGED <<envVars, coordVars, execution, runVars, clicks, faults>>

\* A click on a menu entry.  Clicks come once start() is over, while the tray lives.
Click ==
  /\ At("tray", "idle") /\ ~At("loop", "unborn") /\ owner
  /\ clicks < MaxClicks /\ clicks' = clicks + 1

\* sync_now: the first half of run_now; active holds the active profile, if any.
SyncNow(active) ==
  /\ Click
  /\ th' = IF paused THEN th
           ELSE [th EXCEPT !["tray"].at = "acquire", !["tray"].op = "run_now",
                           !["tray"].todo = active]
  /\ UNCHANGED <<envVars, coordVars, execution, runVars, faults>>

TogglePause ==
  /\ Click
  /\ th' = IF paused
           THEN [th EXCEPT !["tray"].at = "list", !["tray"].op = "resume"]
           ELSE [th EXCEPT !["tray"].at = "pauseLock", !["tray"].op = "pause"]
  /\ UNCHANGED <<envVars, coordVars, execution, runVars, faults>>

\* Mutant: shutdown stops the loop but does not pause the schedulers.
Exit_StopsLoopOnly(t) ==
  /\ t \in Exits
  /\ At(t, "idle") /\ ~At("loop", "unborn") /\ owner
  /\ \A u \in Threads : th[u].op # "exit"
  /\ stop' = TRUE
  /\ th' = [th EXCEPT ![t].at = "release", ![t].op = "exit"]
  /\ UNCHANGED <<envVars, coordVars, execution, owner, clicks, faults>>

\* shutdown, up to the pause of the coordinator; the second caller finds the
\* shutdown lock taken and later nothing left to do.
Exit(t) ==
  /\ t \in Exits
  /\ At(t, "idle") /\ ~At("loop", "unborn") /\ owner
  /\ \A u \in Threads : th[u].op # "exit"
  /\ stop' = TRUE
  /\ th' = [th EXCEPT ![t].at = "pauseLock", ![t].op = "exit"]
  /\ UNCHANGED <<envVars, coordVars, execution, owner, clicks, faults>>

\* ... and its end, after the tray and the server are down.
Release(t) ==
  /\ At(t, "release")
  /\ owner' = FALSE
  /\ Goto(t, "gone")
  /\ UNCHANGED <<envVars, coordVars, execution, stop, clicks, faults>>

\* Mutant: run_now does not take the lock.
Acquire_TickOnly(t) ==
  /\ At(t, "acquire")
  /\ IF execution = Free \/ th[t].op = "run_now"
     THEN Goto(t, "list") /\ execution' = IF th[t].op = "tick" THEN t ELSE execution
     ELSE Return(t) /\ UNCHANGED execution
  /\ UNCHANGED <<envVars, coordVars, runVars, clicks, faults>>

\* tick and run_now try the execution lock and give up at once.
Acquire(t) ==
  /\ At(t, "acquire")
  /\ IF execution = Free
     THEN execution' = t /\ Goto(t, "list")
     ELSE Return(t) /\ UNCHANGED execution
  /\ UNCHANGED <<envVars, coordVars, runVars, clicks, faults>>

----------------------------------------------------------------------------
\* refresh_profiles: the query, which the code makes outside the state lock ...
ListEnabled(t) ==
  /\ At(t, "list")
  /\ th' = [th EXCEPT ![t].at = "refresh", ![t].ids = enabled]
  /\ UNCHANGED <<envVars, coordVars, execution, runVars, clicks, faults>>

\* ... which may raise: tick and run_now free the lock on the way out, but
\* nothing in _run_loop catches the exception.
ListFails(t) ==
  /\ At(t, "list") /\ t # "main"
  /\ faults < MaxFaults /\ faults' = faults + 1
  /\ Unlock(t)
  /\ IF t = "loop" THEN Die(t) ELSE Return(t)
  /\ UNCHANGED <<envVars, coordVars, runVars, clicks>>

\* ... and the update of _schedulers.
Refresh(t) ==
  /\ At(t, "refresh")
  /\ LET ids     == th[t].ids
         removed == Known \ ids
         added   == ids \ Known
     IN /\ schedulers' = [p \in Profiles |->
             IF p \in removed THEN NoScheduler
             ELSE IF p \in added THEN NewScheduler(made[p] + 1)
             ELSE schedulers[p]]
        /\ made' = [p \in Profiles |-> IF p \in added THEN made[p] + 1 ELSE made[p]]
        /\ blocked' = blocked \ removed
  /\ Goto(t, IF th[t].op \in {"tick", "run_now"} THEN "select" ELSE "open")
  /\ UNCHANGED <<envVars, paused, offset, execution, runVars, clicks, faults>>

\* Mutant: resume lists every scheduler.
Open_All(t) ==
  /\ At(t, "open")
  /\ paused' = FALSE
  /\ th' = [th EXCEPT ![t].at = "each", ![t].refs = {RefOf(p) : p \in Known}]
  /\ UNCHANGED <<envVars, schedulers, made, blocked, offset, execution, runVars,
                 clicks, faults>>

\* start and resume: monitoring is on, and the unblocked schedulers are listed.
Open(t) ==
  /\ At(t, "open")
  /\ paused' = FALSE
  /\ th' = [th EXCEPT ![t].at = "each", ![t].refs = {RefOf(p) : p \in Known \ blocked}]
  /\ UNCHANGED <<envVars, schedulers, made, blocked, offset, execution, runVars,
                 clicks, faults>>

\* CollectionScheduler.start: after an interval at the program's start, at
\* once on resume, which leaves a scheduler with a deadline alone.
StartEach(t) ==
  /\ At(t, "each")
  /\ IF th[t].refs = {}
     THEN /\ IF t = "main" THEN Started ELSE Return(t) /\ UNCHANGED stop
          /\ UNCHANGED schedulers
     ELSE \E r \in th[t].refs :
            /\ schedulers' =
                 IF ~Current(r) \/ (th[t].op = "resume" /\ schedulers[r[1]].next # Never)
                 THEN schedulers
                 ELSE [schedulers EXCEPT
                        ![r[1]].halted = FALSE,
                        ![r[1]].next = IF th[t].op = "resume" THEN 0 ELSE Interval]
            /\ th' = [th EXCEPT ![t].refs = @ \ {r}]
            /\ UNCHANGED stop
  /\ UNCHANGED <<envVars, made, blocked, paused, offset, execution, owner, clicks, faults>>

\* Mutant: pause does not wait for a collection under way.
PauseLock_NoWait(t) ==
  /\ At(t, "pauseLock")
  /\ paused' = TRUE
  /\ th' = [th EXCEPT ![t].at = "pauseEach", ![t].refs = {RefOf(p) : p \in Known}]
  /\ UNCHANGED <<envVars, schedulers, made, blocked, offset, execution, runVars,
                 clicks, faults>>

\* pause: waits for the execution lock, so for a collection under way.
PauseLock(t) ==
  /\ At(t, "pauseLock")
  /\ execution = Free
  /\ execution' = t
  /\ paused' = TRUE
  /\ th' = [th EXCEPT ![t].at = "pauseEach", ![t].refs = {RefOf(p) : p \in Known}]
  /\ UNCHANGED <<envVars, schedulers, made, blocked, offset, runVars, clicks, faults>>

PauseEach(t) ==
  /\ At(t, "pauseEach")
  /\ IF th[t].refs = {}
     THEN /\ Unlock(t)
          /\ CASE th[t].op = "exit" -> Goto(t, "release") /\ UNCHANGED stop
               [] t = "main" /\ th[t].op = "pause" -> Started
               [] OTHER -> Return(t) /\ UNCHANGED stop
          /\ UNCHANGED schedulers
     ELSE \E r \in th[t].refs :
            /\ schedulers' = IF ~Current(r) THEN schedulers
                             ELSE [schedulers EXCEPT ![r[1]].halted = TRUE,
                                                     ![r[1]].next = Never]
            /\ th' = [th EXCEPT ![t].refs = @ \ {r}]
            /\ UNCHANGED <<execution, stop>>
  /\ UNCHANGED <<envVars, made, blocked, paused, offset, owner, clicks, faults>>

----------------------------------------------------------------------------
\* tick: the profiles in turn; run_now: the wanted profile, or the first one
\* when no profile is active.
Select(t) ==
  /\ At(t, "select")
  /\ LET wanted == IF th[t].op = "tick" THEN Known
                   ELSE IF th[t].todo # {} THEN th[t].todo \intersect Known
                   ELSE {p \in Known : \A q \in Known : p <= q}
     IN IF wanted = {}
        THEN Unlock(t) /\ Return(t)
        ELSE /\ th' = IF th[t].op = "tick"
                      THEN [th EXCEPT ![t].at = "pick", ![t].ids = Known, ![t].todo = Known]
                      ELSE [th EXCEPT ![t].at = "run",
                                      ![t].cur = RefOf(CHOOSE p \in wanted : TRUE)]
             /\ UNCHANGED execution
  /\ UNCHANGED <<envVars, coordVars, runVars, clicks, faults>>

\* CollectionScheduler.tick and the check of _run, which repeats it under the
\* same lock; _schedulers[profile_id] raises when the profile is gone.
Ready(p) == ~schedulers[p].halted /\ ~schedulers[p].running

TickNext ==
  /\ At("loop", "pick")
  /\ LET p == NextInTurn(th["loop"].ids, th["loop"].todo)
     IN \/ /\ th["loop"].todo = {}
           /\ Unlock("loop") /\ Return("loop")
           /\ UNCHANGED schedulers
        \/ /\ th["loop"].todo # {} /\ p \notin Known
           /\ Unlock("loop") /\ Die("loop")
           /\ UNCHANGED schedulers
        \/ /\ th["loop"].todo # {} /\ p \in Known
           /\ Ready(p) /\ schedulers[p].next = 0
           /\ schedulers' = [schedulers EXCEPT ![p].running = TRUE]
           /\ th' = [th EXCEPT !["loop"].at = "read", !["loop"].cur = RefOf(p)]
           /\ UNCHANGED execution
        \/ /\ th["loop"].todo # {} /\ p \in Known
           /\ ~(Ready(p) /\ schedulers[p].next = 0)
           /\ th' = [th EXCEPT !["loop"].todo = @ \ {p}]
           /\ UNCHANGED <<schedulers, execution>>
  /\ UNCHANGED <<envVars, made, blocked, paused, offset, runVars, clicks, faults>>

RunNow(t) ==
  /\ At(t, "run")
  /\ LET r == th[t].cur
     IN IF Current(r) /\ Ready(r[1])
        THEN /\ schedulers' = [schedulers EXCEPT ![r[1]].running = TRUE]
             /\ Goto(t, "read")
             /\ UNCHANGED execution
        ELSE /\ Unlock(t) /\ Return(t)
             /\ UNCHANGED schedulers
  /\ UNCHANGED <<envVars, made, blocked, paused, offset, runVars, clicks, faults>>

----------------------------------------------------------------------------
\* _collect reads the profile and its credential; any failure to read the
\* credential counts as an authentication error and blocks the profile.
CollectRead(t) ==
  /\ At(t, "read")
  /\ LET p == th[t].cur[1]
         refuse == /\ blocked' = blocked \union {p}
                   /\ th' = [th EXCEPT ![t].at = "finish", ![t].outcome = "auth"]
     IN \/ /\ p \notin enabled \/ secret[p] = "missing"
           /\ refuse /\ UNCHANGED faults
        \/ /\ p \in enabled /\ secret[p] # "missing"
           /\ faults < MaxFaults /\ faults' = faults + 1
           /\ refuse
        \/ /\ p \in enabled /\ secret[p] # "missing"
           /\ th' = [th EXCEPT ![t].at = "sync", ![t].secret = secret[p]]
           /\ UNCHANGED <<blocked, faults>>
  /\ UNCHANGED <<envVars, schedulers, made, paused, offset, execution, runVars, clicks>>

\* ProfileSyncer.sync answers for the key it was given; the handler of the
\* answer (the alert dispatcher) cannot make _collect fail.
CollectSync(t) ==
  /\ At(t, "sync")
  /\ \E o \in IF th[t].secret = "valid" THEN Outcomes \ {"auth"} ELSE {"auth", "retryable"} :
       /\ th' = [th EXCEPT ![t].at = "finish", ![t].outcome = o]
       /\ blocked' = IF o = "auth" THEN blocked \union {th[t].cur[1]} ELSE blocked
  /\ UNCHANGED <<envVars, schedulers, made, paused, offset, execution, runVars,
                 clicks, faults>>

\* The end of CollectionScheduler._run: what an outcome makes of a scheduler.
RunResults(s, o) ==
  CASE o \in {"success", "partial"} ->
         {[s EXCEPT !.running = FALSE, !.next = Interval, !.delay = 0]}
    [] o = "auth" -> {[s EXCEPT !.running = FALSE, !.next = Never, !.halted = TRUE]}
    [] OTHER -> {[s EXCEPT !.running = FALSE, !.next = n, !.delay = RawDelay(s.delay)] :
                   n \in Delays(RawDelay(s.delay))}

\* tick moves its turn past the profile that ran.
\* Mutant: the next tick starts from the same profile.
TurnAfter_Same(t) == offset

TurnAfter(t) ==
  IF th[t].op = "tick"
  THEN (Position(th[t].cur[1], th[t].ids) + 1) % Cardinality(th[t].ids)
  ELSE offset

\* _run ends, and with it the call of tick or run_now, which frees the lock.
CollectFinish(t) ==
  /\ At(t, "finish")
  /\ LET r == th[t].cur
         p == r[1]
     IN IF Current(r)
        THEN \E s \in RunResults(schedulers[p], th[t].outcome) :
               schedulers' = [schedulers EXCEPT ![p] = s]
        ELSE UNCHANGED schedulers
  /\ offset' = TurnAfter(t)
  /\ Unlock(t)
  /\ Return(t)
  /\ UNCHANGED <<envVars, made, blocked, paused, runVars, clicks, faults>>

----------------------------------------------------------------------------
\* HTTP handlers enable, disable, create and delete profiles and replace or
\* delete credentials; the coordinator is not told.
EditProfile(p) ==
  /\ edits < MaxEdits /\ edits' = edits + 1
  /\ enabled' = IF p \in enabled THEN enabled \ {p} ELSE enabled \union {p}
  /\ UNCHANGED <<secret, coordVars, execution, runVars, th, clicks, faults>>

EditSecret(p, s) ==
  /\ edits < MaxEdits /\ edits' = edits + 1
  /\ s # secret[p]
  /\ secret' = [secret EXCEPT ![p] = s]
  /\ UNCHANGED <<enabled, coordVars, execution, runVars, th, clicks, faults>>

Time ==
  /\ \E p \in Profiles : schedulers[p].next > 0
  /\ schedulers' = [p \in Profiles |->
       [schedulers[p] EXCEPT !.next = IF @ > 0 THEN @ - 1 ELSE @]]
  /\ UNCHANGED <<envVars, made, blocked, paused, offset, execution, runVars, th,
                 clicks, faults>>

Call(t) ==
  \/ Acquire(t) \/ ListEnabled(t) \/ Refresh(t) \/ Open(t) \/ StartEach(t)
  \/ PauseEach(t) \/ Select(t) \/ RunNow(t) \/ Release(t)
  \/ CollectRead(t) \/ CollectSync(t) \/ CollectFinish(t)

Next ==
  \/ BeginStart \/ Poll \/ TickCheck \/ TickNext \/ TogglePause \/ Time
  \/ \E p \in Profiles : EditProfile(p) \/ \E s \in Secrets : EditSecret(p, s)
  \/ SyncNow({}) \/ \E p \in Profiles : SyncNow({p})
  \/ \E t \in Threads : Call(t) \/ PauseLock(t) \/ ListFails(t) \/ Exit(t)

Spec == Init /\ [][Next]_vars

\* The threads run; pause gets the execution lock in the end because the loop
\* leaves it free for poll_seconds between two ticks; time passes.
Fairness ==
  /\ WF_vars(BeginStart) /\ WF_vars(Poll) /\ WF_vars(TickCheck) /\ WF_vars(TickNext)
  /\ \A t \in Threads : WF_vars(Call(t)) /\ SF_vars(PauseLock(t))
  /\ WF_vars(Time)

FairSpec == Spec /\ Fairness

----------------------------------------------------------------------------
Collecting == {t \in Threads : th[t].at \in {"read", "sync", "finish"}}

\* Manual and background collections never overlap, whatever the profiles:
\* tick and run_now hold the execution lock from the choice to the end.
OneCollection == \A t, u \in Collecting : t = u

\* A profile that failed to authenticate stays stopped across pauses, resumes
\* and refreshes: its scheduler has no way back while the profile is blocked.
BlockedStaysStopped ==
  \A p \in blocked \intersect Known : ~schedulers[p].running => schedulers[p].halted

\* A scheduler has a deadline exactly when it is not paused.
\* resume() skips a scheduler that has a deadline: one that were paused with a
\* deadline left would never run again.
DeadlineUnlessPaused ==
  \A p \in Known : schedulers[p].halted <=> schedulers[p].next = Never

\* While monitoring is paused and no start or resume is under way, nothing
\* is being collected, although tick looks at the flag before it has the lock.
PausedIsQuiet ==
  paused /\ (\A t \in Threads : th[t].op \notin {"start", "resume"}) => Collecting = {}

\* The instance lock is given up when the schedulers are quiet: "Exit first
\* pauses all schedulers, then ... releases the lock" (desktop-runtime.md).
\* It holds for an exit from the tray, whose thread is then busy; a resume
\* in the tray during a shutdown by the main thread can undo the pause.
ExitQuiesces == ~owner => Collecting = {}

\* No profile starves: one whose scheduler stays started is collected again
\* and again, however often the others are due.
EveryoneServed ==
  \A p \in Profiles :
    <>[](~paused /\ owner /\ ~At("loop", "dead") /\ p \in Known /\ ~schedulers[p].halted)
      => []<>(\E t \in Collecting : th[t].cur[1] = p)

\* A menu call ends: it waits at most for the collection under way.
MenuReturns == []<>(At("tray", "idle") \/ At("tray", "gone"))

\* "Each enabled profile has an independent monotonic scheduler": a profile
\* that stays enabled, with a valid credential, while monitoring is on is
\* collected again and again.
EnabledIsCollected ==
  \A p \in Profiles :
    <>[](~paused /\ owner /\ ~At("loop", "dead") /\ p \in enabled /\ secret[p] = "valid")
      => []<>(\E t \in Collecting : th[t].cur[1] = p)
=============================================================================

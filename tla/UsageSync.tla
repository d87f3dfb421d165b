------------------------------ MODULE UsageSync ------------------------------
(***************************************************************************)
(* Usage synchronisation of one profile: UsageSyncService.sync of          *)
(* sync_service.py over the run, slice and bucket tables of database.py.   *)
(*                                                                         *)
(* Each database call of the service is one transaction, hence one action. *)
(* Two kinds of thread call the service: the background collector, which   *)
(* syncs from UTC midnight to now, and HTTP handlers, which sync a default *)
(* or an explicit range and exclude each other by the runtime's            *)
(* _data_lock.  The background collector does not take that lock.          *)
(*                                                                         *)
(* A UTC day lasts DayLength ticks.  The upstream answers one slice in     *)
(* pages, each to a request of its own and from the usage data of that     *)
(* moment, which may have been corrected since the page before.  A page is *)
(* abstracted to its usage (project, model, tier, tokens) and its cursor;  *)
(* a row remembers the pages that were fetched with it.                    *)
(***************************************************************************)
EXTENDS Naturals, FiniteSets, Sequences

CONSTANTS
  Background,      \* collector threads (the global execution lock admits one)
  Manual,          \* HTTP handler threads
  DayLength,       \* ticks in a UTC day
  Days,            \* UTC days that are modelled
  Lookback,        \* days of the default range of a manual sync
  ExplicitRanges,  \* <<from, to>> ranges a manual sync may ask for
  Cursors,         \* cursors the upstream names a further page by
  NoCursor,        \* the cursor of a last page
  Usages,          \* what the upstream may report on a page ...
  NoUsage,         \* ... or that there is nothing on it
  MaxRuns,         \* bound: collection runs ever started
  ClockGoesBack    \* whether the wall clock may be set back

Workers  == Background \union Manual
DayIds   == 0 .. (Days - 1)
Horizon  == Days * DayLength
RunIds   == 1 .. MaxRuns
NoRun    == 0
Pages    == [usage : Usages, next : Cursors \union {NoCursor}]

ASSUME SyncAssumption ==
  /\ Background \intersect Manual = {}
  /\ DayLength \in Nat \ {0}
  /\ Days \in Nat \ {0}
  /\ Lookback \in Nat \ {0}
  /\ ExplicitRanges \subseteq (Nat \X Nat)
  /\ NoCursor \notin Cursors
  /\ MaxRuns \in Nat
  /\ ClockGoesBack \in BOOLEAN

VARIABLES
  now,        \* wall clock
  runs,       \* table collection_runs
  slices,     \* table collection_slices, by run and UTC day
  buckets,    \* table usage_buckets
  job         \* the sync call each thread is in

dbVars == <<runs, slices, buckets>>
vars == <<now, runs, slices, buckets, job>>

RunStatuses   == {"absent", "running", "partial", "failed", "completed"}
Resumable     == {"running", "partial", "failed"}
SliceStatuses == {"none", "in_progress", "failed", "completed"}
Steps == {"idle", "open", "snapshot", "slice", "fetch", "reconcile",
          "fail", "finishFailed", "finish"}

Absent   == [from |-> 0, to |-> 0, status |-> "absent"]
IdleJob  == [pc |-> "idle", from |-> 0, to |-> 0, run |-> NoRun,
             done |-> {}, answer |-> <<>>]

-----------------------------------------------------------------------------
(* The UTC-day slices of a range and the rows of an answer.                *)

\* utc_day_slices: the days a range [from, to) meets; the slice of day d is
\* the part of the range that lies in it.
DaysOf(from, to) == {d \in DayIds : d * DayLength < to /\ from < (d + 1) * DayLength}
SliceFrom(from, d) == IF from > d * DayLength THEN from ELSE d * DayLength
SliceTo(to, d) == IF to < (d + 1) * DayLength THEN to ELSE (d + 1) * DayLength

Midnight(t) == t - (t % DayLength)

\* The rows of the pages a: an empty page has none.
RowsOf(from, to, a) ==
  {[from |-> from, to |-> to, page |-> p, answer |-> a] : p \in {q \in DOMAIN a : a[q].usage # NoUsage}}

\* The pages that one fetch was given from the first to the last.
Whole(a) == a # <<>> /\ \A p \in DOMAIN a : a[p].next = NoCursor <=> p = Len(a)

NewestResumable(from, to) ==
  LET found == {r \in RunIds : /\ runs[r].from = from
                               /\ runs[r].to = to
                               /\ runs[r].status \in Resumable}
  IN IF found = {} THEN NoRun
     ELSE CHOOSE r \in found : \A q \in found : q <= r

\* The next slice the loop of sync() works on: days done are skipped.
Pending(j) == DaysOf(j.from, j.to) \ j.done
NextDay(j) == CHOOSE d \in Pending(j) : \A e \in Pending(j) : d <= e

\* Bound: a new run is begun only while a run identifier is left for it.
RunsLeft ==
  Cardinality({w \in Workers : job[w].pc = "open" /\ job[w].run = NoRun})
    < Cardinality({r \in RunIds : runs[r].status = "absent"})

\* The runtime's _data_lock is held for the whole of a manual sync.
DataLockFree == \A w \in Manual : job[w].pc = "idle"

-----------------------------------------------------------------------------
Init ==
  /\ now = 0
  /\ runs = [r \in RunIds |-> Absent]
  /\ slices = [r \in RunIds |-> [d \in DayIds |-> "none"]]
  /\ buckets = {}
  /\ job = [w \in Workers |-> IdleJob]

Return(w) == job' = [job EXCEPT ![w] = IdleJob]

\* sync() starts: it validates the range and reads the newest resumable run.
Begin(w, from, to, resume) ==
  /\ job[w].pc = "idle"
  /\ from < to
  /\ to <= Horizon
  /\ LET found == IF resume THEN NewestResumable(from, to) ELSE NoRun
     IN /\ found = NoRun => RunsLeft
        /\ job' = [job EXCEPT ![w] =
                     [IdleJob EXCEPT !.pc = "open", !.from = from, !.to = to,
                                     !.run = found]]
  /\ UNCHANGED <<now, dbVars>>

\* ProductionProfileSyncer.sync: UTC midnight to now, always resuming.
BeginBackground(w) == Begin(w, Midnight(now), now, TRUE)

\* LocalRuntime.sync_usage: default_sync_range or an explicit range.
BeginManual(w) ==
  /\ DataLockFree
  /\ \E resume \in BOOLEAN :
       \/ /\ Lookback * DayLength <= Midnight(now)
          /\ Begin(w, Midnight(now) - Lookback * DayLength, Midnight(now), resume)
       \/ \E range \in ExplicitRanges : Begin(w, range[1], range[2], resume)

\* start_collection_run inserts a running run.
StartRun(w) ==
  /\ job[w].pc = "open"
  /\ job[w].run = NoRun
  /\ \E r \in RunIds :
       /\ runs[r].status = "absent"
       /\ \A q \in RunIds : q < r => runs[q].status # "absent"
       /\ runs' = [runs EXCEPT ![r] =
                     [from |-> job[w].from, to |-> job[w].to, status |-> "running"]]
       /\ job' = [job EXCEPT ![w].pc = "snapshot", ![w].run = r]
  /\ UNCHANGED <<now, slices, buckets>>

\* resume_collection_run refuses a run that was completed in the meantime.
ResumeRun(w) ==
  /\ job[w].pc = "open"
  /\ job[w].run # NoRun
  /\ \/ /\ runs[job[w].run].status = "completed"
        /\ Return(w)
        /\ UNCHANGED runs
     \/ /\ runs[job[w].run].status # "completed"
        /\ runs' = [runs EXCEPT ![job[w].run].status = "running"]
        /\ job' = [job EXCEPT ![w].pc = "snapshot"]
  /\ UNCHANGED <<now, slices, buckets>>

\* Mutant: what earlier attempts completed is not read.
Snapshot_Forgets(w) ==
  /\ job[w].pc = "snapshot"
  /\ job' = [job EXCEPT ![w].pc = "slice"]
  /\ UNCHANGED <<now, dbVars>>

\* list_collection_slices: the one read of what earlier attempts completed.
Snapshot(w) ==
  /\ job[w].pc = "snapshot"
  /\ LET done == {d \in DaysOf(job[w].from, job[w].to) :
                    slices[job[w].run][d] = "completed"}
     IN job' = [job EXCEPT ![w].done = done,
                  ![w].pc = IF done = DaysOf(job[w].from, job[w].to)
                            THEN "finish" ELSE "slice"]
  /\ UNCHANGED <<now, dbVars>>

\* record_slice_checkpoint and reconcile_slice require a running run
\* (_assert_slice_in_run) and raise ValueError otherwise.
RunIsRunning(w) == runs[job[w].run].status = "running"

SetSlice(w, status) ==
  slices' = [slices EXCEPT ![job[w].run][NextDay(job[w])] = status]

\* The checkpoint before the fetch is outside the try block: a ValueError
\* ends the call.  Nothing of the answer is settled yet.
StartSlice(w) ==
  /\ job[w].pc = "slice"
  /\ \/ /\ RunIsRunning(w)
        /\ SetSlice(w, "in_progress")
        /\ job' = [job EXCEPT ![w].pc = "fetch", ![w].answer = <<>>]
     \/ /\ ~RunIsRunning(w)
        /\ Return(w)
        /\ UNCHANGED slices
  /\ UNCHANGED <<now, runs, buckets>>

\* The cursors that were followed to the pages after the first (seen).
Seen(a) == {a[p].next : p \in DOMAIN a}

\* What follows a page: the reconciliation after the last one, an error if
\* its cursor was seen before, or else the request for the next page.
AfterPage(a, page) ==
  IF page.next = NoCursor THEN "reconcile"
  ELSE IF page.next \in Seen(a) THEN "fail" ELSE "fetch"

\* Mutant: the answer ends with its first page.
FetchPage_StopsEarly(w) ==
  /\ job[w].pc = "fetch"
  /\ RunIsRunning(w)
  /\ SetSlice(w, "in_progress")
  /\ \E page \in Pages :
       job' = [job EXCEPT ![w].answer = Append(@, page), ![w].pc = "reconcile"]
  /\ UNCHANGED <<now, runs, buckets>>

\* Mutant: a cursor that was used before is followed.
FetchPage_RepeatsCursor(w) ==
  /\ job[w].pc = "fetch"
  /\ RunIsRunning(w)
  /\ SetSlice(w, "in_progress")
  /\ \E page \in Pages :
       job' = [job EXCEPT
         ![w].answer = IF page.next \in Seen(@) THEN @ ELSE Append(@, page),
         ![w].pc = IF page.next = NoCursor THEN "reconcile" ELSE "fetch"]
  /\ UNCHANGED <<now, runs, buckets>>

\* Mutant: the checkpoint of a page completes the slice.
FetchPage_CompletesEarly(w) ==
  /\ job[w].pc = "fetch"
  /\ RunIsRunning(w)
  /\ SetSlice(w, "completed")
  /\ \E page \in Pages :
       job' = [job EXCEPT ![w].answer = Append(@, page),
                 ![w].pc = AfterPage(job[w].answer, page)]
  /\ UNCHANGED <<now, runs, buckets>>

\* One page arrives and its checkpoint is written; after the last page the
\* rows are ready to be reconciled.  A run that is no longer running fails
\* the slice.
FetchPage(w) ==
  /\ job[w].pc = "fetch"
  /\ \/ /\ RunIsRunning(w)
        /\ SetSlice(w, "in_progress")
        /\ \E page \in Pages :
             job' = [job EXCEPT ![w].answer = Append(@, page),
                       ![w].pc = AfterPage(job[w].answer, page)]
     \/ /\ ~RunIsRunning(w)
        /\ job' = [job EXCEPT ![w].pc = "fail", ![w].answer = <<>>]
        /\ UNCHANGED slices
  /\ UNCHANGED <<now, runs, buckets>>

\* The upstream call raises, or a page or its rows do not validate.
FetchError(w) ==
  /\ job[w].pc \in {"fetch", "reconcile"}
  /\ job' = [job EXCEPT ![w].pc = "fail", ![w].answer = <<>>]
  /\ UNCHANGED <<now, dbVars>>

\* Mutant: only rows of the same interval are replaced.
Superseded_SameIntervalOnly(from, to) == {x \in buckets : x.from = from /\ x.to = to}

\* The rows that reconcile_slice deletes or overwrites: those inside the slice.
Superseded(from, to) == {x \in buckets : x.from >= from /\ x.to <= to}

\* reconcile_slice: one transaction deletes, upserts and completes the slice.
Reconcile(w) ==
  LET from   == SliceFrom(job[w].from, NextDay(job[w]))
      to     == SliceTo(job[w].to, NextDay(job[w]))
      staged == RowsOf(from, to, job[w].answer)
      done   == job[w].done \union {NextDay(job[w])}
  IN /\ job[w].pc = "reconcile"
     /\ RunIsRunning(w)
     /\ buckets' = (buckets \ Superseded(from, to)) \union staged
     /\ SetSlice(w, "completed")
     /\ job' = [job EXCEPT ![w].done = done, ![w].answer = <<>>,
                  ![w].pc = IF done = DaysOf(job[w].from, job[w].to)
                            THEN "finish" ELSE "slice"]
     /\ UNCHANGED <<now, runs>>

ReconcileRejected(w) ==
  /\ job[w].pc = "reconcile"
  /\ ~RunIsRunning(w)
  /\ job' = [job EXCEPT ![w].pc = "fail", ![w].answer = <<>>]
  /\ UNCHANGED <<now, dbVars>>

\* The except branch: the failed checkpoint, which may itself be refused.
FailSlice(w) ==
  /\ job[w].pc = "fail"
  /\ \/ /\ RunIsRunning(w)
        /\ SetSlice(w, "failed")
        /\ job' = [job EXCEPT ![w].pc = "finishFailed"]
     \/ /\ ~RunIsRunning(w)
        /\ Return(w)
        /\ UNCHANGED slices
  /\ UNCHANGED <<now, runs, buckets>>

\* finish_collection_run with partial or failed looks at no status.
FinishFailed(w) ==
  /\ job[w].pc = "finishFailed"
  /\ runs' = [runs EXCEPT ![job[w].run].status =
                IF job[w].done # {} THEN "partial" ELSE "failed"]
  /\ Return(w)
  /\ UNCHANGED <<now, slices, buckets>>

\* Mutant: a slice that was begun counts as covered.
Covered_Visited(r) ==
  \A d \in DaysOf(runs[r].from, runs[r].to) : slices[r][d] # "none"

\* _run_has_complete_coverage.
Covered(r) ==
  \A d \in DaysOf(runs[r].from, runs[r].to) : slices[r][d] = "completed"

\* finish_collection_run with completed requires gap-free coverage.
Finish(w) ==
  /\ job[w].pc = "finish"
  /\ \/ /\ Covered(job[w].run)
        /\ runs' = [runs EXCEPT ![job[w].run].status = "completed"]
     \/ /\ ~Covered(job[w].run)
        /\ UNCHANGED runs
  /\ Return(w)
  /\ UNCHANGED <<now, slices, buckets>>

\* A DatabaseError of any call is re-raised and leaves the tables as they are.
DatabaseFails(w) ==
  /\ job[w].pc # "idle"
  /\ Return(w)
  /\ UNCHANGED <<now, dbVars>>

\* The process dies: every call is gone, the tables stay.
Crash ==
  /\ \E w \in Workers : job[w].pc # "idle"
  /\ job' = [w \in Workers |-> IdleJob]
  /\ UNCHANGED <<now, dbVars>>

Tick ==
  /\ now < Horizon
  /\ now' = now + 1
  /\ UNCHANGED <<dbVars, job>>

\* The wall clock is set back, by an operator or by time synchronisation.
Rewind ==
  /\ ClockGoesBack
  /\ \E t \in 0 .. Horizon : t < now /\ now' = t
  /\ UNCHANGED <<dbVars, job>>

Call(w) ==
  \/ StartRun(w) \/ ResumeRun(w) \/ Snapshot(w) \/ StartSlice(w)
  \/ FetchPage(w) \/ Reconcile(w) \/ ReconcileRejected(w)
  \/ FailSlice(w) \/ FinishFailed(w) \/ Finish(w)

SyncNext ==
  \/ \E w \in Background : BeginBackground(w)
  \/ \E w \in Manual : BeginManual(w)
  \/ \E w \in Workers : Call(w) \/ FetchError(w) \/ DatabaseFails(w)
  \/ Tick
  \/ Rewind

Next == SyncNext \/ Crash

Spec == Init /\ [][Next]_vars

\* Each thread that is in a call is scheduled; requests time out, so a page
\* or an error arrives.  Nothing obliges anyone to start a sync.
FairSpec == Spec /\ \A w \in Workers : WF_vars(Call(w))
-----------------------------------------------------------------------------
(* What daily_usage reports.                                               *)

Overlap(x, y) == x.from < y.to /\ y.from < x.to

\* A day is complete when the completed slices of any runs cover it.
DayComplete(d) ==
  \A t \in (d * DayLength) .. ((d + 1) * DayLength - 1) :
    \E r \in RunIds : /\ slices[r][d] = "completed"
                      /\ SliceFrom(runs[r].from, d) <= t
                      /\ t < SliceTo(runs[r].to, d)

-----------------------------------------------------------------------------
Job == [pc : Steps, from : Nat, to : Nat, run : RunIds \union {NoRun},
        done : SUBSET DayIds, answer : Seq(Pages)]

Row == [from : Nat, to : Nat, page : Nat \ {0}, answer : Seq(Pages)]

TypeOK ==
  /\ now \in 0 .. Horizon
  /\ runs \in [RunIds -> [from : Nat, to : Nat, status : RunStatuses]]
  /\ slices \in [RunIds -> [DayIds -> SliceStatuses]]
  /\ buckets \subseteq Row
  /\ job \in [Workers -> Job]

\* A run that is recorded as completed has every day of its range completed,
\* whatever the other threads sharing the run did ("completed run must have
\* complete, gap-free slice coverage", database.py).
CompletedRunCovered ==
  \A r \in RunIds : runs[r].status = "completed" =>
    \A d \in DaysOf(runs[r].from, runs[r].to) : slices[r][d] = "completed"

\* The rows stored for an interval are all the pages of one fetch that was
\* followed to its last page: never some of its pages, never pages of two
\* fetches (reconcile_slice; "Partial pages are never marked complete",
\* database-v1.md).  It does not say that the pages fit each other: the
\* upstream may correct its data between two requests of one fetch.
WholeAnswers ==
  \A x \in buckets :
    /\ Whole(x.answer)
    /\ x \in RowsOf(x.from, x.to, x.answer)
    /\ RowsOf(x.from, x.to, x.answer) \subseteq buckets
    /\ \A y \in buckets : x.from = y.from /\ x.to = y.to => x.answer = y.answer

\* No usage is counted twice: rows of different intervals never overlap, so
\* a daily total adds each instant once.
NoDoubleCount ==
  \A x, y \in buckets : Overlap(x, y) => x.from = y.from /\ x.to = y.to

LastsADay(r) == runs[r].from + DayLength <= runs[r].to

\* "Completed slices stay intact and the failed slice is safely refetched"
\* (en/troubleshooting.md), for every run of a day or more, whatever fails, is
\* retried or dies, and whoever shares shorter runs meanwhile: only a handler
\* works on such a run, and it passes over what earlier attempts completed.
\* A shorter run that two calls share may lose a completed slice to the
\* failure of the other call.
LongSlicesStay ==
  [][\A r \in RunIds, d \in DayIds :
       LastsADay(r) /\ slices[r][d] = "completed" => slices'[r][d] = "completed"]_vars

\* A call of sync() returns, whatever fails and whoever shares its run.
SyncReturns ==
  \A w \in Workers : []<>(job[w].pc = "idle")

\* The abstract history: rows change by whole fetches only, and a day becomes
\* complete only with the fetch that leaves no moment of it unknown, for all
\* ranges and however many calls share a run.
History == INSTANCE UsageHistory
             WITH rows <- buckets, complete <- {d \in DayIds : DayComplete(d)}
ImplementsHistory == History!Spec
=============================================================================

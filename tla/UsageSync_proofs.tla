--------------------------- MODULE UsageSync_proofs ---------------------------
(***************************************************************************)
(* Proofs about UsageSync for every number of threads, days, runs, ranges  *)
(* and pages: types, coverage of completed runs, whole answers, what a     *)
(* failure may do to a completed slice, and the refinement of UsageHistory.*)
(***************************************************************************)
EXTENDS UsageSync, WellFoundedInduction, TLAPS

\* Every non-empty set of naturals has a least element.
LEMMA LeastNatural ==
  ASSUME NEW T, T \subseteq Nat, T # {}
  PROVE  \E x \in T : \A y \in T : x <= y
<1>1. PICK x \in T : \A y \in T : ~ (<<y, x>> \in OpToRel(<, Nat))
  BY NatLessThanWellFounded, WFMin, Zenon
<1>2. ASSUME NEW y \in T PROVE x <= y
  <2>1. ~ (<<y, x>> \in {ss \in Nat \X Nat : ss[1] < ss[2]})
    BY <1>1 DEF OpToRel
  <2>2. ~ (y < x)
    BY <2>1
  <2> QED BY <2>2
<1> QED BY <1>2

\* Every non-empty set of runs has a newest one.
LEMMA NewestRun ==
  ASSUME NEW S, S \subseteq RunIds, S # {}
  PROVE  \E r \in S : \A q \in S : q <= r
<1> DEFINE T == {n \in Nat : \E r \in S : n = MaxRuns - r}
<1>1. S \subseteq 1 .. MaxRuns /\ MaxRuns \in Nat
  BY SyncAssumption DEF RunIds
<1>2. \A r \in S : MaxRuns - r \in T
  BY <1>1
<1>3. PICK x \in T : \A y \in T : x <= y
  <2>1. T \subseteq Nat /\ T # {}
    BY <1>2
  <2> HIDE DEF T
  <2> QED BY <2>1, LeastNatural
<1>4. PICK r \in S : x = MaxRuns - r
  OBVIOUS
<1>5. ASSUME NEW q \in S PROVE q <= r
  <2>1. MaxRuns - r <= MaxRuns - q
    BY <1>2, <1>3, <1>4
  <2> QED BY <1>1, <2>1
<1> QED BY <1>5

\* The day the loop works on is a day of the job's range not done yet.
LEMMA NextDayPending ==
  ASSUME NEW j, Pending(j) # {}
  PROVE  NextDay(j) \in Pending(j) /\ NextDay(j) \in DayIds
<1>1. Pending(j) \subseteq DayIds
  BY DEF Pending, DaysOf
<1>2. DayIds \subseteq Nat
  BY SyncAssumption DEF DayIds
<1>3. \E d \in Pending(j) : \A e \in Pending(j) : d <= e
  BY <1>1, <1>2, LeastNatural
<1> QED BY <1>1, <1>3 DEF NextDay

\* The pages of a fetch that goes on: none was the last one.
GoesOn(a) == \A p \in DOMAIN a : a[p].next # NoCursor

\* The fetch is over when a page names no further one.
LEMMA PageAppended ==
  ASSUME NEW a \in Seq(Pages), NEW page \in Pages, GoesOn(a)
  PROVE  /\ Append(a, page) \in Seq(Pages)
         /\ page.next = NoCursor => Whole(Append(a, page))
         /\ page.next # NoCursor => GoesOn(Append(a, page))
<1> DEFINE b == Append(a, page)
<1>1. /\ b \in Seq(Pages) /\ Len(b) = Len(a) + 1 /\ b[Len(b)] = page /\ Len(a) \in Nat
      /\ DOMAIN a = 1 .. Len(a) /\ DOMAIN b = 1 .. (Len(a) + 1)
      /\ \A p \in 1 .. Len(a) : b[p] = a[p]
  OBVIOUS
<1>2. b # <<>>
  BY <1>1
<1> HIDE DEF b
<1>3. \A p \in DOMAIN b : p # Len(b) => b[p].next # NoCursor
  BY <1>1 DEF GoesOn
<1>4. page.next = NoCursor => Whole(b)
  BY <1>1, <1>2, <1>3 DEF Whole
<1>5. page.next # NoCursor => GoesOn(b)
  BY <1>1, <1>3 DEF GoesOn
<1> QED BY <1>1, <1>4, <1>5 DEF b

LEMMA ProductInNat ==
  ASSUME NEW m \in Nat, NEW n \in Nat
  PROVE  m * n \in Nat
OBVIOUS

\* The midnight before a moment is a moment.
LEMMA MidnightInNat ==
  ASSUME NEW t \in Nat
  PROVE  Midnight(t) \in Nat
<1> USE SyncAssumption
<1>1. t % DayLength \in Nat /\ t % DayLength < DayLength
  OBVIOUS
<1>2. t % DayLength <= t
  <2>1. CASE DayLength <= t
    BY <1>1, <2>1
  <2>2. CASE t < DayLength
    <3>1. t % DayLength = t
      BY <2>2
    <3> QED BY <3>1
  <2> QED BY <2>1, <2>2
<1> QED BY <1>1, <1>2 DEF Midnight

\* The bounds of a slice are moments.
LEMMA SliceBoundsInNat ==
  ASSUME NEW t \in Nat, NEW d \in DayIds
  PROVE  SliceFrom(t, d) \in Nat /\ SliceTo(t, d) \in Nat
<1>1. d \in Nat /\ d + 1 \in Nat /\ DayLength \in Nat
  BY SyncAssumption DEF DayIds
<1>2. d * DayLength \in Nat /\ (d + 1) * DayLength \in Nat
  BY <1>1, ProductInNat
<1> QED BY <1>2 DEF SliceFrom, SliceTo

-----------------------------------------------------------------------------
(* The inductive invariant: the types, and what each step of sync() knows. *)

\* Past the snapshot a call works on a run and its days; while it works on a
\* slice a day is left; what it reconciles are all pages of one fetch.
JobInv(j) ==
  /\ j.pc \notin {"idle", "open"} => j.run \in RunIds
  /\ j.done \subseteq DaysOf(j.from, j.to)
  /\ j.pc \in {"slice", "fetch", "reconcile", "fail"} => j.done # DaysOf(j.from, j.to)
  /\ j.pc = "fetch" => GoesOn(j.answer)
  /\ j.pc = "reconcile" => Whole(j.answer)

JobsOK == \A w \in Workers : JobInv(job[w])

LEMMA IdleJobOK == IdleJob \in Job /\ JobInv(IdleJob)
BY DEF IdleJob, Job, JobInv, Steps, NoRun, DaysOf

LEMMA DaysOfSubset == \A from, to : DaysOf(from, to) \subseteq DayIds
BY DEF DaysOf

\* A step that replaces the call of one thread by a good one keeps all good.
LEMMA OneJob ==
  ASSUME NEW w \in Workers, NEW j \in Job, JobInv(j),
         job \in [Workers -> Job], JobsOK,
         job' = [job EXCEPT ![w] = j]
  PROVE  job' \in [Workers -> Job] /\ JobsOK'
<1>1. ASSUME NEW v \in Workers PROVE JobInv(job'[v])
  BY DEF JobsOK
<1>2. JobsOK'
  BY <1>1 DEF JobsOK
<1> QED BY <1>2

LEMMA InitInv == Init => TypeOK /\ JobsOK
<1> SUFFICES ASSUME Init PROVE TypeOK /\ JobsOK
  OBVIOUS
<1>1. job \in [Workers -> Job] /\ JobsOK
  BY IdleJobOK DEF Init, JobsOK
<1>2. Horizon \in Nat /\ 0 \in 0 .. Horizon
  BY SyncAssumption DEF Horizon
<1> QED BY <1>1, <1>2, SyncAssumption DEF Init, TypeOK, Absent, RunStatuses, SliceStatuses

-----------------------------------------------------------------------------
(* Each action keeps the types and the job invariant.                      *)

\* What the tables hold.
TablesOK ==
  /\ runs \in [RunIds -> [from : Nat, to : Nat, status : RunStatuses]]
  /\ slices \in [RunIds -> [DayIds -> SliceStatuses]]
  /\ buckets \subseteq Row

IndInv ==
  /\ TablesOK
  /\ job \in [Workers -> Job]
  /\ JobsOK

LEMMA ReturnKeeps ==
  ASSUME IndInv, NEW w \in Workers, Return(w)
  PROVE  job' \in [Workers -> Job] /\ JobsOK'
BY IdleJobOK, OneJob DEF Return, IndInv

LEMMA BeginKeeps ==
  ASSUME IndInv, NEW w \in Workers, NEW from \in Nat, NEW to \in Nat,
         NEW resume \in BOOLEAN, Begin(w, from, to, resume)
  PROVE  IndInv'
<1> DEFINE found == IF resume THEN NewestResumable(from, to) ELSE NoRun
           j == [IdleJob EXCEPT !.pc = "open", !.from = from, !.to = to, !.run = found]
<1>1. found \in RunIds \union {NoRun}
  <2> DEFINE S == {r \in RunIds : /\ runs[r].from = from
                                 /\ runs[r].to = to
                                 /\ runs[r].status \in Resumable}
  <2>1. CASE S = {}
    BY <2>1 DEF NewestResumable
  <2>2. CASE S # {}
    <3>1. \E r \in S : \A q \in S : q <= r
      BY <2>2, NewestRun
    <3>2. (CHOOSE r \in S : \A q \in S : q <= r) \in S
      BY <3>1
    <3> QED BY <2>2, <3>2 DEF NewestResumable
  <2> QED BY <2>1, <2>2
<1>2. j \in Job /\ JobInv(j)
  BY <1>1, IdleJobOK DEF Job, JobInv, Steps, IdleJob
<1>3. job' = [job EXCEPT ![w] = j]
  BY DEF Begin
<1>4. job' \in [Workers -> Job] /\ JobsOK'
  BY <1>2, <1>3, OneJob DEF IndInv
<1> QED BY <1>4 DEF Begin, IndInv, TablesOK, dbVars

LEMMA WorkingDay ==
  ASSUME IndInv, NEW w \in Workers,
         job[w].pc \in {"slice", "fetch", "reconcile", "fail"}
  PROVE  /\ NextDay(job[w]) \in DayIds
         /\ NextDay(job[w]) \in DaysOf(job[w].from, job[w].to) \ job[w].done
         /\ job[w].run \in RunIds
<1>1. JobInv(job[w])
  BY DEF IndInv, JobsOK
<1>2. Pending(job[w]) # {}
  BY <1>1 DEF JobInv, Pending
<1> QED BY <1>1, <1>2, NextDayPending DEF JobInv, Pending

LEMMA SetSliceKeeps ==
  ASSUME IndInv, NEW w \in Workers, NEW status \in SliceStatuses,
         job[w].pc \in {"slice", "fetch", "reconcile", "fail"}, SetSlice(w, status)
  PROVE  slices' \in [RunIds -> [DayIds -> SliceStatuses]]
BY WorkingDay DEF SetSlice, IndInv, TablesOK

LEMMA NoPages == <<>> \in Seq(Pages)
OBVIOUS

\* A step to pc that keeps the rest of the call, but for the pages.
LEMMA MoveKeeps ==
  ASSUME IndInv, NEW w \in Workers, NEW pc \in Steps \ {"reconcile", "fetch", "idle", "open"},
         job[w].pc \notin {"idle", "open"},
         pc \in {"slice", "fail"} => job[w].done # DaysOf(job[w].from, job[w].to),
         NEW answer \in Seq(Pages),
         job' = [job EXCEPT ![w] = [job[w] EXCEPT !.pc = pc, !.answer = answer]]
  PROVE  job' \in [Workers -> Job] /\ JobsOK'
<1> DEFINE j == [job[w] EXCEPT !.pc = pc, !.answer = answer]
<1>1. job[w] \in Job /\ JobInv(job[w])
  BY DEF IndInv, JobsOK
<1>2. j \in Job /\ JobInv(j)
  BY <1>1 DEF Job, JobInv
<1> QED BY <1>2, OneJob DEF IndInv

\* A failed fetch: its pages are given up.
LEMMA GiveUpKeeps ==
  ASSUME IndInv, NEW w \in Workers, job[w].pc \in {"fetch", "reconcile"},
         job' = [job EXCEPT ![w].pc = "fail", ![w].answer = <<>>]
  PROVE  job' \in [Workers -> Job] /\ JobsOK'
<1>1. JobInv(job[w])
  BY DEF IndInv, JobsOK
<1>2. job[w].done # DaysOf(job[w].from, job[w].to)
  BY <1>1 DEF JobInv
<1>3. job' = [job EXCEPT ![w] = [job[w] EXCEPT !.pc = "fail", !.answer = <<>>]]
  BY DEF IndInv
<1>4. "fail" \in Steps \ {"reconcile", "fetch", "idle", "open"}
  BY DEF Steps
<1> QED BY <1>2, <1>3, <1>4, NoPages, MoveKeeps

LEMMA StartRunKeeps ==
  ASSUME IndInv, NEW w \in Workers, StartRun(w)
  PROVE  IndInv'
<1>1. PICK r \in RunIds :
        /\ runs' = [runs EXCEPT ![r] =
                      [from |-> job[w].from, to |-> job[w].to, status |-> "running"]]
        /\ job' = [job EXCEPT ![w].pc = "snapshot", ![w].run = r]
  BY DEF StartRun
<1> DEFINE j == [job[w] EXCEPT !.pc = "snapshot", !.run = r]
<1>2. job[w] \in Job /\ JobInv(job[w])
  BY DEF IndInv, JobsOK
<1>3. j \in Job /\ JobInv(j)
  BY <1>1, <1>2 DEF Job, JobInv, Steps
<1>4. job' = [job EXCEPT ![w] = j]
  BY <1>1 DEF IndInv
<1>5. job' \in [Workers -> Job] /\ JobsOK'
  BY <1>3, <1>4, OneJob DEF IndInv
<1>6. runs' \in [RunIds -> [from : Nat, to : Nat, status : RunStatuses]]
  BY <1>1, <1>2 DEF IndInv, TablesOK, Job, RunStatuses
<1> QED BY <1>5, <1>6 DEF StartRun, IndInv, TablesOK

LEMMA ResumeRunKeeps ==
  ASSUME IndInv, NEW w \in Workers, ResumeRun(w)
  PROVE  IndInv'
<1>1. CASE Return(w) /\ UNCHANGED runs
  BY <1>1, ReturnKeeps DEF ResumeRun, IndInv, TablesOK
<1>2. CASE /\ runs' = [runs EXCEPT ![job[w].run].status = "running"]
           /\ job' = [job EXCEPT ![w].pc = "snapshot"]
  <2> DEFINE j == [job[w] EXCEPT !.pc = "snapshot"]
  <2>1. job[w] \in Job /\ JobInv(job[w]) /\ job[w].run \in RunIds
    BY DEF IndInv, JobsOK, ResumeRun, Job
  <2>2. j \in Job /\ JobInv(j)
    BY <2>1 DEF Job, JobInv, Steps
  <2>3. job' = [job EXCEPT ![w] = j]
    BY <1>2 DEF IndInv
  <2>4. job' \in [Workers -> Job] /\ JobsOK'
    BY <2>2, <2>3, OneJob DEF IndInv
  <2>5. runs' \in [RunIds -> [from : Nat, to : Nat, status : RunStatuses]]
    BY <1>2, <2>1 DEF IndInv, TablesOK, RunStatuses
  <2> QED BY <2>4, <2>5 DEF ResumeRun, IndInv, TablesOK
<1> QED BY <1>1, <1>2 DEF ResumeRun

LEMMA SnapshotKeeps ==
  ASSUME IndInv, NEW w \in Workers, Snapshot(w)
  PROVE  IndInv'
<1> DEFINE all  == DaysOf(job[w].from, job[w].to)
           done == {d \in all : slices[job[w].run][d] = "completed"}
           j    == [job[w] EXCEPT !.done = done,
                                  !.pc = IF done = all THEN "finish" ELSE "slice"]
<1>1. job[w] \in Job /\ JobInv(job[w]) /\ job[w].pc = "snapshot"
  BY DEF IndInv, JobsOK, Snapshot
<1>2. done \subseteq DayIds
  BY DaysOfSubset
<1>3. j \in Job /\ JobInv(j)
  BY <1>1, <1>2 DEF Job, JobInv, Steps
<1>4. job' = [job EXCEPT ![w] = j]
  BY DEF Snapshot, IndInv
<1>5. job' \in [Workers -> Job] /\ JobsOK'
  BY <1>3, <1>4, OneJob DEF IndInv
<1> QED BY <1>5 DEF Snapshot, IndInv, TablesOK, dbVars

LEMMA StartSliceKeeps ==
  ASSUME IndInv, NEW w \in Workers, StartSlice(w)
  PROVE  IndInv'
<1>1. CASE Return(w) /\ UNCHANGED slices
  BY <1>1, ReturnKeeps DEF StartSlice, IndInv, TablesOK
<1>2. CASE /\ SetSlice(w, "in_progress")
           /\ job' = [job EXCEPT ![w].pc = "fetch", ![w].answer = <<>>]
  <2> DEFINE j == [job[w] EXCEPT !.pc = "fetch", !.answer = <<>>]
  <2>1. job[w] \in Job /\ JobInv(job[w]) /\ job[w].pc = "slice"
    BY DEF IndInv, JobsOK, StartSlice
  <2>2. j \in Job
    BY <2>1, NoPages DEF Job, Steps
  <2>3. JobInv(j)
    BY <2>1 DEF JobInv, Job, GoesOn
  <2>4. job' = [job EXCEPT ![w] = j]
    BY <1>2 DEF IndInv
  <2>5. job' \in [Workers -> Job] /\ JobsOK'
    BY <2>2, <2>3, <2>4, OneJob DEF IndInv
  <2>6. slices' \in [RunIds -> [DayIds -> SliceStatuses]]
    BY <1>2, <2>1, SetSliceKeeps DEF SliceStatuses
  <2> QED BY <2>5, <2>6 DEF StartSlice, IndInv, TablesOK
<1> QED BY <1>1, <1>2 DEF StartSlice

LEMMA FetchPageKeeps ==
  ASSUME IndInv, NEW w \in Workers, FetchPage(w)
  PROVE  IndInv'
<1>1. job[w] \in Job /\ JobInv(job[w]) /\ job[w].pc = "fetch"
  BY DEF IndInv, JobsOK, FetchPage
<1>2. ASSUME SetSlice(w, "in_progress"), NEW page \in Pages,
             job' = [job EXCEPT ![w].answer = Append(@, page),
                       ![w].pc = AfterPage(job[w].answer, page)]
      PROVE  IndInv'
  <2> DEFINE b  == Append(job[w].answer, page)
             pc == AfterPage(job[w].answer, page)
             j  == [job[w] EXCEPT !.answer = b, !.pc = pc]
  <2>1. job' = [job EXCEPT ![w] = j]
    BY <1>2 DEF IndInv
  <2>2. /\ pc \in {"fetch", "reconcile", "fail"}
        /\ pc = "reconcile" <=> page.next = NoCursor
    BY DEF AfterPage
  <2>3. /\ b \in Seq(Pages)
        /\ page.next = NoCursor => Whole(b)
        /\ page.next # NoCursor => GoesOn(b)
    BY <1>1, PageAppended DEF Job, JobInv
  <2> HIDE DEF b, pc
  <2>4. j \in Job
    BY <1>1, <2>2, <2>3 DEF Job, Steps
  <2>5. JobInv(j)
    BY <1>1, <2>2, <2>3 DEF JobInv, Job
  <2>6. job' \in [Workers -> Job] /\ JobsOK'
    BY <2>1, <2>4, <2>5, OneJob DEF IndInv
  <2>7. slices' \in [RunIds -> [DayIds -> SliceStatuses]]
    BY <1>1, <1>2, SetSliceKeeps DEF SliceStatuses
  <2> QED BY <2>6, <2>7 DEF FetchPage, IndInv, TablesOK
<1>3. CASE job' = [job EXCEPT ![w].pc = "fail", ![w].answer = <<>>] /\ UNCHANGED slices
  <2>1. job' \in [Workers -> Job] /\ JobsOK'
    BY <1>1, <1>3, GiveUpKeeps
  <2> QED BY <1>3, <2>1 DEF FetchPage, IndInv, TablesOK
<1> QED BY <1>2, <1>3 DEF FetchPage

LEMMA ToFailKeeps ==
  ASSUME IndInv, NEW w \in Workers, FetchError(w) \/ ReconcileRejected(w)
  PROVE  IndInv'
<1>1. /\ job[w].pc \in {"fetch", "reconcile"}
      /\ job' = [job EXCEPT ![w].pc = "fail", ![w].answer = <<>>]
  BY DEF FetchError, ReconcileRejected
<1>2. job' \in [Workers -> Job] /\ JobsOK'
  BY <1>1, GiveUpKeeps
<1> QED BY <1>2 DEF FetchError, ReconcileRejected, dbVars, IndInv, TablesOK

\* What reconcile_slice stores: the rows of a whole answer to the slice.
LEMMA ReconcileInstalls ==
  ASSUME IndInv, NEW w \in Workers, Reconcile(w)
  PROVE  \E from, to \in Nat, a \in Seq(Pages) :
           /\ Whole(a)
           /\ buckets' = (buckets \ Superseded(from, to)) \union RowsOf(from, to, a)
<1>1. job[w] \in Job /\ JobInv(job[w]) /\ job[w].pc = "reconcile"
  BY DEF IndInv, JobsOK, Reconcile
<1>2. /\ SliceFrom(job[w].from, NextDay(job[w])) \in Nat
      /\ SliceTo(job[w].to, NextDay(job[w])) \in Nat
  BY <1>1, WorkingDay, SliceBoundsInNat DEF Job
<1>3. job[w].answer \in Seq(Pages) /\ Whole(job[w].answer)
  BY <1>1 DEF Job, JobInv
<1> QED BY <1>2, <1>3 DEF Reconcile

LEMMA RowsAreRows ==
  ASSUME NEW from \in Nat, NEW to \in Nat, NEW a \in Seq(Pages)
  PROVE  RowsOf(from, to, a) \subseteq Row
BY DEF RowsOf, Row

LEMMA ReconcileKeeps ==
  ASSUME IndInv, NEW w \in Workers, Reconcile(w)
  PROVE  IndInv'
<1> DEFINE all  == DaysOf(job[w].from, job[w].to)
           done == job[w].done \union {NextDay(job[w])}
           j    == [job[w] EXCEPT !.done = done, !.answer = <<>>,
                                  !.pc = IF done = all THEN "finish" ELSE "slice"]
<1>1. job[w] \in Job /\ JobInv(job[w]) /\ job[w].pc = "reconcile"
  BY DEF IndInv, JobsOK, Reconcile
<1>2. done \subseteq all /\ done \subseteq DayIds
  BY <1>1, WorkingDay DEF JobInv, Job
<1>3. j \in Job
  BY <1>1, <1>2, NoPages DEF Job, Steps
<1>4. JobInv(j)
  BY <1>1, <1>2 DEF Job, JobInv
<1>5. job' = [job EXCEPT ![w] = j]
  BY DEF Reconcile, IndInv
<1>6. job' \in [Workers -> Job] /\ JobsOK'
  BY <1>3, <1>4, <1>5, OneJob DEF IndInv
<1>7. slices' \in [RunIds -> [DayIds -> SliceStatuses]]
  BY <1>1, SetSliceKeeps DEF Reconcile, SliceStatuses
<1>8. buckets' \subseteq Row
  BY ReconcileInstalls, RowsAreRows DEF IndInv, TablesOK
<1> QED BY <1>6, <1>7, <1>8 DEF Reconcile, IndInv, TablesOK

LEMMA FailSliceKeeps ==
  ASSUME IndInv, NEW w \in Workers, FailSlice(w)
  PROVE  IndInv'
<1>1. JobInv(job[w]) /\ job[w].pc = "fail"
  BY DEF IndInv, JobsOK, FailSlice
<1>2. CASE Return(w) /\ UNCHANGED slices
  BY <1>2, ReturnKeeps DEF FailSlice, IndInv, TablesOK
<1>3. CASE SetSlice(w, "failed") /\ job' = [job EXCEPT ![w].pc = "finishFailed"]
  <2> DEFINE a == job[w].answer
  <2>3. /\ a \in Seq(Pages)
        /\ job' = [job EXCEPT ![w] = [job[w] EXCEPT !.pc = "finishFailed", !.answer = a]]
    BY <1>3 DEF IndInv, Job
  <2>4. "finishFailed" \in Steps \ {"reconcile", "fetch", "idle", "open", "slice", "fail"}
    BY DEF Steps
  <2> HIDE DEF a
  <2>1. job' \in [Workers -> Job] /\ JobsOK'
    BY <1>1, <2>3, <2>4, MoveKeeps
  <2>2. slices' \in [RunIds -> [DayIds -> SliceStatuses]]
    BY <1>1, <1>3, SetSliceKeeps DEF SliceStatuses
  <2> QED BY <2>1, <2>2 DEF FailSlice, IndInv, TablesOK
<1> QED BY <1>2, <1>3 DEF FailSlice

LEMMA FinishesKeep ==
  ASSUME IndInv, NEW w \in Workers, FinishFailed(w) \/ Finish(w)
  PROVE  IndInv'
<1>1. Return(w) /\ job[w].pc \in {"finishFailed", "finish"}
  BY DEF FinishFailed, Finish
<1>2. job[w].run \in RunIds
  BY <1>1 DEF IndInv, JobsOK, JobInv
<1>3. ASSUME NEW status \in RunStatuses,
             runs' = [runs EXCEPT ![job[w].run].status = status]
      PROVE  runs' \in [RunIds -> [from : Nat, to : Nat, status : RunStatuses]]
  BY <1>2, <1>3 DEF IndInv, TablesOK
<1>4. CASE FinishFailed(w)
  <2> DEFINE status == IF job[w].done # {} THEN "partial" ELSE "failed"
  <2>1. status \in RunStatuses
    BY DEF RunStatuses
  <2>2. runs' = [runs EXCEPT ![job[w].run].status = status]
    BY <1>4 DEF FinishFailed
  <2> HIDE DEF status
  <2>3. runs' \in [RunIds -> [from : Nat, to : Nat, status : RunStatuses]]
    BY <1>3, <2>1, <2>2
  <2> QED BY <1>1, <1>4, <2>3, ReturnKeeps DEF FinishFailed, IndInv, TablesOK
<1>5. CASE Finish(w)
  <2>1. runs' \in [RunIds -> [from : Nat, to : Nat, status : RunStatuses]]
    BY <1>3, <1>5 DEF Finish, IndInv, TablesOK, RunStatuses
  <2> QED BY <1>1, <1>5, <2>1, ReturnKeeps DEF Finish, IndInv, TablesOK
<1> QED BY <1>4, <1>5

LEMMA BeginAnyKeeps ==
  ASSUME IndInv, now \in Nat, NEW w \in Workers,
         BeginBackground(w) \/ BeginManual(w)
  PROVE  IndInv'
<1>1. Midnight(now) \in Nat
  BY MidnightInNat
<1>2. CASE BeginBackground(w)
  BY <1>1, <1>2, BeginKeeps DEF BeginBackground
<1>3. CASE BeginManual(w)
  <2>1. PICK resume \in BOOLEAN :
          \/ /\ Lookback * DayLength <= Midnight(now)
             /\ Begin(w, Midnight(now) - Lookback * DayLength, Midnight(now), resume)
          \/ \E range \in ExplicitRanges : Begin(w, range[1], range[2], resume)
    BY <1>3 DEF BeginManual
  <2>2. CASE /\ Lookback * DayLength <= Midnight(now)
             /\ Begin(w, Midnight(now) - Lookback * DayLength, Midnight(now), resume)
    <3>1. Lookback * DayLength \in Nat
      BY SyncAssumption, ProductInNat
    <3>2. Midnight(now) - Lookback * DayLength \in Nat
      BY <1>1, <2>2, <3>1
    <3> QED BY <1>1, <2>2, <3>2, BeginKeeps
  <2>3. CASE \E range \in ExplicitRanges : Begin(w, range[1], range[2], resume)
    <3>1. PICK range \in ExplicitRanges : Begin(w, range[1], range[2], resume)
      BY <2>3
    <3>2. range[1] \in Nat /\ range[2] \in Nat
      BY SyncAssumption
    <3> QED BY <3>1, <3>2, BeginKeeps
  <2> QED BY <2>1, <2>2, <2>3
<1> QED BY <1>2, <1>3

\* The clock stays in its range.
EnvOK == now \in 0 .. Horizon

LEMMA EnvKeeps ==
  ASSUME EnvOK, [Next]_vars
  PROVE  EnvOK'
<1> USE SyncAssumption DEF EnvOK
<1>1. Horizon \in Nat
  BY DEF Horizon
<1>2. CASE Tick
  BY <1>1, <1>2 DEF Tick
<1>3. CASE Rewind
  BY <1>1, <1>3 DEF Rewind
<1>4. CASE UNCHANGED now
  BY <1>4
<1>5. Tick \/ Rewind \/ UNCHANGED now
  BY ZenonT(30) DEF Next, SyncNext, Crash, BeginBackground, BeginManual, Begin, Call, StartRun,
         ResumeRun, Snapshot, StartSlice, FetchPage, Reconcile, ReconcileRejected,
         FailSlice, FinishFailed, Finish, FetchError, DatabaseFails, vars
<1> QED BY <1>2, <1>3, <1>4, <1>5

LEMMA StepKeeps ==
  ASSUME IndInv, EnvOK, [Next]_vars
  PROVE  IndInv'
<1>1. now \in Nat
  BY SyncAssumption DEF EnvOK, Horizon
<1>2. ASSUME NEW w \in Workers, BeginBackground(w) \/ BeginManual(w) PROVE IndInv'
  BY <1>1, <1>2, BeginAnyKeeps
<1>3. ASSUME NEW w \in Workers, Call(w) PROVE IndInv'
  BY <1>3, StartRunKeeps, ResumeRunKeeps, SnapshotKeeps, StartSliceKeeps,
     FetchPageKeeps, ReconcileKeeps, ToFailKeeps, FailSliceKeeps, FinishesKeep
     DEF Call, EnvOK
<1>4. ASSUME NEW w \in Workers, FetchError(w) PROVE IndInv'
  BY <1>4, ToFailKeeps
<1>5. ASSUME NEW w \in Workers, DatabaseFails(w) PROVE IndInv'
  BY <1>5, ReturnKeeps DEF DatabaseFails, dbVars, IndInv, TablesOK
<1>6. CASE Crash
  BY <1>6, IdleJobOK DEF Crash, dbVars, IndInv, TablesOK, JobsOK
<1>7. CASE UNCHANGED <<dbVars, job>>
  BY <1>7 DEF dbVars, IndInv, TablesOK, JobsOK
<1>8. Tick \/ Rewind \/ UNCHANGED vars => UNCHANGED <<dbVars, job>>
  BY DEF Tick, Rewind, vars, dbVars
<1> QED BY <1>2, <1>3, <1>4, <1>5, <1>6, <1>7, <1>8 DEF Next, SyncNext, Workers

\* Every step is typed, for every number of threads, days, runs and answers.
THEOREM TypeCorrect == Spec => []TypeOK
<1>1. Init => EnvOK /\ IndInv
  BY InitInv DEF TypeOK, EnvOK, IndInv, TablesOK
<1>2. EnvOK /\ IndInv /\ [Next]_vars => (EnvOK /\ IndInv)'
  BY EnvKeeps, StepKeeps
<1>3. EnvOK /\ IndInv => TypeOK
  BY DEF TypeOK, EnvOK, IndInv, TablesOK
<1> QED BY <1>1, <1>2, <1>3, PTL DEF Spec

-----------------------------------------------------------------------------
(* Coverage of completed runs.                                             *)

LEMMA CoveredKeeps ==
  ASSUME IndInv, EnvOK, CompletedRunCovered, [Next]_vars
  PROVE  CompletedRunCovered'
<1> USE DEF CompletedRunCovered
\* A slice is written only while its run is running, hence not completed.
<1>1. ASSUME NEW w \in Workers, NEW status \in SliceStatuses,
             job[w].pc \in {"slice", "fetch", "reconcile", "fail"},
             RunIsRunning(w), SetSlice(w, status), UNCHANGED runs
      PROVE  CompletedRunCovered'
  <2>1. job[w].run \in RunIds /\ runs[job[w].run].status = "running"
    BY <1>1, WorkingDay DEF RunIsRunning
  <2>2. \A r \in RunIds : r # job[w].run => slices'[r] = slices[r]
    BY <1>1 DEF SetSlice, IndInv, TablesOK
  <2> QED BY <1>1, <2>1, <2>2
<1>2. CASE UNCHANGED <<runs, slices>>
  BY <1>2
\* A run changes to a state other than completed.
<1>3. ASSUME NEW r \in RunIds, NEW row, row.status # "completed",
             runs' = [runs EXCEPT ![r] = row], UNCHANGED slices
      PROVE  CompletedRunCovered'
  BY <1>3 DEF IndInv, TablesOK
<1>4. ASSUME NEW w \in Workers, Call(w) PROVE CompletedRunCovered'
  <2>1. CASE StartRun(w)
    <3>1. PICK r \in RunIds :
            runs' = [runs EXCEPT ![r] =
                       [from |-> job[w].from, to |-> job[w].to, status |-> "running"]]
      BY <2>1 DEF StartRun
    <3> QED BY <1>3, <2>1, <3>1 DEF StartRun
  <2>2. CASE ResumeRun(w)
    <3>1. job[w].run \in RunIds
      BY <2>2 DEF ResumeRun, IndInv, Job
    <3>2. CASE UNCHANGED runs
      BY <1>2, <2>2, <3>2 DEF ResumeRun
    <3>3. CASE runs' = [runs EXCEPT ![job[w].run].status = "running"]
      BY <2>2, <3>1, <3>3 DEF ResumeRun, IndInv, TablesOK
    <3> QED BY <2>2, <3>2, <3>3 DEF ResumeRun
  <2>3. CASE Snapshot(w) \/ ReconcileRejected(w)
    BY <1>2, <2>3 DEF Snapshot, ReconcileRejected, dbVars
  <2>4. CASE StartSlice(w)
    BY <1>1, <1>2, <2>4 DEF StartSlice, SliceStatuses
  <2>5. CASE FetchPage(w)
    BY <1>1, <1>2, <2>5 DEF FetchPage, SliceStatuses
  <2>6. CASE Reconcile(w)
    BY <1>1, <2>6 DEF Reconcile, SliceStatuses
  <2>7. CASE FailSlice(w)
    BY <1>1, <1>2, <2>7 DEF FailSlice, SliceStatuses
  <2>8. CASE FinishFailed(w)
    <3>1. job[w].run \in RunIds
      BY <2>8 DEF FinishFailed, IndInv, JobsOK, JobInv
    <3> QED BY <2>8, <3>1 DEF FinishFailed, IndInv, TablesOK
  <2>9. CASE Finish(w)
    <3>1. job[w].run \in RunIds
      BY <2>9 DEF Finish, IndInv, JobsOK, JobInv
    <3> QED BY <2>9, <3>1 DEF Finish, Covered, IndInv, TablesOK
  <2> QED BY <1>4, <2>1, <2>2, <2>3, <2>4, <2>5, <2>6, <2>7, <2>8, <2>9 DEF Call
<1>5. Next => \/ \E w \in Workers : Call(w)
              \/ UNCHANGED <<runs, slices>>
  BY DEF Next, SyncNext, Crash, BeginBackground, BeginManual, Begin, FetchError,
         DatabaseFails, Tick, Rewind, dbVars, Workers
<1> QED BY <1>2, <1>4, <1>5 DEF vars

\* finish_collection_run's promise survives every interleaving: what a run
\* recorded as completed covers stays completed, even if another thread still
\* works on the same run.
THEOREM RunsCovered == Spec => []CompletedRunCovered
<1>1. Init => EnvOK /\ IndInv /\ CompletedRunCovered
  BY InitInv DEF TypeOK, EnvOK, IndInv, TablesOK, Init, Absent, CompletedRunCovered
<1>2. EnvOK /\ IndInv /\ CompletedRunCovered /\ [Next]_vars
      => (EnvOK /\ IndInv /\ CompletedRunCovered)'
  BY EnvKeeps, StepKeeps, CoveredKeeps
<1> QED BY <1>1, <1>2, PTL DEF Spec

-----------------------------------------------------------------------------
(* Whole answers.                                                          *)

LEMMA WholeAnswersKeep ==
  ASSUME IndInv, EnvOK, WholeAnswers, [Next]_vars
  PROVE  WholeAnswers'
<1>1. ASSUME NEW w \in Workers, Reconcile(w) PROVE WholeAnswers'
  <2>1. PICK from \in Nat, to \in Nat, a \in Seq(Pages) :
          /\ Whole(a)
          /\ buckets' = (buckets \ Superseded(from, to)) \union RowsOf(from, to, a)
    BY <1>1, ReconcileInstalls
  <2> DEFINE new == RowsOf(from, to, a)
             old == buckets \ Superseded(from, to)
  <2>2. \A x \in new : x.from = from /\ x.to = to /\ x.answer = a
    BY DEF RowsOf
  <2>3. \A x \in old : ~ (x.from = from /\ x.to = to)
    BY DEF Superseded, IndInv, TablesOK, Row
  <2>4. ASSUME NEW x \in old PROVE RowsOf(x.from, x.to, x.answer) \subseteq old
    <3>1. \A y \in RowsOf(x.from, x.to, x.answer) : y.from = x.from /\ y.to = x.to
      BY DEF RowsOf
    <3> QED BY <3>1 DEF WholeAnswers, Superseded
  <2>5. ASSUME NEW x \in old, NEW y \in old, x.from = y.from, x.to = y.to
        PROVE  x.answer = y.answer
    BY <2>5 DEF WholeAnswers
  <2>6. \A x \in new : RowsOf(x.from, x.to, x.answer) = new
    BY <2>2
  <2>7. \A x \in old : Whole(x.answer) /\ x \in RowsOf(x.from, x.to, x.answer)
    BY DEF WholeAnswers
  <2> HIDE DEF new, old
  <2>8. buckets' = old \union new
    BY <2>1 DEF old, new
  <2> QED BY <2>1, <2>2, <2>3, <2>4, <2>5, <2>6, <2>7, <2>8 DEF WholeAnswers
<1>2. Next => (\E w \in Workers : Reconcile(w)) \/ UNCHANGED buckets
  BY DEF Next, SyncNext, Crash, BeginBackground, BeginManual, Begin, Call, StartRun,
         ResumeRun, Snapshot, StartSlice, FetchPage, ReconcileRejected, FailSlice,
         FinishFailed, Finish, FetchError, DatabaseFails, Tick, Rewind, dbVars,
         Workers
<1>3. CASE UNCHANGED buckets
  BY <1>3 DEF WholeAnswers
<1> QED BY <1>1, <1>2, <1>3 DEF vars

\* No interval ever holds some pages of a fetch or pages of two fetches,
\* wherever a call failed, was killed or was overtaken by another one, and
\* whatever the upstream answers to each of the requests.
THEOREM AnswersStayWhole == Spec => []WholeAnswers
<1>1. Init => EnvOK /\ IndInv /\ WholeAnswers
  BY InitInv DEF TypeOK, EnvOK, IndInv, TablesOK, Init, WholeAnswers
<1>2. EnvOK /\ IndInv /\ WholeAnswers /\ [Next]_vars
      => (EnvOK /\ IndInv /\ WholeAnswers)'
  BY EnvKeeps, StepKeeps, WholeAnswersKeep
<1> QED BY <1>1, <1>2, PTL DEF Spec

-----------------------------------------------------------------------------
(* Calls that share runs.                                                  *)

ADayOrMore(from, to) == from + DayLength <= to

Working == {"slice", "fetch", "reconcile", "fail"}

\* A call whose run no other call works on: that of a handler for a day or
\* more, which is never the collector's.
Private(j) == ADayOrMore(j.from, j.to)

\* What a call knows of its range and of its run in the table of runs.
RangeOK(w, j, table) ==
  j.pc # "idle" =>
    /\ j.from < j.to
    /\ w \in Background => ~ADayOrMore(j.from, j.to)
    /\ j.run # NoRun => /\ table[j.run].status # "absent"
                        /\ table[j.run].from = j.from /\ table[j.run].to = j.to

\* On a private run a call passes over every slice that the table of slices has complete.
DoneOK(j, table) ==
  j.pc \in Working /\ Private(j) =>
    \A d \in DaysOf(j.from, j.to) : table[j.run][d] = "completed" => d \in j.done

\* A run that was never started has no slices.
UnstartedInv ==
  \A r \in RunIds : runs[r].status = "absent" => \A d \in DayIds : slices[r][d] = "none"

\* Handlers exclude each other.
HandlersInv == \A v, w \in Manual : job[v].pc # "idle" /\ job[w].pc # "idle" => v = w

SharingInv ==
  /\ \A w \in Workers : RangeOK(w, job[w], runs) /\ DoneOK(job[w], slices)
  /\ UnstartedInv
  /\ HandlersInv

\* A moment lies in one day, which begins at the midnight before it.
LEMMA DayOfMoment ==
  ASSUME NEW t \in Nat
  PROVE  \E k \in Nat : Midnight(t) = k * DayLength /\ k * DayLength <= t /\ t < (k + 1) * DayLength
<1>1. DayLength \in Nat \ {0}
  BY SyncAssumption
<1>2. PICK k \in Nat : k = t \div DayLength
  BY <1>1
<1>3. t % DayLength = t - DayLength * k
  BY <1>1, <1>2, SMTT(60)
<1>4. DayLength * k <= t /\ t < DayLength * k + DayLength
  BY <1>1, <1>2
<1>5. Midnight(t) = k * DayLength
  <2>1. t % DayLength = t - k * DayLength /\ k * DayLength \in Nat
    BY <1>1, <1>3
  <2> QED BY <2>1 DEF Midnight
<1> QED BY <1>1, <1>4, <1>5

LEMMA DaysInOrder ==
  ASSUME NEW k \in Nat, NEW d \in Nat
  PROVE  /\ k * DayLength \in Nat /\ (k + 1) * DayLength = k * DayLength + DayLength
         /\ k * DayLength < (d + 1) * DayLength <=> k <= d
         /\ k * DayLength <= d * DayLength <=> k <= d
         /\ k * DayLength = d * DayLength <=> k = d
<1>1. DayLength \in Nat \ {0}
  BY SyncAssumption
<1>2. ASSUME NEW m \in Nat, NEW n \in Nat, m < n PROVE m * DayLength + DayLength <= n * DayLength
  <2>1. PICK e \in Nat : n = m + 1 + e
    <3>1. n - m - 1 \in Nat /\ n = m + 1 + (n - m - 1)
      BY <1>2
    <3> QED BY <3>1
  <2>2. n * DayLength = m * DayLength + DayLength + e * DayLength
    BY <1>1, <2>1
  <2>3. e * DayLength \in Nat /\ m * DayLength \in Nat
    BY <1>1, ProductInNat
  <2> QED BY <1>1, <2>2, <2>3
<1>3. k * DayLength \in Nat /\ d * DayLength \in Nat /\ (d + 1) * DayLength = d * DayLength + DayLength
      /\ (k + 1) * DayLength = k * DayLength + DayLength
  BY <1>1, ProductInNat
<1>4. CASE k < d
  BY <1>1, <1>2, <1>3, <1>4
<1>5. CASE k = d
  BY <1>1, <1>3, <1>5
<1>6. CASE d < k
  BY <1>1, <1>2, <1>3, <1>6
<1> QED BY <1>4, <1>5, <1>6

LEMMA MidnightOfDay ==
  ASSUME NEW k \in Nat
  PROVE  Midnight(k * DayLength) = k * DayLength
<1>1. k * DayLength \in Nat
  BY DaysInOrder
<1>2. PICK j \in Nat : /\ Midnight(k * DayLength) = j * DayLength
                       /\ j * DayLength <= k * DayLength /\ k * DayLength < (j + 1) * DayLength
  BY <1>1, DayOfMoment
<1>3. j = k
  BY <1>2, DaysInOrder
<1> QED BY <1>2, <1>3

\* The collector's range begins at a midnight and lasts less than a day.
LEMMA CollectorRange ==
  ASSUME NEW t \in Nat
  PROVE  /\ Midnight(t) \in Nat /\ Midnight(Midnight(t)) = Midnight(t)
         /\ ~ADayOrMore(Midnight(t), t)
<1>1. PICK k \in Nat : Midnight(t) = k * DayLength /\ k * DayLength <= t /\ t < (k + 1) * DayLength
  BY DayOfMoment
<1>2. Midnight(t) + DayLength = (k + 1) * DayLength
  BY <1>1, DaysInOrder
<1> QED BY <1>1, <1>2, DaysInOrder, MidnightOfDay, SyncAssumption DEF ADayOrMore

\* A default range begins at a midnight and lasts a day or more.
LEMMA DefaultRange ==
  ASSUME NEW t \in Nat, Lookback * DayLength <= Midnight(t)
  PROVE  LET from == Midnight(t) - Lookback * DayLength
         IN from \in Nat /\ Midnight(from) = from /\ ADayOrMore(from, Midnight(t))
<1> DEFINE from == Midnight(t) - Lookback * DayLength
<1>1. PICK k \in Nat : Midnight(t) = k * DayLength
  BY DayOfMoment
<1>2. Lookback \in Nat \ {0} /\ DayLength \in Nat \ {0} /\ Lookback <= k
  BY <1>1, DaysInOrder, SyncAssumption
<1>3. PICK m \in Nat : k = Lookback + m
  <2>1. k - Lookback \in Nat /\ k = Lookback + (k - Lookback)
    BY <1>2
  <2> QED BY <2>1
<1>4. k * DayLength = Lookback * DayLength + m * DayLength
  BY <1>2, <1>3
<1>5. m * DayLength \in Nat /\ Lookback * DayLength \in Nat
  BY <1>2, ProductInNat
<1>6. from = m * DayLength
  BY <1>1, <1>4, <1>5
<1>7. Midnight(from) = from
  BY <1>6, MidnightOfDay
<1>8. 1 * DayLength <= Lookback * DayLength
  BY <1>2, DaysInOrder
<1>9. from + DayLength <= Midnight(t)
  BY <1>1, <1>2, <1>4, <1>5, <1>6, <1>8
<1> QED BY <1>5, <1>6, <1>7, <1>9 DEF ADayOrMore

LEMMA InitSharing == Init => SharingInv
<1> SUFFICES ASSUME Init PROVE SharingInv
  OBVIOUS
<1>1. \A w \in Workers : job[w] = IdleJob
  BY DEF Init
<1>2. SharingInv
  BY <1>1 DEF Init, SharingInv, RangeOK, DoneOK, UnstartedInv, HandlersInv, IdleJob, Absent,
     Working, Workers
<1> QED BY <1>2

\* No two calls work on a private run.
LEMMA PrivateRuns ==
  ASSUME SharingInv, NEW v \in Workers, NEW w \in Workers,
         job[v].pc # "idle", job[w].pc # "idle",
         job[v].run = job[w].run, job[w].run # NoRun, Private(job[v])
  PROVE  v = w
<1>1. RangeOK(v, job[v], runs) /\ RangeOK(w, job[w], runs)
  BY DEF SharingInv
<1>2. job[v].from = job[w].from /\ job[v].to = job[w].to
  BY <1>1 DEF RangeOK
<1>3. v \in Manual /\ w \in Manual => v = w
  BY DEF SharingInv, HandlersInv
<1>4. v \in Background /\ w \in Background => v = w
  BY <1>1 DEF RangeOK, Private
<1>5. /\ ~(v \in Manual /\ w \in Background)
      /\ ~(v \in Background /\ w \in Manual)
  BY <1>1, <1>2 DEF RangeOK, Private
<1> QED BY <1>3, <1>4, <1>5 DEF Workers

\* One call moves.  It starts a run that was not started, and completes
\* slices of the run it works on.
LEMMA MoveShares ==
  ASSUME IndInv, SharingInv, NEW w \in Workers, NEW j,
         job' = [job EXCEPT ![w] = j],
         \A r \in RunIds : runs[r].status # "absent" =>
           /\ runs'[r].status # "absent"
           /\ runs'[r].from = runs[r].from /\ runs'[r].to = runs[r].to,
         \A r \in RunIds : runs'[r].status = "absent" => slices'[r] = slices[r],
         \A r \in RunIds, d \in DayIds : slices'[r][d] = "completed" =>
           slices[r][d] = "completed" \/ (r = job[w].run /\ job[w].pc # "idle"),
         j.pc # "idle" => job[w].pc # "idle" \/ w \in Background \/ DataLockFree,
         RangeOK(w, j, runs'), DoneOK(j, slices')
  PROVE  SharingInv'
<1>1. job'[w] = j /\ \A v \in Workers \ {w} : job'[v] = job[v]
  BY DEF IndInv
<1>2. ASSUME NEW v \in Workers
      PROVE  RangeOK(v, job'[v], runs') /\ DoneOK(job'[v], slices')
  <2>1. CASE v = w
    BY <1>1, <2>1
  <2>2. CASE v # w
    <3>1. /\ job'[v] = job[v] /\ RangeOK(v, job[v], runs) /\ DoneOK(job[v], slices)
          /\ JobInv(job[v]) /\ job[v] \in Job
      BY <1>1, <2>2 DEF SharingInv, IndInv, JobsOK
    <3>2. RangeOK(v, job[v], runs')
      BY <3>1 DEF RangeOK, Job
    <3>3. ASSUME job[v].pc \in Working, Private(job[v]),
                 NEW d \in DaysOf(job[v].from, job[v].to), slices'[job[v].run][d] = "completed"
          PROVE  d \in job[v].done
      <4>1. d \in DayIds /\ job[v].run \in RunIds /\ job[v].pc # "idle"
        BY <3>1, <3>3, DaysOfSubset DEF JobInv, Working
      <4>2. job[v].run # NoRun
        BY <4>1 DEF RunIds, NoRun
      <4>3. slices[job[v].run][d] = "completed"
        BY <2>2, <3>3, <4>1, <4>2, PrivateRuns
      <4> QED BY <3>1, <3>3, <4>3 DEF DoneOK
    <3>4. DoneOK(job[v], slices')
      BY <3>3 DEF DoneOK
    <3> QED BY <3>1, <3>2, <3>4
  <2> QED BY <2>1, <2>2
<1>3. UnstartedInv'
  BY DEF UnstartedInv, SharingInv
<1>4. HandlersInv'
  BY <1>1, SyncAssumption DEF SharingInv, HandlersInv, DataLockFree, Workers
<1> QED BY <1>2, <1>3, <1>4 DEF SharingInv

\* ... and leaves the tables alone.
LEMMA ReturnShares ==
  ASSUME IndInv, SharingInv, NEW w \in Workers, Return(w), UNCHANGED <<runs, slices>>
  PROVE  SharingInv'
<1>1. /\ RangeOK(w, IdleJob, runs') /\ DoneOK(IdleJob, slices') /\ IdleJob.pc = "idle"
  BY DEF RangeOK, DoneOK, IdleJob, Working
<1> QED BY <1>1, MoveShares DEF Return

\* The newest resumable run of a range has that range.
LEMMA ResumableRun ==
  ASSUME IndInv, NEW from, NEW to, NewestResumable(from, to) # NoRun
  PROVE  LET r == NewestResumable(from, to)
         IN r \in RunIds /\ runs[r].from = from /\ runs[r].to = to /\ runs[r].status # "absent"
<1> DEFINE S == {r \in RunIds : /\ runs[r].from = from
                               /\ runs[r].to = to
                               /\ runs[r].status \in Resumable}
<1>1. S # {}
  BY DEF NewestResumable
<1>2. \E r \in S : \A q \in S : q <= r
  BY <1>1, NewestRun
<1>3. (CHOOSE r \in S : \A q \in S : q <= r) \in S
  BY <1>2
<1> QED BY <1>1, <1>3 DEF NewestResumable, Resumable

LEMMA BeginShares ==
  ASSUME IndInv, SharingInv, NEW w \in Workers, NEW from \in Nat, NEW to \in Nat,
         NEW resume \in BOOLEAN, Begin(w, from, to, resume),
         w \in Background \/ DataLockFree,
         w \in Background => ~ADayOrMore(from, to)
  PROVE  SharingInv'
<1> DEFINE found == IF resume THEN NewestResumable(from, to) ELSE NoRun
           j == [IdleJob EXCEPT !.pc = "open", !.from = from, !.to = to, !.run = found]
<1>1. job' = [job EXCEPT ![w] = j] /\ UNCHANGED <<runs, slices>> /\ from < to
  BY DEF Begin, dbVars
<1>2. j.pc = "open" /\ j.from = from /\ j.to = to /\ j.run = found
  BY DEF IdleJob
<1>3. found # NoRun => /\ runs[found].status # "absent"
                       /\ runs[found].from = from /\ runs[found].to = to
  BY ResumableRun
<1> HIDE DEF j, found
<1>4. RangeOK(w, j, runs')
  BY <1>1, <1>2, <1>3 DEF RangeOK
<1>5. DoneOK(j, slices')
  BY <1>2 DEF DoneOK, Working
<1> QED BY <1>1, <1>4, <1>5, MoveShares

LEMMA BeginAnyShares ==
  ASSUME IndInv, SharingInv, now \in Nat, NEW w \in Workers,
         \/ BeginBackground(w) /\ w \in Background
         \/ BeginManual(w) /\ w \in Manual
  PROVE  SharingInv'
<1>1. CASE BeginBackground(w) /\ w \in Background
  <2>1. w \notin Manual
    BY <1>1, SyncAssumption
  <2> QED BY <1>1, <2>1, CollectorRange, BeginShares DEF BeginBackground
<1>2. CASE BeginManual(w) /\ w \in Manual
  <2>1. w \notin Background /\ DataLockFree
    BY <1>2, SyncAssumption DEF BeginManual
  <2>2. PICK resume \in BOOLEAN :
          \/ /\ Lookback * DayLength <= Midnight(now)
             /\ Begin(w, Midnight(now) - Lookback * DayLength, Midnight(now), resume)
          \/ \E range \in ExplicitRanges : Begin(w, range[1], range[2], resume)
    BY <1>2 DEF BeginManual
  <2>3. CASE /\ Lookback * DayLength <= Midnight(now)
             /\ Begin(w, Midnight(now) - Lookback * DayLength, Midnight(now), resume)
    BY <2>1, <2>3, DefaultRange, CollectorRange, BeginShares
  <2>4. CASE \E range \in ExplicitRanges : Begin(w, range[1], range[2], resume)
    <3>1. PICK range \in ExplicitRanges : Begin(w, range[1], range[2], resume)
      BY <2>4
    <3>2. range[1] \in Nat /\ range[2] \in Nat
      BY SyncAssumption
    <3> QED BY <2>1, <3>1, <3>2, BeginShares
  <2> QED BY <2>2, <2>3, <2>4
<1> QED BY <1>1, <1>2

\* What a call writes of a slice: its own one, of a run that was started.
LEMMA SliceWritten ==
  ASSUME IndInv, SharingInv, NEW w \in Workers, NEW status,
         job[w].pc \in Working, SetSlice(w, status)
  PROVE  /\ job[w].run \in RunIds /\ runs[job[w].run].status # "absent"
         /\ slices'[job[w].run][NextDay(job[w])] = status
         /\ \A r \in RunIds : r # job[w].run => slices'[r] = slices[r]
         /\ \A d \in DayIds : d # NextDay(job[w]) =>
              slices'[job[w].run][d] = slices[job[w].run][d]
<1>1. job[w].run \in RunIds /\ NextDay(job[w]) \in DayIds
  BY WorkingDay DEF Working
<1>2. slices \in [RunIds -> [DayIds -> SliceStatuses]] /\ slices[job[w].run] \in [DayIds -> SliceStatuses]
  BY <1>1 DEF IndInv, TablesOK
<1>3. slices' = [slices EXCEPT ![job[w].run][NextDay(job[w])] = status]
  BY DEF SetSlice
<1>4. RangeOK(w, job[w], runs) /\ job[w].pc # "idle" /\ job[w].run # NoRun
  BY <1>1 DEF SharingInv, Working, RunIds, NoRun
<1> QED BY <1>1, <1>2, <1>3, <1>4 DEF RangeOK

\* A call goes on with the same range, run and slices done; the slice it
\* writes is not completed.
LEMMA GoOnShares ==
  ASSUME IndInv, SharingInv, NEW w \in Workers, NEW j,
         job[w].pc \in Working, job' = [job EXCEPT ![w] = j],
         j.from = job[w].from, j.to = job[w].to, j.run = job[w].run, j.done = job[w].done,
         UNCHANGED runs,
         \/ UNCHANGED slices
         \/ \E status \in SliceStatuses \ {"completed"} : SetSlice(w, status)
  PROVE  SharingInv'
<1>1. /\ RangeOK(w, job[w], runs) /\ DoneOK(job[w], slices) /\ job[w].pc # "idle"
      /\ job[w] \in Job /\ job[w].run \in RunIds
  BY WorkingDay DEF SharingInv, Working, IndInv
<1>2. /\ \A r \in RunIds, d \in DayIds : slices'[r][d] = "completed" => slices[r][d] = "completed"
      /\ \A r \in RunIds : runs'[r].status = "absent" => slices'[r] = slices[r]
  BY SliceWritten
<1>3. RangeOK(w, j, runs')
  BY <1>1 DEF RangeOK
<1>4. DoneOK(j, slices')
  BY <1>1, <1>2, DaysOfSubset DEF DoneOK, Private
<1> QED BY <1>1, <1>2, <1>3, <1>4, MoveShares

LEMMA StartRunShares ==
  ASSUME IndInv, SharingInv, NEW w \in Workers, StartRun(w)
  PROVE  SharingInv'
<1>1. PICK r \in RunIds :
        /\ runs[r].status = "absent"
        /\ runs' = [runs EXCEPT ![r] =
                      [from |-> job[w].from, to |-> job[w].to, status |-> "running"]]
        /\ job' = [job EXCEPT ![w].pc = "snapshot", ![w].run = r]
  BY DEF StartRun
<1> DEFINE j == [job[w] EXCEPT !.pc = "snapshot", !.run = r]
<1>2. job[w] \in Job /\ RangeOK(w, job[w], runs) /\ job[w].pc # "idle" /\ UNCHANGED slices
  BY DEF IndInv, SharingInv, StartRun
<1>3. job' = [job EXCEPT ![w] = j]
  BY <1>1 DEF IndInv
<1>4. j.pc = "snapshot" /\ j.from = job[w].from /\ j.to = job[w].to /\ j.run = r
  BY <1>2 DEF Job
<1> HIDE DEF j
<1>5. /\ runs'[r] = [from |-> job[w].from, to |-> job[w].to, status |-> "running"]
      /\ \A q \in RunIds \ {r} : runs'[q] = runs[q]
  BY <1>1 DEF IndInv, TablesOK
<1>6. RangeOK(w, j, runs')
  BY <1>2, <1>4, <1>5 DEF RangeOK
<1>7. DoneOK(j, slices')
  BY <1>4 DEF DoneOK, Working
<1>8. \A q \in RunIds : runs[q].status # "absent" =>
        /\ runs'[q].status # "absent"
        /\ runs'[q].from = runs[q].from /\ runs'[q].to = runs[q].to
  BY <1>1, <1>5
<1> QED BY <1>2, <1>3, <1>6, <1>7, <1>8, MoveShares

\* A started run gets another status, but never becomes absent again.
LEMMA StatusShares ==
  ASSUME IndInv, NEW r \in RunIds, NEW status \in RunStatuses \ {"absent"},
         runs' = [runs EXCEPT ![r].status = status]
  PROVE  /\ \A q \in RunIds : runs[q].status # "absent" =>
              /\ runs'[q].status # "absent"
              /\ runs'[q].from = runs[q].from /\ runs'[q].to = runs[q].to
         /\ \A q \in RunIds : runs'[q].from = runs[q].from /\ runs'[q].to = runs[q].to
BY DEF IndInv, TablesOK

LEMMA ResumeRunShares ==
  ASSUME IndInv, SharingInv, NEW w \in Workers, ResumeRun(w)
  PROVE  SharingInv'
<1>1. CASE Return(w) /\ UNCHANGED runs
  BY <1>1, ReturnShares DEF ResumeRun
<1>2. CASE /\ runs' = [runs EXCEPT ![job[w].run].status = "running"]
           /\ job' = [job EXCEPT ![w].pc = "snapshot"]
  <2> DEFINE j == [job[w] EXCEPT !.pc = "snapshot"]
  <2>1. /\ job[w] \in Job /\ RangeOK(w, job[w], runs) /\ job[w].pc # "idle" /\ UNCHANGED slices
        /\ job[w].run \in RunIds
    BY DEF IndInv, SharingInv, ResumeRun, Job
  <2>2. job' = [job EXCEPT ![w] = j]
    BY <1>2 DEF IndInv
  <2>3. j.pc = "snapshot" /\ j.from = job[w].from /\ j.to = job[w].to /\ j.run = job[w].run
    BY <2>1 DEF Job
  <2> HIDE DEF j
  <2>4. \A q \in RunIds : runs[q].status # "absent" =>
          /\ runs'[q].status # "absent"
          /\ runs'[q].from = runs[q].from /\ runs'[q].to = runs[q].to
    BY <1>2, <2>1, StatusShares DEF RunStatuses
  <2>5. RangeOK(w, j, runs')
    BY <2>1, <2>3, <2>4 DEF RangeOK
  <2>6. DoneOK(j, slices')
    BY <2>3 DEF DoneOK, Working
  <2> QED BY <2>1, <2>2, <2>4, <2>5, <2>6, MoveShares
<1> QED BY <1>1, <1>2 DEF ResumeRun

LEMMA SnapshotShares ==
  ASSUME IndInv, SharingInv, NEW w \in Workers, Snapshot(w)
  PROVE  SharingInv'
<1> DEFINE all  == DaysOf(job[w].from, job[w].to)
           done == {d \in all : slices[job[w].run][d] = "completed"}
           j    == [job[w] EXCEPT !.done = done,
                                  !.pc = IF done = all THEN "finish" ELSE "slice"]
<1>1. /\ job[w] \in Job /\ RangeOK(w, job[w], runs) /\ job[w].pc # "idle"
      /\ UNCHANGED <<runs, slices>>
  BY DEF IndInv, SharingInv, Snapshot, dbVars
<1>2. job' = [job EXCEPT ![w] = j]
  BY DEF Snapshot, IndInv
<1>3. /\ j.from = job[w].from /\ j.to = job[w].to /\ j.run = job[w].run
      /\ \A d \in DaysOf(j.from, j.to) : slices[j.run][d] = "completed" => d \in j.done
  BY <1>1 DEF Job
<1> HIDE DEF j
<1>4. RangeOK(w, j, runs') /\ DoneOK(j, slices')
  BY <1>1, <1>3 DEF RangeOK, DoneOK
<1> QED BY <1>1, <1>2, <1>4, MoveShares

LEMMA WorkShares ==
  ASSUME IndInv, SharingInv, NEW w \in Workers,
         \/ StartSlice(w) \/ FetchPage(w) \/ FetchError(w) \/ ReconcileRejected(w) \/ FailSlice(w)
  PROVE  SharingInv'
<1>1. job[w] \in Job /\ job[w].pc \in Working /\ UNCHANGED runs
  BY DEF StartSlice, FetchPage, FetchError, ReconcileRejected, FailSlice, IndInv, Working, dbVars
<1>2. CASE Return(w) /\ UNCHANGED slices
  BY <1>1, <1>2, ReturnShares
<1>3. ASSUME ~(Return(w) /\ UNCHANGED slices)
      PROVE  /\ \E pc, answer : job' = [job EXCEPT ![w] = [job[w] EXCEPT !.pc = pc, !.answer = answer]]
             /\ \/ UNCHANGED slices
                \/ \E status \in SliceStatuses \ {"completed"} : SetSlice(w, status)
  <2> DEFINE J(pc, answer) == job' = [job EXCEPT ![w] = [job[w] EXCEPT !.pc = pc, !.answer = answer]]
  <2>1. CASE StartSlice(w)
    <3>1. J("fetch", <<>>)
      BY <1>1, <1>3, <2>1 DEF StartSlice, IndInv, Job
    <3> QED BY <1>3, <2>1, <3>1 DEF StartSlice, SliceStatuses
  <2>2. CASE FetchPage(w)
    <3>1. CASE RunIsRunning(w)
      <4>1. PICK page \in Pages :
              job' = [job EXCEPT ![w].answer = Append(@, page),
                        ![w].pc = AfterPage(job[w].answer, page)]
        BY <2>2, <3>1 DEF FetchPage
      <4>2. J(AfterPage(job[w].answer, page), Append(job[w].answer, page))
        BY <1>1, <4>1 DEF IndInv, Job
      <4> QED BY <2>2, <3>1, <4>2 DEF FetchPage, SliceStatuses
    <3>2. CASE ~RunIsRunning(w)
      <4>1. J("fail", <<>>)
        BY <1>1, <2>2, <3>2 DEF FetchPage, IndInv, Job
      <4> QED BY <2>2, <3>2, <4>1 DEF FetchPage
    <3> QED BY <3>1, <3>2
  <2>3. CASE FetchError(w) \/ ReconcileRejected(w)
    <3>1. J("fail", <<>>)
      BY <1>1, <2>3 DEF FetchError, ReconcileRejected, IndInv, Job
    <3> QED BY <2>3, <3>1 DEF FetchError, ReconcileRejected, dbVars
  <2>4. CASE FailSlice(w)
    <3>1. J("finishFailed", job[w].answer)
      BY <1>1, <1>3, <2>4 DEF FailSlice, IndInv, Job
    <3> QED BY <1>3, <2>4, <3>1 DEF FailSlice, SliceStatuses
  <2> QED BY <2>1, <2>2, <2>3, <2>4
<1>4. CASE ~(Return(w) /\ UNCHANGED slices)
  <2>1. PICK pc, answer :
          job' = [job EXCEPT ![w] = [job[w] EXCEPT !.pc = pc, !.answer = answer]]
    BY <1>3, <1>4
  <2> DEFINE j == [job[w] EXCEPT !.pc = pc, !.answer = answer]
  <2>2. /\ j.from = job[w].from /\ j.to = job[w].to /\ j.run = job[w].run /\ j.done = job[w].done
        /\ job' = [job EXCEPT ![w] = j]
    BY <1>1, <2>1 DEF Job
  <2> HIDE DEF j
  <2> QED BY <1>1, <1>3, <1>4, <2>2, GoOnShares
<1> QED BY <1>2, <1>4

LEMMA ReconcileShares ==
  ASSUME IndInv, SharingInv, NEW w \in Workers, Reconcile(w)
  PROVE  SharingInv'
<1> DEFINE all  == DaysOf(job[w].from, job[w].to)
           done == job[w].done \union {NextDay(job[w])}
           j    == [job[w] EXCEPT !.done = done, !.answer = <<>>,
                                  !.pc = IF done = all THEN "finish" ELSE "slice"]
<1>1. /\ job[w] \in Job /\ RangeOK(w, job[w], runs) /\ DoneOK(job[w], slices)
      /\ job[w].pc \in Working /\ job[w].pc # "idle"
      /\ UNCHANGED runs /\ SetSlice(w, "completed")
  BY DEF IndInv, SharingInv, Reconcile, Working
<1>2. job' = [job EXCEPT ![w] = j]
  BY DEF Reconcile, IndInv
<1>3. j.from = job[w].from /\ j.to = job[w].to /\ j.run = job[w].run /\ j.done = done
  BY <1>1 DEF Job
<1> HIDE DEF j
<1>4. /\ job[w].run \in RunIds /\ runs[job[w].run].status # "absent"
      /\ \A r \in RunIds : r # job[w].run => slices'[r] = slices[r]
      /\ \A d \in DayIds : d # NextDay(job[w]) =>
           slices'[job[w].run][d] = slices[job[w].run][d]
  BY <1>1, SliceWritten
<1>5. RangeOK(w, j, runs')
  BY <1>1, <1>3 DEF RangeOK
<1>6. DoneOK(j, slices')
  BY <1>1, <1>3, <1>4, DaysOfSubset DEF DoneOK, Private
<1> QED BY <1>1, <1>2, <1>4, <1>5, <1>6, MoveShares

LEMMA FinishShares ==
  ASSUME IndInv, SharingInv, NEW w \in Workers, FinishFailed(w) \/ Finish(w)
  PROVE  SharingInv'
<1>1. /\ job' = [job EXCEPT ![w] = IdleJob] /\ UNCHANGED slices
      /\ job[w].pc \in {"finishFailed", "finish"} /\ job[w].run \in RunIds
  BY DEF FinishFailed, Finish, Return, IndInv, JobsOK, JobInv
<1>2. \/ UNCHANGED runs
      \/ \E status \in RunStatuses \ {"absent"} : runs' = [runs EXCEPT ![job[w].run].status = status]
  BY DEF FinishFailed, Finish, RunStatuses
<1>3. \A q \in RunIds : runs[q].status # "absent" =>
        /\ runs'[q].status # "absent"
        /\ runs'[q].from = runs[q].from /\ runs'[q].to = runs[q].to
  BY <1>1, <1>2, StatusShares
<1>4. RangeOK(w, IdleJob, runs') /\ DoneOK(IdleJob, slices') /\ IdleJob.pc = "idle"
  BY DEF RangeOK, DoneOK, IdleJob, Working
<1> QED BY <1>1, <1>3, <1>4, MoveShares

LEMMA SharingStep ==
  ASSUME IndInv, EnvOK, SharingInv, [Next]_vars
  PROVE  SharingInv'
<1>1. now \in Nat
  BY SyncAssumption DEF EnvOK, Horizon
<1>2. ASSUME NEW w \in Background, BeginBackground(w) PROVE SharingInv'
  BY <1>1, <1>2, BeginAnyShares DEF Workers
<1>3. ASSUME NEW w \in Manual, BeginManual(w) PROVE SharingInv'
  BY <1>1, <1>3, BeginAnyShares DEF Workers
<1>4. ASSUME NEW w \in Workers, Call(w) \/ FetchError(w) PROVE SharingInv'
  BY <1>4, StartRunShares, ResumeRunShares, SnapshotShares, WorkShares, ReconcileShares,
     FinishShares DEF Call
<1>5. ASSUME NEW w \in Workers, DatabaseFails(w) PROVE SharingInv'
  BY <1>5, ReturnShares DEF DatabaseFails, dbVars
<1>6. CASE Crash
  BY <1>6 DEF Crash, dbVars, SharingInv, RangeOK, DoneOK, UnstartedInv, HandlersInv, IdleJob,
     Working, Workers
<1>7. CASE UNCHANGED <<runs, slices, job>>
  BY <1>7 DEF SharingInv, RangeOK, DoneOK, UnstartedInv, HandlersInv
<1>8. Tick \/ Rewind \/ UNCHANGED vars => UNCHANGED <<runs, slices, job>>
  BY DEF Tick, Rewind, vars, dbVars
<1> QED BY <1>2, <1>3, <1>4, <1>5, <1>6, <1>7, <1>8 DEF Next, SyncNext

\* A slice of a private run that is complete is not written again.
LEMMA CompletedSliceKept ==
  ASSUME IndInv, SharingInv, NEW w \in Workers, Private(job[w]), NEW status \in SliceStatuses,
         job[w].pc \in Working, SetSlice(w, status),
         NEW r \in RunIds, NEW d \in DayIds, slices[r][d] = "completed"
  PROVE  slices'[r][d] = "completed"
<1>1. /\ DoneOK(job[w], slices) /\ NextDay(job[w]) \in DaysOf(job[w].from, job[w].to) \ job[w].done
      /\ job[w].run \in RunIds
  BY WorkingDay DEF SharingInv, Working
<1>2. slices[job[w].run][NextDay(job[w])] # "completed"
  BY <1>1 DEF DoneOK
<1> QED BY <1>1, <1>2, SliceWritten

\* A run of a day or more keeps its completed slices.
LEMMA CompletedSlicesStep ==
  ASSUME IndInv, SharingInv, [Next]_vars, NEW r \in RunIds, NEW d \in DayIds,
         LastsADay(r), slices[r][d] = "completed"
  PROVE  slices'[r][d] = "completed"
<1>1. ASSUME NEW w \in Workers, job[w].pc \in Working, NEW status \in SliceStatuses,
             SetSlice(w, status)
      PROVE  slices'[r][d] = "completed"
  <2>1. CASE r = job[w].run
    <3>1. RangeOK(w, job[w], runs) /\ job[w].pc # "idle" /\ r # NoRun
      BY <1>1, <2>1 DEF SharingInv, Working, RunIds, NoRun
    <3>2. Private(job[w])
      BY <2>1, <3>1 DEF RangeOK, Private, LastsADay, ADayOrMore
    <3> QED BY <1>1, <3>2, CompletedSliceKept
  <2>2. CASE r # job[w].run
    BY <1>1, <2>2, SliceWritten
  <2> QED BY <2>1, <2>2
<1>2. ASSUME NEW w \in Workers, Call(w) PROVE slices'[r][d] = "completed"
  BY <1>1, <1>2 DEF Call, StartRun, ResumeRun, Snapshot, StartSlice, FetchPage, Reconcile,
     ReconcileRejected, FailSlice, FinishFailed, Finish, Working, SliceStatuses, dbVars
<1>3. CASE UNCHANGED slices
  BY <1>3
<1> QED BY <1>2, <1>3 DEF Next, SyncNext, Crash, BeginBackground, BeginManual, Begin,
           FetchError, DatabaseFails, Tick, Rewind, dbVars, vars

\* A run of a day or more is a handler's alone: its completed slices stay
\* completed whatever fails, also beside calls that share a shorter run.
THEOREM LongRunsStayCompleted == Spec => LongSlicesStay
<1> DEFINE Inv == EnvOK /\ IndInv /\ SharingInv
           Stay == \A r \in RunIds, d \in DayIds :
                     LastsADay(r) /\ slices[r][d] = "completed" => slices'[r][d] = "completed"
<1>1. Init => Inv
  BY InitInv, InitSharing DEF TypeOK, EnvOK, IndInv, TablesOK
<1>2. Inv /\ [Next]_vars => Inv'
  BY EnvKeeps, StepKeeps, SharingStep
<1>3. Inv /\ [Next]_vars => [Stay]_vars
  BY CompletedSlicesStep
<1> HIDE DEF Inv, Stay
<1>4. Spec => [][Stay]_vars
  BY <1>1, <1>2, <1>3, PTL DEF Spec
<1> QED BY <1>4 DEF LongSlicesStay, Stay

-----------------------------------------------------------------------------
(* The refinement of UsageHistory.                                         *)

\* A day stays as complete as it was where its slices keep their statuses and
\* the runs that have any keep their ranges.
LEMMA SameDay ==
  ASSUME IndInv, SharingInv, NEW d \in DayIds,
         \A r \in RunIds : slices'[r][d] = slices[r][d],
         \A r \in RunIds : runs[r].status # "absent" =>
           runs'[r].from = runs[r].from /\ runs'[r].to = runs[r].to
  PROVE  DayComplete(d)' <=> DayComplete(d)
<1>1. ASSUME NEW r \in RunIds, slices[r][d] = "completed"
      PROVE  runs'[r].from = runs[r].from /\ runs'[r].to = runs[r].to
  BY <1>1 DEF SharingInv, UnstartedInv
<1> QED BY <1>1 DEF DayComplete

\* What a call writes of a slice changes its day only; a day gains nothing by
\* a slice that is not completed and loses nothing by one that is.
LEMMA WrittenDay ==
  ASSUME IndInv, SharingInv, NEW w \in Workers, NEW status,
         job[w].pc \in Working, SetSlice(w, status), UNCHANGED runs
  PROVE  /\ \A e \in DayIds : e # NextDay(job[w]) => (DayComplete(e)' <=> DayComplete(e))
         /\ status # "completed" => \A e \in DayIds : DayComplete(e)' => DayComplete(e)
         /\ status = "completed" => \A e \in DayIds : DayComplete(e) => DayComplete(e)'
<1>1. /\ slices'[job[w].run][NextDay(job[w])] = status
      /\ \A r \in RunIds : r # job[w].run => slices'[r] = slices[r]
      /\ \A e \in DayIds : e # NextDay(job[w]) => slices'[job[w].run][e] = slices[job[w].run][e]
  BY SliceWritten
<1>2. ASSUME NEW e \in DayIds, e # NextDay(job[w]) PROVE DayComplete(e)' <=> DayComplete(e)
  BY <1>1, <1>2, SameDay
<1>3. ASSUME status # "completed", NEW e \in DayIds, DayComplete(e)' PROVE DayComplete(e)
  <2>1. \A r \in RunIds : slices'[r][e] = "completed" => slices[r][e] = "completed"
    BY <1>1, <1>3
  <2> QED BY <1>3, <2>1 DEF DayComplete
<1>4. ASSUME status = "completed", NEW e \in DayIds, DayComplete(e) PROVE DayComplete(e)'
  <2>1. \A r \in RunIds : slices[r][e] = "completed" => slices'[r][e] = "completed"
    BY <1>1, <1>4
  <2> QED BY <1>4, <2>1 DEF DayComplete
<1> QED BY <1>2, <1>3, <1>4

\* Every step but Reconcile leaves the rows alone and reopens a day at most.
LEMMA OthersMap ==
  ASSUME IndInv, SharingInv, [Next]_vars, \A w \in Workers : ~Reconcile(w)
  PROVE  [History!Next]_History!vars
<1> DEFINE complete == {d \in DayIds : DayComplete(d)}
<1>1. UNCHANGED buckets
  BY DEF Next, SyncNext, Crash, BeginBackground, BeginManual, Begin, Call, StartRun,
         ResumeRun, Snapshot, StartSlice, FetchPage, ReconcileRejected, FailSlice,
         FinishFailed, Finish, FetchError, DatabaseFails, Tick, Rewind, dbVars,
         Workers, vars
<1>2. ASSUME UNCHANGED slices,
             \A r \in RunIds : runs[r].status # "absent" =>
               runs'[r].from = runs[r].from /\ runs'[r].to = runs[r].to
      PROVE  UNCHANGED History!vars
  <2>1. \A d \in DayIds : DayComplete(d)' <=> DayComplete(d)
    BY <1>2, SameDay
  <2> QED BY <1>1, <2>1 DEF History!vars
<1>3. ASSUME UNCHANGED <<runs, slices>> PROVE UNCHANGED History!vars
  <2>1. UNCHANGED slices /\ UNCHANGED runs
    BY <1>3
  <2> QED BY <1>2, <2>1
<1>4. ASSUME NEW w \in Workers, StartRun(w) PROVE UNCHANGED History!vars
  <2>1. PICK q \in RunIds :
          /\ runs[q].status = "absent"
          /\ runs' = [runs EXCEPT ![q] =
                        [from |-> job[w].from, to |-> job[w].to, status |-> "running"]]
    BY <1>4 DEF StartRun
  <2>2. \A r \in RunIds : runs[r].status # "absent" => runs'[r] = runs[r]
    BY <2>1
  <2> QED BY <1>2, <1>4, <2>2 DEF StartRun
<1>5. ASSUME NEW w \in Workers, ResumeRun(w) \/ FinishFailed(w) \/ Finish(w)
      PROVE  UNCHANGED History!vars
  <2>1. CASE UNCHANGED runs
    BY <1>3, <1>5, <2>1 DEF ResumeRun, FinishFailed, Finish
  <2>2. CASE ~UNCHANGED runs
    <3>1. job[w].run \in RunIds
      BY <1>5 DEF ResumeRun, FinishFailed, Finish, IndInv, JobsOK, JobInv, Job
    <3>2. \E status \in RunStatuses \ {"absent"} : runs' = [runs EXCEPT ![job[w].run].status = status]
      BY <1>5, <2>2 DEF ResumeRun, FinishFailed, Finish, RunStatuses
    <3>3. \A r \in RunIds : runs'[r].from = runs[r].from /\ runs'[r].to = runs[r].to
      BY <3>1, <3>2, StatusShares
    <3> QED BY <1>2, <1>5, <3>3 DEF ResumeRun, FinishFailed, Finish
  <2> QED BY <2>1, <2>2
<1>6. ASSUME NEW w \in Workers, job[w].pc \in Working, UNCHANGED runs,
             NEW status \in SliceStatuses \ {"completed"}, SetSlice(w, status)
      PROVE  [History!Next]_History!vars
  <2> DEFINE d == NextDay(job[w])
  <2>1. d \in DayIds
    BY <1>6, WorkingDay DEF Working
  <2>2. /\ \A e \in DayIds : e # d => (DayComplete(e)' <=> DayComplete(e))
        /\ \A e \in DayIds : DayComplete(e)' => DayComplete(e)
    BY <1>6, WrittenDay
  <2> HIDE DEF d
  <2>3. complete' = complete \/ complete' = complete \ {d}
    BY <2>1, <2>2
  <2> QED BY <1>1, <2>1, <2>3 DEF History!Next, History!Reopen, History!vars
<1>7. ASSUME NEW w \in Workers, StartSlice(w) \/ FetchPage(w) \/ FailSlice(w)
      PROVE  [History!Next]_History!vars
  <2>1. job[w].pc \in Working /\ UNCHANGED runs
    BY <1>7 DEF StartSlice, FetchPage, FailSlice, Working
  <2>2. UNCHANGED slices \/ \E status \in SliceStatuses \ {"completed"} : SetSlice(w, status)
    BY <1>7 DEF StartSlice, FetchPage, FailSlice, SliceStatuses
  <2> QED BY <1>3, <1>6, <2>1, <2>2
<1>8. ASSUME NEW w \in Workers,
             Snapshot(w) \/ ReconcileRejected(w) \/ FetchError(w) \/ DatabaseFails(w)
               \/ BeginBackground(w) \/ BeginManual(w)
      PROVE  UNCHANGED <<runs, slices>>
  BY <1>8 DEF Snapshot, ReconcileRejected, FetchError, DatabaseFails, BeginBackground,
     BeginManual, Begin, dbVars
<1>9. Crash \/ Tick \/ Rewind \/ UNCHANGED vars => UNCHANGED <<runs, slices>>
  BY DEF Crash, Tick, Rewind, vars, dbVars
<1> QED BY <1>3, <1>4, <1>5, <1>7, <1>8, <1>9 DEF Next, SyncNext, Call, Workers

\* Where every page reports usage, rows cover every completed slice.
RowsCover ==
  NoUsage \notin Usages =>
    \A r \in RunIds, d \in DayIds, t \in Nat :
      /\ slices[r][d] = "completed"
      /\ SliceFrom(runs[r].from, d) <= t
      /\ t < SliceTo(runs[r].to, d)
      => \E x \in buckets : x.from <= t /\ t < x.to

\* Every step but Reconcile completes no slice and leaves the rows and the
\* ranges of completed slices alone.
LEMMA OthersCover ==
  ASSUME IndInv, SharingInv, RowsCover, [Next]_vars, \A w \in Workers : ~Reconcile(w)
  PROVE  RowsCover'
<1>1. UNCHANGED buckets
  BY DEF Next, SyncNext, Crash, BeginBackground, BeginManual, Begin, Call, StartRun,
         ResumeRun, Snapshot, StartSlice, FetchPage, ReconcileRejected, FailSlice,
         FinishFailed, Finish, FetchError, DatabaseFails, Tick, Rewind, dbVars,
         Workers, vars
<1> SUFFICES ASSUME NEW r \in RunIds, NEW d \in DayIds, slices'[r][d] = "completed"
             PROVE  /\ slices[r][d] = "completed"
                    /\ runs'[r].from = runs[r].from /\ runs'[r].to = runs[r].to
  BY <1>1 DEF RowsCover
<1>2. CASE UNCHANGED <<runs, slices>>
  BY <1>2
<1>3. ASSUME NEW w \in Workers, StartRun(w)
      PROVE  /\ slices[r][d] = "completed"
             /\ runs'[r].from = runs[r].from /\ runs'[r].to = runs[r].to
  <2>1. slices[r][d] = "completed"
    BY <1>3 DEF StartRun
  <2>2. runs[r].status # "absent"
    BY <2>1 DEF SharingInv, UnstartedInv
  <2>3. runs'[r] = runs[r]
    BY <1>3, <2>2 DEF StartRun
  <2> QED BY <2>1, <2>3
<1>4. ASSUME NEW w \in Workers, ResumeRun(w) \/ FinishFailed(w) \/ Finish(w)
      PROVE  /\ slices[r][d] = "completed"
             /\ runs'[r].from = runs[r].from /\ runs'[r].to = runs[r].to
  <2>1. CASE UNCHANGED runs
    BY <1>4, <2>1 DEF ResumeRun, FinishFailed, Finish
  <2>2. CASE ~UNCHANGED runs
    <3>1. job[w].run \in RunIds
      BY <1>4 DEF ResumeRun, FinishFailed, Finish, IndInv, JobsOK, JobInv, Job
    <3>2. \E status \in RunStatuses \ {"absent"} : runs' = [runs EXCEPT ![job[w].run].status = status]
      BY <1>4, <2>2 DEF ResumeRun, FinishFailed, Finish, RunStatuses
    <3>3. runs'[r].from = runs[r].from /\ runs'[r].to = runs[r].to
      BY <3>1, <3>2, StatusShares
    <3> QED BY <1>4, <3>3 DEF ResumeRun, FinishFailed, Finish
  <2> QED BY <2>1, <2>2
<1>5. ASSUME NEW w \in Workers, StartSlice(w) \/ FetchPage(w) \/ FailSlice(w)
      PROVE  /\ slices[r][d] = "completed"
             /\ runs'[r].from = runs[r].from /\ runs'[r].to = runs[r].to
  <2>1. job[w].pc \in Working /\ UNCHANGED runs
    BY <1>5 DEF StartSlice, FetchPage, FailSlice, Working
  <2>2. CASE UNCHANGED slices
    BY <2>1, <2>2
  <2>3. CASE \E status \in SliceStatuses \ {"completed"} : SetSlice(w, status)
    <3>1. PICK status \in SliceStatuses \ {"completed"} : SetSlice(w, status)
      BY <2>3
    <3>2. /\ slices'[job[w].run][NextDay(job[w])] = status
          /\ \A q \in RunIds : q # job[w].run => slices'[q] = slices[q]
          /\ \A e \in DayIds : e # NextDay(job[w]) => slices'[job[w].run][e] = slices[job[w].run][e]
      BY <2>1, <3>1, SliceWritten
    <3> QED BY <2>1, <3>2
  <2> QED BY <1>5, <2>2, <2>3 DEF StartSlice, FetchPage, FailSlice, SliceStatuses
<1>6. ASSUME NEW w \in Workers,
             Snapshot(w) \/ ReconcileRejected(w) \/ FetchError(w) \/ DatabaseFails(w)
               \/ BeginBackground(w) \/ BeginManual(w)
      PROVE  UNCHANGED <<runs, slices>>
  BY <1>6 DEF Snapshot, ReconcileRejected, FetchError, DatabaseFails, BeginBackground,
     BeginManual, Begin, dbVars
<1>7. Crash \/ Tick \/ Rewind \/ UNCHANGED vars => UNCHANGED <<runs, slices>>
  BY DEF Crash, Tick, Rewind, vars, dbVars
<1> QED BY <1>2, <1>3, <1>4, <1>5, <1>6, <1>7 DEF Next, SyncNext, Call, Workers

\* Reconcile covers what it completes, and what it removes.
LEMMA ReconcileCovers ==
  ASSUME IndInv, SharingInv, RowsCover, NEW w \in Workers, Reconcile(w)
  PROVE  RowsCover'
<1>0. PICK d \in DayIds : d = NextDay(job[w])
  BY WorkingDay DEF Reconcile
<1> DEFINE from == SliceFrom(job[w].from, d)
           to   == SliceTo(job[w].to, d)
           a    == job[w].answer
<1>1. /\ job[w] \in Job /\ JobInv(job[w]) /\ RangeOK(w, job[w], runs) /\ job[w].pc = "reconcile"
      /\ job[w].pc \in Working /\ UNCHANGED runs /\ SetSlice(w, "completed")
  BY DEF IndInv, JobsOK, SharingInv, Reconcile, Working
<1>2. job[w].run \in RunIds
  BY <1>1, WorkingDay
<1>3. runs[job[w].run].from = job[w].from /\ runs[job[w].run].to = job[w].to
  BY <1>1, <1>2 DEF Job, RangeOK, RunIds, NoRun
<1>4. /\ Whole(a) /\ a \in Seq(Pages)
      /\ buckets' = (buckets \ Superseded(from, to)) \union RowsOf(from, to, a)
  BY <1>0, <1>1 DEF Reconcile, JobInv, Job
<1>5. /\ from \in Nat /\ to \in Nat
  BY <1>0, <1>1, SliceBoundsInNat DEF Job
<1>6. /\ \A q \in RunIds : q # job[w].run => slices'[q] = slices[q]
      /\ \A e \in DayIds : e # d => slices'[job[w].run][e] = slices[job[w].run][e]
  BY <1>0, <1>1, SliceWritten
<1>7. ASSUME NoUsage \notin Usages
      PROVE  \E x \in buckets' : x.from = from /\ x.to = to
  <2>1. 1 \in DOMAIN a /\ a[1] \in Pages
    BY <1>4 DEF Whole
  <2>2. a[1].usage # NoUsage
    BY <1>7, <2>1 DEF Pages
  <2>3. [from |-> from, to |-> to, page |-> 1, answer |-> a] \in RowsOf(from, to, a)
    BY <2>1, <2>2 DEF RowsOf
  <2> HIDE DEF from, to, a
  <2> QED BY <1>4, <2>3
<1>8. ASSUME NoUsage \notin Usages, NEW r \in RunIds, NEW e \in DayIds, NEW t \in Nat,
             slices'[r][e] = "completed",
             SliceFrom(runs'[r].from, e) <= t, t < SliceTo(runs'[r].to, e)
      PROVE  \E x \in buckets' : x.from <= t /\ t < x.to
  <2>1. CASE r = job[w].run /\ e = d
    <3>1. from <= t /\ t < to
      BY <1>1, <1>3, <1>8, <2>1
    <3> HIDE DEF from, to
    <3> QED BY <1>7, <1>8, <3>1
  <2>2. CASE ~(r = job[w].run /\ e = d)
    <3>1. slices[r][e] = "completed"
      BY <1>6, <1>8, <2>2
    <3>2. PICK x \in buckets : x.from <= t /\ t < x.to
      BY <1>1, <1>8, <3>1 DEF RowsCover
    <3>3. x.from \in Nat /\ x.to \in Nat
      BY DEF IndInv, TablesOK, Row
    <3> HIDE DEF from, to, a
    <3>4. CASE x \in Superseded(from, to)
      <4>1. from <= t /\ t < to
        BY <1>5, <1>8, <3>2, <3>3, <3>4 DEF Superseded
      <4> QED BY <1>7, <1>8, <4>1
    <3>5. CASE x \notin Superseded(from, to)
      BY <1>4, <3>2, <3>5
    <3> QED BY <3>4, <3>5
  <2> QED BY <2>1, <2>2
<1> QED BY <1>8 DEF RowsCover

\* Reconcile installs the answer it holds for the slice it works on.
LEMMA ReconcileMaps ==
  ASSUME IndInv, SharingInv, RowsCover, NEW w \in Workers, Reconcile(w)
  PROVE  History!Next
<1>0. PICK d \in DayIds : d = NextDay(job[w])
  BY WorkingDay DEF Reconcile
<1> DEFINE from == SliceFrom(job[w].from, d)
           to   == SliceTo(job[w].to, d)
           a    == job[w].answer
           new  == {x \in buckets' : History!Inside(from, to, x)}
           complete == {e \in DayIds : DayComplete(e)}
<1>1. /\ job[w] \in Job /\ JobInv(job[w]) /\ RangeOK(w, job[w], runs) /\ job[w].pc = "reconcile"
      /\ job[w].pc \in Working /\ UNCHANGED runs /\ SetSlice(w, "completed")
  BY DEF IndInv, JobsOK, SharingInv, Reconcile, Working
<1>2. d \in DaysOf(job[w].from, job[w].to) /\ job[w].run \in RunIds
  BY <1>0, <1>1, WorkingDay
<1>3. /\ d \in Nat /\ DayLength \in Nat \ {0} /\ d * DayLength \in Nat
      /\ (d + 1) * DayLength = d * DayLength + DayLength
  BY <1>2, DaysInOrder, SyncAssumption DEF DayIds
<1>4. /\ job[w].from \in Nat /\ job[w].to \in Nat /\ job[w].from < job[w].to
      /\ runs[job[w].run].from = job[w].from /\ runs[job[w].run].to = job[w].to
  BY <1>1, <1>2 DEF Job, RangeOK, RunIds, NoRun
<1>5. d * DayLength < job[w].to /\ job[w].from < (d + 1) * DayLength
  BY <1>2 DEF DaysOf
<1>6. /\ from \in Nat /\ to \in Nat /\ d * DayLength <= from /\ from < to
      /\ to <= (d + 1) * DayLength
  BY <1>3, <1>4, <1>5 DEF SliceFrom, SliceTo
<1>7. Whole(a) /\ buckets' = (buckets \ Superseded(from, to)) \union RowsOf(from, to, a)
  BY <1>0, <1>1 DEF Reconcile, JobInv
<1>8. /\ slices'[job[w].run][d] = "completed"
      /\ \A e \in DayIds : e # d => (DayComplete(e)' <=> DayComplete(e))
      /\ \A e \in DayIds : DayComplete(e) => DayComplete(e)'
  BY <1>0, <1>1, SliceWritten, WrittenDay
<1>9. ASSUME to - from = DayLength PROVE DayComplete(d)'
  <2>1. from = d * DayLength /\ to = (d + 1) * DayLength
    BY <1>3, <1>6, <1>9
  <2>2. /\ SliceFrom(runs'[job[w].run].from, d) = d * DayLength
        /\ SliceTo(runs'[job[w].run].to, d) = (d + 1) * DayLength
    BY <1>1, <1>4, <2>1
  <2>3. \A t \in (d * DayLength) .. ((d + 1) * DayLength - 1) :
          /\ slices'[job[w].run][d] = "completed"
          /\ SliceFrom(runs'[job[w].run].from, d) <= t
          /\ t < SliceTo(runs'[job[w].run].to, d)
    <3>1. SUFFICES ASSUME NEW t \in (d * DayLength) .. ((d + 1) * DayLength - 1)
                   PROVE  d * DayLength <= t /\ t < (d + 1) * DayLength
      BY <1>8, <2>2
    <3> QED BY <1>3
  <2> QED BY <1>2, <2>3 DEF DayComplete
<1>10. /\ new = RowsOf(from, to, a)
       /\ buckets' \ new = {x \in buckets : ~History!Inside(from, to, x)}
  <2>1. \A x \in RowsOf(from, to, a) : x.from = from /\ x.to = to
    BY DEF RowsOf
  <2>2. \A x \in buckets : x \in Superseded(from, to) <=> History!Inside(from, to, x)
    BY <1>6 DEF Superseded, History!Inside, IndInv, TablesOK, Row
  <2>3. \A x \in RowsOf(from, to, a) : History!Inside(from, to, x)
    BY <1>6, <2>1 DEF History!Inside
  <2> HIDE DEF from, to, a
  <2> QED BY <1>7, <2>2, <2>3
<1> HIDE DEF from, to, a
<1>11. new # {} => \E x \in new : Whole(x.answer) /\ new = RowsOf(from, to, x.answer)
  <2>1. \A x \in new : x.answer = a
    BY <1>10 DEF RowsOf
  <2> HIDE DEF new
  <2> QED BY <1>7, <1>10, <2>1
<1>12. complete' \in {complete, complete \union {d}}
  BY <1>2, <1>8
<1>13. to - from = DayLength => d \in complete'
  BY <1>2, <1>9
<1>14. ASSUME d \in complete', NoUsage \notin Usages,
              NEW t \in (d * DayLength) .. ((d + 1) * DayLength - 1)
       PROVE  \E x \in buckets' : x.from <= t /\ t < x.to
  <2>1. PICK r \in RunIds : /\ slices'[r][d] = "completed"
                            /\ SliceFrom(runs'[r].from, d) <= t
                            /\ t < SliceTo(runs'[r].to, d)
    BY <1>14 DEF DayComplete
  <2>2. t \in Nat
    BY <1>3, <1>14
  <2> QED BY <1>14, <2>1, <2>2, ReconcileCovers DEF RowsCover
<1>15. History!Install(d, from, to)
  BY <1>6, <1>10, <1>11, <1>12, <1>13, <1>14
     DEF History!Install, History!RowsOf, RowsOf, History!Whole, Whole
<1>16. from \in (d * DayLength) .. ((d + 1) * DayLength) /\ to \in (d * DayLength) .. ((d + 1) * DayLength)
  BY <1>3, <1>6
<1> QED BY <1>2, <1>15, <1>16 DEF History!Next

LEMMA HistoryInit == Init => History!Init
<1> SUFFICES ASSUME Init PROVE History!Init
  OBVIOUS
<1>1. ASSUME NEW d \in DayIds PROVE ~DayComplete(d)
  <2>1. /\ d * DayLength \in Nat /\ (d + 1) * DayLength = d * DayLength + DayLength
        /\ DayLength \in Nat \ {0}
    BY DaysInOrder, SyncAssumption DEF DayIds
  <2>2. d * DayLength \in (d * DayLength) .. ((d + 1) * DayLength - 1)
    BY <2>1
  <2>3. \A r \in RunIds : slices[r][d] # "completed"
    BY DEF Init
  <2> QED BY <2>2, <2>3 DEF DayComplete
<1> QED BY <1>1 DEF Init, History!Init

\* The rows of the history change by one whole fetch at a time, and a day
\* becomes complete only when all of it was fetched, whatever ranges are asked for, and
\* whatever threads, failures and restarts there are: reconcile_slice is the
\* only step that changes a row, and no step completes two days.
THEOREM HistoryImplemented == Spec => ImplementsHistory
<1> DEFINE Inv == EnvOK /\ IndInv /\ SharingInv /\ RowsCover
<1>1. Init => Inv
  <2>1. Init => RowsCover
    BY DEF Init, RowsCover
  <2> QED BY <2>1, InitInv, InitSharing DEF TypeOK, EnvOK, IndInv, TablesOK
<1>2. Inv /\ [Next]_vars => Inv'
  <2>1. Inv /\ [Next]_vars => RowsCover'
    BY OthersCover, ReconcileCovers
  <2> QED BY <2>1, EnvKeeps, StepKeeps, SharingStep
<1>3. Inv /\ [Next]_vars => [History!Next]_History!vars
  BY ReconcileMaps, OthersMap
<1> HIDE DEF Inv
<1>4. QED BY <1>1, <1>2, <1>3, HistoryInit, PTL DEF Spec, ImplementsHistory, History!Spec
=============================================================================

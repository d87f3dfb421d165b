---------------------------- MODULE UsageHistory ----------------------------
(***************************************************************************)
(* What the usage history promises its readers, whatever threads, failures *)
(* and restarts produced it: the rows of an interval are replaced by those *)
(* of one whole fetch at a time, and a day becomes complete only with the  *)
(* fetch that leaves no moment of it unknown.  A day may become incomplete *)
(* again, if a slice of it is fetched anew, but keeps its rows meanwhile.  *)
(* A page without usage leaves no row: what is known shows in the rows     *)
(* where the upstream reports usage on every page.                         *)
(***************************************************************************)
EXTENDS Naturals, Sequences

CONSTANTS DayLength, DayIds, NoCursor, Usages, NoUsage

VARIABLES rows, complete

vars == <<rows, complete>>

Whole(a) == a # <<>> /\ \A p \in DOMAIN a : a[p].next = NoCursor <=> p = Len(a)

RowsOf(from, to, a) ==
  {[from |-> from, to |-> to, page |-> p, answer |-> a] : p \in {q \in DOMAIN a : a[q].usage # NoUsage}}

Inside(from, to, x) == from <= x.from /\ x.to <= to

Init == rows = {} /\ complete = {}

\* The pages of one fetch of [from, to), inside day d, replace what was known
\* of it; a fetch of the whole day completes the day, and so may one of its
\* last unknown part.
Install(d, from, to) ==
  LET new == {x \in rows' : Inside(from, to, x)} IN
  /\ d * DayLength <= from /\ from < to /\ to <= (d + 1) * DayLength
  /\ rows' \ new = {x \in rows : ~Inside(from, to, x)}
  /\ new # {} => \E x \in new : Whole(x.answer) /\ new = RowsOf(from, to, x.answer)
  /\ complete' \in {complete, complete \union {d}}
  /\ to - from = DayLength => d \in complete'
  /\ d \in complete' \ complete /\ NoUsage \notin Usages =>
       \A t \in (d * DayLength) .. ((d + 1) * DayLength - 1) :
         \E x \in rows' : x.from <= t /\ t < x.to

\* A slice of day d is begun again.
Reopen(d) ==
  /\ complete' = complete \ {d}
  /\ rows' = rows

Next ==
  \E d \in DayIds :
    \/ \E from, to \in (d * DayLength) .. ((d + 1) * DayLength) : Install(d, from, to)
    \/ Reopen(d)

Spec == Init /\ [][Next]_vars
=============================================================================

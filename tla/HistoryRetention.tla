-------------------------- MODULE HistoryRetention --------------------------
(***************************************************************************)
(* Retention of the usage history (runtime.py, sync_service.py): an HTTP   *)
(* handler previews what a cutoff would delete, another one applies that   *)
(* preview once.  Composed with UsageSync: the syncs go on meanwhile.      *)
(***************************************************************************)
EXTENDS UsageSync, SequencesExt

CONSTANTS
  MaxPreviews,     \* previews the runtime keeps (32 in runtime.py)
  MaxTokens        \* bound: preview tokens ever issued

ASSUME RetentionAssumption ==
  /\ MaxPreviews \in Nat \ {0}
  /\ MaxTokens \in Nat

VARIABLES
  previews,   \* _retention_previews, oldest first
  issued,     \* tokens issued so far
  applying,   \* the preview a handler took and has still to apply
  deletions   \* history variable: each applied preview and the rows it deleted

retentionVars == <<previews, issued, applying, deletions>>
allVars == <<vars, retentionVars>>

NoPreview == [token |-> 0, cutoff |-> 0, seen |-> {}]

Old(cutoff) == {x \in buckets : x.to <= cutoff}

RInit ==
  /\ Init
  /\ previews = <<>>
  /\ issued = 0
  /\ applying = [w \in Manual |-> NoPreview]
  /\ deletions = {}

IsIdle(w) == job[w].pc = "idle" /\ applying[w] = NoPreview

\* preview_retention: counts the rows that ended before the cutoff (seen
\* remembers which they are; the code keeps their number), then stores the
\* preview, dropping the oldest one at the limit.
Preview(w) ==
  /\ IsIdle(w)
  /\ DataLockFree
  /\ issued < MaxTokens
  /\ \E retentionDays \in 1 .. Days :
       LET cutoff == Midnight(now) - retentionDays * DayLength
           kept   == IF Len(previews) >= MaxPreviews THEN Tail(previews) ELSE previews
       IN /\ retentionDays * DayLength <= Midnight(now)
          /\ previews' = Append(kept, [token |-> issued + 1, cutoff |-> cutoff,
                                       seen |-> Old(cutoff)])
  /\ issued' = issued + 1
  /\ UNCHANGED <<vars, applying, deletions>>

\* Mutant: the token stays on offer.
TakePreview_Keeps(w) ==
  /\ IsIdle(w)
  /\ \E i \in DOMAIN previews : applying' = [applying EXCEPT ![w] = previews[i]]
  /\ UNCHANGED <<vars, previews, issued, deletions>>

\* apply_retention, first half: the token is popped under the runtime's lock.
TakePreview(w) ==
  /\ IsIdle(w)
  /\ \E i \in DOMAIN previews :
       /\ applying' = [applying EXCEPT ![w] = previews[i]]
       /\ previews' = RemoveAt(previews, i)
  /\ UNCHANGED <<vars, issued, deletions>>

\* Second half, under _data_lock: recount in the transaction, then delete.
ApplyRetention(w) ==
  LET preview == applying[w] IN
  /\ preview # NoPreview
  /\ DataLockFree
  /\ Cardinality(Old(preview.cutoff)) = Cardinality(preview.seen)
  /\ buckets' = buckets \ Old(preview.cutoff)
  /\ deletions' = deletions \union {[preview |-> preview, rows |-> Old(preview.cutoff)]}
  /\ applying' = [applying EXCEPT ![w] = NoPreview]
  /\ UNCHANGED <<now, runs, slices, job, previews, issued>>

\* The counts differ: retention_preview_stale, nothing is deleted.
RejectStale(w) ==
  /\ applying[w] # NoPreview
  /\ DataLockFree
  /\ Cardinality(Old(applying[w].cutoff)) # Cardinality(applying[w].seen)
  /\ applying' = [applying EXCEPT ![w] = NoPreview]
  /\ UNCHANGED <<vars, previews, issued, deletions>>

\* Previews live in the process and die with it.
Restart ==
  /\ job' = [w \in Workers |-> IdleJob]
  /\ previews' = <<>>
  /\ applying' = [w \in Manual |-> NoPreview]
  /\ UNCHANGED <<now, dbVars, issued, deletions>>

\* A sync handler is not at the same time a retention handler.
SyncStep ==
  /\ SyncNext
  /\ \A w \in Manual : applying[w] # NoPreview => job'[w] = job[w]
  /\ UNCHANGED retentionVars

RNext ==
  \/ SyncStep
  \/ \E w \in Manual : \/ Preview(w) \/ TakePreview(w)
                       \/ ApplyRetention(w) \/ RejectStale(w)
  \/ Restart

RSpec == RInit /\ [][RNext]_allVars

-----------------------------------------------------------------------------
PreviewRecord == [token : 0 .. MaxTokens, cutoff : Nat, seen : SUBSET Row]

RTypeOK ==
  /\ TypeOK
  /\ previews \in Seq([token : 1 .. MaxTokens, cutoff : Nat, seen : SUBSET Row])
  /\ Len(previews) <= MaxPreviews
  /\ issued \in 0 .. MaxTokens
  /\ DOMAIN applying = Manual
  /\ \A w \in Manual : /\ DOMAIN applying[w] = {"token", "cutoff", "seen"}
                       /\ applying[w].token \in 0 .. issued

\* A token is consumed by one apply attempt: no preview deletes twice, and a
\* token in a handler's hands is in no other's and no longer on offer.
TokenUsedOnce ==
  /\ \A x, y \in deletions : x.preview.token = y.preview.token => x = y
  /\ \A w \in Manual : applying[w] # NoPreview =>
       /\ \A i \in DOMAIN previews : previews[i].token # applying[w].token
       /\ \A x \in deletions : x.preview.token # applying[w].token
       /\ \A v \in Manual \ {w} : applying[v].token # applying[w].token

\* "Any history change after preview returns retention_preview_stale and
\* deletes nothing" (api-v1.md): only the rows that were reviewed go.
DeletesOnlyReviewedRows == \A x \in deletions : x.rows = x.preview.seen
=============================================================================

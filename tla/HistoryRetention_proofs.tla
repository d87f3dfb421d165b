----------------------- MODULE HistoryRetention_proofs -----------------------
(***************************************************************************)
(* Proofs about HistoryRetention for every number of threads, previews,    *)
(* days and answers: what a token can delete, what the rows are lost by,   *)
(* and that the synchronisation keeps its invariants beside retention.     *)
(***************************************************************************)
EXTENDS HistoryRetention, UsageSync_proofs, SequenceTheorems

-----------------------------------------------------------------------------
(* The inductive invariant of the previews.                                *)

PreviewType == [token : 1 .. MaxTokens, cutoff : Nat, seen : SUBSET Row]

RetentionTypes ==
  /\ previews \in Seq(PreviewType)
  /\ Len(previews) <= MaxPreviews
  /\ issued \in 0 .. MaxTokens
  /\ applying \in [Manual -> PreviewType \union {NoPreview}]

\* No token was issued before it was issued ...
TokensIssued ==
  /\ \A i \in DOMAIN previews : previews[i].token <= issued
  /\ \A w \in Manual : applying[w].token <= issued
  /\ \A x \in deletions : x.preview.token \in 1 .. issued

\* ... and none is on offer twice or after it was used.
OffersUnique ==
  /\ \A i, j \in DOMAIN previews : previews[i].token = previews[j].token => i = j
  /\ \A x \in deletions, i \in DOMAIN previews : x.preview.token # previews[i].token

RetentionInv == RetentionTypes /\ TokensIssued /\ OffersUnique /\ TokenUsedOnce

\* A preview is a sequence of records with these fields and tokens.
LEMMA PreviewFacts ==
  /\ NoPreview.token = 0 /\ NoPreview \notin PreviewType
  /\ DOMAIN NoPreview = {"token", "cutoff", "seen"}
  /\ \A p \in PreviewType : /\ p.token \in Nat /\ p.token # 0 /\ p.cutoff \in Nat
                            /\ DOMAIN p = {"token", "cutoff", "seen"}
<1>1. MaxTokens \in Nat
  BY RetentionAssumption
<1> QED BY <1>1 DEF NoPreview, PreviewType

\* An element of a sequence is removed: the others stay in their order.
LEMMA Removed ==
  ASSUME NEW S, NEW s \in Seq(S), NEW i \in DOMAIN s
  PROVE  /\ RemoveAt(s, i) \in Seq(S) /\ Len(RemoveAt(s, i)) = Len(s) - 1
         /\ \A k \in DOMAIN RemoveAt(s, i) :
              /\ k \in 1 .. Len(s) - 1
              /\ RemoveAt(s, i)[k] = IF k < i THEN s[k] ELSE s[k + 1]
<1> DEFINE a == SubSeq(s, 1, i - 1)
           b == SubSeq(s, i + 1, Len(s))
<1>1. Len(s) \in Nat /\ DOMAIN s = 1 .. Len(s) /\ i \in 1 .. Len(s) /\ \A k \in 1 .. Len(s) : s[k] \in S
  BY LenProperties, ElementOfSeq
<1>2. /\ a \in Seq(S) /\ Len(a) = i - 1
      /\ \A k \in 1 .. i - 1 : a[k] = s[k]
  <2>1. \A k \in 1 .. i - 1 : s[k] \in S
    BY <1>1
  <2>2. /\ a \in Seq(S) /\ Len(a) = IF 1 <= i - 1 THEN (i - 1) - 1 + 1 ELSE 0
        /\ \A k \in 1 .. (i - 1) - 1 + 1 : a[k] = s[1 + k - 1]
    BY <1>1, <2>1, SubSeqProperties
  <2> HIDE DEF a
  <2>3. \A k \in 1 .. i - 1 : k \in 1 .. (i - 1) - 1 + 1 /\ 1 + k - 1 = k
    BY <1>1
  <2> QED BY <1>1, <2>2, <2>3
<1>3. /\ b \in Seq(S) /\ Len(b) = Len(s) - i
      /\ \A k \in 1 .. Len(s) - i : b[k] = s[i + k]
  <2>1. \A k \in i + 1 .. Len(s) : s[k] \in S
    BY <1>1
  <2>2. /\ b \in Seq(S) /\ Len(b) = IF i + 1 <= Len(s) THEN Len(s) - (i + 1) + 1 ELSE 0
        /\ \A k \in 1 .. Len(s) - (i + 1) + 1 : b[k] = s[(i + 1) + k - 1]
    BY <1>1, <2>1, SubSeqProperties
  <2> HIDE DEF b
  <2>3. \A k \in 1 .. Len(s) - i : k \in 1 .. Len(s) - (i + 1) + 1 /\ (i + 1) + k - 1 = i + k
    BY <1>1
  <2> QED BY <1>1, <2>2, <2>3
<1> HIDE DEF a, b
<1>4. /\ a \o b \in Seq(S) /\ Len(a \o b) = Len(a) + Len(b)
      /\ \A k \in 1 .. Len(a) + Len(b) : (a \o b)[k] = IF k <= Len(a) THEN a[k] ELSE b[k - Len(a)]
  BY <1>2, <1>3, ConcatProperties
<1>5. Len(a) + Len(b) = Len(s) - 1
  BY <1>1, <1>2, <1>3
<1>6. ASSUME NEW k \in 1 .. Len(s) - 1
      PROVE  (a \o b)[k] = IF k < i THEN s[k] ELSE s[k + 1]
  <2>1. CASE k < i
    BY <1>1, <1>2, <1>4, <1>5, <2>1
  <2>2. CASE ~(k < i)
    <3>1. (a \o b)[k] = b[k - (i - 1)] /\ k - (i - 1) \in 1 .. Len(s) - i
      BY <1>1, <1>2, <1>4, <1>5, <2>2
    <3>2. b[k - (i - 1)] = s[i + (k - (i - 1))] /\ i + (k - (i - 1)) = k + 1
      BY <1>1, <1>3, <3>1
    <3> QED BY <2>2, <3>1, <3>2
  <2> QED BY <2>1, <2>2
<1>7. RemoveAt(s, i) = a \o b
  BY DEF RemoveAt, a, b
<1>8. DOMAIN (a \o b) = 1 .. Len(s) - 1
  BY <1>4, <1>5, LenProperties
<1> QED BY <1>4, <1>5, <1>6, <1>7, <1>8

LEMMA RetentionInit == RInit => RetentionInv
<1> SUFFICES ASSUME RInit PROVE RetentionInv
  OBVIOUS
<1>1. previews = <<>> /\ issued = 0 /\ applying = [w \in Manual |-> NoPreview] /\ deletions = {}
  BY DEF RInit
<1>2. RetentionTypes
  BY <1>1, RetentionAssumption, PreviewFacts DEF RetentionTypes
<1>3. TokensIssued /\ OffersUnique /\ TokenUsedOnce
  BY <1>1, PreviewFacts DEF TokensIssued, OffersUnique, TokenUsedOnce
<1> QED BY <1>2, <1>3 DEF RetentionInv

\* The sequence that a new preview is appended to: the oldest is dropped at the limit.
LEMMA PreviewKeeps ==
  ASSUME RetentionInv, TablesOK, now \in Nat, NEW w \in Manual, Preview(w)
  PROVE  RetentionInv'
<1>1. PICK retentionDays \in 1 .. Days :
        LET cutoff == Midnight(now) - retentionDays * DayLength
            kept   == IF Len(previews) >= MaxPreviews THEN Tail(previews) ELSE previews
        IN /\ retentionDays * DayLength <= Midnight(now)
           /\ previews' = Append(kept, [token |-> issued + 1, cutoff |-> cutoff,
                                        seen |-> Old(cutoff)])
  BY DEF Preview
<1> DEFINE cutoff == Midnight(now) - retentionDays * DayLength
           kept   == IF Len(previews) >= MaxPreviews THEN Tail(previews) ELSE previews
           new    == [token |-> issued + 1, cutoff |-> cutoff, seen |-> Old(cutoff)]
<1>2. /\ issued \in 0 .. MaxTokens /\ issued < MaxTokens /\ issued' = issued + 1
      /\ UNCHANGED <<applying, deletions>> /\ MaxTokens \in Nat /\ MaxPreviews \in Nat \ {0}
  BY RetentionAssumption DEF Preview, RetentionInv, RetentionTypes
<1>3. cutoff \in Nat
  <2>1. retentionDays \in Nat /\ DayLength \in Nat /\ Midnight(now) \in Nat
    BY MidnightInNat, SyncAssumption
  <2>2. retentionDays * DayLength \in Nat
    BY <2>1, ProductInNat
  <2> QED BY <1>1, <2>1, <2>2
<1>4. new \in PreviewType /\ new.token = issued + 1
  BY <1>2, <1>3 DEF PreviewType, TablesOK, Old
<1>5. /\ previews \in Seq(PreviewType) /\ Len(previews) \in Nat /\ Len(previews) <= MaxPreviews
      /\ DOMAIN previews = 1 .. Len(previews)
  BY LenProperties DEF RetentionInv, RetentionTypes
<1> DEFINE Kept(n) ==
      /\ kept \in Seq(PreviewType) /\ Len(kept) = Len(previews) - n /\ Len(kept) < MaxPreviews
      /\ Len(kept) \in Nat
      /\ \A k \in 1 .. Len(kept) : k + n \in DOMAIN previews /\ kept[k] = previews[k + n]
<1>6. PICK n \in {0, 1} : Kept(n)
  <2>1. CASE Len(previews) >= MaxPreviews
    <3>1. previews # <<>>
      BY <1>2, <1>5, <2>1, EmptySeq
    <3>2. /\ Tail(previews) \in Seq(PreviewType) /\ Len(Tail(previews)) = Len(previews) - 1
          /\ \A k \in 1 .. Len(Tail(previews)) : Tail(previews)[k] = previews[k + 1]
      BY <1>5, <3>1, HeadTailProperties
    <3>3. kept = Tail(previews)
      BY <2>1
    <3> HIDE DEF kept
    <3>4. Kept(1)
      BY <1>2, <1>5, <2>1, <3>2, <3>3
    <3> QED BY <3>4
  <2>2. CASE ~(Len(previews) >= MaxPreviews)
    <3>1. kept = previews
      BY <2>2
    <3> HIDE DEF kept
    <3>2. Kept(0)
      BY <1>2, <1>5, <2>2, <3>1
    <3> QED BY <3>2
  <2> QED BY <2>1, <2>2
<1>7. previews' = Append(kept, new)
  BY <1>1
<1> HIDE DEF cutoff, kept, new
<1>8. /\ previews' \in Seq(PreviewType) /\ Len(previews') = Len(kept) + 1
      /\ \A k \in 1 .. Len(kept) : previews'[k] = kept[k]
      /\ previews'[Len(kept) + 1] = new /\ DOMAIN previews' = 1 .. Len(kept) + 1
  BY <1>4, <1>6, <1>7, AppendProperties, LenProperties
<1>9. RetentionTypes'
  BY <1>2, <1>6, <1>8 DEF RetentionInv, RetentionTypes
<1>10. /\ \A p \in PreviewType : p.token \in Nat
       /\ \A v \in Manual : applying[v].token \in Nat
       /\ \A k \in DOMAIN previews : previews[k].token \in Nat
  BY <1>5, PreviewFacts, ElementOfSeq DEF RetentionInv, RetentionTypes
<1>11. \A k \in DOMAIN previews' : \/ k = Len(kept) + 1 /\ previews'[k].token = issued + 1
                                   \/ /\ k \in 1 .. Len(kept) /\ k + n \in DOMAIN previews
                                      /\ previews'[k] = previews[k + n]
  <2>1. ASSUME NEW k \in 1 .. Len(kept) PROVE previews'[k] = previews[k + n] /\ k + n \in DOMAIN previews
    BY <1>6, <1>8
  <2>2. \A k \in 1 .. Len(kept) + 1 : k \in 1 .. Len(kept) \/ k = Len(kept) + 1
    BY <1>6
  <2> QED BY <1>4, <1>8, <2>1, <2>2
<1>12. TokensIssued'
  BY <1>2, <1>10, <1>11 DEF RetentionInv, TokensIssued
<1>13. OffersUnique'
  <2>1. ASSUME NEW i \in DOMAIN previews', NEW j \in DOMAIN previews',
               previews'[i].token = previews'[j].token
        PROVE  i = j
    <3>1. \A k \in DOMAIN previews : previews[k].token < issued + 1
      BY <1>2, <1>10 DEF RetentionInv, TokensIssued
    <3>2. i = Len(kept) + 1 <=> j = Len(kept) + 1
      BY <1>2, <1>11, <2>1, <3>1
    <3>3. CASE i # Len(kept) + 1
      <4>1. i + n = j + n
        BY <1>11, <2>1, <3>2, <3>3 DEF RetentionInv, OffersUnique
      <4> QED BY <1>8, <1>6, <4>1
    <3> QED BY <3>2, <3>3
  <2>2. ASSUME NEW x \in deletions, NEW i \in DOMAIN previews'
        PROVE  x.preview.token # previews'[i].token
    <3>1. x.preview.token \in 1 .. issued
      BY DEF RetentionInv, TokensIssued
    <3> QED BY <1>2, <1>11, <3>1 DEF RetentionInv, OffersUnique
  <2> QED BY <1>2, <2>1, <2>2 DEF OffersUnique
<1>14. TokenUsedOnce'
  <2>1. ASSUME NEW v \in Manual, applying[v] # NoPreview, NEW i \in DOMAIN previews'
        PROVE  previews'[i].token # applying[v].token
    <3>1. applying[v].token <= issued
      BY DEF RetentionInv, TokensIssued
    <3> QED BY <1>2, <1>10, <1>11, <2>1, <3>1 DEF RetentionInv, TokenUsedOnce
  <2> QED BY <1>2, <2>1 DEF RetentionInv, TokenUsedOnce
<1> QED BY <1>9, <1>12, <1>13, <1>14 DEF RetentionInv

LEMMA TakeKeeps ==
  ASSUME RetentionInv, NEW w \in Manual, TakePreview(w)
  PROVE  RetentionInv'
<1>1. PICK i \in DOMAIN previews : /\ applying' = [applying EXCEPT ![w] = previews[i]]
                                   /\ previews' = RemoveAt(previews, i)
  BY DEF TakePreview
<1>2. UNCHANGED <<issued, deletions>>
  BY DEF TakePreview
<1>3. /\ previews \in Seq(PreviewType) /\ Len(previews) \in Nat /\ Len(previews) <= MaxPreviews
      /\ DOMAIN previews = 1 .. Len(previews) /\ previews[i] \in PreviewType
      /\ \A k \in DOMAIN previews : previews[k].token \in Nat
      /\ applying \in [Manual -> PreviewType \union {NoPreview}]
  BY LenProperties, ElementOfSeq, PreviewFacts DEF RetentionInv, RetentionTypes
<1>4. /\ previews' \in Seq(PreviewType) /\ Len(previews') = Len(previews) - 1
      /\ \A k \in DOMAIN previews' :
           /\ k \in 1 .. Len(previews) - 1
           /\ previews'[k] = IF k < i THEN previews[k] ELSE previews[k + 1]
  BY <1>1, <1>3, Removed
<1>5. /\ applying' \in [Manual -> PreviewType \union {NoPreview}]
      /\ applying'[w] = previews[i] /\ \A v \in Manual \ {w} : applying'[v] = applying[v]
  BY <1>1, <1>3
<1>6. RetentionTypes'
  BY <1>2, <1>3, <1>4, <1>5, RetentionAssumption DEF RetentionInv, RetentionTypes
<1>7. \A k \in DOMAIN previews' :
        LET m == IF k < i THEN k ELSE k + 1
        IN m \in DOMAIN previews /\ m # i /\ previews'[k] = previews[m]
  BY <1>3, <1>4
<1>8. TokensIssued'
  BY <1>2, <1>5, <1>7 DEF RetentionInv, TokensIssued
<1>9. OffersUnique'
  <2>1. ASSUME NEW j \in DOMAIN previews', NEW k \in DOMAIN previews',
               previews'[j].token = previews'[k].token
        PROVE  j = k
    <3>1. (IF j < i THEN j ELSE j + 1) = (IF k < i THEN k ELSE k + 1)
      BY <1>7, <2>1 DEF RetentionInv, OffersUnique
    <3> QED BY <1>3, <1>4, <3>1
  <2>2. \A x \in deletions, k \in DOMAIN previews' : x.preview.token # previews'[k].token
    BY <1>7 DEF RetentionInv, OffersUnique
  <2> QED BY <1>2, <2>1, <2>2 DEF OffersUnique
<1>10. \A k \in DOMAIN previews' : previews'[k].token # previews[i].token
  BY <1>7 DEF RetentionInv, OffersUnique
<1>11. TokenUsedOnce'
  <2>1. ASSUME NEW v \in Manual, applying'[v] # NoPreview
        PROVE  /\ \A k \in DOMAIN previews' : previews'[k].token # applying'[v].token
               /\ \A x \in deletions : x.preview.token # applying'[v].token
               /\ \A u \in Manual \ {v} : applying'[u].token # applying'[v].token
    <3>1. CASE v = w
      <4>1. \A u \in Manual \ {w} : applying[u].token # previews[i].token
        BY <1>3, PreviewFacts DEF RetentionInv, TokenUsedOnce
      <4>2. \A x \in deletions : x.preview.token # previews[i].token
        BY DEF RetentionInv, OffersUnique
      <4> QED BY <1>5, <1>10, <3>1, <4>1, <4>2
    <3>2. CASE v # w
      <4>1. applying'[v] = applying[v] /\ applying[v] # NoPreview
        BY <1>5, <2>1, <3>2
      <4>2. \A k \in DOMAIN previews : previews[k].token # applying[v].token
        BY <4>1 DEF RetentionInv, TokenUsedOnce
      <4>3. \A u \in Manual \ {v} : applying'[u].token # applying[v].token
        BY <1>5, <3>2, <4>1, <4>2 DEF RetentionInv, TokenUsedOnce
      <4>4. \A x \in deletions : x.preview.token # applying[v].token
        BY <4>1 DEF RetentionInv, TokenUsedOnce
      <4> QED BY <1>7, <4>1, <4>2, <4>3, <4>4
    <3> QED BY <3>1, <3>2
  <2>2. \A x, y \in deletions : x.preview.token = y.preview.token => x = y
    BY DEF RetentionInv, TokenUsedOnce
  <2> QED BY <1>2, <2>1, <2>2 DEF TokenUsedOnce
<1> QED BY <1>6, <1>8, <1>9, <1>11 DEF RetentionInv

\* A handler is done with its preview, and deletes with it at most once.
LEMMA DoneKeeps ==
  ASSUME RetentionInv, NEW w \in Manual, NEW rows, applying[w] # NoPreview,
         applying' = [applying EXCEPT ![w] = NoPreview], UNCHANGED <<previews, issued>>,
         \/ UNCHANGED deletions
         \/ deletions' = deletions \union {[preview |-> applying[w], rows |-> rows]}
  PROVE  RetentionInv'
<1>1. applying \in [Manual -> PreviewType \union {NoPreview}] /\ issued \in Nat
  BY RetentionAssumption DEF RetentionInv, RetentionTypes
<1>2. /\ applying' \in [Manual -> PreviewType \union {NoPreview}]
      /\ applying'[w] = NoPreview /\ \A v \in Manual \ {w} : applying'[v] = applying[v]
  BY <1>1
<1>3. applying[w].token \in 1 .. issued
  BY <1>1, PreviewFacts DEF RetentionInv, TokensIssued
<1>4. \A x \in deletions' : \/ x \in deletions
                            \/ /\ x.preview = applying[w]
                               /\ x = [preview |-> applying[w], rows |-> rows]
  OBVIOUS
<1>5. RetentionTypes'
  BY <1>2 DEF RetentionInv, RetentionTypes
<1>6. TokensIssued'
  BY <1>1, <1>2, <1>3, <1>4, PreviewFacts DEF RetentionInv, TokensIssued
<1>7. OffersUnique'
  BY <1>4 DEF RetentionInv, OffersUnique, TokenUsedOnce
<1>8. TokenUsedOnce'
  <2>1. \A x, y \in deletions' : x.preview.token = y.preview.token => x = y
    BY <1>4 DEF RetentionInv, TokenUsedOnce
  <2>2. ASSUME NEW v \in Manual, applying'[v] # NoPreview
        PROVE  /\ \A k \in DOMAIN previews : previews[k].token # applying'[v].token
               /\ \A x \in deletions' : x.preview.token # applying'[v].token
               /\ \A u \in Manual \ {v} : applying'[u].token # applying'[v].token
    <3>1. v # w /\ applying'[v] = applying[v] /\ applying[v] # NoPreview /\ applying[v].token # 0
      BY <1>1, <1>2, <2>2, PreviewFacts
    <3> QED BY <1>2, <1>4, <3>1, PreviewFacts DEF RetentionInv, TokenUsedOnce
  <2> QED BY <2>1, <2>2 DEF TokenUsedOnce
<1> QED BY <1>5, <1>6, <1>7, <1>8 DEF RetentionInv

LEMMA RestartKeeps ==
  ASSUME RetentionInv, Restart
  PROVE  RetentionInv'
<1>1. previews' = <<>> /\ applying' = [w \in Manual |-> NoPreview] /\ UNCHANGED <<issued, deletions>>
  BY DEF Restart
<1>2. \A w \in Manual : applying'[w] = NoPreview
  BY <1>1
<1> QED BY <1>1, <1>2, PreviewFacts, RetentionAssumption
        DEF RetentionInv, RetentionTypes, TokensIssued, OffersUnique, TokenUsedOnce

\* A sync leaves the previews alone; the other steps are those above.
LEMMA RetentionStep ==
  ASSUME RetentionInv, EnvOK, IndInv, [RNext]_allVars
  PROVE  RetentionInv'
<1>1. TablesOK /\ now \in Nat
  BY SyncAssumption DEF EnvOK, IndInv, Horizon
<1>2. ASSUME NEW w \in Manual, ApplyRetention(w) PROVE RetentionInv'
  <2>1. applying' = [applying EXCEPT ![w] = NoPreview] /\ applying[w] # NoPreview
        /\ UNCHANGED <<previews, issued>>
        /\ deletions' = deletions \union {[preview |-> applying[w], rows |-> Old(applying[w].cutoff)]}
    BY <1>2 DEF ApplyRetention
  <2> QED BY <2>1, DoneKeeps
<1>3. ASSUME NEW w \in Manual, RejectStale(w) PROVE RetentionInv'
  <2>1. applying' = [applying EXCEPT ![w] = NoPreview] /\ applying[w] # NoPreview
        /\ UNCHANGED <<previews, issued, deletions>>
    BY <1>3 DEF RejectStale
  <2> QED BY <2>1, DoneKeeps
<1>4. CASE UNCHANGED retentionVars
  BY <1>4 DEF retentionVars, RetentionInv, RetentionTypes, TokensIssued, OffersUnique, TokenUsedOnce
<1> QED BY <1>1, <1>2, <1>3, <1>4, PreviewKeeps, TakeKeeps, RestartKeeps
        DEF RNext, SyncStep, allVars

-----------------------------------------------------------------------------
(* The synchronisation beside retention.                                   *)

\* A step is one of the synchronisation, a restart, or deletes old rows.
LEMMA RetentionSteps ==
  [RNext]_allVars =>
    \/ [Next]_vars
    \/ Restart
    \/ /\ \E w \in Manual : ApplyRetention(w)
       /\ UNCHANGED <<now, runs, slices, job>>
       /\ \E cutoff : buckets' = buckets \ Old(cutoff)
BY DEF RNext, SyncStep, Next, Preview, TakePreview, ApplyRetention, RejectStale, allVars

\* What is deleted are whole answers.
LEMMA OldAreWhole ==
  ASSUME WholeAnswers, NEW cutoff, buckets' = buckets \ Old(cutoff)
  PROVE  WholeAnswers'
<1>1. \A x \in buckets' : x \in buckets /\ ~(x.to <= cutoff)
  BY DEF Old
<1>2. ASSUME NEW x \in buckets' PROVE RowsOf(x.from, x.to, x.answer) \subseteq buckets'
  <2>1. \A y \in RowsOf(x.from, x.to, x.answer) : y.to = x.to /\ y \in buckets
    BY <1>1 DEF RowsOf, WholeAnswers
  <2> QED BY <1>1, <2>1 DEF Old
<1> QED BY <1>1, <1>2 DEF WholeAnswers

SyncInv == EnvOK /\ IndInv /\ SharingInv /\ CompletedRunCovered /\ WholeAnswers

LEMMA SyncInit == Init => SyncInv
<1>1. Init => EnvOK /\ IndInv
  BY InitInv DEF TypeOK, EnvOK, IndInv, TablesOK
<1>2. Init => CompletedRunCovered /\ WholeAnswers
  BY DEF Init, Absent, CompletedRunCovered, WholeAnswers
<1> QED BY <1>1, <1>2, InitSharing DEF SyncInv

LEMMA SyncInvStep ==
  ASSUME SyncInv, [RNext]_allVars
  PROVE  SyncInv'
<1>1. CASE [Next]_vars
  BY <1>1, EnvKeeps, StepKeeps, SharingStep, CoveredKeeps, WholeAnswersKeep DEF SyncInv
<1>2. CASE Restart
  <2>1. job' = [w \in Workers |-> IdleJob] /\ UNCHANGED <<now, runs, slices, buckets>>
    BY <1>2 DEF Restart, dbVars
  <2>2. IndInv'
    BY <2>1, IdleJobOK DEF SyncInv, IndInv, TablesOK, JobsOK
  <2>3. SharingInv'
    BY <2>1 DEF SyncInv, SharingInv, RangeOK, DoneOK, UnstartedInv, HandlersInv, IdleJob, Working,
       Workers
  <2>4. EnvOK' /\ CompletedRunCovered' /\ WholeAnswers'
    BY <2>1 DEF SyncInv, EnvOK, CompletedRunCovered, WholeAnswers
  <2> QED BY <2>2, <2>3, <2>4 DEF SyncInv
<1>3. ASSUME UNCHANGED <<now, runs, slices, job>>, NEW cutoff, buckets' = buckets \ Old(cutoff)
      PROVE  SyncInv'
  <2>1. WholeAnswers'
    BY <1>3, OldAreWhole DEF SyncInv
  <2>2. IndInv'
    BY <1>3 DEF SyncInv, IndInv, TablesOK, JobsOK
  <2>3. EnvOK' /\ SharingInv' /\ CompletedRunCovered'
    BY <1>3 DEF SyncInv, EnvOK, SharingInv, RangeOK, DoneOK, UnstartedInv, HandlersInv,
       CompletedRunCovered
  <2> QED BY <2>1, <2>2, <2>3 DEF SyncInv
<1> QED BY <1>1, <1>2, <1>3, RetentionSteps

RetentionIndInv == SyncInv /\ RetentionInv

\* The inductive invariant of retention and synchronisation together.
THEOREM RetentionInvariant == RSpec => []RetentionIndInv
<1>1. RInit => RetentionIndInv
  BY SyncInit, RetentionInit DEF RInit, RetentionIndInv
<1>2. RetentionIndInv /\ [RNext]_allVars => RetentionIndInv'
  <2> SUFFICES ASSUME RetentionIndInv, [RNext]_allVars PROVE RetentionIndInv'
    OBVIOUS
  <2>1. SyncInv /\ EnvOK /\ IndInv /\ RetentionInv
    BY DEF RetentionIndInv, SyncInv
  <2> QED BY <2>1, SyncInvStep, RetentionStep DEF RetentionIndInv
<1> QED BY <1>1, <1>2, PTL DEF RSpec

\* The state has its type.
THEOREM RetentionTypeCorrect == RSpec => []RTypeOK
<1>1. RetentionIndInv => RTypeOK
  <2> SUFFICES ASSUME RetentionIndInv PROVE RTypeOK
    OBVIOUS
  <2>1. TypeOK /\ RetentionTypes /\ TokensIssued
    BY DEF RetentionIndInv, SyncInv, RetentionInv, TypeOK, EnvOK, IndInv, TablesOK
  <2>2. \A w \in Manual : /\ DOMAIN applying[w] = {"token", "cutoff", "seen"}
                          /\ applying[w].token \in 0 .. issued
    BY <2>1, PreviewFacts, RetentionAssumption DEF RetentionTypes, TokensIssued
  <2> QED BY <2>1, <2>2 DEF RTypeOK, RetentionTypes, PreviewType
<1> QED BY <1>1, RetentionInvariant, PTL

\* A token deletes once, in the hands of one handler (apply_retention pops
\* it under the runtime's lock), however many handlers present it.
THEOREM TokensDeleteOnce == RSpec => []TokenUsedOnce
<1>1. RetentionIndInv => TokenUsedOnce
  BY DEF RetentionIndInv, RetentionInv
<1> QED BY <1>1, RetentionInvariant, PTL

\* Retention between their steps does not disturb the syncs: completed runs
\* stay covered and the rows that are left are whole answers.
THEOREM SyncsUndisturbed == RSpec => [](CompletedRunCovered /\ WholeAnswers)
<1>1. RetentionIndInv => CompletedRunCovered /\ WholeAnswers
  BY DEF RetentionIndInv, SyncInv
<1> QED BY <1>1, RetentionInvariant, PTL

-----------------------------------------------------------------------------
(* What is counted once.                                                   *)

\* One collector thread, handlers that ask for whole days or the default range,
\* and a clock that nobody sets back ...
WholeDayUse ==
  /\ \A v, w \in Background : v = w
  /\ \A range \in ExplicitRanges : Midnight(range[1]) = range[1] /\ Midnight(range[2]) = range[2]
  /\ ~ClockGoesBack

\* ... of days that are over (a default range always is) ...
HandlersSyncPastDays == \A w \in Manual : job[w].pc # "idle" => job[w].to <= Midnight(now)

\* ... and no collection that is under way while a day ends.
NoCollectionOverMidnight ==
  Midnight(now') # Midnight(now) => \A w \in Background : job[w].pc = "idle"

\* Rows lie in the part of a day that has passed, from its midnight on, ...
RowOK(x, t) ==
  /\ Midnight(x.from) = x.from
  /\ x.from < x.to /\ x.to <= x.from + DayLength /\ x.to <= t

\* ... up to one moment for all rows of the day.
RowsInv ==
  /\ \A x \in buckets : RowOK(x, now)
  /\ \A x, y \in buckets : x.from = y.from => x.to = y.to

\* The collector works on today and knows of more of it than the rows do; a
\* handler works on days that are over.
CallOK(w, j, t, rows) ==
  j.pc # "idle" =>
    /\ w \in Background => /\ j.from = Midnight(t) /\ j.to <= t
                           /\ \A x \in rows : x.from = j.from => x.to <= j.to
    /\ w \in Manual => /\ Midnight(j.from) = j.from /\ Midnight(j.to) = j.to
                       /\ j.to <= Midnight(t)

CallsInv == \A w \in Workers : CallOK(w, job[w], now, buckets)

LEMMA MidnightOrder ==
  ASSUME NEW t \in Nat, NEW u \in Nat, t <= u
  PROVE  Midnight(t) \in Nat /\ Midnight(t) <= t /\ Midnight(t) <= Midnight(u)
<1>1. PICK k \in Nat : Midnight(t) = k * DayLength /\ k * DayLength <= t /\ t < (k + 1) * DayLength
  BY DayOfMoment
<1>2. PICK j \in Nat : Midnight(u) = j * DayLength /\ j * DayLength <= u /\ u < (j + 1) * DayLength
  BY DayOfMoment
<1>3. k * DayLength \in Nat /\ (j + 1) * DayLength \in Nat
  BY DaysInOrder
<1>4. k * DayLength < (j + 1) * DayLength
  BY <1>1, <1>2, <1>3
<1>5. k <= j
  BY <1>4, DaysInOrder
<1>6. k * DayLength <= j * DayLength
  BY <1>5, DaysInOrder
<1> QED BY <1>1, <1>2, <1>3, <1>6

\* Midnights are days apart.
LEMMA MidnightsApart ==
  ASSUME NEW a \in Nat, NEW b \in Nat, Midnight(a) = a, Midnight(b) = b, a < b
  PROVE  a + DayLength <= b
<1>1. PICK k \in Nat : a = k * DayLength
  BY DayOfMoment
<1>2. PICK j \in Nat : b = j * DayLength
  BY DayOfMoment
<1>3. ~(j * DayLength <= k * DayLength) /\ k * DayLength \in Nat /\ j * DayLength \in Nat
  BY <1>1, <1>2, DaysInOrder
<1>4. k + 1 <= j
  BY <1>3, DaysInOrder
<1>5. (k + 1) * DayLength <= j * DayLength
  BY <1>4, DaysInOrder
<1> QED BY <1>1, <1>2, <1>5, DaysInOrder

\* A range that begins at a midnight and lasts less than a day ends within it.
LEMMA ShortRange ==
  ASSUME NEW from \in Nat, NEW to \in Nat, Midnight(from) = from, ~ADayOrMore(from, to),
         NEW d \in DaysOf(from, to)
  PROVE  from = d * DayLength /\ to < (d + 1) * DayLength
<1>1. PICK k \in Nat : from = k * DayLength
  BY DayOfMoment
<1>2. d \in Nat /\ d * DayLength < to /\ from < (d + 1) * DayLength
  BY SyncAssumption DEF DaysOf, DayIds
<1>3. k <= d /\ DayLength \in Nat /\ from + DayLength = (k + 1) * DayLength
      /\ (k + 1) * DayLength \in Nat /\ d * DayLength \in Nat
  BY <1>1, <1>2, DaysInOrder, SyncAssumption
<1>4. to < (k + 1) * DayLength
  BY <1>3 DEF ADayOrMore
<1>5. d * DayLength < (k + 1) * DayLength
  BY <1>2, <1>3, <1>4
<1>6. d <= k
  BY <1>2, <1>5, DaysInOrder
<1> QED BY <1>1, <1>2, <1>3, <1>4, <1>6

LEMMA RowsOnce ==
  ASSUME TablesOK, RowsInv
  PROVE  NoDoubleCount
<1>1. ASSUME NEW x \in buckets, NEW y \in buckets, Overlap(x, y), x.from < y.from PROVE FALSE
  <2>1. x.from + DayLength <= y.from /\ x.to <= x.from + DayLength /\ x.from \in Nat /\ x.to \in Nat
        /\ y.from \in Nat
    BY <1>1, MidnightsApart DEF RowsInv, RowOK, TablesOK, Row
  <2> QED BY <1>1, <2>1, SyncAssumption DEF Overlap
<1>2. \A x, y \in buckets : Overlap(x, y) => Overlap(y, x) /\ x.from \in Nat /\ y.from \in Nat
  BY DEF Overlap, TablesOK, Row
<1>3. ASSUME NEW x \in buckets, NEW y \in buckets, Overlap(x, y)
      PROVE  x.from = y.from /\ x.to = y.to
  <2>1. ~(x.from < y.from) /\ ~(y.from < x.from) /\ x.from \in Nat /\ y.from \in Nat
    BY <1>1, <1>2, <1>3
  <2> QED BY <2>1 DEF RowsInv
<1> QED BY <1>3 DEF NoDoubleCount

\* The slice of the day a call works on: part of today for the collector, a
\* whole day that is over for a handler.
LEMMA SliceOfCall ==
  ASSUME EnvOK, IndInv, SharingInv, CallsInv, NEW w \in Workers, job[w].pc = "reconcile"
  PROVE  LET from == SliceFrom(job[w].from, NextDay(job[w]))
             to   == SliceTo(job[w].to, NextDay(job[w]))
         IN /\ from \in Nat /\ to \in Nat /\ Midnight(from) = from /\ from < to /\ to <= now
            /\ to <= from + DayLength
            /\ w \in Background => from = job[w].from /\ to = job[w].to
            /\ w \in Manual => to = from + DayLength /\ from + DayLength <= Midnight(now)
<1> DEFINE d    == NextDay(job[w])
           from == SliceFrom(job[w].from, d)
           to   == SliceTo(job[w].to, d)
<1>1. /\ job[w] \in Job /\ CallOK(w, job[w], now, buckets) /\ RangeOK(w, job[w], runs)
      /\ d \in DaysOf(job[w].from, job[w].to) /\ d \in DayIds /\ d \in Nat
  BY WorkingDay, SyncAssumption DEF IndInv, CallsInv, SharingInv, DayIds
<1>2. /\ job[w].from \in Nat /\ job[w].to \in Nat /\ job[w].from < job[w].to
      /\ now \in Nat /\ Midnight(now) \in Nat /\ Midnight(now) <= now
  BY <1>1, MidnightOrder, SyncAssumption DEF Job, RangeOK, EnvOK, Horizon
<1>3. /\ d * DayLength \in Nat /\ (d + 1) * DayLength = d * DayLength + DayLength
      /\ DayLength \in Nat \ {0} /\ Midnight(d * DayLength) = d * DayLength
  BY <1>1, DaysInOrder, MidnightOfDay, SyncAssumption
<1>4. CASE w \in Background
  <2>1. /\ job[w].from = Midnight(now) /\ job[w].to <= now /\ w \notin Manual
    BY <1>1, <1>4, SyncAssumption DEF CallOK
  <2>2. Midnight(job[w].from) = job[w].from /\ ~ADayOrMore(job[w].from, job[w].to)
    BY <1>1, <1>2, <1>4, <2>1, CollectorRange DEF RangeOK
  <2>3. job[w].from = d * DayLength /\ job[w].to < (d + 1) * DayLength
    BY <1>1, <1>2, <2>2, ShortRange
  <2>4. from = job[w].from /\ to = job[w].to
    BY <1>2, <1>3, <2>3 DEF SliceFrom, SliceTo
  <2> QED BY <1>2, <1>3, <2>1, <2>2, <2>3, <2>4
<1>5. CASE w \in Manual
  <2>1. /\ Midnight(job[w].from) = job[w].from /\ Midnight(job[w].to) = job[w].to
        /\ job[w].to <= Midnight(now) /\ w \notin Background
    BY <1>1, <1>5, SyncAssumption DEF CallOK
  <2>2. d * DayLength < job[w].to /\ job[w].from < (d + 1) * DayLength
    BY <1>1 DEF DaysOf
  <2>3. (d + 1) * DayLength <= job[w].to
    BY <1>2, <1>3, <2>1, <2>2, MidnightsApart
  <2>4. job[w].from <= d * DayLength
    BY <1>2, <1>3, <2>1, <2>2, MidnightsApart
  <2>5. from = d * DayLength /\ to = (d + 1) * DayLength
    BY <1>2, <1>3, <2>3, <2>4 DEF SliceFrom, SliceTo
  <2> QED BY <1>2, <1>3, <2>1, <2>3, <2>5
<1> QED BY <1>4, <1>5 DEF Workers

LEMMA ReconcileCounts ==
  ASSUME WholeDayUse, EnvOK, IndInv, SharingInv, RowsInv, CallsInv, NEW w \in Workers, Reconcile(w)
  PROVE  RowsInv' /\ CallsInv'
<1> DEFINE from == SliceFrom(job[w].from, NextDay(job[w]))
           to   == SliceTo(job[w].to, NextDay(job[w]))
           new  == RowsOf(from, to, job[w].answer)
           old  == buckets \ Superseded(from, to)
<1>1. /\ job[w].pc = "reconcile" /\ job[w].pc # "idle" /\ UNCHANGED now /\ buckets' = old \union new
      /\ CallOK(w, job[w], now, buckets) /\ w \in Background \union Manual
  BY DEF Reconcile, CallsInv, Workers
<1>2. /\ from \in Nat /\ to \in Nat /\ Midnight(from) = from /\ from < to /\ to <= now
      /\ to <= from + DayLength
      /\ w \in Background => from = job[w].from /\ to = job[w].to
      /\ w \in Manual => to = from + DayLength /\ from + DayLength <= Midnight(now)
  BY <1>1, SliceOfCall
<1>3. \A x \in new : x.from = from /\ x.to = to
  BY DEF RowsOf
<1>4. \A x \in old : x \in buckets /\ ~(x.from >= from /\ x.to <= to)
  BY DEF Superseded
<1>5. \A x \in buckets : x.from \in Nat /\ x.to \in Nat /\ RowOK(x, now)
  BY DEF IndInv, TablesOK, Row, RowsInv
<1>6. now \in Nat /\ Midnight(now) \in Nat /\ DayLength \in Nat \ {0}
  BY MidnightOrder, SyncAssumption DEF EnvOK, Horizon
<1> HIDE DEF from, to, new, old
<1>7. \A x \in old : x.from # from
  <2>1. CASE w \in Background
    BY <1>1, <1>2, <1>4, <2>1 DEF CallOK
  <2>2. CASE w \in Manual
    BY <1>2, <1>4, <1>5, <2>2 DEF RowOK
  <2> QED BY <1>1, <2>1, <2>2
<1>8. RowsInv'
  <2>1. \A x \in new : RowOK(x, now)
    BY <1>2, <1>3 DEF RowOK
  <2>2. \A x, y \in old \union new : x.from = y.from => x.to = y.to
    BY <1>3, <1>4, <1>7 DEF RowsInv
  <2> QED BY <1>1, <1>4, <1>5, <2>1, <2>2 DEF RowsInv
<1>9. ASSUME NEW v \in Workers, job'[v].pc # "idle"
      PROVE  /\ job[v].pc # "idle" /\ job'[v].from = job[v].from /\ job'[v].to = job[v].to
             /\ CallOK(v, job[v], now, buckets)
  <2>1. job[w] \in Job
    BY DEF IndInv
  <2> QED BY <1>1, <1>9, <2>1 DEF Reconcile, IndInv, CallsInv, Job
<1>10. ASSUME NEW v \in Workers PROVE CallOK(v, job'[v], now', buckets')
  <2>1. SUFFICES ASSUME job'[v].pc # "idle" PROVE CallOK(v, job'[v], now', buckets')
    BY DEF CallOK
  <2>2. /\ job[v].pc # "idle" /\ job'[v].from = job[v].from /\ job'[v].to = job[v].to
        /\ CallOK(v, job[v], now, buckets)
    BY <1>9, <2>1
  <2>3. ASSUME v \in Background, NEW x \in old \union new, x.from = job[v].from
        PROVE  x.to <= job[v].to
    <3>1. job[v].from = Midnight(now) /\ \A y \in buckets : y.from = job[v].from => y.to <= job[v].to
      BY <2>2, <2>3 DEF CallOK
    <3>2. CASE x \in old
      BY <1>4, <2>3, <3>1, <3>2
    <3>3. CASE x \in new
      <4>1. x.from = from /\ x.to = to
        BY <1>3, <3>3
      <4>2. w \notin Manual
        BY <1>2, <1>6, <2>3, <3>1, <4>1
      <4>3. v = w
        BY <1>1, <2>3, <4>2 DEF WholeDayUse
      <4>4. to = job[v].to /\ to <= to
        BY <1>1, <1>2, <4>2, <4>3
      <4> QED BY <4>1, <4>4
    <3> QED BY <3>2, <3>3
  <2> QED BY <1>1, <2>1, <2>2, <2>3 DEF CallOK
<1> QED BY <1>8, <1>10 DEF CallsInv

\* A call that moves on keeps its range.
LEMMA CallKeepsRange ==
  ASSUME IndInv, NEW w \in Workers,
         \/ StartRun(w) \/ ResumeRun(w) \/ Snapshot(w) \/ StartSlice(w) \/ FetchPage(w)
         \/ ReconcileRejected(w) \/ FailSlice(w) \/ FinishFailed(w) \/ Finish(w)
         \/ FetchError(w) \/ DatabaseFails(w)
  PROVE  \A v \in Workers : job'[v].pc # "idle" =>
           job[v].pc # "idle" /\ job'[v].from = job[v].from /\ job'[v].to = job[v].to
<1>1. job[w] \in Job /\ job[w].pc # "idle"
  BY DEF IndInv, StartRun, ResumeRun, Snapshot, StartSlice, FetchPage, ReconcileRejected, FailSlice,
     FinishFailed, Finish, FetchError, DatabaseFails
<1>2. CASE Return(w)
  BY <1>2 DEF Return, IdleJob, IndInv
<1>3. CASE ~Return(w)
  <2>1. \E j : job' = [job EXCEPT ![w] = j] /\ j.from = job[w].from /\ j.to = job[w].to
    <3>1. CASE StartSlice(w)
      <4> DEFINE j == [job[w] EXCEPT !.pc = "fetch", !.answer = <<>>]
      <4>1. job' = [job EXCEPT ![w] = j] /\ j.from = job[w].from /\ j.to = job[w].to
        BY <1>1, <1>3, <3>1 DEF StartSlice, IndInv, Job
      <4> QED BY <4>1
    <3>5. CASE FetchPage(w) /\ RunIsRunning(w)
      <4>1. PICK page \in Pages :
              job' = [job EXCEPT ![w].answer = Append(@, page),
                        ![w].pc = AfterPage(job[w].answer, page)]
        BY <3>5 DEF FetchPage
      <4> DEFINE pc == AfterPage(job[w].answer, page)
                 b  == Append(job[w].answer, page)
                 j  == [job[w] EXCEPT !.pc = pc, !.answer = b]
      <4>2. job' = [job EXCEPT ![w] = j]
        BY <1>1, <4>1 DEF IndInv
      <4> HIDE DEF pc, b
      <4>3. j.from = job[w].from /\ j.to = job[w].to
        BY <1>1 DEF Job
      <4> QED BY <4>2, <4>3
    <3>2. CASE StartRun(w)
      <4>1. PICK r \in RunIds : job' = [job EXCEPT ![w].pc = "snapshot", ![w].run = r]
        BY <3>2 DEF StartRun
      <4> DEFINE j == [job[w] EXCEPT !.pc = "snapshot", !.run = r]
      <4>2. job' = [job EXCEPT ![w] = j] /\ j.from = job[w].from /\ j.to = job[w].to
        BY <1>1, <4>1 DEF IndInv, Job
      <4> QED BY <4>2
    <3>3. CASE Snapshot(w)
      <4> DEFINE done == {d \in DaysOf(job[w].from, job[w].to) : slices[job[w].run][d] = "completed"}
                 pc   == IF done = DaysOf(job[w].from, job[w].to) THEN "finish" ELSE "slice"
                 j    == [job[w] EXCEPT !.done = done, !.pc = pc]
      <4>1. job' = [job EXCEPT ![w] = j]
        BY <1>1, <3>3 DEF Snapshot, IndInv, Job
      <4> HIDE DEF done, pc
      <4>2. j.from = job[w].from /\ j.to = job[w].to
        BY <1>1 DEF Job
      <4> QED BY <4>1, <4>2
    <3>6. CASE (FetchPage(w) /\ ~RunIsRunning(w)) \/ FetchError(w) \/ ReconcileRejected(w)
                 \/ DatabaseFails(w)
      <4> DEFINE j == [job[w] EXCEPT !.pc = "fail", !.answer = <<>>]
      <4>1. job' = [job EXCEPT ![w] = j] /\ j.from = job[w].from /\ j.to = job[w].to
        BY <1>1, <1>3, <3>6 DEF FetchPage, FetchError, ReconcileRejected, DatabaseFails, IndInv, Job
      <4> QED BY <4>1
    <3>4. CASE ResumeRun(w) \/ FailSlice(w) \/ FinishFailed(w) \/ Finish(w)
      BY <1>1, <1>3, <3>4 DEF ResumeRun, FailSlice, FinishFailed, Finish, IndInv, Job
    <3> QED BY <3>1, <3>2, <3>3, <3>4, <3>5, <3>6
  <2> QED BY <1>1, <2>1 DEF IndInv
<1> QED BY <1>2, <1>3

\* Rows only disappear, and calls that go on keep their range.
LEMMA QuietKeepsCounts ==
  ASSUME RowsInv, CallsInv, UNCHANGED now, buckets' \subseteq buckets,
         \A v \in Workers : job'[v].pc # "idle" =>
           job[v].pc # "idle" /\ job'[v].from = job[v].from /\ job'[v].to = job[v].to
  PROVE  RowsInv' /\ CallsInv'
<1>1. RowsInv'
  BY DEF RowsInv
<1>2. ASSUME NEW v \in Workers PROVE CallOK(v, job'[v], now', buckets')
  BY DEF CallsInv, CallOK
<1> QED BY <1>1, <1>2 DEF CallsInv

LEMMA BeginCounts ==
  ASSUME WholeDayUse, EnvOK, IndInv, RowsInv, CallsInv, NEW w \in Workers,
         HandlersSyncPastDays' \/ ExplicitRanges = {},
         \/ BeginBackground(w) /\ w \in Background
         \/ BeginManual(w) /\ w \in Manual
  PROVE  RowsInv' /\ CallsInv'
<1>1. now \in Nat /\ Midnight(now) \in Nat /\ Midnight(Midnight(now)) = Midnight(now)
  BY CollectorRange, SyncAssumption DEF EnvOK, Horizon
<1>2. PICK from \in Nat, to \in Nat, resume \in BOOLEAN :
        /\ Begin(w, from, to, resume)
        /\ w \in Background => from = Midnight(now) /\ to = now
        /\ w \in Manual => Midnight(from) = from /\ Midnight(to) = to /\ to <= Midnight(now)
  <2>1. CASE BeginBackground(w) /\ w \in Background
    BY <1>1, <2>1, SyncAssumption DEF BeginBackground
  <2>2. CASE BeginManual(w) /\ w \in Manual
    <3>1. PICK resume \in BOOLEAN :
            \/ /\ Lookback * DayLength <= Midnight(now)
               /\ Begin(w, Midnight(now) - Lookback * DayLength, Midnight(now), resume)
            \/ \E range \in ExplicitRanges : Begin(w, range[1], range[2], resume)
      BY <2>2 DEF BeginManual
    <3>2. w \notin Background
      BY <2>2, SyncAssumption
    <3>3. CASE /\ Lookback * DayLength <= Midnight(now)
               /\ Begin(w, Midnight(now) - Lookback * DayLength, Midnight(now), resume)
      <4> DEFINE from == Midnight(now) - Lookback * DayLength
      <4>1. from \in Nat /\ Midnight(from) = from
        BY <1>1, <3>3, DefaultRange
      <4> QED BY <1>1, <3>2, <3>3, <4>1
    <3>4. CASE \E range \in ExplicitRanges : Begin(w, range[1], range[2], resume)
      <4>1. PICK range \in ExplicitRanges : Begin(w, range[1], range[2], resume)
        BY <3>4
      <4>2. /\ range[1] \in Nat /\ range[2] \in Nat
            /\ Midnight(range[1]) = range[1] /\ Midnight(range[2]) = range[2]
        BY SyncAssumption DEF WholeDayUse
      <4>3. job'[w].pc # "idle" /\ job'[w].to = range[2] /\ now' = now
        BY <4>1 DEF Begin, IndInv, IdleJob
      <4>4. range[2] <= Midnight(now)
        BY <2>2, <4>3 DEF HandlersSyncPastDays, Midnight
      <4> QED BY <3>2, <4>1, <4>2, <4>4
    <3> QED BY <3>1, <3>3, <3>4
  <2> QED BY <2>1, <2>2
<1>3. /\ UNCHANGED <<now, buckets>>
      /\ job'[w].from = from /\ job'[w].to = to /\ \A v \in Workers \ {w} : job'[v] = job[v]
  BY <1>2 DEF Begin, IndInv, IdleJob, dbVars
<1>4. RowsInv'
  BY <1>3 DEF RowsInv
<1>5. CallOK(w, job'[w], now, buckets)
  <2>1. \A x \in buckets : x.to <= now
    BY DEF RowsInv, RowOK
  <2> QED BY <1>1, <1>2, <1>3, <2>1 DEF CallOK
<1>6. \A v \in Workers \ {w} : CallOK(v, job'[v], now, buckets)
  BY <1>3 DEF CallsInv
<1> QED BY <1>3, <1>4, <1>5, <1>6 DEF CallsInv

LEMMA TickCounts ==
  ASSUME EnvOK, IndInv, RowsInv, CallsInv, Tick, NoCollectionOverMidnight
  PROVE  RowsInv' /\ CallsInv'
<1>1. now \in Nat /\ now' = now + 1 /\ UNCHANGED <<buckets, job>>
  BY SyncAssumption DEF Tick, EnvOK, Horizon, dbVars
<1>2. /\ Midnight(now) \in Nat /\ Midnight(now') \in Nat /\ Midnight(now) <= Midnight(now')
      /\ now <= now'
  BY <1>1, MidnightOrder
<1>3. RowsInv'
  <2>1. \A x \in buckets : x.to \in Nat
    BY DEF IndInv, TablesOK, Row
  <2> QED BY <1>1, <2>1 DEF RowsInv, RowOK
<1>4. ASSUME NEW w \in Workers PROVE CallOK(w, job[w], now', buckets)
  <2>1. CallOK(w, job[w], now, buckets) /\ job[w].to \in Nat
    BY DEF CallsInv, IndInv, Job
  <2>2. w \in Background /\ job[w].pc # "idle" => Midnight(now') = Midnight(now)
    BY DEF NoCollectionOverMidnight
  <2> QED BY <1>1, <1>2, <2>1, <2>2 DEF CallOK
<1> QED BY <1>1, <1>3, <1>4 DEF CallsInv

LEMMA CountsStep ==
  ASSUME WholeDayUse, EnvOK, IndInv, SharingInv, RowsInv, CallsInv,
         HandlersSyncPastDays' \/ ExplicitRanges = {}, [RNext]_allVars, [NoCollectionOverMidnight]_allVars
  PROVE  RowsInv' /\ CallsInv'
<1>1. ASSUME NEW w \in Workers, Reconcile(w) PROVE RowsInv' /\ CallsInv'
  BY <1>1, ReconcileCounts
<1>2. ASSUME NEW w \in Workers, Call(w) \/ FetchError(w) \/ DatabaseFails(w), ~Reconcile(w)
      PROVE  RowsInv' /\ CallsInv'
  <2>1. UNCHANGED <<now, buckets>>
    BY <1>2 DEF Call, StartRun, ResumeRun, Snapshot, StartSlice, FetchPage, ReconcileRejected,
       FailSlice, FinishFailed, Finish, FetchError, DatabaseFails, dbVars
  <2>2. \A v \in Workers : job'[v].pc # "idle" =>
          job[v].pc # "idle" /\ job'[v].from = job[v].from /\ job'[v].to = job[v].to
    BY <1>2, CallKeepsRange DEF Call
  <2> QED BY <2>1, <2>2, QuietKeepsCounts
<1>3. ASSUME UNCHANGED now, buckets' \subseteq buckets,
             UNCHANGED job \/ job' = [v \in Workers |-> IdleJob]
      PROVE  RowsInv' /\ CallsInv'
  BY <1>3, QuietKeepsCounts DEF IdleJob
<1>4. CASE Tick
  <2>1. Midnight(now') # Midnight(now) => NoCollectionOverMidnight
    BY DEF allVars, vars
  <2>2. NoCollectionOverMidnight
    BY <2>1 DEF NoCollectionOverMidnight
  <2> QED BY <1>4, <2>2, TickCounts
<1>5. ~Rewind
  BY DEF Rewind, EnvOK, WholeDayUse
<1>6. CASE [Next]_vars
  <2>1. CASE Crash \/ UNCHANGED vars
    BY <1>3, <2>1 DEF Crash, vars, dbVars
  <2> QED BY <1>1, <1>2, <1>4, <1>5, <1>6, <2>1, BeginCounts DEF Next, SyncNext, Workers
<1>7. CASE Restart
  BY <1>3, <1>7 DEF Restart, dbVars
<1>8. ASSUME UNCHANGED <<now, runs, slices, job>>, NEW cutoff, buckets' = buckets \ Old(cutoff)
      PROVE  RowsInv' /\ CallsInv'
  BY <1>3, <1>8
<1> QED BY <1>6, <1>7, <1>8, RetentionSteps

LEMMA InitCounts == RInit => RowsInv /\ CallsInv
BY DEF RInit, Init, RowsInv, CallsInv, CallOK, IdleJob

\* No usage is counted twice where one collector runs and handlers sync whole
\* days that are over, with retention and restarts at any time, for any number
\* of days and handlers, as long as no collection is under way while a day
\* ends.  A collection that is under way then (the run UsageSync_midnight) and
\* a day synced by request before it is over are the ways to count twice that
\* are left.
THEOREM WholeDaysCountOnce ==
  ASSUME WholeDayUse
  PROVE  RSpec /\ []HandlersSyncPastDays /\ [][NoCollectionOverMidnight]_allVars
           => []NoDoubleCount
<1> DEFINE Inv == RowsInv /\ CallsInv
<1>1. RInit => Inv
  BY InitCounts
<1>2. RetentionIndInv /\ Inv /\ HandlersSyncPastDays' /\ [RNext]_allVars
        /\ [NoCollectionOverMidnight]_allVars => Inv'
  BY CountsStep DEF RetentionIndInv, SyncInv
<1>3. RetentionIndInv /\ Inv => NoDoubleCount
  BY RowsOnce DEF RetentionIndInv, SyncInv, IndInv
<1> HIDE DEF Inv
<1> QED BY <1>1, <1>2, <1>3, RetentionInvariant, PTL DEF RSpec

\* In default use (no explicit ranges) that is so by itself: a default range
\* ends at the last midnight.
DefaultUse == WholeDayUse /\ ExplicitRanges = {}

THEOREM DefaultUseCountsOnce ==
  ASSUME DefaultUse
  PROVE  RSpec /\ [][NoCollectionOverMidnight]_allVars => []NoDoubleCount
<1> DEFINE Inv == RowsInv /\ CallsInv
<1>1. RInit => Inv
  BY InitCounts
<1>2. RetentionIndInv /\ Inv /\ [RNext]_allVars /\ [NoCollectionOverMidnight]_allVars => Inv'
  BY CountsStep DEF DefaultUse, RetentionIndInv, SyncInv
<1>3. RetentionIndInv /\ Inv => NoDoubleCount
  BY RowsOnce DEF RetentionIndInv, SyncInv, IndInv
<1> HIDE DEF Inv
<1> QED BY <1>1, <1>2, <1>3, RetentionInvariant, PTL DEF RSpec

\* Retention deletes rows, never what a sync knows of the slices of a run of
\* a day or more.
THEOREM LongRunsStayBesideRetention == RSpec => LongSlicesStay
<1> DEFINE Stay == \A r \in RunIds, d \in DayIds :
                     LastsADay(r) /\ slices[r][d] = "completed" => slices'[r][d] = "completed"
<1>1. RetentionIndInv /\ [RNext]_allVars => [Stay]_vars
  <2> SUFFICES ASSUME RetentionIndInv, [RNext]_allVars PROVE [Stay]_vars
    OBVIOUS
  <2>1. CASE [Next]_vars
    BY <2>1, CompletedSlicesStep DEF RetentionIndInv, SyncInv
  <2>2. CASE UNCHANGED slices
    BY <2>2
  <2> QED BY <2>1, <2>2, RetentionSteps DEF Restart, dbVars
<1> HIDE DEF Stay
<1>2. RSpec => [][Stay]_vars
  BY <1>1, RetentionInvariant, PTL DEF RSpec
<1> QED BY <1>2 DEF LongSlicesStay, Stay
=============================================================================

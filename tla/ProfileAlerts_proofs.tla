------------------------ MODULE ProfileAlerts_proofs ------------------------
(***************************************************************************)
(* Proofs about AlertDelivery, which is composed with Profiles: keys stay  *)
(* unique, the active profile exists, no credential is left behind and a   *)
(* sync answers for the profile it was asked for; alerts come once, are    *)
(* told of truthfully and do come.  For any number of profiles, keys,      *)
(* rules, levels, requests, threads and days.                              *)
(***************************************************************************)
EXTENDS AlertDelivery, TLAPS

\* What a request has still to write, over its row's three fields.
Todos == {<<>>, <<"keep">>, <<"on">>, <<"off">>, <<"keep", "on">>, <<"keep", "off">>,
          <<"keep", "keep">>, <<"keep", "keep", "keep">>}

Ops == {"none", "create", "update", "replace", "clear", "delete", "activate", "config", "sync",
        "test"}
Stages == {"idle", "check", "put", "add", "read", "save", "drop", "remove", "cleanup", "publish",
           "client", "sync", "answer", "sending"}
AnyRequest ==
  [op : Ops, pc : Stages, id : Ids \union {NoId}, key : Keys \union {NoKey}, todo : Todos,
   enabled : BOOLEAN, generation : Nat, switched : BOOLEAN]

\* Tables, requests and history variables hold what they may.
StateOK ==
  /\ rows \in [Ids -> {"unborn", "enabled", "disabled", "gone"}]
  /\ store \in [Ids -> Keys \union {NoKey}]
  /\ history \subseteq Ids
  /\ active \in Ids \union {NoId}
  /\ generation \in Nat /\ requests \in Nat
  /\ req \in [Handlers -> AnyRequest]
  /\ excused \subseteq Ids \union Keys

\* What a request does where.
RequestOK(r) ==
  /\ r.op = "none" => r = IdleReq
  /\ r.pc = "idle" => r.op = "none"
  /\ r.pc \in {"check", "put"} => r.op \in {"create", "replace"}
  /\ r.pc = "add" => r.op = "create"
  /\ r.pc \in {"read", "save"} => r.op \in {"create", "update", "replace", "clear"}
  /\ r.pc = "drop" => r.op = "clear"
  /\ r.pc = "remove" => r.op = "delete"
  /\ r.pc = "cleanup" => r.op \in {"create", "delete"}
  /\ r.pc = "publish" => r.op \in {"activate", "config"}
  /\ r.pc \in {"client", "sync", "answer"} => r.op = "sync"
  /\ r.pc = "sending" => r.op = "test"
  /\ r.pc \in {"check", "put", "add", "drop", "read", "save"} => r.todo # <<>>
  /\ r.pc \in {"check", "put", "add"} => r.key # NoKey
  /\ r.op \notin {"none", "config"} => r.id # NoId

\* The predicates on one request take the state as parameters, so that they
\* also speak of the next one.
Alive(p, rw) == rw[p] \in {"enabled", "disabled"}

\* A profile that is created is nobody else's, and its credential is its own.
CreateOK(r, rw, st, ex) ==
  r.op = "create" =>
    /\ r.pc \in {"check", "put", "add"} => rw[r.id] = "unborn"
    /\ r.pc \in {"check", "put"} => st[r.id] = NoKey \/ r.id \in ex
    /\ r.pc = "add" => st[r.id] = r.key
    /\ r.pc \in {"read", "save"} => Alive(r.id, rw) \/ r.id \in ex

\* Other requests are about profiles that exist, unless they overlap.
EditOK(r, rw, act, ex) ==
  /\ r.op \in {"update", "replace", "clear", "activate"} =>
       rw[r.id] # "unborn" /\ (Alive(r.id, rw) \/ r.id \in ex)
  /\ r.op = "config" => r.id = NoId \/ Alive(r.id, rw) \/ r.id \in ex
  /\ r.pc = "remove" => r.id # act \/ r.id \in ex
  /\ r.op = "delete" /\ r.pc = "cleanup" => rw[r.id] = "gone"
  /\ r.pc = "save" /\ r.enabled /\ rw[r.id] = "disabled" => r.id \in ex

\* A key that is about to be stored, or whose profile is, is nobody else's.
ClaimOK(r, rw, st, ex) ==
  r.pc \in {"put", "add"} =>
    \/ r.key \in ex
    \/ \A q \in Ids \ {r.id} : Alive(q, rw) => st[q] # r.key

\* The generation grows with every change of the active profile.
SnapshotOK(r, gen) ==
  r.op = "sync" => r.generation <= gen /\ (r.switched => r.generation < gen)

\* Requests that change the same profile or carry the same key are noted.
Editing(r) == r.op \notin {"none", "sync", "test"}
OverlapsNoted ==
  \A h, g \in Handlers : h # g /\ Editing(req[h]) /\ Editing(req[g]) =>
    /\ req[h].id = req[g].id /\ req[h].id # NoId => req[h].id \in excused
    /\ req[h].key = req[g].key /\ req[h].key # NoKey => req[h].key \in excused

CreatorsDiffer ==
  \A h, g \in Handlers :
    h # g /\ req[h].op = "create" /\ req[g].op = "create" => req[h].id # req[g].id

\* A credential without a profile belongs to a creation or a clean-up.
Keeps(r, p) == r.id = p /\ (r.op = "create" \/ r.pc = "cleanup")
OrphanInv ==
  \A p \in Ids : store[p] # NoKey =>
    Live(p) \/ p \in excused \/ \E h \in Handlers : Keeps(req[h], p)

RequestsInv ==
  \A h \in Handlers :
    /\ RequestOK(req[h])
    /\ CreateOK(req[h], rows, store, excused)
    /\ EditOK(req[h], rows, active, excused)
    /\ ClaimOK(req[h], rows, store, excused)
    /\ SnapshotOK(req[h], generation)

ProfileInv ==
  /\ StateOK /\ RequestsInv /\ OverlapsNoted /\ CreatorsDiffer /\ OrphanInv
  /\ KeysUnique /\ ActiveExists
-----------------------------------------------------------------------------
LEMMA TodoFacts ==
  \A t \in Todos \ {<<>>} :
    /\ Tail(t) \in Todos
    /\ Head(t) = "on" => t = <<"on">>
<1>1. \A x : Tail(<<x>>) = <<>> /\ Head(<<x>>) = x
  OBVIOUS
<1>2. \A x, y : Tail(<<x, y>>) = <<y>> /\ Head(<<x, y>>) = x
  OBVIOUS
<1>3. \A x, y, z : Tail(<<x, y, z>>) = <<y, z>> /\ Head(<<x, y, z>>) = x
  OBVIOUS
<1>4. \A t \in {<<"keep">>, <<"on">>, <<"off">>} :
        Tail(t) = <<>> /\ (Head(t) = "on" => t = <<"on">>)
  BY <1>1
<1>5. /\ Tail(<<"keep", "on">>) = <<"on">> /\ Head(<<"keep", "on">>) = "keep"
      /\ Tail(<<"keep", "off">>) = <<"off">> /\ Head(<<"keep", "off">>) = "keep"
      /\ Tail(<<"keep", "keep">>) = <<"keep">> /\ Head(<<"keep", "keep">>) = "keep"
  BY <1>2, Zenon
<1>6. /\ Tail(<<"keep", "keep", "keep">>) = <<"keep", "keep">>
      /\ Head(<<"keep", "keep", "keep">>) = "keep"
  BY <1>3, Zenon
<1>7. "keep" # "on"
  OBVIOUS
<1> QED BY <1>4, <1>5, <1>6, <1>7, Zenon DEF Todos

LEMMA IdleOK ==
  /\ IdleReq \in AnyRequest /\ IdleReq.op = "none" /\ IdleReq.pc = "idle"
  /\ IdleReq.id = NoId /\ IdleReq.key = NoKey
  /\ RequestOK(IdleReq)
  BY DEF IdleReq, AnyRequest, Ops, Stages, Todos, RequestOK

\* What one step of a request may do to its row and to its credential.
RowsMove(r) ==
  \A q \in Ids :
    \/ rows'[q] = rows[q]
    \/ /\ q = r.id
       /\ \/ r.pc = "add" /\ rows'[q] = "enabled"
          \/ r.pc = "save" /\ Live(q) /\ rows'[q] \in {"enabled", "disabled"}
          \/ r.pc = "remove" /\ Live(q) /\ rows'[q] = "gone"
StoreMove(r) ==
  \A q \in Ids :
    \/ store'[q] = store[q]
    \/ /\ q = r.id
       /\ \/ r.pc = "put" /\ store'[q] = r.key
          \/ r.pc \in {"drop", "cleanup"} /\ store'[q] = NoKey

\* A step of h on the tables; the configuration stays.
TableStep(h) ==
  /\ rows' \in [Ids -> {"unborn", "enabled", "disabled", "gone"}]
  /\ store' \in [Ids -> Keys \union {NoKey}]
  /\ history' \subseteq Ids
  /\ UNCHANGED <<active, generation>> /\ requests' \in Nat
  /\ excused \subseteq excused' /\ excused' \subseteq Ids \union Keys
  /\ RowsMove(req[h]) /\ StoreMove(req[h])

\* Requests other than that of h do not notice, or are excused.
LEMMA OthersKeep ==
  ASSUME ProfileInv, NEW h \in Handlers, NEW g \in Handlers \ {h}, TableStep(h)
  PROVE  /\ CreateOK(req[g], rows', store', excused')
         /\ EditOK(req[g], rows', active', excused')
         /\ ClaimOK(req[g], rows', store', excused')
<1>1. /\ req[g] \in AnyRequest /\ req[h] \in AnyRequest /\ RequestOK(req[g]) /\ RequestOK(req[h])
      /\ CreateOK(req[g], rows, store, excused) /\ CreateOK(req[h], rows, store, excused)
      /\ EditOK(req[g], rows, active, excused) /\ EditOK(req[h], rows, active, excused)
      /\ ClaimOK(req[g], rows, store, excused)
  BY DEF ProfileInv, StateOK, RequestsInv
<1>2. /\ Editing(req[g]) /\ Editing(req[h]) =>
           /\ req[h].id = req[g].id /\ req[h].id # NoId => req[h].id \in excused
           /\ req[h].key = req[g].key /\ req[h].key # NoKey => req[h].key \in excused
      /\ req[g].op = "create" /\ req[h].op = "create" => req[g].id # req[h].id
  BY DEF ProfileInv, OverlapsNoted, CreatorsDiffer
<1>3. NoId \notin Ids /\ NoKey \notin Keys
  BY ProfilesAssumption DEF ProfilesAssumption
<1> DEFINE r == req[g]
           s == req[h]
<1>4. r \in AnyRequest /\ s \in AnyRequest
  BY <1>1
<1>5. /\ excused \subseteq excused' /\ active' = active
      /\ rows \in [Ids -> {"unborn", "enabled", "disabled", "gone"}]
      /\ \A q \in Ids : \/ rows'[q] = rows[q]
                        \/ /\ q = s.id
                           /\ \/ s.pc = "add" /\ rows'[q] = "enabled"
                              \/ s.pc = "save" /\ Alive(q, rows) /\ rows'[q] \in {"enabled", "disabled"}
                              \/ s.pc = "remove" /\ Alive(q, rows) /\ rows'[q] = "gone"
      /\ \A q \in Ids : \/ store'[q] = store[q]
                        \/ /\ q = s.id
                           /\ \/ s.pc = "put" /\ store'[q] = s.key
                              \/ s.pc \in {"drop", "cleanup"} /\ store'[q] = NoKey
  BY DEF TableStep, RowsMove, StoreMove, Live, Alive, ProfileInv, StateOK
<1>6. /\ r.id \in Ids \union {NoId} /\ r.key \in Keys \union {NoKey}
      /\ s.id \in Ids \union {NoId} /\ s.key \in Keys \union {NoKey}
  BY <1>4 DEF AnyRequest
<1> HIDE DEF r, s
<1>7. /\ RequestOK(r) /\ RequestOK(s)
      /\ CreateOK(r, rows, store, excused) /\ CreateOK(s, rows, store, excused)
      /\ EditOK(r, rows, active, excused) /\ EditOK(s, rows, active, excused)
      /\ ClaimOK(r, rows, store, excused)
      /\ Editing(r) /\ Editing(s) =>
           /\ r.id = s.id /\ s.id # NoId => s.id \in excused
           /\ r.key = s.key /\ s.key # NoKey => s.key \in excused
      /\ r.op = "create" /\ s.op = "create" => r.id # s.id
  BY <1>1, <1>2 DEF r, s
<1>8. CreateOK(r, rows', store', excused')
  BY <1>3, <1>5, <1>6, <1>7 DEF CreateOK, EditOK, RequestOK, Editing, Alive
<1>9. EditOK(r, rows', active', excused')
  BY <1>3, <1>5, <1>6, <1>7 DEF CreateOK, EditOK, RequestOK, Editing, Alive
<1>10. ClaimOK(r, rows', store', excused')
  BY <1>3, <1>5, <1>6, <1>7 DEF CreateOK, ClaimOK, RequestOK, Editing, Alive
<1> QED BY <1>8, <1>9, <1>10 DEF r

\* What the request of h becomes has to see to itself.
LEMMA MoveKeeps ==
  ASSUME ProfileInv, NEW h \in Handlers, TableStep(h),
         NEW c \in AnyRequest, req' = [req EXCEPT ![h] = c], RequestOK(c),
         \/ c = IdleReq
         \/ /\ c.op = req[h].op /\ c.id = req[h].id
            /\ c.key = req[h].key \/ c.op = "sync"
            /\ c.generation = req[h].generation /\ c.switched = req[h].switched,
         CreateOK(c, rows', store', excused'), EditOK(c, rows', active, excused'),
         ClaimOK(c, rows', store', excused'),
         \A p \in Ids :
           store'[p] # NoKey /\ (Keeps(req[h], p) \/ (Live(p) /\ rows'[p] = "gone")) =>
           Keeps(c, p) \/ Alive(p, rows') \/ p \in excused'
  PROVE  ProfileInv'
<1>1. /\ req' \in [Handlers -> AnyRequest]
      /\ req'[h] = c
      /\ \A g \in Handlers \ {h} : req'[g] = req[g]
  BY DEF ProfileInv, StateOK
<1>2. StateOK'
  BY <1>1 DEF ProfileInv, StateOK, TableStep
<1>3. SnapshotOK(c, generation)
  BY IdleOK DEF ProfileInv, RequestsInv, SnapshotOK
<1>4. RequestsInv'
  <2> SUFFICES ASSUME NEW g \in Handlers
               PROVE  /\ RequestOK(req'[g])
                      /\ CreateOK(req'[g], rows', store', excused')
                      /\ EditOK(req'[g], rows', active', excused')
                      /\ ClaimOK(req'[g], rows', store', excused')
                      /\ SnapshotOK(req'[g], generation')
    BY DEF RequestsInv
  <2>1. CASE g = h
    BY <1>1, <1>3, <2>1 DEF TableStep
  <2>2. CASE g # h
    <3>1. RequestOK(req[g]) /\ SnapshotOK(req[g], generation) /\ generation' = generation
      BY DEF ProfileInv, RequestsInv, TableStep
    <3> QED BY <1>1, <2>2, <3>1, OthersKeep
  <2> QED BY <2>1, <2>2
<1>5. OverlapsNoted'
  <2>1. \A g \in Handlers : Editing(req'[g]) =>
          Editing(req[g]) /\ req'[g].id = req[g].id /\ req'[g].key = req[g].key
    BY <1>1, IdleOK DEF Editing
  <2>2. excused \subseteq excused'
    BY DEF TableStep
  <2> QED BY <2>1, <2>2 DEF ProfileInv, OverlapsNoted
<1>6. CreatorsDiffer'
  <2>1. \A g \in Handlers : req'[g].op = "create" => req[g].op = "create" /\ req'[g].id = req[g].id
    BY <1>1, IdleOK
  <2> QED BY <2>1 DEF ProfileInv, CreatorsDiffer
<1>7. /\ req[h] \in AnyRequest /\ RequestOK(req[h])
      /\ CreateOK(req[h], rows, store, excused) /\ EditOK(req[h], rows, active, excused)
      /\ ClaimOK(req[h], rows, store, excused)
      /\ req[h].key \in Keys \union {NoKey} /\ req[h].id \in Ids \union {NoId}
  BY DEF ProfileInv, RequestsInv, StateOK, AnyRequest
<1>8. \A p \in Ids : Live(p)' => \/ Live(p)
                                 \/ /\ p = req[h].id /\ req[h].pc = "add" /\ store'[p] = store[p]
                                    /\ store[p] = req[h].key
  BY <1>7 DEF Live, TableStep, RowsMove, StoreMove, CreateOK, RequestOK
<1>9. OrphanInv'
  <2> SUFFICES ASSUME NEW p \in Ids, store'[p] # NoKey, ~Live(p)', p \notin excused'
               PROVE  \E g \in Handlers : Keeps(req'[g], p)
    BY DEF OrphanInv
  <2>1. CASE Keeps(req[h], p) \/ (Live(p) /\ rows'[p] = "gone")
    BY <1>1, <2>1 DEF Live, Alive
  <2>2. CASE ~Keeps(req[h], p) /\ ~(Live(p) /\ rows'[p] = "gone")
    <3>1. store'[p] = store[p] \/ (p = req[h].id /\ req[h].pc = "put" /\ req[h].op = "replace")
      BY <1>7, <2>2 DEF TableStep, StoreMove, RequestOK, Keeps
    <3>2. ~Live(p)
      BY <2>2 DEF TableStep, RowsMove, Live
    <3>3. store'[p] = store[p]
      BY <1>7, <3>1, <3>2 DEF EditOK, Alive, Live, TableStep
    <3>4. PICK g \in Handlers : Keeps(req[g], p)
      BY <3>2, <3>3 DEF ProfileInv, OrphanInv, TableStep
    <3> QED BY <1>1, <2>2, <3>4
  <2> QED BY <2>1, <2>2
<1>10. KeysUnique'
  <2> SUFFICES ASSUME NEW p \in Ids, NEW q \in Ids, p # q, Live(p)', Live(q)',
                      store'[p] = store'[q], store'[p] # NoKey
               PROVE  store'[p] \in excused'
    BY DEF KeysUnique
  <2>1. \A x \in Ids : \/ store'[x] = store[x]
                       \/ x = req[h].id /\ (store'[x] = NoKey \/ (req[h].pc = "put" /\ store'[x] = req[h].key))
    BY DEF TableStep, StoreMove
  <2>2. excused \subseteq excused'
    BY DEF TableStep
  <2>3. CASE Live(p) /\ Live(q) /\ store'[p] = store[p] /\ store'[q] = store[q]
    BY <2>2, <2>3 DEF ProfileInv, KeysUnique
  <2>4. \/ req[h].key \in excused
        \/ \A x \in Ids \ {req[h].id} : Live(x) => store[x] # req[h].key
        \/ req[h].pc \notin {"put", "add"}
    BY <1>7 DEF ClaimOK, Live, Alive
  <2>5. CASE ~(Live(p) /\ store'[p] = store[p])
    <3>1. p = req[h].id /\ req[h].pc \in {"put", "add"} /\ store'[p] = req[h].key
      BY <1>8, <2>1, <2>5
    <3>2. Live(q) /\ store'[q] = store[q]
      BY <1>8, <2>1, <3>1
    <3> QED BY <2>2, <2>4, <3>1, <3>2
  <2>6. CASE ~(Live(q) /\ store'[q] = store[q])
    <3>1. q = req[h].id /\ req[h].pc \in {"put", "add"} /\ store'[q] = req[h].key
      BY <1>8, <2>1, <2>6
    <3>2. Live(p) /\ store'[p] = store[p]
      BY <1>8, <2>1, <3>1
    <3> QED BY <2>2, <2>4, <3>1, <3>2
  <2> QED BY <2>3, <2>5, <2>6
<1>11. ActiveExists'
  <2>1. active' = active /\ excused \subseteq excused'
    BY DEF TableStep
  <2>2. CASE active \in {NoId} \union excused
    BY <2>1, <2>2 DEF ActiveExists
  <2>3. CASE active \notin {NoId} \union excused
    <3>1. Live(active) /\ active \in Ids
      BY <2>3 DEF ProfileInv, ActiveExists, StateOK
    <3>2. Live(active)'
      BY <1>7, <2>1, <2>3, <3>1 DEF TableStep, RowsMove, EditOK, Live
    <3> QED BY <3>2 DEF ActiveExists
  <2> QED BY <2>2, <2>3
<1> QED BY <1>2, <1>4, <1>5, <1>6, <1>9, <1>10, <1>11 DEF ProfileInv

LEMMA RespondKeeps ==
  ASSUME ProfileInv, NEW h \in Handlers, TableStep(h), Respond(h),
         \A p \in Ids :
           store'[p] # NoKey /\ (Keeps(req[h], p) \/ (Live(p) /\ rows'[p] = "gone")) =>
             Alive(p, rows') \/ p \in excused'
  PROVE  ProfileInv'
<1> DEFINE c == IdleReq
<1>1. req' = [req EXCEPT ![h] = c] /\ c \in AnyRequest /\ RequestOK(c)
  BY IdleOK DEF Respond
<1>2. /\ CreateOK(c, rows', store', excused') /\ EditOK(c, rows', active, excused')
      /\ ClaimOK(c, rows', store', excused')
  BY IdleOK DEF CreateOK, EditOK, ClaimOK
<1>3. c = IdleReq
  OBVIOUS
<1> HIDE DEF c
<1> QED BY <1>1, <1>2, <1>3, MoveKeeps

\* The request of h moves on to another place; what it is about stays.
LEMMA GotoKeeps ==
  ASSUME ProfileInv, NEW h \in Handlers, TableStep(h), NEW pc \in Stages, Goto(h, pc),
         NEW c, c = [req[h] EXCEPT !.pc = pc], RequestOK(c),
         CreateOK(c, rows', store', excused'), EditOK(c, rows', active, excused'),
         ClaimOK(c, rows', store', excused'),
         \A p \in Ids :
           store'[p] # NoKey /\ (Keeps(req[h], p) \/ (Live(p) /\ rows'[p] = "gone")) =>
             Keeps(c, p) \/ Alive(p, rows') \/ p \in excused'
  PROVE  ProfileInv'
<1>1. req[h] \in AnyRequest
  BY DEF ProfileInv, StateOK
<1>2. c \in AnyRequest /\ c.op = req[h].op /\ c.id = req[h].id /\ c.key = req[h].key
      /\ c.generation = req[h].generation /\ c.switched = req[h].switched
  BY <1>1 DEF AnyRequest
<1>3. req' = [req EXCEPT ![h] = c]
  BY DEF Goto, ProfileInv, StateOK
<1> QED BY <1>2, <1>3, MoveKeeps

LEMMA FieldsAt ==
  ASSUME ProfileInv, NEW h \in Handlers
  PROVE  /\ req[h] \in AnyRequest /\ RequestOK(req[h])
         /\ req[h].op \in Ops /\ req[h].pc \in Stages /\ req[h].todo \in Todos
         /\ req[h].id \in Ids \union {NoId} /\ req[h].key \in Keys \union {NoKey}
         /\ CreateOK(req[h], rows, store, excused) /\ EditOK(req[h], rows, active, excused)
         /\ ClaimOK(req[h], rows, store, excused)
         /\ \A pc \in Stages :
              LET c == [req[h] EXCEPT !.pc = pc]
              IN /\ c.pc = pc /\ c.op = req[h].op /\ c.id = req[h].id /\ c.key = req[h].key
                 /\ c.todo = req[h].todo /\ c.enabled = req[h].enabled
  BY DEF ProfileInv, StateOK, RequestsInv, AnyRequest

LEMMA NothingMoves ==
  ASSUME ProfileInv, NEW h, UNCHANGED <<rows, store, active, generation>>, history' \subseteq Ids,
         requests' \in Nat, excused \subseteq excused', excused' \subseteq Ids \union Keys
  PROVE  TableStep(h)
  BY DEF TableStep, RowsMove, StoreMove, ProfileInv, StateOK

\* A request fails: a creation goes on to take its credential back.
LEMMA FailKeeps ==
  ASSUME ProfileInv, NEW h \in Handlers, TableStep(h), Fail(h), UNCHANGED <<rows, store>>,
         req[h].pc \in {"add", "read", "save"}
  PROVE  ProfileInv'
<1>1. CASE req[h].op = "create"
  <2> DEFINE c == [req[h] EXCEPT !.pc = "cleanup"]
  <2>1. /\ c.pc = "cleanup" /\ c.op = "create" /\ c.id = req[h].id /\ c.key = req[h].key
        /\ Goto(h, "cleanup") /\ "cleanup" \in Stages /\ c = [req[h] EXCEPT !.pc = "cleanup"]
        /\ RequestOK(req[h])
    BY <1>1, FieldsAt DEF Fail, Stages
  <2> HIDE DEF c
  <2>2. RequestOK(c)
    BY <2>1 DEF RequestOK
  <2>3. /\ CreateOK(c, rows', store', excused') /\ EditOK(c, rows', active, excused')
        /\ ClaimOK(c, rows', store', excused')
    BY <2>1 DEF CreateOK, EditOK, ClaimOK
  <2>4. \A p \in Ids : Keeps(req[h], p) => Keeps(c, p)
    BY <2>1 DEF Keeps
  <2>5. \A p \in Ids : Live(p) => rows'[p] # "gone"
    BY DEF Live
  <2> QED BY <2>1, <2>2, <2>3, <2>4, <2>5, GotoKeeps
<1>2. CASE req[h].op # "create"
  <2>1. \A p \in Ids : ~Keeps(req[h], p) /\ (Live(p) => rows'[p] # "gone")
    BY <1>2 DEF Keeps, Live
  <2> QED BY <1>2, <2>1, RespondKeeps DEF Fail
<1> QED BY <1>1, <1>2
-----------------------------------------------------------------------------
LEMMA UniqueKeeps ==
  ASSUME ProfileInv, NEW h \in Handlers, Unique(h)
  PROVE  ProfileInv'
<1>1. /\ req[h].pc = "check" /\ UNCHANGED <<rows, store, history, active, generation, requests>>
      /\ req[h].key \in Keys
  BY FieldsAt DEF Unique, RequestOK
<1>2. TableStep(h)
  BY <1>1, NothingMoves DEF Unique, ProfileInv, StateOK
<1>3. CASE Respond(h)
  <2>1. \A p \in Ids : /\ Keeps(req[h], p) => store[p] = NoKey \/ p \in excused
                       /\ Live(p) => rows'[p] # "gone"
    BY <1>1, FieldsAt DEF Keeps, CreateOK, Live
  <2> QED BY <1>1, <1>2, <1>3, <2>1, RespondKeeps DEF TableStep
<1> DEFINE Owners == {p \in Ids \ {req[h].id} : Live(p) /\ Secret(p) = req[h].key}
<1>4. CASE Goto(h, "put") /\ (Owners = {} \/ req[h].key \in excused')
  <2> DEFINE c == [req[h] EXCEPT !.pc = "put"]
  <2>1. /\ c.pc = "put" /\ c.op = req[h].op /\ c.id = req[h].id /\ c.key = req[h].key
        /\ c.todo = req[h].todo
        /\ "put" \in Stages /\ c = [req[h] EXCEPT !.pc = "put"]
    BY FieldsAt DEF Stages
  <2>2. \/ \A q \in Ids \ {req[h].id} : Live(q) => store[q] # req[h].key
        \/ req[h].key \in excused'
    BY <1>4 DEF Secret
  <2> HIDE DEF c
  <2>3. RequestOK(c)
    BY <1>1, <2>1, FieldsAt DEF RequestOK
  <2>4. CreateOK(c, rows', store', excused') /\ EditOK(c, rows', active, excused')
    BY <1>1, <1>2, <2>1, FieldsAt DEF CreateOK, EditOK, RequestOK, TableStep
  <2>5. ClaimOK(c, rows', store', excused')
    BY <1>1, <2>1, <2>2 DEF ClaimOK, Live, Alive
  <2>6. \A p \in Ids : /\ Keeps(req[h], p) => Keeps(c, p)
                       /\ Live(p) => rows'[p] # "gone"
    BY <1>1, <2>1 DEF Keeps, Live
  <2> QED BY <1>2, <1>4, <2>1, <2>3, <2>4, <2>5, <2>6, GotoKeeps
<1> QED BY <1>3, <1>4 DEF Unique, Live

LEMMA PutKeeps ==
  ASSUME ProfileInv, NEW h \in Handlers, Put(h)
  PROVE  ProfileInv'
<1>1. /\ req[h].pc = "put" /\ UNCHANGED <<rows, history, active, generation, requests, excused>>
      /\ req[h].key \in Keys /\ req[h].id \in Ids /\ req[h].op \in {"create", "replace"}
  BY FieldsAt DEF Put, RequestOK
<1>2. CASE Respond(h) /\ store' = store
  <2>1. \A p \in Ids : /\ Keeps(req[h], p) => store[p] = NoKey \/ p \in excused
                       /\ Live(p) => rows'[p] # "gone"
    BY <1>1, FieldsAt DEF Keeps, CreateOK, Live
  <2>2. TableStep(h)
    BY <1>1, <1>2, NothingMoves DEF ProfileInv, StateOK
  <2> QED BY <1>1, <1>2, <2>1, <2>2, RespondKeeps
<1>3. CASE /\ store' = Stored(req[h].id, req[h].key)
           /\ Goto(h, IF req[h].op = "create" THEN "add" ELSE "read")
  <2> DEFINE to == IF req[h].op = "create" THEN "add" ELSE "read"
             c == [req[h] EXCEPT !.pc = to]
  <2>1. /\ c.pc = to /\ c.op = req[h].op /\ c.id = req[h].id /\ c.key = req[h].key
        /\ c.todo = req[h].todo
        /\ to \in Stages /\ c = [req[h] EXCEPT !.pc = to] /\ Goto(h, to)
        /\ to = IF req[h].op = "create" THEN "add" ELSE "read"
    BY <1>3, FieldsAt DEF Stages
  <2> HIDE DEF c, to
  <2>2. TableStep(h)
    BY <1>1, <1>3 DEF TableStep, RowsMove, StoreMove, ProfileInv, StateOK, Stored
  <2>3. RequestOK(c)
    BY <1>1, <2>1, FieldsAt DEF RequestOK
  <2>4. store'[req[h].id] = req[h].key /\ \A q \in Ids \ {req[h].id} : store'[q] = store[q]
    BY <1>1, <1>3 DEF Stored, ProfileInv, StateOK
  <2>5. CreateOK(c, rows', store', excused') /\ EditOK(c, rows', active, excused')
    BY <1>1, <2>1, <2>4, FieldsAt DEF CreateOK, EditOK
  <2>6. ClaimOK(c, rows', store', excused')
    BY <1>1, <2>1, <2>4, FieldsAt DEF ClaimOK
  <2>7. \A p \in Ids : /\ Keeps(req[h], p) => Keeps(c, p)
                       /\ Live(p) => rows'[p] # "gone"
    BY <1>1, <2>1 DEF Keeps, Live
  <2> QED BY <2>1, <2>2, <2>3, <2>5, <2>6, <2>7, GotoKeeps
<1> QED BY <1>2, <1>3 DEF Put

LEMMA AddKeeps ==
  ASSUME ProfileInv, NEW h \in Handlers, Add(h)
  PROVE  ProfileInv'
<1>1. /\ req[h].pc = "add" /\ UNCHANGED <<store, history, active, generation, requests, excused>>
      /\ req[h].id \in Ids /\ req[h].op = "create"
  BY FieldsAt DEF Add, RequestOK
<1>2. CASE Fail(h) /\ rows' = rows
  BY <1>1, <1>2, NothingMoves, FailKeeps DEF ProfileInv, StateOK
<1>3. CASE rows' = [rows EXCEPT ![req[h].id] = "enabled"] /\ Goto(h, "read")
  <2> DEFINE c == [req[h] EXCEPT !.pc = "read"]
  <2>1. /\ c.pc = "read" /\ c.op = req[h].op /\ c.id = req[h].id /\ c.key = req[h].key
        /\ c.todo = req[h].todo
        /\ "read" \in Stages /\ c = [req[h] EXCEPT !.pc = "read"]
    BY FieldsAt DEF Stages
  <2> HIDE DEF c
  <2>2. TableStep(h)
    BY <1>1, <1>3 DEF TableStep, RowsMove, StoreMove, ProfileInv, StateOK
  <2>3. RequestOK(c)
    BY <1>1, <2>1, FieldsAt DEF RequestOK
  <2>4. rows'[req[h].id] = "enabled" /\ \A q \in Ids \ {req[h].id} : rows'[q] = rows[q]
    BY <1>1, <1>3 DEF ProfileInv, StateOK
  <2>5. /\ CreateOK(c, rows', store', excused') /\ EditOK(c, rows', active, excused')
        /\ ClaimOK(c, rows', store', excused')
    BY <1>1, <2>1, <2>4 DEF CreateOK, EditOK, ClaimOK, Alive
  <2>6. \A p \in Ids : /\ Keeps(req[h], p) => Keeps(c, p)
                       /\ Live(p) => rows'[p] # "gone"
    BY <1>1, <2>1, <2>4 DEF Keeps, Live
  <2> QED BY <1>3, <2>1, <2>2, <2>3, <2>5, <2>6, GotoKeeps
<1> QED BY <1>2, <1>3 DEF Add

LEMMA ReadRowKeeps ==
  ASSUME ProfileInv, NEW h \in Handlers, ReadRow(h)
  PROVE  ProfileInv'
<1>0. req[h] \in AnyRequest
  BY FieldsAt
<1>1. /\ req[h].pc = "read" /\ req[h].id \in Ids
      /\ UNCHANGED <<rows, store, history, active, generation, requests, excused>>
  BY FieldsAt DEF ReadRow, RequestOK
<1>2. TableStep(h)
  BY <1>1, NothingMoves DEF ProfileInv, StateOK
<1>3. CASE Fail(h)
  BY <1>1, <1>2, <1>3, FailKeeps
<1>4. CASE Live(req[h].id)
           /\ req' = [req EXCEPT ![h].pc = "save", ![h].enabled = rows[req[h].id] = "enabled"]
  <2> DEFINE on == rows[req[h].id] = "enabled"
             c == [req[h] EXCEPT !.pc = "save", !.enabled = on]
  <2>1. on \in BOOLEAN
    OBVIOUS
  <2>2. on => rows[req[h].id] = "enabled"
    OBVIOUS
  <2>3. req' = [req EXCEPT ![h] = [req[h] EXCEPT !.pc = "save", !.enabled = on]]
    BY <1>4, FieldsAt, Zenon DEF ProfileInv, StateOK
  <2> HIDE DEF on
  <2>4. /\ c \in AnyRequest /\ c.pc = "save" /\ c.op = req[h].op /\ c.id = req[h].id
        /\ c.key = req[h].key /\ c.todo = req[h].todo /\ c.generation = req[h].generation
        /\ c.switched = req[h].switched
    BY <2>1, <1>0 DEF AnyRequest, Stages
  <2>5. c.enabled => on
    BY FieldsAt DEF AnyRequest
  <2>6. req' = [req EXCEPT ![h] = c]
    BY <2>3
  <2> HIDE DEF c
  <2>7. RequestOK(c)
    BY <1>1, <2>4, FieldsAt DEF RequestOK
  <2>8. CreateOK(c, rows', store', excused') /\ ClaimOK(c, rows', store', excused')
    BY <1>1, <1>4, <2>4 DEF CreateOK, ClaimOK, Alive, Live
  <2>9. EditOK(c, rows', active, excused')
    BY <1>1, <1>4, <2>2, <2>4, <2>5, FieldsAt DEF EditOK, Alive, Live
  <2>10. \A p \in Ids : /\ Keeps(req[h], p) => Keeps(c, p)
                        /\ Live(p) => rows'[p] # "gone"
    BY <1>1, <2>4 DEF Keeps, Live
  <2> QED BY <1>2, <2>4, <2>6, <2>7, <2>8, <2>9, <2>10, MoveKeeps
<1> QED BY <1>3, <1>4 DEF ReadRow

LEMMA SaveRowKeeps ==
  ASSUME ProfileInv, NEW h \in Handlers, SaveRow(h)
  PROVE  ProfileInv'
<1>0. req[h] \in AnyRequest
  BY FieldsAt
<1>1. /\ req[h].pc = "save" /\ req[h].id \in Ids
      /\ UNCHANGED <<store, history, active, generation, requests, excused>>
      /\ req[h].todo \in Todos \ {<<>>}
  BY FieldsAt DEF SaveRow, RequestOK
<1>2. CASE Fail(h) /\ rows' = rows
  BY <1>1, <1>2, NothingMoves, FailKeeps DEF ProfileInv, StateOK
<1> DEFINE row == IF Edited(req[h]) THEN "enabled" ELSE "disabled"
           rest == Tail(req[h].todo)
<1>3. ASSUME Live(req[h].id), rows' = [rows EXCEPT ![req[h].id] = row]
      PROVE  /\ rows'[req[h].id] \in {"enabled", "disabled"}
             /\ \A q \in Ids \ {req[h].id} : rows'[q] = rows[q]
             /\ TableStep(h)
  <2>1. row \in {"enabled", "disabled"}
    OBVIOUS
  <2> HIDE DEF row
  <2> QED BY <1>1, <1>3, <2>1 DEF TableStep, RowsMove, StoreMove, ProfileInv, StateOK
<1>4. CASE /\ Live(req[h].id) /\ rows' = [rows EXCEPT ![req[h].id] = row]
           /\ rest = <<>> /\ Respond(h)
  <2>1. \A p \in Ids :
          Keeps(req[h], p) \/ (Live(p) /\ rows'[p] = "gone") => Alive(p, rows')
    BY <1>3, <1>4 DEF Keeps, Alive, Live
  <2> QED BY <1>3, <1>4, <2>1, RespondKeeps
<1>5. CASE /\ Live(req[h].id) /\ rows' = [rows EXCEPT ![req[h].id] = row]
           /\ rest # <<>> /\ req' = [req EXCEPT ![h].pc = "read", ![h].todo = rest]
  <2> HIDE DEF row
  <2>1. rest \in Todos \ {<<>>}
    BY <1>1, <1>5, TodoFacts
  <2> HIDE DEF rest
  <2> DEFINE c == [req[h] EXCEPT !.pc = "read", !.todo = rest]
  <2>2. /\ c \in AnyRequest /\ c.pc = "read" /\ c.op = req[h].op /\ c.id = req[h].id
        /\ c.key = req[h].key /\ c.todo = rest /\ c.generation = req[h].generation
        /\ c.switched = req[h].switched
    BY <2>1, <1>0 DEF AnyRequest, Stages
  <2>3. req' = [req EXCEPT ![h] = c]
    BY <1>5, FieldsAt DEF ProfileInv, StateOK
  <2> HIDE DEF c
  <2>4. RequestOK(c)
    BY <1>1, <2>1, <2>2, FieldsAt DEF RequestOK
  <2>5. /\ CreateOK(c, rows', store', excused') /\ ClaimOK(c, rows', store', excused')
        /\ EditOK(c, rows', active, excused')
    BY <1>1, <1>3, <1>5, <2>2, FieldsAt DEF CreateOK, ClaimOK, EditOK, Alive, Live, RequestOK
  <2>6. \A p \in Ids :
          Keeps(req[h], p) \/ (Live(p) /\ rows'[p] = "gone") => Alive(p, rows')
    BY <1>3, <1>5 DEF Keeps, Alive, Live
  <2> QED BY <1>3, <1>5, <2>2, <2>3, <2>4, <2>5, <2>6, MoveKeeps
<1> QED BY <1>2, <1>4, <1>5 DEF SaveRow

LEMMA DropKeyKeeps ==
  ASSUME ProfileInv, NEW h \in Handlers, DropKey(h)
  PROVE  ProfileInv'
<1>1. /\ req[h].pc = "drop" /\ req[h].id \in Ids /\ req[h].op = "clear"
      /\ UNCHANGED <<rows, history, active, generation, requests, excused>>
  BY FieldsAt DEF DropKey, RequestOK
<1>2. \A p \in Ids : ~Keeps(req[h], p) /\ (Live(p) => rows'[p] # "gone")
  BY <1>1 DEF Keeps, Live
<1>3. CASE Respond(h) /\ store' = store
  BY <1>1, <1>2, <1>3, NothingMoves, RespondKeeps DEF ProfileInv, StateOK
<1>4. CASE store' \in {store, Erased(req[h].id)} /\ Goto(h, "read")
  <2> DEFINE c == [req[h] EXCEPT !.pc = "read"]
  <2>1. /\ c.pc = "read" /\ c.op = req[h].op /\ c.id = req[h].id /\ c.key = req[h].key
        /\ c.todo = req[h].todo
        /\ "read" \in Stages /\ c = [req[h] EXCEPT !.pc = "read"]
    BY FieldsAt DEF Stages
  <2> HIDE DEF c
  <2>2. TableStep(h)
    BY <1>1, <1>4 DEF TableStep, RowsMove, StoreMove, ProfileInv, StateOK, Erased
  <2>3. RequestOK(c)
    BY <1>1, <2>1, FieldsAt DEF RequestOK
  <2>4. /\ CreateOK(c, rows', store', excused') /\ EditOK(c, rows', active, excused')
        /\ ClaimOK(c, rows', store', excused')
    BY <1>1, <2>1, FieldsAt DEF CreateOK, EditOK, ClaimOK, Alive
  <2> QED BY <1>2, <1>4, <2>1, <2>2, <2>3, <2>4, GotoKeeps
<1> QED BY <1>3, <1>4 DEF DropKey

LEMMA RemoveRowKeeps ==
  ASSUME ProfileInv, NEW h \in Handlers, NEW referred, RemoveRow(h, referred)
  PROVE  ProfileInv'
<1>1. /\ req[h].pc = "remove" /\ req[h].id \in Ids /\ req[h].op = "delete"
      /\ UNCHANGED <<store, history, active, generation, requests, excused>>
  BY FieldsAt DEF RemoveRow, RequestOK
<1>2. CASE Respond(h) /\ rows' = rows
  <2>1. \A p \in Ids : ~Keeps(req[h], p) /\ (Live(p) => rows'[p] # "gone")
    BY <1>1, <1>2 DEF Keeps, Live
  <2> QED BY <1>1, <1>2, <2>1, NothingMoves, RespondKeeps DEF ProfileInv, StateOK
<1>3. CASE /\ Live(req[h].id) /\ rows' = [rows EXCEPT ![req[h].id] = "gone"]
           /\ Goto(h, "cleanup")
  <2> DEFINE c == [req[h] EXCEPT !.pc = "cleanup"]
  <2>1. /\ c.pc = "cleanup" /\ c.op = req[h].op /\ c.id = req[h].id /\ c.key = req[h].key
        /\ "cleanup" \in Stages /\ c = [req[h] EXCEPT !.pc = "cleanup"]
    BY FieldsAt DEF Stages
  <2> HIDE DEF c
  <2>2. TableStep(h)
    BY <1>1, <1>3 DEF TableStep, RowsMove, StoreMove, ProfileInv, StateOK, Live
  <2>3. RequestOK(c)
    BY <1>1, <2>1, FieldsAt DEF RequestOK
  <2>4. rows'[req[h].id] = "gone" /\ \A q \in Ids \ {req[h].id} : rows'[q] = rows[q]
    BY <1>1, <1>3 DEF ProfileInv, StateOK
  <2>5. /\ CreateOK(c, rows', store', excused') /\ EditOK(c, rows', active, excused')
        /\ ClaimOK(c, rows', store', excused')
    BY <1>1, <2>1, <2>4 DEF CreateOK, EditOK, ClaimOK
  <2>6. \A p \in Ids : Keeps(req[h], p) \/ (Live(p) /\ rows'[p] = "gone") => Keeps(c, p)
    BY <1>1, <2>1, <2>4 DEF Keeps, Live
  <2> QED BY <1>3, <2>1, <2>2, <2>3, <2>5, <2>6, GotoKeeps
<1> QED BY <1>2, <1>3 DEF RemoveRow

LEMMA CleanUpKeeps ==
  ASSUME ProfileInv, NEW h \in Handlers, CleanUp(h)
  PROVE  ProfileInv'
<1>1. /\ req[h].pc = "cleanup" /\ req[h].id \in Ids /\ Respond(h)
      /\ UNCHANGED <<rows, history, active, generation, requests>>
      /\ excused \subseteq excused' /\ excused' \subseteq Ids \union Keys
      /\ \/ store' = Erased(req[h].id)
         \/ store' = store /\ req[h].id \in excused'
  BY FieldsAt DEF CleanUp, RequestOK, ProfileInv, StateOK
<1>2. TableStep(h)
  BY <1>1 DEF TableStep, RowsMove, StoreMove, ProfileInv, StateOK, Erased
<1>3. \A p \in Ids : /\ Keeps(req[h], p) => store'[p] = NoKey \/ p \in excused'
                     /\ Live(p) => rows'[p] # "gone"
  BY <1>1 DEF Keeps, Live, Erased, ProfileInv, StateOK
<1> QED BY <1>1, <1>2, <1>3, RespondKeeps

LEMMA SyncStepsKeep ==
  ASSUME ProfileInv, NEW h \in Handlers, Client(h) \/ SyncUsage(h) \/ AnswerSync(h) \/ DiscardSync(h)
  PROVE  ProfileInv'
<1>0. req[h] \in AnyRequest
  BY FieldsAt
<1>1. /\ req[h].pc \in {"client", "sync", "answer"} /\ req[h].id \in Ids /\ req[h].op = "sync"
      /\ UNCHANGED <<rows, store, active, generation, requests, excused>>
      /\ history' \subseteq Ids
  BY FieldsAt DEF Client, SyncUsage, AnswerSync, DiscardSync, RequestOK, ProfileInv, StateOK
<1>2. TableStep(h)
  BY <1>1, NothingMoves DEF ProfileInv, StateOK
<1>3. \A p \in Ids : ~Keeps(req[h], p) /\ (Live(p) => rows'[p] # "gone")
  BY <1>1 DEF Keeps, Live
<1>4. ASSUME NEW c \in AnyRequest, req' = [req EXCEPT ![h] = c],
             c.op = "sync", c.id = req[h].id, c.pc \in {"sync", "answer"},
             c.generation = req[h].generation, c.switched = req[h].switched
      PROVE  ProfileInv'
  <2>1. RequestOK(c)
    BY <1>1, <1>4, ProfilesAssumption DEF ProfilesAssumption, RequestOK
  <2>2. /\ CreateOK(c, rows', store', excused') /\ EditOK(c, rows', active, excused')
        /\ ClaimOK(c, rows', store', excused')
    BY <1>4 DEF CreateOK, EditOK, ClaimOK
  <2> QED BY <1>1, <1>2, <1>3, <1>4, <2>1, <2>2, MoveKeeps
<1>5. CASE Respond(h)
  BY <1>2, <1>3, <1>5, RespondKeeps
<1>6. CASE req' = [req EXCEPT ![h].pc = "sync", ![h].key = Secret(req[h].id)]
  <2> DEFINE c == [req[h] EXCEPT !.pc = "sync", !.key = Secret(req[h].id)]
  <2>1. Secret(req[h].id) \in Keys \union {NoKey}
    BY <1>1 DEF Secret, ProfileInv, StateOK
  <2>2. /\ c \in AnyRequest /\ c.op = "sync" /\ c.id = req[h].id /\ c.pc = "sync"
        /\ c.generation = req[h].generation /\ c.switched = req[h].switched
    BY <1>1, <2>1, <1>0 DEF AnyRequest, Stages
  <2>3. req' = [req EXCEPT ![h] = c]
    BY <1>6, FieldsAt DEF ProfileInv, StateOK
  <2> HIDE DEF c
  <2> QED BY <1>4, <2>2, <2>3
<1>7. CASE Goto(h, "answer")
  <2> DEFINE c == [req[h] EXCEPT !.pc = "answer"]
  <2>2. /\ c \in AnyRequest /\ c.op = "sync" /\ c.id = req[h].id /\ c.pc = "answer"
        /\ c.generation = req[h].generation /\ c.switched = req[h].switched
    BY <1>1, FieldsAt DEF AnyRequest, Stages
  <2>3. req' = [req EXCEPT ![h] = c]
    BY <1>7, FieldsAt DEF Goto, ProfileInv, StateOK
  <2> HIDE DEF c
  <2> QED BY <1>4, <2>2, <2>3
<1> QED BY <1>5, <1>6, <1>7 DEF Client, SyncUsage, AnswerSync, DiscardSync
-----------------------------------------------------------------------------
NewRequest(op, pc, p, k, todo) ==
  [IdleReq EXCEPT !.op = op, !.pc = pc, !.id = p, !.key = k, !.todo = todo,
                  !.generation = generation]

\* A new request; what it touches while another one is under way is noted.
LEMMA BeginKeeps ==
  ASSUME ProfileInv, NEW h \in Handlers, NEW op \in Ops \ {"none"}, NEW pc \in Stages,
         NEW p \in Ids \union {NoId}, NEW k \in Keys \union {NoKey}, NEW todo \in Todos,
         Begin(h, op, pc, p, k, todo),
         RequestOK(NewRequest(op, pc, p, k, todo)),
         CreateOK(NewRequest(op, pc, p, k, todo), rows, store, excused),
         EditOK(NewRequest(op, pc, p, k, todo), rows, active, excused),
         pc \notin {"put", "add"},
         op = "create" => \A g \in Handlers : req[g].id # p
  PROVE  ProfileInv'
<1> DEFINE c == NewRequest(op, pc, p, k, todo)
<1>0. RequestOK(c) /\ CreateOK(c, rows, store, excused) /\ EditOK(c, rows, active, excused)
  OBVIOUS
<1>1. /\ c \in AnyRequest /\ c.op = op /\ c.pc = pc /\ c.id = p /\ c.key = k /\ ~c.switched
      /\ c.generation = generation
  BY DEF NewRequest, AnyRequest, IdleReq, ProfileInv, StateOK
<1>2. /\ req[h] = IdleReq /\ req' = [req EXCEPT ![h] = c]
      /\ requests' = requests + 1 /\ UNCHANGED <<rows, store, history, active, generation>>
  BY DEF Begin, NewRequest
<1> HIDE DEF c
<1>3. /\ req' \in [Handlers -> AnyRequest] /\ req'[h] = c
      /\ \A g \in Handlers \ {h} : req'[g] = req[g]
  BY <1>1, <1>2 DEF ProfileInv, StateOK
<1>4. /\ excused' = IF op \in {"sync", "test"} THEN excused ELSE excused \union Contended(h, p, k)
      /\ Contended(h, p, k) \subseteq Ids \union Keys
  BY DEF Begin, Contended
<1>5. excused \subseteq excused' /\ excused' \subseteq Ids \union Keys
  BY <1>4 DEF ProfileInv, StateOK
<1>6. StateOK'
  BY <1>2, <1>3, <1>5 DEF ProfileInv, StateOK
<1>7. RequestsInv'
  <2> SUFFICES ASSUME NEW g \in Handlers
               PROVE  /\ RequestOK(req'[g])
                      /\ CreateOK(req'[g], rows, store, excused')
                      /\ EditOK(req'[g], rows, active, excused')
                      /\ ClaimOK(req'[g], rows, store, excused')
                      /\ SnapshotOK(req'[g], generation)
    BY <1>2 DEF RequestsInv
  <2>1. CASE g = h
    <3>1. CreateOK(c, rows, store, excused') /\ EditOK(c, rows, active, excused')
      BY <1>0, <1>5 DEF CreateOK, EditOK
    <3>2. ClaimOK(c, rows, store, excused')
      BY <1>1 DEF ClaimOK
    <3>3. SnapshotOK(c, generation)
      BY <1>1 DEF SnapshotOK, ProfileInv, StateOK
    <3> QED BY <1>0, <1>3, <2>1, <3>1, <3>2, <3>3
  <2>2. CASE g # h
    <3>1. /\ RequestOK(req[g]) /\ SnapshotOK(req[g], generation)
          /\ CreateOK(req[g], rows, store, excused) /\ EditOK(req[g], rows, active, excused)
          /\ ClaimOK(req[g], rows, store, excused)
      BY DEF ProfileInv, RequestsInv
    <3>2. /\ CreateOK(req[g], rows, store, excused') /\ EditOK(req[g], rows, active, excused')
          /\ ClaimOK(req[g], rows, store, excused')
      BY <1>5, <3>1 DEF CreateOK, EditOK, ClaimOK
    <3> QED BY <1>3, <2>2, <3>1, <3>2
  <2> QED BY <2>1, <2>2
<1>8. OverlapsNoted'
  <2>1. ASSUME NEW g \in Handlers \ {h}, Editing(c), Editing(req[g])
        PROVE  /\ p = req[g].id /\ p # NoId => p \in excused'
               /\ k = req[g].key /\ k # NoKey => k \in excused'
    <3>1. /\ op \notin {"sync", "test"} /\ req[g].op \notin {"sync", "test"}
          /\ excused' = excused \union Contended(h, p, k)
      BY <1>1, <1>4, <2>1 DEF Editing
    <3>2. p # NoKey /\ k # NoId
      BY ProfilesAssumption DEF ProfilesAssumption, NoId, NoKey
    <3>3. p = req[g].id /\ p # NoId => p \in Contended(h, p, k)
      BY <3>1, <3>2 DEF Contended
    <3>4. k = req[g].key /\ k # NoKey => k \in Contended(h, p, k)
      BY <3>1, <3>2 DEF Contended
    <3> QED BY <3>1, <3>3, <3>4
  <2>2. \A g, f \in Handlers : g # f /\ Editing(req'[g]) /\ Editing(req'[f]) =>
          /\ req'[g].id = req'[f].id /\ req'[g].id # NoId => req'[g].id \in excused'
          /\ req'[g].key = req'[f].key /\ req'[g].key # NoKey => req'[g].key \in excused'
    <3> SUFFICES ASSUME NEW g \in Handlers, NEW f \in Handlers, g # f,
                        Editing(req'[g]), Editing(req'[f])
                 PROVE  /\ req'[g].id = req'[f].id /\ req'[g].id # NoId => req'[g].id \in excused'
                        /\ req'[g].key = req'[f].key /\ req'[g].key # NoKey => req'[g].key \in excused'
      OBVIOUS
    <3>1. CASE g = h
      BY <1>1, <1>3, <2>1, <3>1
    <3>2. CASE f = h
      BY <1>1, <1>3, <2>1, <3>2
    <3>3. CASE g # h /\ f # h
      BY <1>3, <1>5, <3>3 DEF ProfileInv, OverlapsNoted
    <3> QED BY <3>1, <3>2, <3>3
  <2> QED BY <2>2 DEF OverlapsNoted
<1>9. CreatorsDiffer'
  <2>1. \A g \in Handlers : req'[g].op = "create" =>
          \/ g = h /\ req'[g].id = p /\ op = "create"
          \/ g # h /\ req[g].op = "create" /\ req'[g].id = req[g].id
    BY <1>1, <1>3
  <2>2. \A g, f \in Handlers : g # f /\ req'[g].op = "create" /\ req'[f].op = "create" =>
          req'[g].id # req'[f].id
    BY <1>3, <2>1 DEF ProfileInv, CreatorsDiffer
  <2> QED BY <2>2 DEF CreatorsDiffer
<1>10. OrphanInv' /\ KeysUnique' /\ ActiveExists'
  <2>1. \A q \in Ids, g \in Handlers : Keeps(req[g], q) => Keeps(req'[g], q)
    BY <1>2, <1>3, IdleOK DEF Keeps
  <2>2. OrphanInv'
    BY <1>2, <1>5, <2>1 DEF ProfileInv, OrphanInv, Live
  <2>3. KeysUnique' /\ ActiveExists'
    BY <1>2, <1>5 DEF ProfileInv, KeysUnique, ActiveExists, Live
  <2> QED BY <2>2, <2>3
<1> QED BY <1>6, <1>7, <1>8, <1>9, <1>10 DEF ProfileInv

\* Every kind of request begins where its predicates hold.
LEMMA BeginsKeep ==
  ASSUME ProfileInv, NEW h \in Handlers,
         \/ BeginCreate(h) \/ BeginUpdate(h) \/ BeginReplace(h) \/ BeginClear(h)
         \/ BeginDelete(h) \/ BeginActivate(h) \/ BeginConfig(h) \/ BeginSync(h)
         \/ \E p \in Ids : Live(p) /\ Begin(h, "test", "sending", p, NoKey, <<>>)
  PROVE  ProfileInv'
<1>1. PICK op \in Ops \ {"none"}, pc \in Stages, p \in Ids \union {NoId},
           k \in Keys \union {NoKey}, todo \in Todos :
        /\ Begin(h, op, pc, p, k, todo)
        /\ \/ /\ op = "create" /\ pc = "check" /\ k \in Keys /\ p \in Ids /\ todo = <<"keep">>
              /\ rows[p] = "unborn" /\ \A g \in Handlers : req[g].id # p
           \/ op = "update" /\ pc = "read" /\ p \in Ids /\ todo # <<>> /\ Live(p)
           \/ /\ op = "replace" /\ pc = "check" /\ k \in Keys /\ p \in Ids /\ Live(p)
              /\ todo = <<"keep", "keep", "keep">>
           \/ op = "clear" /\ pc = "drop" /\ p \in Ids /\ todo = <<"off">> /\ Live(p)
           \/ op = "delete" /\ pc = "remove" /\ p \in Ids /\ active # p
           \/ op = "activate" /\ pc = "publish" /\ p \in Ids /\ Live(p)
           \/ op = "config" /\ pc = "publish" /\ (p \in {active, NoId} \/ Live(p))
           \/ op = "sync" /\ pc = "client" /\ p \in Ids
           \/ op = "test" /\ pc = "sending" /\ p \in Ids
  <2>1. CASE BeginCreate(h)
    BY <2>1 DEF BeginCreate, Ops, Stages, Todos
  <2>2. CASE BeginUpdate(h)
    BY <2>2 DEF BeginUpdate, Ops, Stages, Todos
  <2>3. CASE BeginReplace(h)
    BY <2>3 DEF BeginReplace, Ops, Stages, Todos
  <2>4. CASE BeginClear(h)
    BY <2>4 DEF BeginClear, Ops, Stages, Todos
  <2>5. CASE BeginDelete(h)
    BY <2>5 DEF BeginDelete, Ops, Stages, Todos
  <2>6. CASE BeginActivate(h)
    BY <2>6 DEF BeginActivate, Ops, Stages, Todos, Live
  <2>7. CASE BeginConfig(h)
    BY <2>7 DEF BeginConfig, Ops, Stages, Todos, Live, ProfileInv, StateOK
  <2>8. CASE BeginSync(h)
    BY <2>8, ProfilesAssumption DEF BeginSync, Ops, Stages, Todos, ProfileInv, StateOK
  <2>9. CASE \E p \in Ids : Live(p) /\ Begin(h, "test", "sending", p, NoKey, <<>>)
    BY <2>9 DEF Ops, Stages, Todos
  <2> QED BY <2>1, <2>2, <2>3, <2>4, <2>5, <2>6, <2>7, <2>8, <2>9
<1> DEFINE c == NewRequest(op, pc, p, k, todo)
<1>2. c.op = op /\ c.pc = pc /\ c.id = p /\ c.key = k /\ c.todo = todo /\ ~c.enabled
  BY DEF IdleReq, NewRequest
<1> HIDE DEF c
<1>4. NoId \notin Ids /\ NoKey \notin Keys
  BY ProfilesAssumption DEF ProfilesAssumption
<1>5. todo # <<>> \/ pc \notin {"check", "put", "add", "drop", "read", "save"}
  <2>1. <<"keep">> # <<>> /\ <<"off">> # <<>> /\ <<"keep", "keep", "keep">> # <<>>
    OBVIOUS
  <2>2. \/ todo # <<>> \/ todo = <<"keep">> \/ todo = <<"off">> \/ todo = <<"keep", "keep", "keep">>
        \/ pc = "remove" \/ pc = "publish" \/ pc = "client" \/ pc = "sending"
    BY <1>1, Zenon
  <2> QED BY <2>1, <2>2
<1>6. RequestOK(c)
  BY <1>1, <1>2, <1>4, <1>5 DEF RequestOK
<1>7. op = "create" => store[p] = NoKey \/ p \in excused
  <2> SUFFICES ASSUME op = "create", store[p] # NoKey
               PROVE  p \in excused
    OBVIOUS
  <2>1. p \in Ids /\ ~Live(p) /\ \A g \in Handlers : ~Keeps(req[g], p)
    BY <1>1 DEF Live, Keeps
  <2> QED BY <2>1 DEF ProfileInv, OrphanInv
<1>8. CreateOK(c, rows, store, excused)
  BY <1>1, <1>2, <1>7 DEF CreateOK
<1>9. EditOK(c, rows, active, excused)
  BY <1>1, <1>2 DEF EditOK, Live, Alive, ProfileInv, ActiveExists
<1>10. /\ pc \notin {"put", "add"}
       /\ op = "create" => \A g \in Handlers : req[g].id # p
  BY <1>1
<1> QED BY <1>1, <1>6, <1>8, <1>9, <1>10, BeginKeeps DEF c

LEMMA PublishKeeps ==
  ASSUME ProfileInv, NEW h \in Handlers, Publish(h)
  PROVE  ProfileInv'
<1>1. /\ req[h].pc = "publish" /\ req[h].op \in {"activate", "config"}
      /\ req[h].id \in Ids \union {NoId}
      /\ UNCHANGED <<rows, store, history, requests, excused>>
  BY FieldsAt DEF Publish, RequestOK
<1>2. CASE Respond(h) /\ UNCHANGED <<active, generation>>
  <2>1. \A p \in Ids : ~Keeps(req[h], p) /\ (Live(p) => rows'[p] # "gone")
    BY <1>1 DEF Keeps, Live
  <2> QED BY <1>1, <1>2, <2>1, NothingMoves, RespondKeeps DEF ProfileInv, StateOK
<1>3. CASE /\ active' = req[h].id
           /\ generation' = IF req[h].op = "activate" \/ active # req[h].id
                            THEN generation + 1 ELSE generation
           /\ req' = [g \in Handlers |->
                        IF g = h THEN IdleReq
                        ELSE IF req[g].op = "sync"
                             THEN [req[g] EXCEPT !.switched = @ \/ active # req[h].id]
                             ELSE req[g]]
  <2>1. /\ generation \in Nat /\ generation' \in Nat /\ generation <= generation'
        /\ active # req[h].id => generation < generation'
    BY <1>3 DEF ProfileInv, StateOK
  <2>2. req'[h] = IdleReq
    BY <1>3
  <2>3. ASSUME NEW g \in Handlers \ {h}, req[g].op # "sync"
        PROVE  req'[g] = req[g]
    BY <1>3, <2>3
  <2>4. ASSUME NEW g \in Handlers \ {h}, req[g].op = "sync"
        PROVE  /\ req'[g] \in AnyRequest /\ req'[g].op = "sync" /\ req'[g].pc = req[g].pc
               /\ req'[g].id = req[g].id /\ req'[g].key = req[g].key /\ req'[g].todo = req[g].todo
               /\ req'[g].generation = req[g].generation
               /\ req'[g].switched => req[g].switched \/ active # req[h].id
    <3> DEFINE b == req[g].switched \/ active # req[h].id
    <3>1. req[g] \in AnyRequest /\ req'[g] = [req[g] EXCEPT !.switched = b]
      BY <1>3, <2>4, FieldsAt, Zenon
    <3>2. b \in BOOLEAN
      BY <3>1 DEF AnyRequest
    <3>3. b => req[g].switched \/ active # req[h].id
      OBVIOUS
    <3> HIDE DEF b
    <3>4. /\ req'[g] \in AnyRequest /\ req'[g].op = "sync" /\ req'[g].pc = req[g].pc
          /\ req'[g].id = req[g].id /\ req'[g].key = req[g].key /\ req'[g].todo = req[g].todo
          /\ req'[g].generation = req[g].generation
      BY <2>4, <3>1, <3>2 DEF AnyRequest
    <3>5. req'[g].switched => b
      BY <3>1, <3>2 DEF AnyRequest
    <3> QED BY <3>3, <3>4, <3>5
  <2>5. \A g \in Handlers : req'[g] \in AnyRequest /\ RequestOK(req'[g])
    <3> SUFFICES ASSUME NEW g \in Handlers PROVE req'[g] \in AnyRequest /\ RequestOK(req'[g])
      OBVIOUS
    <3>1. CASE g = h
      BY <2>2, <3>1, IdleOK
    <3>2. CASE g # h /\ req[g].op # "sync"
      BY <2>3, <3>2, FieldsAt
    <3>3. CASE g # h /\ req[g].op = "sync"
      <4>1. RequestOK(req[g])
        BY FieldsAt
      <4>2. /\ req'[g] \in AnyRequest /\ req'[g].op = "sync" /\ req'[g].pc = req[g].pc
            /\ req'[g].id = req[g].id /\ req'[g].key = req[g].key /\ req'[g].todo = req[g].todo
        BY <2>4, <3>3
      <4> QED BY <3>3, <4>1, <4>2 DEF RequestOK
    <3> QED BY <3>1, <3>2, <3>3
  <2>6. StateOK'
    <3>1. req' \in [Handlers -> AnyRequest]
      BY <1>3, <2>5
    <3>2. /\ rows \in [Ids -> {"unborn", "enabled", "disabled", "gone"}]
          /\ store \in [Ids -> Keys \union {NoKey}] /\ history \subseteq Ids
          /\ requests \in Nat /\ excused \subseteq Ids \union Keys
      BY DEF ProfileInv, StateOK
    <3> QED BY <1>1, <1>3, <2>1, <3>1, <3>2 DEF StateOK
  <2>7. \A g \in Handlers : Editing(req'[g]) => /\ g # h /\ req'[g] = req[g] /\ Editing(req[g])
    BY <2>2, <2>3, <2>4, IdleOK DEF Editing
  <2>8. \A g \in Handlers \ {h} : Editing(req[g]) /\ req[g].id = active' /\ req[g].id # NoId =>
          active' \in excused
    <3>1. Editing(req[h])
      BY <1>1 DEF Editing
    <3> QED BY <1>3, <3>1 DEF ProfileInv, OverlapsNoted
  <2>9. RequestsInv'
    <3> SUFFICES ASSUME NEW g \in Handlers
                 PROVE  /\ CreateOK(req'[g], rows, store, excused)
                        /\ EditOK(req'[g], rows, active', excused)
                        /\ ClaimOK(req'[g], rows, store, excused)
                        /\ SnapshotOK(req'[g], generation')
      BY <1>1, <2>5 DEF RequestsInv
    <3>1. /\ CreateOK(req[g], rows, store, excused) /\ EditOK(req[g], rows, active, excused)
          /\ ClaimOK(req[g], rows, store, excused) /\ SnapshotOK(req[g], generation)
          /\ RequestOK(req[g]) /\ req[g] \in AnyRequest
      BY DEF ProfileInv, RequestsInv, StateOK
    <3>2. CASE Editing(req'[g])
      <4>1. g # h /\ req'[g] = req[g] /\ Editing(req[g])
        BY <2>7, <3>2
      <4>2. req[g].pc = "remove" => req[g].id # NoId
        BY <3>1 DEF RequestOK
      <4>3. EditOK(req'[g], rows, active', excused)
        BY <2>8, <3>1, <4>1, <4>2 DEF EditOK
      <4>4. SnapshotOK(req'[g], generation')
        BY <3>2 DEF Editing, SnapshotOK
      <4> QED BY <3>1, <4>1, <4>3, <4>4
    <3>3. CASE ~Editing(req'[g])
      <4>1. req'[g].op \in {"none", "sync", "test"} /\ RequestOK(req'[g]) /\ req'[g] \in AnyRequest
        BY <2>5, <3>3 DEF Editing
      <4>2. /\ CreateOK(req'[g], rows, store, excused) /\ EditOK(req'[g], rows, active', excused)
            /\ ClaimOK(req'[g], rows, store, excused)
        BY <4>1 DEF CreateOK, EditOK, ClaimOK, RequestOK
      <4>3. SnapshotOK(req'[g], generation')
        <5> SUFFICES ASSUME req'[g].op = "sync"
                     PROVE  /\ req'[g].generation <= generation'
                            /\ req'[g].switched => req'[g].generation < generation'
          BY DEF SnapshotOK
        <5>1. g # h /\ req[g].op = "sync"
          BY <2>2, <2>3, IdleOK
        <5>2. /\ req'[g].generation = req[g].generation
              /\ req'[g].switched => req[g].switched \/ active # req[h].id
          BY <2>4, <5>1
        <5>3. /\ req[g].generation \in Nat /\ req[g].generation <= generation
              /\ req[g].switched => req[g].generation < generation
          BY <3>1, <5>1 DEF SnapshotOK, AnyRequest
        <5> QED BY <2>1, <5>2, <5>3
      <4> QED BY <4>2, <4>3
    <3> QED BY <3>2, <3>3
  <2>10. OverlapsNoted' /\ CreatorsDiffer'
    <3>1. OverlapsNoted'
      BY <1>1, <2>7 DEF ProfileInv, OverlapsNoted
    <3>2. \A g \in Handlers : req'[g].op = "create" => req'[g] = req[g]
      BY <2>7 DEF Editing
    <3> QED BY <3>1, <3>2 DEF ProfileInv, CreatorsDiffer
  <2>11. OrphanInv'
    <3>1. \A g \in Handlers, p \in Ids : Keeps(req[g], p) => Keeps(req'[g], p)
      <4> SUFFICES ASSUME NEW g \in Handlers, NEW p \in Ids, Keeps(req[g], p)
                   PROVE  Keeps(req'[g], p)
        OBVIOUS
      <4>1. g # h /\ req[g].op # "sync"
        BY <1>1, FieldsAt DEF Keeps, RequestOK
      <4> QED BY <2>3, <4>1
    <3> QED BY <1>1, <3>1 DEF ProfileInv, OrphanInv, Live
  <2>12. KeysUnique'
    BY <1>1 DEF ProfileInv, KeysUnique, Live
  <2>13. ActiveExists'
    BY <1>1, <1>3, FieldsAt DEF ActiveExists, EditOK, Live, Alive
  <2> QED BY <2>6, <2>9, <2>10, <2>11, <2>12, <2>13 DEF ProfileInv
<1> QED BY <1>2, <1>3 DEF Publish

LEMMA CrashKeeps ==
  ASSUME ProfileInv, ProfilesCrash
  PROVE  ProfileInv'
<1>1. /\ \A h \in Handlers : req'[h] = IdleReq
      /\ req' = [h \in Handlers |-> IdleReq] /\ generation' = 0
      /\ UNCHANGED <<rows, store, history, active, requests>>
      /\ excused' = excused \union ({req[h].id : h \in Handlers} \ {NoId})
  BY DEF ProfilesCrash
<1>2. excused \subseteq excused' /\ \A h \in Handlers : req[h].id # NoId => req[h].id \in excused'
  BY <1>1
<1>3. StateOK'
  <2>1. excused' \subseteq Ids \union Keys
    BY <1>1, FieldsAt DEF ProfileInv, StateOK
  <2> QED BY <1>1, <2>1, IdleOK DEF ProfileInv, StateOK
<1>4. RequestsInv' /\ OverlapsNoted' /\ CreatorsDiffer'
  BY <1>1, IdleOK DEF RequestsInv, CreateOK, EditOK, ClaimOK, SnapshotOK, OverlapsNoted, Editing,
                      CreatorsDiffer
<1>5. OrphanInv'
  BY <1>1, <1>2, ProfilesAssumption DEF ProfileInv, OrphanInv, Keeps, Live, ProfilesAssumption
<1>6. KeysUnique' /\ ActiveExists'
  BY <1>1, <1>2 DEF ProfileInv, KeysUnique, ActiveExists, Live
<1> QED BY <1>3, <1>4, <1>5, <1>6 DEF ProfileInv

LEMMA ProfileStepKeeps ==
  ASSUME ProfileInv, NEW h \in Handlers, NEW referred, ProfileStep(h, referred)
  PROVE  ProfileInv'
<1> USE DEF ProfileStep
<1> QED BY BeginsKeep, UniqueKeeps, PutKeeps, AddKeeps, ReadRowKeeps, SaveRowKeeps, DropKeyKeeps,
           RemoveRowKeeps, CleanUpKeeps, PublishKeeps, SyncStepsKeep

\* Steps of the alerts touch requests and tables of Profiles in few places.
LEMMA AlertStepKeeps ==
  ASSUME ProfileInv, [AlertNext]_allVars
  PROVE  ProfileInv'
<1>1. ASSUME UNCHANGED <<rows, store, active, generation, req, excused>>, history' \subseteq Ids,
             requests' \in Nat
      PROVE  ProfileInv'
  <2>1. StateOK' /\ RequestsInv' /\ OverlapsNoted' /\ CreatorsDiffer' /\ OrphanInv'
    BY <1>1 DEF ProfileInv, StateOK, RequestsInv, OverlapsNoted, CreatorsDiffer, OrphanInv, Live
  <2>2. KeysUnique' /\ ActiveExists'
    BY <1>1 DEF ProfileInv, KeysUnique, ActiveExists, Live
  <2> QED BY <2>1, <2>2 DEF ProfileInv
<1>2. history \subseteq Ids /\ requests \in Nat
  BY DEF ProfileInv, StateOK
<1>3. CASE UNCHANGED profileVars
  BY <1>1, <1>2, <1>3 DEF profileVars
<1>4. CASE ProfileRequest
  BY <1>4, ProfileStepKeeps DEF ProfileRequest
<1>5. ASSUME NEW h \in Handlers, SaveRule(h) \/ DeleteRule(h)
      PROVE  ProfileInv'
  BY <1>1, <1>2, <1>5 DEF SaveRule, DeleteRule
<1>6. ASSUME NEW h \in Handlers, BeginTest(h)
      PROVE  ProfileInv'
  BY <1>6, BeginsKeep DEF BeginTest
<1>7. ASSUME NEW h \in Handlers, EndTest(h)
      PROVE  ProfileInv'
  <2>1. /\ Respond(h) /\ req[h].op = "test" /\ TableStep(h)
        /\ UNCHANGED <<rows, store>>
    BY <1>2, <1>7, NothingMoves DEF EndTest, ProfileInv, StateOK
  <2>2. \A p \in Ids : ~Keeps(req[h], p) /\ (Live(p) => rows'[p] # "gone")
    BY <2>1, FieldsAt DEF Keeps, RequestOK, Live
  <2> QED BY <2>1, <2>2, RespondKeeps
<1>8. CASE Collect
  BY <1>1, <1>2, <1>8 DEF Collect
<1>9. CASE Restart
  BY <1>9, CrashKeeps DEF Restart
<1>10. ListRules \/ Evaluate \/ EvaluateFails \/ Processed \/ Notify \/ Record => UNCHANGED profileVars
  BY DEF ListRules, Evaluate, EvaluateFails, Processed, Notify, Record
<1>11. /\ \A t \in Senders : SendCheck(t) \/ Ask(t) \/ Answer(t) \/ Deliver(t) => UNCHANGED profileVars
       /\ \A e \in late : Appear(e) => UNCHANGED profileVars
  BY DEF SendCheck, Ask, Answer, Deliver, Appear
<1> QED BY <1>3, <1>4, <1>5, <1>6, <1>7, <1>8, <1>9, <1>10, <1>11 DEF AlertNext, allVars
-----------------------------------------------------------------------------
LEMMA ProfileStart == ProfilesInit => ProfileInv
<1> SUFFICES ASSUME ProfilesInit PROVE ProfileInv
  OBVIOUS
<1>1. /\ rows = [p \in Ids |-> IF p \in First THEN "enabled" ELSE "unborn"]
      /\ store \in [Ids -> Keys \union {NoKey}]
      /\ \A p \in Ids : store[p] = NoKey <=> p \notin First
      /\ \A p, q \in First : p # q => store[p] # store[q]
      /\ history = {} /\ active \in First \union {NoId} /\ generation = 0 /\ requests = 0
      /\ req = [h \in Handlers |-> IdleReq] /\ excused = {}
      /\ First \subseteq Ids
  BY ProfilesAssumption DEF ProfilesInit, ProfilesAssumption
<1>2. StateOK
  BY <1>1, IdleOK DEF StateOK
<1>3. RequestsInv /\ OverlapsNoted /\ CreatorsDiffer
  BY <1>1, IdleOK DEF RequestsInv, CreateOK, EditOK, ClaimOK, SnapshotOK, OverlapsNoted, Editing,
                      CreatorsDiffer
<1>4. OrphanInv /\ KeysUnique /\ ActiveExists
  BY <1>1 DEF OrphanInv, KeysUnique, ActiveExists, Live
<1> QED BY <1>2, <1>3, <1>4 DEF ProfileInv

\* The inductive invariant of the profiles, their credentials and the requests
\* about them, beside alerts that edit, test and collect.
THEOREM ProfileInvariant == AlertSpec => []ProfileInv
<1>1. AlertInit => ProfileInv
  BY ProfileStart DEF AlertInit
<1>2. ProfileInv /\ [AlertNext]_allVars => ProfileInv'
  BY AlertStepKeeps
<1> QED BY <1>1, <1>2, PTL DEF AlertSpec

\* No two profiles share a key, unless requests for it overlapped or the store
\* could not be read.
THEOREM KeysStayUnique == AlertSpec => []KeysUnique
<1>1. ProfileInv => KeysUnique
  BY DEF ProfileInv
<1> QED BY <1>1, ProfileInvariant, PTL

\* The active profile exists, unless its activation and its deletion overlapped.
THEOREM ActiveProfileExists == AlertSpec => []ActiveExists
<1>1. ProfileInv => ActiveExists
  BY DEF ProfileInv
<1> QED BY <1>1, ProfileInvariant, PTL

\* A profile that is gone, or was never made, leaves no credential behind,
\* unless its clean-up failed.
THEOREM NoKeyIsOrphaned == AlertSpec => []NoOrphanKeys
<1>1. ProfileInv => NoOrphanKeys
  BY DEF ProfileInv, OrphanInv, Keeps, NoOrphanKeys
<1> QED BY <1>1, ProfileInvariant, PTL

\* A sync that answers with success was for the active profile all the while.
THEOREM SyncsAnswerForActive == AlertSpec => SyncAnswersForActive
<1>1. ProfileInv => \A h \in Handlers : AnswerSync(h) => ~req[h].switched
  <2> SUFFICES ASSUME ProfileInv, NEW h \in Handlers, AnswerSync(h)
               PROVE  ~req[h].switched
    OBVIOUS
  <2>1. req[h].op = "sync" /\ req[h].generation = generation /\ generation \in Nat
    BY FieldsAt DEF AnswerSync, SnapshotHolds, RequestOK, ProfileInv, StateOK
  <2> QED BY <2>1 DEF ProfileInv, RequestsInv, SnapshotOK
<1>2. ProfileInv => [\A h \in Handlers : AnswerSync(h) => ~req[h].switched]_profileVars
  BY <1>1
<1> QED BY <1>2, ProfileInvariant, PTL DEF SyncAnswersForActive

\* A disabled profile is enabled by a request to enable it alone, unless
\* requests for it overlapped.
THEOREM EnabledByRequestOnly == AlertSpec => EnabledOnRequest
<1> DEFINE A == \A p \in Ids : rows[p] = "disabled" /\ rows'[p] = "enabled" =>
                  \/ p \in excused
                  \/ \E h \in Handlers : req[h].id = p /\ req[h].todo = <<"on">>
<1>1. ProfileInv /\ [AlertNext]_allVars => A
  <2> SUFFICES ASSUME ProfileInv, [AlertNext]_allVars, NEW p \in Ids,
                      rows[p] = "disabled", rows'[p] = "enabled", p \notin excused
               PROVE  \E h \in Handlers : req[h].id = p /\ req[h].todo = <<"on">>
    OBVIOUS
  <2>1. \E h \in Handlers : Add(h) \/ SaveRow(h) \/ RemoveRow(h, Referred)
    <3>1. rows' # rows
      OBVIOUS
    <3>2. PICK h \in Handlers : ProfileStep(h, Referred)
      BY <3>1 DEF AlertNext, allVars, profileVars, ProfileRequest, SaveRule, DeleteRule, BeginTest,
                  EndTest, Begin, Collect, ListRules, Evaluate, EvaluateFails, Processed, Notify,
                  Record, SendCheck, Ask, Answer, Deliver, Appear, Restart, ProfilesCrash
    <3> QED BY <3>1, <3>2 DEF ProfileStep, BeginCreate, BeginUpdate, BeginReplace, BeginClear,
               BeginDelete, BeginActivate, BeginConfig, BeginSync, Begin, Unique, Put, ReadRow,
               DropKey, CleanUp, Publish, Client, SyncUsage, AnswerSync, DiscardSync
  <2>2. PICK h \in Handlers : Add(h) \/ SaveRow(h) \/ RemoveRow(h, Referred)
    BY <2>1
  <2>3. rows \in [Ids -> {"unborn", "enabled", "disabled", "gone"}]
    BY DEF ProfileInv, StateOK
  <2>4. CASE Add(h)
    <3>1. req[h].op = "create" /\ req[h].pc = "add" /\ rows[req[h].id] = "unborn"
      BY <2>4, FieldsAt DEF Add, RequestOK, CreateOK
    <3> QED BY <2>3, <2>4, <3>1 DEF Add
  <2>5. CASE RemoveRow(h, Referred)
    BY <2>3, <2>5 DEF RemoveRow
  <2>6. CASE SaveRow(h)
    <3>1. p = req[h].id /\ Edited(req[h]) /\ req[h].pc = "save"
      BY <2>3, <2>6 DEF SaveRow
    <3>2. req[h].todo \in Todos \ {<<>>} /\ EditOK(req[h], rows, active, excused)
      BY <3>1, FieldsAt DEF RequestOK
    <3>3. ~req[h].enabled
      BY <3>1, <3>2 DEF EditOK
    <3>4. Head(req[h].todo) = "on"
      BY <3>1, <3>3 DEF Edited
    <3> QED BY <3>1, <3>2, <3>4, TodoFacts
  <2> QED BY <2>2, <2>4, <2>5, <2>6
<1>2. ProfileInv /\ [AlertNext]_allVars => [A]_profileVars
  BY <1>1
<1> HIDE DEF A
<1>3. AlertSpec => [][A]_profileVars
  BY <1>2, ProfileInvariant, PTL DEF AlertSpec
<1> QED BY <1>3 DEF A, EnabledOnRequest

-----------------------------------------------------------------------------
(* Alerts: each is shown at most once per rule, project and day, the       *)
(* history tells the truth about it, and a threshold that is passed has    *)
(* its alert shown, recorded, about to be sent or noted as lost.           *)

Rule == [threshold : Nat, project : Projects, enabled : BOOLEAN, born : Nat]
Observation == [project : Projects, percent : Nat]
Event == [profile : Ids, rule : RuleIds, project : Projects, threshold : Nat, day : 1 .. Days,
          born : Nat]
SendStages == {"none", "check", "ask", "prompt", "deliver", "delivered", "refused"}

Call ==
  [pc : {"idle", "rules", "evaluate", "record"}, profile : Ids \union {NoId}, day : Nat,
   complete : BOOLEAN, rules : [RuleIds -> Rule], todo : Seq(Observation),
   events : SUBSET Event, event : Event \union {NoEvent}]

\* The tables and the dispatcher's call hold what they may.
TablesOK ==
  /\ requests \in Nat /\ day \in 1 .. Days
  /\ rules \in [Ids -> [RuleIds -> Rule]]
  /\ dedup \in [Ids -> [RuleIds -> [1 .. Days -> [previous : Nat, sent : BOOLEAN]]]]
  /\ sending \in [Senders -> SendStages]
  /\ shown \subseteq Event /\ late \subseteq Event
  /\ disp \in Call

CallOK(c) ==
  /\ c.pc # "idle" => c.profile \in Ids /\ c.day \in 1 .. day
  /\ c.pc = "record" => c.event \in Event
  /\ c.pc \in {"idle", "rules"} => c.events = {}

\* The dispatcher is in the adapter exactly while it has an event to record.
SendsEvent == disp.pc = "record" <=> sending[Dispatcher] # "none"

Same(e, f) == e.profile = f.profile /\ e.rule = f.rule /\ e.born = f.born /\ e.day = f.day

\* Events that the user or the history knows or that may still appear, events
\* of the current call, and events that are accounted for.
Told(e) == e \in shown \/ e \in late \/ \E n \in notes : n.event = e
Pending(e) == e \in disp.events \/ (disp.pc = "record" /\ e = disp.event)
Known(e) == e \in shown \/ (\E n \in notes : n.event = e) \/ Pending(e) \/ e \in lost

\* Rules and events are born by a request that was made.
BornBefore ==
  /\ \A p \in Ids, r \in RuleIds : rules[p][r].born <= requests
  /\ \A e \in Event : Told(e) \/ Pending(e) => e.born <= requests

\* An event of a rule that still exists has its deduplication row.
EventsNoted ==
  \A e \in Event : Told(e) \/ Pending(e) =>
    LET rule == rules[e.profile][e.rule] IN
    rule # NoRule /\ rule.born = e.born => dedup[e.profile][e.rule][e.day].sent

\* Where the send of an event is, the user has seen it or not.
SightOK(e) ==
  /\ sending[Dispatcher] = "delivered" => e \in shown
  /\ sending[Dispatcher] = "refused" => \A f \in shown \union late : Same(f, e) => e \in late
  /\ sending[Dispatcher] \notin {"delivered", "refused"} =>
       \A f \in shown \union late : ~Same(f, e)

\* The events of a call are new, each one; the one that is being sent is in
\* the user's sight as soon as it is delivered; and what may still appear is
\* like nothing that the user has seen.
EventsFresh ==
  /\ \A e \in disp.events, f \in Event : Told(f) => ~Same(e, f)
  /\ \A e, f \in disp.events : Same(e, f) => e = f
  /\ disp.pc = "record" =>
       /\ \A e \in disp.events : ~Same(e, disp.event)
       /\ \A n \in notes : n.event \in Event => ~Same(n.event, disp.event)
       /\ SightOK(disp.event)
LateFresh == \A e \in late, f \in shown \union late : Same(e, f) => e = f

\* Where there is no rule, there is no deduplication row, and none of a day to come.
CascadeInv ==
  \A p \in Ids, r \in RuleIds :
    /\ rules[p][r] = NoRule => dedup[p][r] = NewDedup
    /\ \A d \in 1 .. Days : d > day => dedup[p][r][d].previous = 0

\* The dispatcher works with the rules there are, or the difference is noted.
RulesCurrent ==
  disp.pc \in {"evaluate", "record"} =>
    \A r \in RuleIds :
      \/ rules[disp.profile][r] \in {NoRule, disp.rules[r]}
      \/ <<disp.profile, r, disp.day>> \in unseen

\* A threshold that is passed has used the crossing of the day up, and a
\* crossing that is used up belongs to an event that is accounted for.
CrossingsUsed ==
  \A p \in Ids, r \in RuleIds, d \in 1 .. Days :
    rules[p][r] # NoRule /\ dedup[p][r][d].previous >= rules[p][r].threshold =>
      dedup[p][r][d].sent \/ <<p, r, d>> \in unseen
UsesKnown ==
  \A p \in Ids, r \in RuleIds, d \in 1 .. Days :
    rules[p][r] # NoRule /\ dedup[p][r][d].sent =>
      \E e \in Event : /\ Known(e)
                       /\ e.profile = p /\ e.rule = r /\ e.day = d /\ e.born = rules[p][r].born

AlertInv ==
  /\ TablesOK /\ CallOK(disp) /\ SendsEvent
  /\ BornBefore /\ EventsNoted /\ EventsFresh /\ LateFresh /\ CascadeInv /\ RulesCurrent
  /\ CrossingsUsed /\ UsesKnown /\ HistoryTellsTruth
-----------------------------------------------------------------------------
LEMMA EmptyRows ==
  /\ NoRule \in Rule /\ NoRule.born = 0 /\ NoRule.threshold = 0
  /\ NewDedup \in [1 .. Days -> [previous : Nat, sent : BOOLEAN]]
  /\ \A d \in 1 .. Days : NewDedup[d].previous = 0 /\ ~NewDedup[d].sent
  BY DEF NoRule, Rule, Projects, NewDedup, NoDedup

LEMMA NoEventIsNone == NoEvent \notin Event
<1>1. NoEvent.day = 0
  BY DEF NoEvent
<1>2. \A e \in Event : e.day \in 1 .. Days
  BY DEF Event
<1> QED BY <1>1, <1>2, AlertAssumption DEF AlertAssumption

LEMMA IdleCall ==
  /\ IdleDispatcher \in Call /\ CallOK(IdleDispatcher)
  /\ IdleDispatcher.pc = "idle" /\ IdleDispatcher.events = {}
<1>1. [r \in RuleIds |-> NoRule] \in [RuleIds -> Rule]
  BY EmptyRows
<1>2. <<>> \in Seq(Observation)
  OBVIOUS
<1> QED BY <1>1, <1>2 DEF IdleDispatcher, Call, CallOK

\* Steps that leave rules, rows and the dispatcher's call alone.
LEMMA QuietKeeps ==
  ASSUME AlertInv, UNCHANGED <<day, rules, dedup, disp, shown, late, lost, unseen>>,
         requests' \in Nat, requests <= requests',
         sending' \in [Senders -> SendStages],
         sending'[Dispatcher] = "none" <=> sending[Dispatcher] = "none",
         \/ sending'[Dispatcher] = sending[Dispatcher]
         \/ /\ sending[Dispatcher] \notin {"delivered", "refused"}
            /\ sending'[Dispatcher] # "delivered",
         notes \subseteq notes', \A n \in notes' : n \in notes \/ n.event = NoEvent
  PROVE  AlertInv'
<1>1. /\ \A e \in Event : (Told(e)' <=> Told(e)) /\ (Known(e)' <=> Known(e))
      /\ \A e : Pending(e)' <=> Pending(e)
  BY NoEventIsNone DEF Told, Pending, Known
<1>2. /\ TablesOK' /\ CallOK(disp)' /\ SendsEvent' /\ CascadeInv' /\ RulesCurrent'
      /\ CrossingsUsed' /\ LateFresh'
  BY DEF AlertInv, TablesOK, CallOK, SendsEvent, CascadeInv, RulesCurrent, CrossingsUsed, LateFresh
<1>3. BornBefore'
  <2>1. \A p \in Ids, r \in RuleIds : rules[p][r].born \in Nat
    BY DEF AlertInv, TablesOK, Rule
  <2>2. \A e \in Event : e.born \in Nat
    BY DEF Event
  <2>3. requests \in Nat
    BY DEF AlertInv, TablesOK
  <2> QED BY <1>1, <2>1, <2>2, <2>3 DEF AlertInv, BornBefore
<1>4. EventsNoted' /\ UsesKnown'
  BY <1>1 DEF AlertInv, EventsNoted, UsesKnown
<1>5. EventsFresh'
  <2>1. disp.pc = "record" => SightOK(disp.event)'
    <3> SUFFICES ASSUME disp.pc = "record" PROVE SightOK(disp.event)'
      OBVIOUS
    <3>1. SightOK(disp.event)
      BY DEF AlertInv, EventsFresh
    <3> QED BY <3>1 DEF SightOK
  <2>2. \A n \in notes' : n.event \in Event => n \in notes
    BY NoEventIsNone
  <2> QED BY <1>1, <2>1, <2>2 DEF AlertInv, EventsFresh, Same
<1>6. HistoryTellsTruth'
  BY DEF AlertInv, HistoryTellsTruth
<1> QED BY <1>2, <1>3, <1>4, <1>5, <1>6 DEF AlertInv

\* The dispatcher's call ends, or is cut off.
LEMMA CallEnds ==
  ASSUME AlertInv, UNCHANGED <<day, rules, dedup, notes, shown, late, unseen, requests>>,
         sending' \in [Senders -> SendStages], sending'[Dispatcher] = "none",
         disp' = IdleDispatcher, lost' = lost \union (InHand \ shown)
  PROVE  AlertInv'
<1>1. /\ \A e : Told(e)' <=> Told(e)
      /\ \A e : ~Pending(e)'
      /\ \A e : Known(e) => Known(e)'
  BY IdleCall DEF Told, Pending, Known, InHand
<1>2. /\ TablesOK' /\ CallOK(disp)' /\ SendsEvent' /\ CascadeInv' /\ RulesCurrent'
      /\ CrossingsUsed' /\ LateFresh'
  BY IdleCall
     DEF AlertInv, TablesOK, CallOK, SendsEvent, CascadeInv, RulesCurrent, CrossingsUsed, LateFresh
<1>3. BornBefore'
  BY <1>1 DEF AlertInv, BornBefore
<1>4. EventsNoted' /\ UsesKnown'
  BY <1>1 DEF AlertInv, EventsNoted, UsesKnown
<1>5. EventsFresh'
  BY IdleCall DEF EventsFresh
<1>6. HistoryTellsTruth'
  BY DEF AlertInv, HistoryTellsTruth
<1> QED BY <1>2, <1>3, <1>4, <1>5, <1>6 DEF AlertInv
-----------------------------------------------------------------------------
\* The first rule of its identifier, or a new version of the old one.
LEMMA SaveRuleKeeps == ASSUME AlertInv, NEW h \in Handlers, SaveRule(h) PROVE AlertInv'
<1>1. PICK p \in Ids, r \in RuleIds, threshold \in Levels, project \in Projects, on \in BOOLEAN :
        /\ rules' = [rules EXCEPT ![p][r] = SavedRule(rules[p][r], threshold, project, on)]
        /\ unseen' = IF rules[p][r] # NoRule \/ disp.profile = p
                     THEN unseen \union EditedBy(p, r) ELSE unseen
  BY DEF SaveRule
<1> DEFINE new == SavedRule(rules[p][r], threshold, project, on)
<1>2. /\ UNCHANGED <<day, dedup, notes, disp, sending, shown, late, lost>>
      /\ requests' = requests + 1 /\ unseen \subseteq unseen'
  BY <1>1 DEF SaveRule
<1>3. /\ requests \in Nat /\ rules \in [Ids -> [RuleIds -> Rule]] /\ threshold \in Nat \ {0}
      /\ dedup \in [Ids -> [RuleIds -> [1 .. Days -> [previous : Nat, sent : BOOLEAN]]]]
  BY AlertAssumption DEF AlertInv, TablesOK, AlertAssumption
<1>4. /\ new \in Rule /\ new # NoRule /\ new.threshold = threshold
      /\ new.born = IF rules[p][r] = NoRule THEN requests + 1 ELSE rules[p][r].born
  <2>1. rules[p][r] \in Rule
    BY <1>3
  <2>2. rules[p][r].born \in Nat
    BY <2>1 DEF Rule
  <2> QED BY <1>3, <2>2, EmptyRows DEF SavedRule, Rule
<1> HIDE DEF new
<1>5. /\ rules' \in [Ids -> [RuleIds -> Rule]]
      /\ rules'[p][r] = new
      /\ \A q \in Ids, s \in RuleIds : q # p \/ s # r => rules'[q][s] = rules[q][s]
  BY <1>1, <1>3, <1>4 DEF new
<1>6. \A e : (Told(e)' <=> Told(e)) /\ (Pending(e)' <=> Pending(e)) /\ (Known(e)' <=> Known(e))
  BY <1>2 DEF Told, Pending, Known
<1>7. /\ TablesOK' /\ CallOK(disp)' /\ SendsEvent' /\ EventsFresh' /\ LateFresh'
      /\ HistoryTellsTruth'
  BY <1>2, <1>3, <1>5, <1>6
     DEF AlertInv, TablesOK, CallOK, SendsEvent, EventsFresh, SightOK, LateFresh, HistoryTellsTruth
<1>8. \A e \in Event : Told(e) \/ Pending(e) => e.born <= requests /\ e.born \in Nat
  BY DEF AlertInv, BornBefore, Event
<1>9. \A q \in Ids, s \in RuleIds : rules[q][s].born <= requests /\ rules[q][s].born \in Nat
  BY <1>3 DEF AlertInv, BornBefore, Rule
<1>10. BornBefore'
  <2>1. ASSUME NEW q \in Ids, NEW s \in RuleIds PROVE rules'[q][s].born <= requests'
    <3>1. rules'[q][s] = new \/ rules'[q][s] = rules[q][s]
      BY <1>5
    <3>2. rules[q][s].born <= requests + 1 /\ new.born <= requests + 1
      BY <1>3, <1>4, <1>9
    <3> QED BY <1>2, <3>1, <3>2
  <2>2. \A e \in Event : (Told(e) \/ Pending(e))' => e.born <= requests'
    BY <1>2, <1>3, <1>6, <1>8
  <2> QED BY <2>1, <2>2 DEF BornBefore
<1>11. EventsNoted'
  <2> SUFFICES ASSUME NEW e \in Event, Told(e) \/ Pending(e),
                      rules'[e.profile][e.rule] # NoRule, rules'[e.profile][e.rule].born = e.born
               PROVE  dedup[e.profile][e.rule][e.day].sent
    BY <1>2, <1>6 DEF EventsNoted
  <2>1. e.profile \in Ids /\ e.rule \in RuleIds
    BY DEF Event
  <2>2. CASE e.profile # p \/ e.rule # r
    BY <1>5, <2>1, <2>2 DEF AlertInv, EventsNoted
  <2>3. CASE e.profile = p /\ e.rule = r
    <3>1. e.born <= requests /\ e.born \in Nat /\ new.born = e.born
      BY <1>5, <1>8, <2>3
    <3>2. rules[p][r] # NoRule /\ rules[p][r].born = e.born
      BY <1>3, <1>4, <3>1
    <3> QED BY <2>3, <3>2 DEF AlertInv, EventsNoted
  <2> QED BY <2>2, <2>3
<1>12. CascadeInv'
  BY <1>2, <1>4, <1>5 DEF AlertInv, CascadeInv
<1>13. RulesCurrent'
  <2> SUFFICES ASSUME disp.pc \in {"evaluate", "record"}, NEW s \in RuleIds
               PROVE  \/ rules'[disp.profile][s] \in {NoRule, disp.rules[s]}
                      \/ <<disp.profile, s, disp.day>> \in unseen'
    BY <1>2 DEF RulesCurrent
  <2>1. disp.profile \in Ids /\ disp.day \in 1 .. day
    BY DEF AlertInv, CallOK
  <2> QED BY <1>1, <1>2, <1>5, <2>1 DEF AlertInv, RulesCurrent, EditedBy
<1>14. CrossingsUsed'
  <2> SUFFICES ASSUME NEW q \in Ids, NEW s \in RuleIds, NEW d \in 1 .. Days, rules'[q][s] # NoRule,
                      dedup[q][s][d].previous >= rules'[q][s].threshold
               PROVE  dedup[q][s][d].sent \/ <<q, s, d>> \in unseen'
    BY <1>2 DEF CrossingsUsed
  <2>1. CASE q # p \/ s # r
    BY <1>2, <1>5, <2>1 DEF AlertInv, CrossingsUsed
  <2>2. CASE q = p /\ s = r /\ rules[p][r] # NoRule
    <3>1. CASE d \in 1 .. day
      BY <1>1, <2>2, <3>1 DEF EditedBy
    <3>2. CASE d > day
      <4>1. dedup[q][s][d].previous = 0
        BY <3>2 DEF AlertInv, CascadeInv
      <4> QED BY <1>3, <1>4, <1>5, <2>2, <4>1
    <3>3. d \in 1 .. day \/ d > day
      BY DEF AlertInv, TablesOK
    <3> QED BY <3>1, <3>2, <3>3
  <2>3. CASE q = p /\ s = r /\ rules[p][r] = NoRule
    <3>1. dedup[q][s][d].previous = 0
      BY <2>3, EmptyRows DEF AlertInv, CascadeInv
    <3> QED BY <1>3, <1>4, <1>5, <2>3, <3>1
  <2> QED BY <2>1, <2>2, <2>3
<1>15. UsesKnown'
  <2> SUFFICES ASSUME NEW q \in Ids, NEW s \in RuleIds, NEW d \in 1 .. Days, rules'[q][s] # NoRule,
                      dedup[q][s][d].sent
               PROVE  \E e \in Event : /\ Known(e)
                                       /\ e.profile = q /\ e.rule = s /\ e.day = d
                                       /\ e.born = rules'[q][s].born
    BY <1>2, <1>6 DEF UsesKnown
  <2>1. rules[q][s] # NoRule
    <3>1. ASSUME rules[q][s] = NoRule PROVE FALSE
      <4>1. dedup[q][s] = NewDedup
        BY <3>1 DEF AlertInv, CascadeInv
      <4> QED BY <4>1, EmptyRows
    <3> QED BY <3>1
  <2>2. rules'[q][s].born = rules[q][s].born
    BY <1>4, <1>5, <2>1
  <2> QED BY <2>1, <2>2 DEF AlertInv, UsesKnown
<1> QED BY <1>7, <1>10, <1>11, <1>12, <1>13, <1>14, <1>15 DEF AlertInv

LEMMA DeleteRuleKeeps == ASSUME AlertInv, NEW h \in Handlers, DeleteRule(h) PROVE AlertInv'
<1>1. PICK p \in Ids, r \in RuleIds :
        rules' = [rules EXCEPT ![p][r] = NoRule] /\ dedup' = [dedup EXCEPT ![p][r] = NewDedup]
  BY DEF DeleteRule
<1>2. UNCHANGED <<day, notes, disp, sending, shown, late, lost, unseen>> /\ requests' = requests + 1
  BY DEF DeleteRule, outcomes
<1>3. /\ requests \in Nat /\ rules \in [Ids -> [RuleIds -> Rule]]
      /\ dedup \in [Ids -> [RuleIds -> [1 .. Days -> [previous : Nat, sent : BOOLEAN]]]]
  BY DEF AlertInv, TablesOK
<1>4. /\ rules' \in [Ids -> [RuleIds -> Rule]]
      /\ dedup' \in [Ids -> [RuleIds -> [1 .. Days -> [previous : Nat, sent : BOOLEAN]]]]
      /\ rules'[p][r] = NoRule /\ dedup'[p][r] = NewDedup
      /\ \A q \in Ids, s \in RuleIds : q # p \/ s # r =>
           rules'[q][s] = rules[q][s] /\ dedup'[q][s] = dedup[q][s]
  BY <1>1, <1>3, EmptyRows
<1>5. \A e : (Told(e)' <=> Told(e)) /\ (Pending(e)' <=> Pending(e)) /\ (Known(e)' <=> Known(e))
  BY <1>2 DEF Told, Pending, Known
<1>6. /\ TablesOK' /\ CallOK(disp)' /\ SendsEvent' /\ EventsFresh' /\ LateFresh'
      /\ HistoryTellsTruth'
  BY <1>2, <1>3, <1>4, <1>5
     DEF AlertInv, TablesOK, CallOK, SendsEvent, EventsFresh, SightOK, LateFresh, HistoryTellsTruth
<1>7. BornBefore'
  <2>1. \A q \in Ids, s \in RuleIds : rules[q][s].born \in Nat
    BY <1>3 DEF Rule
  <2>2. \A e \in Event : e.born \in Nat
    BY DEF Event
  <2>3. ASSUME NEW q \in Ids, NEW s \in RuleIds PROVE rules'[q][s].born <= requests'
    <3>1. rules'[q][s] = NoRule \/ rules'[q][s] = rules[q][s]
      BY <1>4
    <3>2. rules[q][s].born <= requests
      BY DEF AlertInv, BornBefore
    <3> QED BY <1>2, <1>3, <2>1, <3>1, <3>2, EmptyRows
  <2>4. \A e \in Event : (Told(e) \/ Pending(e))' => e.born <= requests'
    BY <1>2, <1>3, <1>5, <2>2 DEF AlertInv, BornBefore
  <2> QED BY <2>3, <2>4 DEF BornBefore
<1>8. EventsNoted'
  <2>1. \A e \in Event : e.profile \in Ids /\ e.rule \in RuleIds
    BY DEF Event
  <2> QED BY ZenonT(30), <1>4, <1>5, <2>1 DEF AlertInv, EventsNoted
<1>9. CascadeInv'
  <2> SUFFICES ASSUME NEW q \in Ids, NEW s \in RuleIds
               PROVE  /\ rules'[q][s] = NoRule => dedup'[q][s] = NewDedup
                      /\ \A d \in 1 .. Days : d > day => dedup'[q][s][d].previous = 0
    BY <1>2 DEF CascadeInv
  <2>1. CASE q = p /\ s = r
    BY <1>4, <2>1, EmptyRows
  <2>2. CASE q # p \/ s # r
    <3>1. rules'[q][s] = rules[q][s] /\ dedup'[q][s] = dedup[q][s]
      BY <1>4, <2>2
    <3> QED BY <3>1 DEF AlertInv, CascadeInv
  <2> QED BY <2>1, <2>2
<1>10. RulesCurrent'
  <2>1. disp.pc \in {"evaluate", "record"} => disp.profile \in Ids
    BY DEF AlertInv, CallOK
  <2> QED BY <1>2, <1>4, <2>1 DEF AlertInv, RulesCurrent
<1>11. CrossingsUsed'
  BY <1>2, <1>4 DEF AlertInv, CrossingsUsed
<1>12. UsesKnown'
  <2> SUFFICES ASSUME NEW q \in Ids, NEW s \in RuleIds, NEW d \in 1 .. Days, rules'[q][s] # NoRule,
                      dedup'[q][s][d].sent
               PROVE  \E e \in Event : /\ Known(e)
                                       /\ e.profile = q /\ e.rule = s /\ e.day = d
                                       /\ e.born = rules'[q][s].born
    BY <1>5 DEF UsesKnown
  <2>1. q # p \/ s # r
    BY <1>4
  <2>2. rules'[q][s] = rules[q][s] /\ dedup'[q][s] = dedup[q][s]
    BY <1>4, <2>1
  <2> QED BY <2>2 DEF AlertInv, UsesKnown
<1> QED BY <1>6, <1>7, <1>8, <1>9, <1>10, <1>11, <1>12 DEF AlertInv
-----------------------------------------------------------------------------
LEMMA CollectKeeps == ASSUME AlertInv, Collect PROVE AlertInv'
<1>1. PICK p \in Ids, all \in Levels \union {0}, project \in Levels \union {0}, complete \in BOOLEAN :
        /\ day' \in day .. Days
        /\ rows[p] = "enabled" /\ store[p] # NoKey
        /\ project <= all
        /\ history' = history \union {p}
        /\ disp' = [IdleDispatcher EXCEPT
                      !.pc = "rules", !.profile = p, !.day = day', !.complete = complete,
                      !.todo = << [project |-> "all", percent |-> all],
                                  [project |-> "project", percent |-> project] >>]
  BY Zenon DEF Collect
<1>2. UNCHANGED <<rules, dedup, notes, sending, shown, late, lost, unseen>> /\ requests' = requests + 1
  BY DEF Collect, outcomes
<1>3. /\ requests \in Nat /\ day \in 1 .. Days /\ day' \in 1 .. Days /\ day' \in Nat
      /\ day <= day'
  BY <1>1, AlertAssumption DEF AlertInv, TablesOK, AlertAssumption
<1>4. << [project |-> "all", percent |-> all],
         [project |-> "project", percent |-> project] >> \in Seq(Observation)
  BY AlertAssumption DEF Observation, Projects, AlertAssumption
<1>5. /\ disp'.pc = "rules" /\ disp'.profile = p /\ disp'.day = day' /\ disp'.events = {}
      /\ disp' \in Call
  BY <1>1, <1>3, <1>4, IdleCall DEF Call
<1>6. disp.pc # "record" /\ disp.events = {}
  BY DEF Collect, AlertInv, CallOK
<1>7. \A e : (Told(e)' <=> Told(e)) /\ (Pending(e)' <=> Pending(e)) /\ (Known(e)' <=> Known(e))
  BY <1>2, <1>5, <1>6 DEF Told, Pending, Known
<1>8. /\ TablesOK' /\ CallOK(disp)' /\ SendsEvent' /\ EventsFresh' /\ LateFresh' /\ RulesCurrent'
      /\ CrossingsUsed' /\ HistoryTellsTruth' /\ EventsNoted' /\ UsesKnown'
  BY <1>2, <1>3, <1>5, <1>6, <1>7
     DEF AlertInv, TablesOK, CallOK, SendsEvent, EventsFresh, LateFresh, RulesCurrent,
         CrossingsUsed, HistoryTellsTruth, EventsNoted, UsesKnown
<1>9. BornBefore'
  <2>1. \A q \in Ids, s \in RuleIds : rules[q][s].born \in Nat
    BY DEF AlertInv, TablesOK, Rule
  <2>2. \A e \in Event : e.born \in Nat
    BY DEF Event
  <2> QED BY <1>2, <1>3, <1>7, <2>1, <2>2 DEF AlertInv, BornBefore
<1>10. CascadeInv'
  <2>1. \A d \in 1 .. Days : d > day' => d > day
    BY <1>3
  <2> QED BY <1>2, <2>1 DEF AlertInv, CascadeInv
<1> QED BY <1>8, <1>9, <1>10 DEF AlertInv

LEMMA ListRulesKeeps == ASSUME AlertInv, ListRules PROVE AlertInv'
<1>1. disp' = [disp EXCEPT !.pc = "evaluate", !.rules = [r \in RuleIds |-> rules[disp.profile][r]]]
  BY DEF ListRules
<1>2. /\ UNCHANGED <<day, rules, dedup, notes, sending, shown, late, lost, unseen, requests>>
      /\ disp.pc = "rules" /\ disp.events = {}
  BY DEF ListRules, AlertInv, CallOK, profileVars, outcomes
<1>3. disp \in Call /\ disp.profile \in Ids /\ rules \in [Ids -> [RuleIds -> Rule]]
  BY <1>2 DEF AlertInv, TablesOK, CallOK
<1>4. [r \in RuleIds |-> rules[disp.profile][r]] \in [RuleIds -> Rule]
  BY <1>3
<1>5. /\ disp'.pc = "evaluate" /\ disp'.profile = disp.profile /\ disp'.day = disp.day
      /\ disp'.events = {} /\ disp' \in Call
      /\ \A r \in RuleIds : disp'.rules[r] = rules[disp.profile][r]
  BY <1>1, <1>2, <1>3, <1>4 DEF Call
<1>6. \A e : (Told(e)' <=> Told(e)) /\ (Pending(e)' <=> Pending(e)) /\ (Known(e)' <=> Known(e))
  BY <1>2, <1>5 DEF Told, Pending, Known
<1> QED BY <1>2, <1>5, <1>6
     DEF AlertInv, TablesOK, CallOK, SendsEvent, EventsFresh, LateFresh, CascadeInv, RulesCurrent,
         CrossingsUsed, UsesKnown, HistoryTellsTruth, EventsNoted, BornBefore

\* An event of the list is taken out to be sent.
LEMMA NotifyKeeps == ASSUME AlertInv, Notify PROVE AlertInv'
<1>1. PICK e \in disp.events :
        disp' = [disp EXCEPT !.pc = "record", !.event = e, !.events = disp.events \ {e}]
  BY DEF Notify
<1>2. /\ UNCHANGED <<day, rules, dedup, notes, shown, late, lost, unseen, requests>>
      /\ sending' = [sending EXCEPT ![Dispatcher] = "check"]
      /\ disp.pc = "evaluate" /\ sending[Dispatcher] = "none"
  BY DEF Notify, profileVars, outcomes
<1>3. disp \in Call /\ sending \in [Senders -> SendStages] /\ Dispatcher \in Senders
  BY DEF AlertInv, TablesOK, Senders
<1>4. disp.events \subseteq Event
  BY <1>3 DEF Call
<1>5. /\ disp'.pc = "record" /\ disp'.profile = disp.profile /\ disp'.day = disp.day
      /\ disp'.events = disp.events \ {e} /\ disp'.event = e /\ disp'.rules = disp.rules
      /\ disp' \in Call
  BY <1>1, <1>3, <1>4 DEF Call
<1>6. sending'[Dispatcher] = "check" /\ sending' \in [Senders -> SendStages]
  BY <1>2, <1>3 DEF SendStages
<1>7. \A f : (Told(f)' <=> Told(f)) /\ (Pending(f)' <=> Pending(f)) /\ (Known(f)' <=> Known(f))
  BY <1>2, <1>5 DEF Told, Pending, Known
<1>8. /\ TablesOK' /\ CallOK(disp)' /\ SendsEvent' /\ LateFresh' /\ CascadeInv' /\ RulesCurrent'
      /\ CrossingsUsed' /\ UsesKnown' /\ HistoryTellsTruth' /\ EventsNoted' /\ BornBefore'
  BY <1>2, <1>4, <1>5, <1>6, <1>7
     DEF AlertInv, TablesOK, CallOK, SendsEvent, LateFresh, CascadeInv, RulesCurrent,
         CrossingsUsed, UsesKnown, HistoryTellsTruth, EventsNoted, BornBefore
<1>9. EventsFresh'
  <2>1. /\ \A f \in disp.events, g \in Event : Told(g) => ~Same(f, g)
        /\ \A f, g \in disp.events : Same(f, g) => f = g
    BY DEF AlertInv, EventsFresh
  <2>2. \A f, g : Same(f, g) => Same(g, f)
    BY DEF Same
  <2>3. \A f \in disp'.events, g \in Event : Told(g)' => ~Same(f, g)
    BY <1>5, <1>7, <2>1
  <2>4. \A f, g \in disp'.events : Same(f, g) => f = g
    BY <1>5, <2>1
  <2>5. \A f \in disp'.events : ~Same(f, disp'.event)
    BY <1>5, <2>1
  <2>6. \A n \in notes' : n.event \in Event => ~Same(n.event, disp'.event)
    BY <1>2, <1>5, <2>1, <2>2 DEF Told
  <2>7. SightOK(disp.event)'
    <3>1. \A f \in shown \union late : ~Same(f, e)
      BY <2>1, <2>2 DEF Told, AlertInv, TablesOK
    <3> QED BY <1>2, <1>5, <1>6, <3>1 DEF SightOK, Same
  <2> QED BY <1>6, <2>3, <2>4, <2>5, <2>6, <2>7 DEF EventsFresh, Same
<1> QED BY <1>8, <1>9 DEF AlertInv
-----------------------------------------------------------------------------
LEMMA RecordKeeps == ASSUME AlertInv, Record PROVE AlertInv'
<1>1. /\ UNCHANGED <<day, rules, dedup, shown, late, unseen, requests>>
      /\ sending' = [sending EXCEPT ![Dispatcher] = "none"]
      /\ disp.pc = "record" /\ sending[Dispatcher] \in {"delivered", "refused"}
  BY DEF Record, profileVars
<1>2. disp \in Call /\ disp.event \in Event /\ Dispatcher \in Senders
  BY <1>1 DEF AlertInv, TablesOK, CallOK, Senders
<1>3. sending' \in [Senders -> SendStages] /\ sending'[Dispatcher] = "none"
  BY <1>1, <1>2 DEF SendStages, AlertInv, TablesOK
<1>4. CASE /\ disp' = IdleDispatcher /\ lost' = lost \union (InHand \ shown)
           /\ UNCHANGED notes
  BY <1>1, <1>3, <1>4, CallEnds
<1>5. CASE /\ notes' = notes \union {[profile |-> disp.profile, event |-> disp.event,
                                      status |-> StatusOf(Dispatcher)]}
           /\ disp' = [disp EXCEPT !.pc = "evaluate", !.event = NoEvent]
           /\ UNCHANGED lost
  <2>1. /\ disp'.pc = "evaluate" /\ disp'.profile = disp.profile /\ disp'.day = disp.day
        /\ disp'.events = disp.events /\ disp'.rules = disp.rules /\ disp' \in Call
    BY <1>2, <1>5 DEF Call
  <2>2. \A e : Told(e)' => Told(e) \/ e = disp.event
    BY <1>1, <1>5 DEF Told
  <2>3. \A e : Pending(e)' => Pending(e)
    BY <2>1 DEF Pending
  <2>4. Pending(disp.event)
    BY <1>1 DEF Pending
  <2>5. /\ TablesOK' /\ CallOK(disp)' /\ SendsEvent' /\ LateFresh' /\ CascadeInv' /\ RulesCurrent'
        /\ CrossingsUsed'
    BY <1>1, <1>3, <2>1
       DEF AlertInv, TablesOK, CallOK, SendsEvent, LateFresh, CascadeInv, RulesCurrent, CrossingsUsed
  <2>6. BornBefore' /\ EventsNoted'
    BY <1>1, <2>2, <2>3, <2>4 DEF AlertInv, BornBefore, EventsNoted
  <2>7. UsesKnown'
    <3>1. \A e : Known(e) => Known(e)'
      <4>1. shown' = shown /\ lost' = lost /\ notes \subseteq notes' /\ disp'.events = disp.events
        BY <1>1, <1>5, <2>1
      <4>2. \E n \in notes' : n.event = disp.event
        <5> DEFINE note == [profile |-> disp.profile, event |-> disp.event,
                            status |-> StatusOf(Dispatcher)]
        <5>1. note.event = disp.event
          OBVIOUS
        <5>2. note \in notes'
          BY <1>5
        <5> HIDE DEF note
        <5> QED BY <5>1, <5>2
      <4> QED BY <4>1, <4>2 DEF Known, Pending
    <3> QED BY <1>1, <3>1 DEF AlertInv, UsesKnown
  <2>8. EventsFresh'
    <3>1. \A e \in disp.events : ~Same(e, disp.event)
      BY <1>1 DEF AlertInv, EventsFresh
    <3>2. \A e \in disp'.events, f \in Event : Told(f)' => ~Same(e, f)
      BY <2>1, <2>2, <3>1 DEF AlertInv, EventsFresh
    <3>3. \A e, f \in disp'.events : Same(e, f) => e = f
      BY <2>1 DEF AlertInv, EventsFresh
    <3> QED BY <2>1, <3>2, <3>3 DEF EventsFresh, Same
  <2>9. HistoryTellsTruth'
    <3>1. StatusOf(Dispatcher) = "sent" <=> sending[Dispatcher] = "delivered"
      BY DEF StatusOf
    <3>2. \A f : Same(f, f)
      BY DEF Same
    <3>3. /\ sending[Dispatcher] = "delivered" => disp.event \in shown
          /\ disp.event \in shown => sending[Dispatcher] = "delivered" \/ disp.event \in late
      BY <1>1, <3>2 DEF AlertInv, EventsFresh, SightOK
    <3> QED BY <1>1, <1>5, <3>1, <3>3 DEF AlertInv, HistoryTellsTruth
  <2> QED BY <2>5, <2>6, <2>7, <2>8, <2>9 DEF AlertInv
<1> QED BY <1>4, <1>5 DEF Record

\* The event that is being sent is delivered, or its send is given up.
LEMMA SentKeeps ==
  ASSUME AlertInv, UNCHANGED <<requests, day, rules, dedup, notes, disp, lost, unseen>>,
         sending[Dispatcher] = "deliver",
         \/ /\ sending' = [sending EXCEPT ![Dispatcher] = "delivered"]
            /\ shown' = shown \union {disp.event} /\ late' = late
         \/ /\ sending' = [sending EXCEPT ![Dispatcher] = "refused"]
            /\ shown' = shown /\ late' = late \union {disp.event}
  PROVE  AlertInv'
<1>1. disp.pc = "record" /\ disp.event \in Event /\ Dispatcher \in Senders
  BY DEF AlertInv, SendsEvent, TablesOK, CallOK, Senders
<1>2. /\ sending' \in [Senders -> SendStages]
      /\ \/ sending'[Dispatcher] = "delivered" /\ shown' = shown \union {disp.event} /\ late' = late
         \/ sending'[Dispatcher] = "refused" /\ shown' = shown /\ late' = late \union {disp.event}
  BY <1>1 DEF SendStages, AlertInv, TablesOK
<1>3. /\ \A e : Told(e)' => Told(e) \/ e = disp.event
      /\ \A e : Pending(e)' <=> Pending(e)
      /\ \A e : Known(e) => Known(e)'
  BY <1>2 DEF Told, Pending, Known
<1>4. Pending(disp.event)
  BY <1>1 DEF Pending
<1>5. TablesOK' /\ CallOK(disp)' /\ SendsEvent' /\ CascadeInv' /\ RulesCurrent' /\ CrossingsUsed'
  BY <1>1, <1>2 DEF AlertInv, TablesOK, CallOK, SendsEvent, CascadeInv, RulesCurrent, CrossingsUsed
<1>6. BornBefore' /\ EventsNoted' /\ UsesKnown'
  BY <1>3, <1>4 DEF AlertInv, BornBefore, EventsNoted, UsesKnown
<1>7. /\ \A f \in shown \union late : ~Same(f, disp.event) /\ ~Same(disp.event, f)
      /\ \A e \in disp.events : ~Same(e, disp.event)
      /\ \A n \in notes : n.event \in Event => ~Same(n.event, disp.event)
  BY <1>1 DEF AlertInv, EventsFresh, SightOK, Same
<1>8. EventsFresh'
  <2>1. \A e \in disp.events, f \in Event : Told(f)' => ~Same(e, f)
    BY <1>3, <1>7 DEF AlertInv, EventsFresh
  <2>2. \A e, f \in disp.events : Same(e, f) => e = f
    BY DEF AlertInv, EventsFresh
  <2>3. SightOK(disp.event)'
    BY <1>2, <1>7 DEF SightOK
  <2> QED BY <1>7, <2>1, <2>2, <2>3 DEF EventsFresh, Same
<1>9. LateFresh'
  <2>1. \A e \in late, f \in shown \union late : Same(e, f) => e = f
    BY DEF AlertInv, LateFresh
  <2> QED BY <1>2, <1>7, <2>1 DEF LateFresh, Same
<1>10. HistoryTellsTruth'
  <2>1. \A n \in notes : n.event # disp.event
    BY <1>1, <1>7 DEF Same
  <2> QED BY <1>2, <2>1 DEF AlertInv, HistoryTellsTruth
<1> QED BY <1>5, <1>6, <1>8, <1>9, <1>10 DEF AlertInv

\* A notification appears after its send was given up.
LEMMA AppearKeeps == ASSUME AlertInv, NEW e \in late, Appear(e) PROVE AlertInv'
<1>1. /\ UNCHANGED <<requests, day, rules, dedup, notes, disp, sending, late, lost, unseen>>
      /\ shown' = shown \union {e}
  BY DEF Appear, profileVars
<1>2. /\ \A f : (Told(f)' <=> Told(f)) /\ (Pending(f)' <=> Pending(f))
      /\ \A f : Known(f) => Known(f)'
  BY <1>1 DEF Told, Pending, Known
<1>3. /\ TablesOK' /\ CallOK(disp)' /\ SendsEvent' /\ CascadeInv' /\ RulesCurrent'
      /\ CrossingsUsed' /\ BornBefore' /\ EventsNoted' /\ UsesKnown'
  BY <1>1, <1>2
     DEF AlertInv, TablesOK, CallOK, SendsEvent, CascadeInv, RulesCurrent, CrossingsUsed, BornBefore,
         EventsNoted, UsesKnown
<1>4. EventsFresh'
  <2>1. disp.pc = "record" => SightOK(disp.event)'
    BY <1>1 DEF AlertInv, EventsFresh, SightOK, Same
  <2> QED BY <1>1, <1>2, <2>1 DEF AlertInv, EventsFresh, Same
<1>5. LateFresh'
  BY <1>1 DEF AlertInv, LateFresh, Same
<1>6. HistoryTellsTruth'
  BY <1>1 DEF AlertInv, HistoryTellsTruth
<1> QED BY <1>3, <1>4, <1>5, <1>6 DEF AlertInv

\* One observation: what crosses its threshold is new today.
LEMMA EvaluateKeeps == ASSUME AlertInv, Evaluate PROVE AlertInv'
<1> DEFINE obs == Head(disp.todo)
           p   == disp.profile
           row(r, fresh) == [previous |-> obs.percent,
                             sent |-> dedup[p][r][disp.day].sent \/ r \in Crossing(obs, fresh)]
<1>1. PICK fresh \in {disp.complete, FALSE} :
        /\ dedup' = [dedup EXCEPT ![p] = [r \in RuleIds |->
             IF r \in Matching(obs)
             THEN [dedup[p][r] EXCEPT ![disp.day] = row(r, fresh)]
             ELSE dedup[p][r]]]
        /\ disp' = [disp EXCEPT !.events = {EventOf(obs, r) : r \in Crossing(obs, fresh)},
                                !.todo = Tail(disp.todo)]
        /\ unseen' = IF fresh THEN unseen
                     ELSE unseen \union {<<p, r, disp.day>> : r \in
                            {s \in Matching(obs) : disp.rules[s].threshold <= obs.percent}}
  BY Zenon DEF Evaluate
<1>2. /\ UNCHANGED <<day, rules, notes, sending, shown, late, lost, requests>>
      /\ disp.pc = "evaluate" /\ disp.events = {} /\ disp.todo # <<>>
      /\ \A r \in Matching(obs) : rules[p][r] # NoRule
  BY Zenon DEF Evaluate, profileVars
<1>3. /\ disp \in Call /\ p \in Ids /\ disp.day \in 1 .. day /\ disp.day \in 1 .. Days
      /\ rules \in [Ids -> [RuleIds -> Rule]]
      /\ dedup \in [Ids -> [RuleIds -> [1 .. Days -> [previous : Nat, sent : BOOLEAN]]]]
  <2>1. disp.day \in 1 .. day /\ day \in 1 .. Days
    BY <1>2 DEF AlertInv, TablesOK, CallOK
  <2>2. disp.day \in 1 .. Days
    BY <2>1, AlertAssumption DEF AlertAssumption
  <2> QED BY <1>2, <2>1, <2>2 DEF AlertInv, TablesOK, CallOK
<1>4. obs.percent \in Nat /\ obs.project \in Projects /\ Tail(disp.todo) \in Seq(Observation)
  <2>1. disp.todo \in Seq(Observation)
    BY <1>3 DEF Call
  <2>2. obs \in Observation /\ Tail(disp.todo) \in Seq(Observation)
    BY <1>2, <2>1
  <2> QED BY <2>2 DEF Observation
<1>5. Crossing(obs, fresh) \subseteq Matching(obs) /\ Matching(obs) \subseteq RuleIds
  BY DEF Crossing, Matching
<1>6. /\ disp.rules \in [RuleIds -> Rule]
      /\ \A r \in RuleIds : disp.rules[r].threshold \in Nat /\ rules[p][r].born \in Nat
  <2>1. disp.rules \in [RuleIds -> Rule]
    BY <1>3 DEF Call
  <2> QED BY <1>3, <2>1 DEF Rule
<1>7. \A r \in RuleIds :
        /\ EventOf(obs, r) \in Event
        /\ EventOf(obs, r).profile = p /\ EventOf(obs, r).rule = r /\ EventOf(obs, r).day = disp.day
        /\ EventOf(obs, r).born = rules[p][r].born
  BY <1>3, <1>4, <1>6 DEF EventOf, Event
<1>8. {EventOf(obs, r) : r \in Crossing(obs, fresh)} \subseteq Event
  BY <1>5, <1>7
<1>9. /\ disp'.pc = "evaluate" /\ disp'.profile = p /\ disp'.day = disp.day
      /\ disp'.rules = disp.rules /\ disp'.events = {EventOf(obs, r) : r \in Crossing(obs, fresh)}
      /\ disp' \in Call
  BY <1>1, <1>2, <1>3, <1>4, <1>8 DEF Call
<1>10. \A r \in RuleIds : row(r, fresh) \in [previous : Nat, sent : BOOLEAN]
  <2> SUFFICES ASSUME NEW r \in RuleIds PROVE row(r, fresh) \in [previous : Nat, sent : BOOLEAN]
    OBVIOUS
  <2>1. (dedup[p][r][disp.day].sent \/ r \in Crossing(obs, fresh)) \in BOOLEAN
    BY Zenon
  <2> QED BY <1>4, <2>1
<1>11. \A r \in RuleIds : row(r, fresh).previous = obs.percent
       /\ (row(r, fresh).sent <=> dedup[p][r][disp.day].sent \/ r \in Crossing(obs, fresh))
  BY Zenon
<1> HIDE DEF row
<1>12. /\ dedup' \in [Ids -> [RuleIds -> [1 .. Days -> [previous : Nat, sent : BOOLEAN]]]]
       /\ \A q \in Ids, r \in RuleIds, d \in 1 .. Days :
            dedup'[q][r][d] = IF q = p /\ r \in Matching(obs) /\ d = disp.day
                              THEN row(r, fresh) ELSE dedup[q][r][d]
       /\ \A q \in Ids, r \in RuleIds :
            q # p \/ r \notin Matching(obs) => dedup'[q][r] = dedup[q][r]
  <2> DEFINE new(r) == [dedup[p][r] EXCEPT ![disp.day] = row(r, fresh)]
  <2>1. ASSUME NEW r \in RuleIds
        PROVE  /\ new(r) \in [1 .. Days -> [previous : Nat, sent : BOOLEAN]]
               /\ \A d \in 1 .. Days :
                    new(r)[d] = IF d = disp.day THEN row(r, fresh) ELSE dedup[p][r][d]
    <3>1. dedup[p][r] \in [1 .. Days -> [previous : Nat, sent : BOOLEAN]]
      BY <1>3
    <3>2. row(r, fresh) \in [previous : Nat, sent : BOOLEAN]
      BY <1>10
    <3> QED BY <3>1, <3>2, Zenon
  <2>2. dedup' = [dedup EXCEPT ![p] = [r \in RuleIds |->
                    IF r \in Matching(obs) THEN new(r) ELSE dedup[p][r]]]
    BY <1>1
  <2> HIDE DEF new
  <2> QED BY <1>3, <2>1, <2>2
<1>13. \A q \in Ids, r \in RuleIds, d \in 1 .. Days : dedup[q][r][d].sent => dedup'[q][r][d].sent
  BY <1>11, <1>12
<1>14. unseen \subseteq unseen'
  BY <1>1
<1>15. \A e : Told(e)' <=> Told(e)
  BY <1>2 DEF Told
<1>16. \A e : Pending(e)' <=> \E r \in Crossing(obs, fresh) : e = EventOf(obs, r)
  BY <1>9 DEF Pending
<1>17. /\ TablesOK' /\ CallOK(disp)' /\ SendsEvent' /\ LateFresh' /\ CascadeInv' /\ RulesCurrent'
       /\ HistoryTellsTruth'
  <2>1. TablesOK'
    BY <1>2, <1>9, <1>12 DEF AlertInv, TablesOK
  <2>2. CallOK(disp)' /\ SendsEvent'
    BY <1>2, <1>3, <1>9 DEF AlertInv, CallOK, SendsEvent
  <2>3. CascadeInv'
    <3> SUFFICES ASSUME NEW q \in Ids, NEW r \in RuleIds
                 PROVE  /\ rules[q][r] = NoRule => dedup'[q][r] = NewDedup
                        /\ \A d \in 1 .. Days : d > day => dedup'[q][r][d].previous = 0
      BY <1>2 DEF CascadeInv
    <3>1. rules[q][r] = NoRule => dedup'[q][r] = NewDedup
      BY <1>2, <1>12 DEF AlertInv, CascadeInv
    <3>2. ASSUME NEW d \in 1 .. Days, d > day PROVE dedup'[q][r][d].previous = 0
      <4>1. d # disp.day
        <5>1. day \in Nat
          BY DEF AlertInv, TablesOK
        <5> QED BY <1>3, <3>2, <5>1
      <4>2. dedup'[q][r][d] = dedup[q][r][d]
        BY <1>12, <4>1
      <4> QED BY <3>2, <4>2 DEF AlertInv, CascadeInv
    <3> QED BY <3>1, <3>2
  <2>4. RulesCurrent'
    BY <1>2, <1>9, <1>14 DEF AlertInv, RulesCurrent
  <2>5. HistoryTellsTruth' /\ LateFresh'
    BY <1>2 DEF AlertInv, HistoryTellsTruth, LateFresh
  <2> QED BY <2>1, <2>2, <2>3, <2>4, <2>5
<1>18. BornBefore'
  <2>1. \A q \in Ids, r \in RuleIds : rules[q][r].born <= requests
    BY DEF AlertInv, BornBefore
  <2>2. \A e : Pending(e)' => e.born <= requests
    <3> SUFFICES ASSUME NEW r \in Crossing(obs, fresh) PROVE EventOf(obs, r).born <= requests
      BY <1>16
    <3>1. r \in RuleIds
      BY <1>5
    <3>2. EventOf(obs, r).born = rules[p][r].born
      BY <1>7, <3>1
    <3> QED BY <1>3, <2>1, <3>1, <3>2
  <2>3. \A e \in Event : Told(e) => e.born <= requests
    BY DEF AlertInv, BornBefore
  <2> QED BY <1>2, <1>15, <2>1, <2>2, <2>3 DEF BornBefore
<1>19. EventsNoted'
  <2> SUFFICES ASSUME NEW e \in Event, Told(e) \/ Pending(e)', rules[e.profile][e.rule] # NoRule,
                      rules[e.profile][e.rule].born = e.born
               PROVE  dedup'[e.profile][e.rule][e.day].sent
    BY <1>2, <1>15 DEF EventsNoted
  <2>1. e.profile \in Ids /\ e.rule \in RuleIds /\ e.day \in 1 .. Days
    BY DEF Event
  <2>2. CASE Told(e)
    BY <1>13, <2>1, <2>2 DEF AlertInv, EventsNoted
  <2>3. CASE Pending(e)'
    BY <1>3, <1>5, <1>7, <1>11, <1>12, <1>16, <2>3
  <2> QED BY <2>2, <2>3
<1>20. EventsFresh'
  <2>1. ASSUME NEW r \in Crossing(obs, fresh), NEW f \in Event, Told(f), Same(EventOf(obs, r), f)
        PROVE  FALSE
    <3>1. r \in RuleIds /\ rules[p][r] # NoRule /\ ~dedup[p][r][disp.day].sent
      BY <1>2, <1>5 DEF Crossing
    <3>2. f.profile = p /\ f.rule = r /\ f.day = disp.day /\ f.born = rules[p][r].born
      BY <1>7, <2>1, <3>1 DEF Same
    <3> QED BY <2>1, <3>1, <3>2 DEF AlertInv, EventsNoted
  <2>2. \A e \in disp'.events, f \in Event : Told(f)' => ~Same(e, f)
    BY <1>9, <1>15, <2>1
  <2>3. \A e, f \in disp'.events : Same(e, f) => e = f
    BY <1>5, <1>7, <1>9 DEF Same
  <2> QED BY <1>9, <2>2, <2>3 DEF EventsFresh, Same
<1>21. CrossingsUsed'
  <2> SUFFICES ASSUME NEW q \in Ids, NEW r \in RuleIds, NEW d \in 1 .. Days, rules[q][r] # NoRule,
                      dedup'[q][r][d].previous >= rules[q][r].threshold
               PROVE  dedup'[q][r][d].sent \/ <<q, r, d>> \in unseen'
    BY <1>2 DEF CrossingsUsed
  <2>1. CASE ~(q = p /\ r \in Matching(obs) /\ d = disp.day)
    BY <1>12, <1>14, <2>1 DEF AlertInv, CrossingsUsed
  <2>2. CASE q = p /\ r \in Matching(obs) /\ d = disp.day
    <3>1. dedup'[q][r][d] = row(r, fresh)
      BY <1>12, <2>2
    <3>2. CASE ~fresh /\ rules[p][r] = disp.rules[r]
      <4>1. obs.percent >= disp.rules[r].threshold
        BY <1>11, <2>2, <3>1, <3>2
      <4>2. disp.rules[r].threshold \in Nat
        BY <1>5, <1>6, <2>2
      <4>3. disp.rules[r].threshold <= obs.percent
        BY <1>4, <4>1, <4>2
      <4> QED BY <1>1, <2>2, <3>2, <4>3
    <3>3. CASE <<p, r, disp.day>> \in unseen
      BY <1>14, <2>2, <3>3
    <3>4. CASE fresh /\ rules[p][r] = disp.rules[r]
      <4>1. obs.percent >= disp.rules[r].threshold
        BY <1>11, <2>2, <3>1, <3>4
      <4>2. CASE dedup[p][r][disp.day].previous >= disp.rules[r].threshold
        BY <1>11, <1>14, <2>2, <3>1, <3>4, <4>2 DEF AlertInv, CrossingsUsed
      <4>3. CASE dedup[p][r][disp.day].previous < disp.rules[r].threshold
        BY <1>11, <2>2, <3>1, <3>4, <4>1, <4>3 DEF Crossing
      <4>4. dedup[p][r][disp.day].previous \in Nat /\ disp.rules[r].threshold \in Nat
        <5>1. r \in RuleIds
          BY <1>5, <2>2
        <5>2. dedup[p] \in [RuleIds -> [1 .. Days -> [previous : Nat, sent : BOOLEAN]]]
          BY <1>3, Zenon
        <5>3. dedup[p][r] \in [1 .. Days -> [previous : Nat, sent : BOOLEAN]]
          BY <5>1, <5>2, Zenon
        <5>4. dedup[p][r][disp.day] \in [previous : Nat, sent : BOOLEAN]
          BY <1>3, <5>3, Zenon
        <5> QED BY <1>6, <5>1, <5>4
      <4> QED BY <4>2, <4>3, <4>4
    <3>5. rules[p][r] = disp.rules[r] \/ <<p, r, disp.day>> \in unseen
      BY <1>2, <2>2 DEF AlertInv, RulesCurrent
    <3> QED BY <3>2, <3>3, <3>4, <3>5
  <2> QED BY <2>1, <2>2
<1>22. UsesKnown'
  <2> SUFFICES ASSUME NEW q \in Ids, NEW r \in RuleIds, NEW d \in 1 .. Days, rules[q][r] # NoRule,
                      dedup'[q][r][d].sent
               PROVE  \E e \in Event : /\ Known(e)'
                                       /\ e.profile = q /\ e.rule = r /\ e.day = d
                                       /\ e.born = rules[q][r].born
    BY <1>2 DEF UsesKnown
  <2>1. CASE dedup[q][r][d].sent
    <3>1. \A e : Known(e) => Known(e)'
      BY <1>2 DEF Known, Pending
    <3> QED BY <2>1, <3>1 DEF AlertInv, UsesKnown
  <2>2. CASE ~dedup[q][r][d].sent
    <3>1. q = p /\ d = disp.day /\ r \in Crossing(obs, fresh)
      BY <1>11, <1>12, <2>2
    <3>2. PICK e : e = EventOf(obs, r)
      OBVIOUS
    <3>3. Known(e)'
      BY <1>16, <3>1, <3>2 DEF Known
    <3>4. /\ e \in Event /\ e.profile = q /\ e.rule = r /\ e.day = d
          /\ e.born = rules[q][r].born
      BY <1>7, <3>1, <3>2
    <3> QED BY <3>3, <3>4
  <2> QED BY <2>1, <2>2
<1> QED BY <1>17, <1>18, <1>19, <1>20, <1>21, <1>22 DEF AlertInv
-----------------------------------------------------------------------------
\* Requests about profiles leave the alerts alone.
LEMMA RequestKeeps == ASSUME AlertInv, ProfileRequest PROVE AlertInv'
<1>1. UNCHANGED alertVars
  BY DEF ProfileRequest
<1>2. requests \in Nat
  BY DEF AlertInv, TablesOK
<1>3. requests' \in {requests, requests + 1}
  <2>1. PICK h \in Handlers : ProfileStep(h, Referred)
    BY DEF ProfileRequest
  <2> QED BY <2>1 DEF ProfileStep, Begin, BeginCreate, BeginUpdate, BeginReplace, BeginClear,
             BeginDelete, BeginActivate, BeginConfig, BeginSync, Unique, Put, Add, ReadRow, SaveRow,
             DropKey, RemoveRow, CleanUp, Publish, Client, SyncUsage, AnswerSync, DiscardSync
<1>4. requests' \in Nat /\ requests <= requests'
  BY <1>2, <1>3
<1>5. sending' \in [Senders -> SendStages]
  BY <1>1 DEF alertVars, AlertInv, TablesOK
<1> QED BY <1>1, <1>4, <1>5, QuietKeeps DEF alertVars, outcomes

\* Test notifications leave a line without an event in the history.
LEMMA TestKeeps ==
  ASSUME AlertInv, NEW h \in Handlers, BeginTest(h) \/ EndTest(h)
  PROVE  AlertInv'
<1>1. /\ UNCHANGED <<day, rules, dedup, disp, shown, late, lost, unseen>>
      /\ requests' \in {requests, requests + 1}
  BY DEF BeginTest, EndTest, Begin, outcomes
<1>2. requests \in Nat /\ sending \in [Senders -> SendStages] /\ h # Dispatcher
  BY AlertAssumption DEF AlertInv, TablesOK, AlertAssumption
<1>3. \/ sending' = [sending EXCEPT ![h] = "check"]
      \/ sending' = [sending EXCEPT ![h] = "none"]
  BY DEF BeginTest, EndTest
<1>4. sending' \in [Senders -> SendStages] /\ sending'[Dispatcher] = sending[Dispatcher]
  BY <1>2, <1>3 DEF SendStages, Senders
<1>5. notes \subseteq notes' /\ \A n \in notes' : n \in notes \/ n.event = NoEvent
  BY DEF BeginTest, EndTest
<1>6. requests' \in Nat /\ requests <= requests'
  BY <1>1, <1>2
<1> QED BY <1>1, <1>4, <1>5, <1>6, QuietKeeps

\* Steps of the adapter, by whatever thread.
LEMMA AdapterKeeps ==
  ASSUME AlertInv, NEW t \in Senders, SendCheck(t) \/ Ask(t) \/ Answer(t) \/ Deliver(t)
  PROVE  AlertInv'
<1>1. UNCHANGED <<requests, day, rules, dedup, notes, disp, lost, unseen>>
  BY DEF SendCheck, Ask, Answer, Deliver, profileVars, outcomes
<1>2. /\ requests \in Nat /\ sending \in [Senders -> SendStages]
      /\ Dispatcher \in Senders
  BY DEF AlertInv, TablesOK, Senders
<1>3. PICK stage \in {"ask", "prompt", "deliver", "delivered", "refused"} :
        sending' = [sending EXCEPT ![t] = stage]
  BY DEF SendCheck, Ask, Answer, Deliver
<1>4. /\ sending' \in [Senders -> SendStages]
      /\ sending[t] \notin {"none", "delivered", "refused"}
      /\ sending'[t] = stage
      /\ \A s \in Senders \ {t} : sending'[s] = sending[s]
  BY <1>2, <1>3 DEF SendStages, SendCheck, Ask, Answer, Deliver
<1>5. CASE t = Dispatcher /\ (shown' # shown \/ late' # late)
  <2>1. /\ sending[Dispatcher] = "deliver"
        /\ \/ /\ sending' = [sending EXCEPT ![Dispatcher] = "delivered"]
              /\ shown' = shown \union {disp.event} /\ late' = late
           \/ /\ sending' = [sending EXCEPT ![Dispatcher] = "refused"]
              /\ shown' = shown /\ late' = late \union {disp.event}
    BY <1>5 DEF SendCheck, Ask, Answer, Deliver, outcomes
  <2> QED BY <1>1, <2>1, SentKeeps
<1>6. CASE t = Dispatcher /\ shown' = shown /\ late' = late /\ stage = "delivered"
  <2>1. Deliver(t) /\ shown' = shown \union {disp.event} /\ sending[Dispatcher] = "deliver"
    BY <1>4, <1>6 DEF SendCheck, Ask, Answer, Deliver
  <2> QED BY <1>1, <1>3, <1>6, <2>1, SentKeeps
<1>7. CASE shown' = shown /\ late' = late /\ (t # Dispatcher \/ stage # "delivered")
  <2>1. /\ sending'[Dispatcher] = "none" <=> sending[Dispatcher] = "none"
        /\ \/ sending'[Dispatcher] = sending[Dispatcher]
           \/ /\ sending[Dispatcher] \notin {"delivered", "refused"}
              /\ sending'[Dispatcher] # "delivered"
    BY <1>2, <1>4, <1>7
  <2>2. requests' \in Nat /\ requests <= requests'
    BY <1>1, <1>2
  <2> QED BY <1>1, <1>4, <1>7, <2>1, <2>2, QuietKeeps
<1>8. t = Dispatcher \/ (shown' = shown /\ late' = late)
  BY DEF SendCheck, Ask, Answer, Deliver, outcomes
<1> QED BY <1>5, <1>6, <1>7, <1>8

\* What ends the dispatcher's call: its end, an error, the process.
LEMMA EndKeeps ==
  ASSUME AlertInv, EvaluateFails \/ Processed \/ Restart
  PROVE  AlertInv'
<1>1. UNCHANGED <<day, rules, dedup, notes, shown, late, unseen, requests>> /\ disp' = IdleDispatcher
  BY DEF EvaluateFails, Processed, Restart, ProfilesCrash, profileVars, outcomes
<1>2. sending \in [Senders -> SendStages] /\ Dispatcher \in Senders
  BY DEF AlertInv, TablesOK, Senders
<1>3. sending' \in [Senders -> SendStages] /\ sending'[Dispatcher] = "none"
  BY <1>2 DEF EvaluateFails, Processed, Restart, SendStages, AlertInv, SendsEvent
<1>4. lost' = lost \union (InHand \ shown)
  <2>1. EvaluateFails \/ Processed => InHand = {} /\ lost' = lost
    BY DEF EvaluateFails, Processed, InHand, outcomes
  <2> QED BY <2>1 DEF Restart
<1> QED BY <1>1, <1>3, <1>4, CallEnds

LEMMA AlertInit_Inv == AlertInit => AlertInv
<1> SUFFICES ASSUME AlertInit PROVE AlertInv
  OBVIOUS
<1>1. /\ requests = 0 /\ day = 1 /\ notes = {} /\ shown = {} /\ late = {} /\ disp = IdleDispatcher
      /\ dedup = [p \in Ids |-> [r \in RuleIds |-> NewDedup]]
      /\ sending = [t \in Senders |-> "none"]
      /\ rules \in [Ids -> [RuleIds -> {NoRule, [NoRule EXCEPT !.threshold = 1, !.enabled = TRUE]}]]
  BY DEF AlertInit, ProfilesInit
<1>2. /\ [NoRule EXCEPT !.threshold = 1, !.enabled = TRUE] \in Rule
      /\ [NoRule EXCEPT !.threshold = 1, !.enabled = TRUE].born = 0
      /\ [NoRule EXCEPT !.threshold = 1, !.enabled = TRUE].threshold = 1
  BY DEF NoRule, Rule, Projects
<1>3. /\ rules \in [Ids -> [RuleIds -> Rule]]
      /\ \A p \in Ids, r \in RuleIds :
           rules[p][r].born = 0 /\ (rules[p][r] # NoRule => rules[p][r].threshold = 1)
  <2> DEFINE T == {NoRule, [NoRule EXCEPT !.threshold = 1, !.enabled = TRUE]}
  <2>1. \A x \in T : x \in Rule /\ x.born = 0 /\ (x # NoRule => x.threshold = 1)
    BY <1>2, EmptyRows
  <2>2. rules \in [Ids -> [RuleIds -> T]]
    BY <1>1
  <2> HIDE DEF T
  <2> QED BY <2>1, <2>2
<1>4. /\ dedup \in [Ids -> [RuleIds -> [1 .. Days -> [previous : Nat, sent : BOOLEAN]]]]
      /\ \A p \in Ids, r \in RuleIds : dedup[p][r] = NewDedup
  BY <1>1, EmptyRows
<1>5. \A e : ~Told(e) /\ ~Pending(e)
  BY <1>1, IdleCall DEF Told, Pending
<1>6. TablesOK /\ CallOK(disp) /\ SendsEvent /\ CascadeInv /\ RulesCurrent
  BY <1>1, <1>3, <1>4, IdleCall, EmptyRows, AlertAssumption
     DEF TablesOK, CallOK, SendsEvent, CascadeInv, RulesCurrent, SendStages, Senders, AlertAssumption
<1>7. BornBefore /\ EventsNoted /\ EventsFresh /\ LateFresh /\ UsesKnown /\ HistoryTellsTruth
  BY <1>1, <1>3, <1>4, <1>5, IdleCall, EmptyRows
     DEF BornBefore, EventsNoted, EventsFresh, LateFresh, UsesKnown, HistoryTellsTruth
<1>8. CrossingsUsed
  <2> SUFFICES ASSUME NEW p \in Ids, NEW r \in RuleIds, NEW d \in 1 .. Days, rules[p][r] # NoRule,
                      dedup[p][r][d].previous >= rules[p][r].threshold
               PROVE  FALSE
    BY DEF CrossingsUsed
  <2>1. rules[p][r].threshold = 1
    BY <1>3
  <2>2. dedup[p][r][d].previous = 0
    BY <1>4, EmptyRows
  <2> QED BY <2>1, <2>2
<1> QED BY <1>6, <1>7, <1>8 DEF AlertInv

LEMMA AlertNext_Inv == AlertInv /\ [AlertNext]_allVars => AlertInv'
<1> SUFFICES ASSUME AlertInv, [AlertNext]_allVars PROVE AlertInv'
  OBVIOUS
<1>1. CASE ProfileRequest
  BY <1>1, RequestKeeps
<1>2. ASSUME NEW h \in Handlers, SaveRule(h) \/ DeleteRule(h) \/ BeginTest(h) \/ EndTest(h)
      PROVE  AlertInv'
  BY <1>2, SaveRuleKeeps, DeleteRuleKeeps, TestKeeps
<1>3. CASE Collect
  BY <1>3, CollectKeeps
<1>4. CASE ListRules
  BY <1>4, ListRulesKeeps
<1>5. CASE Evaluate
  BY <1>5, EvaluateKeeps
<1>6. CASE Notify
  BY <1>6, NotifyKeeps
<1>7. CASE Record
  BY <1>7, RecordKeeps
<1>8. CASE EvaluateFails \/ Processed \/ Restart
  BY <1>8, EndKeeps
<1>9. ASSUME NEW t \in Senders, SendCheck(t) \/ Ask(t) \/ Answer(t) \/ Deliver(t)
      PROVE  AlertInv'
  BY <1>9, AdapterKeeps
<1>10. ASSUME NEW e \in late, Appear(e)
      PROVE  AlertInv'
  BY <1>10, AppearKeeps
<1>11. CASE UNCHANGED allVars
  <2>1. UNCHANGED <<day, rules, dedup, disp, shown, late, lost, unseen, sending, notes, requests>>
    BY <1>11 DEF allVars, alertVars, profileVars, outcomes
  <2>2. requests \in Nat /\ sending \in [Senders -> SendStages]
    BY DEF AlertInv, TablesOK
  <2>3. requests <= requests'
    BY <2>1, <2>2
  <2> QED BY <2>1, <2>2, <2>3, QuietKeeps
<1> QED BY <1>1, <1>2, <1>3, <1>4, <1>5, <1>6, <1>7, <1>8, <1>9, <1>10, <1>11 DEF AlertNext

\* The inductive invariant of the rules, their rows and the dispatcher.
THEOREM AlertInvariant == AlertSpec => []AlertInv
  BY AlertInit_Inv, AlertNext_Inv, PTL DEF AlertSpec

\* A rule whose threshold is passed has its alert: the user has seen it, or the
\* history tells what became of it, or it is about to be sent; unless the call
\* was cut off before it sent it, or a stale or partial observation used the
\* crossing up, or the rule was edited that day.
THEOREM PassedThresholdsAlert == AlertSpec => []CrossingsAlerted
<1>1. AlertInv => CrossingsAlerted
  <2> SUFFICES ASSUME AlertInv, NEW p \in Ids, NEW r \in RuleIds, NEW d \in 1 .. Days,
                      rules[p][r] # NoRule, dedup[p][r][d].previous >= rules[p][r].threshold,
                      <<p, r, d>> \notin unseen
               PROVE  \E e \in shown \union {n.event : n \in notes} \union InHand \union lost :
                        e.profile = p /\ e.rule = r /\ e.day = d /\ e.born = rules[p][r].born
    BY DEF CrossingsAlerted
  <2>1. dedup[p][r][d].sent
    BY DEF AlertInv, CrossingsUsed
  <2>2. PICK e \in Event : /\ Known(e)
                          /\ e.profile = p /\ e.rule = r /\ e.day = d /\ e.born = rules[p][r].born
    BY <2>1 DEF AlertInv, UsesKnown
  <2>3. e \in shown \union {n.event : n \in notes} \union InHand \union lost
    BY <2>2 DEF Known, Pending, InHand
  <2> QED BY <2>2, <2>3
<1> QED BY <1>1, AlertInvariant, PTL

\* The notification history calls an alert sent only if it was shown, and an
\* alert that was shown it calls sent, unless its send had been given up.
THEOREM HistoryIsTrue == AlertSpec => []HistoryTellsTruth
  BY AlertInvariant, PTL DEF AlertInv

\* The user sees at most one alert of a rule, a project and a day, over edits of
\* the rule, restarts, totals that fall and rise again and late notifications.
THEOREM AlertsNeverRepeat == AlertSpec => OneAlertPerRuleDay
<1> DEFINE A == \A e \in {disp.event} \union late : Shows(e) =>
                  \A f \in shown : <<f.profile, f.rule, f.born, f.project, f.day>> #
                                   <<e.profile, e.rule, e.born, e.project, e.day>>
<1>1. AlertInv => A
  <2> SUFFICES ASSUME AlertInv, NEW e \in {disp.event} \union late, Shows(e), NEW f \in shown
               PROVE  <<f.profile, f.rule, f.born, f.project, f.day>> #
                      <<e.profile, e.rule, e.born, e.project, e.day>>
    OBVIOUS
  <2>1. CASE e = disp.event /\ Deliver(Dispatcher)
    <3>1. sending[Dispatcher] = "deliver" /\ disp.pc = "record"
      BY <2>1 DEF Deliver, AlertInv, SendsEvent
    <3>2. ~Same(f, disp.event)
      BY <3>1 DEF AlertInv, EventsFresh, SightOK
    <3> QED BY <2>1, <3>2 DEF Same
  <2>2. CASE Appear(e)
    <3>1. e \in late /\ e \notin shown
      BY <2>2 DEF Appear
    <3>2. ~Same(e, f)
      BY <3>1 DEF AlertInv, LateFresh
    <3> QED BY <3>2 DEF Same
  <2> QED BY <2>1, <2>2 DEF Shows
<1>2. AlertInv => [A]_allVars
  BY <1>1
<1> HIDE DEF A
<1>3. AlertSpec => [][A]_allVars
  BY <1>2, AlertInvariant, PTL
<1> QED BY <1>3 DEF A, OneAlertPerRuleDay
=============================================================================

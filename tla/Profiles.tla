------------------------------ MODULE Profiles ------------------------------
(***************************************************************************)
(* Profiles and their credentials (runtime.py, profiles/, credentials.py). *)
(* HTTP threads create, edit, activate, sync and delete profiles.  Every   *)
(* database transaction, credential-store call and section under _lock is  *)
(* one step; nothing holds a lock over a whole request.                    *)
(***************************************************************************)
EXTENDS Naturals, Sequences

CONSTANTS
  Ids,          \* profile identifiers, random and never used twice
  First,        \* the profiles that exist at the start
  Keys,         \* Admin API keys
  Handlers,     \* HTTP threads
  MaxRequests   \* bound: requests ever made

NoId  == "no profile"
NoKey == "no key"

ASSUME ProfilesAssumption ==
  /\ {NoId, NoKey} \intersect (Ids \union Keys) = {}
  /\ First \subseteq Ids
  /\ MaxRequests \in Nat

VARIABLES
  rows,         \* table profiles
  store,        \* the operating system's credential store, by account
  history,      \* profiles with runs and usage rows
  active,       \* active_profile_id of the published configuration
  generation,   \* _profile_generation
  req,          \* the request each handler works on
  requests,     \* bound: requests so far
  excused       \* history variable: profiles and keys that two overlapping
                \* requests, a crash or a failing store may have damaged

profileVars == <<rows, store, history, active, generation, req, requests, excused>>

IdleReq == [op |-> "none", pc |-> "idle", id |-> NoId, key |-> NoKey, todo |-> <<>>,
            enabled |-> FALSE, generation |-> 0, switched |-> FALSE]

Live(p) == rows[p] \in {"enabled", "disabled"}

\* What earlier runs of the program left: enabled profiles, each with a key
\* of its own, of which one may be active.
ProfilesInit ==
  /\ rows = [p \in Ids |-> IF p \in First THEN "enabled" ELSE "unborn"]
  /\ store \in [Ids -> Keys \union {NoKey}]
  /\ \A p \in Ids : store[p] = NoKey <=> p \notin First
  /\ \A p, q \in First : p # q => store[p] # store[q]
  /\ history = {}
  /\ active \in First \union {NoId}
  /\ generation = 0
  /\ req = [h \in Handlers |-> IdleReq]
  /\ requests = 0
  /\ excused = {}

-----------------------------------------------------------------------------
(* Requests                                                                *)

\* replace_config reads and publishes under _lock.
LockFree(h) == \A g \in Handlers \ {h} : req[g].op # "config"

\* What a new request of h touches while another one is under way.
Contended(h, p, k) ==
  {x \in {p, k} \ {NoId, NoKey} :
     \E g \in Handlers \ {h} : /\ req[g].op \notin {"sync", "test"}
                               /\ x \in {req[g].id, req[g].key}}

Begin(h, op, pc, p, k, todo) ==
  /\ req[h] = IdleReq
  /\ requests < MaxRequests
  /\ requests' = requests + 1
  /\ req' = [req EXCEPT ![h] = [IdleReq EXCEPT !.op = op, !.pc = pc, !.id = p, !.key = k,
                                               !.todo = todo, !.generation = generation]]
  /\ excused' = IF op \in {"sync", "test"} THEN excused ELSE excused \union Contended(h, p, k)
  /\ UNCHANGED <<rows, store, history, active, generation>>

Goto(h, pc) == req' = [req EXCEPT ![h].pc = pc]
Respond(h)  == req' = [req EXCEPT ![h] = IdleReq]

\* A failure: create_profile takes its credential back, the others just end.
Fail(h) == IF req[h].op = "create" THEN Goto(h, "cleanup") ELSE Respond(h)

BeginCreate(h) ==
  \E p \in Ids, k \in Keys :
    /\ rows[p] = "unborn" /\ \A g \in Handlers : req[g].id # p
    /\ Begin(h, "create", "check", p, k, <<"keep">>)

\* Rename, enable and disable: each one reads the row and writes it back.
BeginUpdate(h) ==
  \E p \in Ids, todo \in {<<"keep">>, <<"on">>, <<"off">>, <<"keep", "on">>, <<"keep", "off">>} :
    Live(p) /\ Begin(h, "update", "read", p, NoKey, todo)

BeginReplace(h) ==
  \E p \in Ids, k \in Keys :
    Live(p) /\ Begin(h, "replace", "check", p, k, <<"keep", "keep", "keep">>)

BeginClear(h) ==
  \E p \in Ids : Live(p) /\ Begin(h, "clear", "drop", p, NoKey, <<"off">>)

\* Mutant: the active profile may be deleted.
BeginDelete_Any(h) ==
  \E p \in Ids : LockFree(h) /\ Begin(h, "delete", "remove", p, NoKey, <<>>)

BeginDelete(h) ==
  \E p \in Ids :
    /\ LockFree(h) /\ active # p
    /\ Begin(h, "delete", "remove", p, NoKey, <<>>)

BeginActivate(h) ==
  \E p \in Ids : rows[p] = "enabled" /\ Begin(h, "activate", "publish", p, NoKey, <<>>)

\* replace_config: a new active profile must be enabled.
BeginConfig(h) ==
  \E p \in {active, NoId} \union {q \in Ids : rows[q] = "enabled"} :
    /\ LockFree(h)
    /\ Begin(h, "config", "publish", p, NoKey, <<>>)

\* _active_profile_snapshot
BeginSync(h) ==
  /\ LockFree(h)
  /\ active # NoId /\ rows[active] = "enabled"
  /\ Begin(h, "sync", "client", active, NoKey, <<>>)

-----------------------------------------------------------------------------
(* Credentials and rows                                                    *)

\* The credential stores of the three platforms: put, get and delete.
Stored(p, k) == [store EXCEPT ![p] = k]
Secret(p)    == store[p]
Erased(p)    == [store EXCEPT ![p] = NoKey]

\* Mutant: only enabled profiles are compared.
Unique_Enabled(h) ==
  LET r == req[h]
      Owners == {p \in Ids \ {r.id} : rows[p] = "enabled" /\ Secret(p) = r.key}
  IN /\ r.pc = "check"
     /\ \/ Owners = {} /\ Goto(h, "put") /\ UNCHANGED excused
        \/ Owners # {} /\ Respond(h) /\ UNCHANGED excused
        \/ Owners # {} /\ Goto(h, "put") /\ excused' = excused \union {r.key}
     /\ UNCHANGED <<rows, store, history, active, generation, requests>>

\* _assert_unique_credential: a credential that cannot be read is passed over.
Unique(h) ==
  LET r == req[h]
      Owners == {p \in Ids \ {r.id} : Live(p) /\ Secret(p) = r.key}
  IN /\ r.pc = "check"
     /\ \/ Owners = {} /\ Goto(h, "put") /\ UNCHANGED excused
        \/ Owners # {} /\ Respond(h) /\ UNCHANGED excused
        \/ Owners # {} /\ Goto(h, "put") /\ excused' = excused \union {r.key}
     /\ UNCHANGED <<rows, store, history, active, generation, requests>>

\* The store may be unavailable, which ends the request (503).
Put(h) ==
  /\ req[h].pc = "put"
  /\ \/ /\ store' = Stored(req[h].id, req[h].key)
        /\ Goto(h, IF req[h].op = "create" THEN "add" ELSE "read")
     \/ Respond(h) /\ UNCHANGED store
  /\ UNCHANGED <<rows, history, active, generation, requests, excused>>

Add(h) ==
  /\ req[h].pc = "add"
  /\ \/ rows' = [rows EXCEPT ![req[h].id] = "enabled"] /\ Goto(h, "read")
     \/ Fail(h) /\ UNCHANGED rows
  /\ UNCHANGED <<store, history, active, generation, requests, excused>>

ReadRow(h) ==
  /\ req[h].pc = "read"
  /\ IF Live(req[h].id)
     THEN req' = [req EXCEPT ![h].pc = "save", ![h].enabled = rows[req[h].id] = "enabled"]
     ELSE Fail(h)
  /\ UNCHANGED <<rows, store, history, active, generation, requests, excused>>

\* Mutant: a validated credential enables its profile.
Edited_Validates(r) ==
  \/ Head(r.todo) = "on" \/ r.op = "replace"
  \/ Head(r.todo) = "keep" /\ r.enabled

\* The whole row is written, enabled included.
Edited(r) == Head(r.todo) = "on" \/ (Head(r.todo) = "keep" /\ r.enabled)

SaveRow(h) ==
  LET r == req[h]
      rest == Tail(r.todo)
  IN /\ r.pc = "save"
     /\ \/ /\ Live(r.id)
           /\ rows' = [rows EXCEPT ![r.id] = IF Edited(r) THEN "enabled" ELSE "disabled"]
           /\ IF rest = <<>> THEN Respond(h)
              ELSE req' = [req EXCEPT ![h].pc = "read", ![h].todo = rest]
        \/ Fail(h) /\ UNCHANGED rows
     /\ UNCHANGED <<store, history, active, generation, requests, excused>>

\* delete_profile_credential takes the credential first; the store may answer
\* that there was nothing to delete although there was.
DropKey(h) ==
  /\ req[h].pc = "drop"
  /\ \/ store' \in {store, Erased(req[h].id)} /\ Goto(h, "read")
     \/ Respond(h) /\ UNCHANGED store
  /\ UNCHANGED <<rows, history, active, generation, requests, excused>>

\* Mutant: the credential of a deleted profile is forgotten.
RemoveRow_KeepsKey(h, referred) ==
  LET p == req[h].id IN
  /\ req[h].pc = "remove"
  /\ IF Live(p) /\ p \notin referred THEN rows' = [rows EXCEPT ![p] = "gone"]
                                     ELSE UNCHANGED rows
  /\ Respond(h)
  /\ UNCHANGED <<store, history, active, generation, requests, excused>>

\* Rows that refer to the profile restrict its deletion.
RemoveRow(h, referred) ==
  LET p == req[h].id IN
  /\ req[h].pc = "remove"
  /\ IF Live(p) /\ p \notin referred
     THEN rows' = [rows EXCEPT ![p] = "gone"] /\ Goto(h, "cleanup")
     ELSE Respond(h) /\ UNCHANGED rows
  /\ UNCHANGED <<store, history, active, generation, requests, excused>>

\* The credential is deleted as well as it can be: errors are ignored.
CleanUp(h) ==
  /\ req[h].pc = "cleanup"
  /\ \/ store' = Erased(req[h].id) /\ UNCHANGED excused
     \/ UNCHANGED store /\ excused' = excused \union {req[h].id}
  /\ Respond(h)
  /\ UNCHANGED <<rows, history, active, generation, requests>>

-----------------------------------------------------------------------------
(* The active profile                                                      *)

\* The configuration is saved, then published; a failed save changes nothing.
Publish(h) ==
  LET r == req[h] IN
  /\ r.pc = "publish"
  /\ LockFree(h)
  /\ \/ /\ active' = r.id
        /\ generation' = IF r.op = "activate" \/ active # r.id THEN generation + 1 ELSE generation
        /\ req' = [g \in Handlers |->
                     IF g = h THEN IdleReq
                     ELSE IF req[g].op = "sync" THEN [req[g] EXCEPT !.switched = @ \/ active # r.id]
                     ELSE req[g]]
     \/ Respond(h) /\ UNCHANGED <<active, generation>>
  /\ UNCHANGED <<rows, store, history, requests, excused>>

\* _client_for_profile
Client(h) ==
  /\ req[h].pc = "client"
  /\ \/ /\ Live(req[h].id) /\ Secret(req[h].id) # NoKey
        /\ req' = [req EXCEPT ![h].pc = "sync", ![h].key = Secret(req[h].id)]
     \/ Respond(h)
  /\ UNCHANGED <<rows, store, history, active, generation, requests, excused>>

\* UsageSyncService.sync, whose rows refer to the profile.
SyncUsage(h) ==
  /\ req[h].pc = "sync"
  /\ \/ Live(req[h].id) /\ history' = history \union {req[h].id} /\ Goto(h, "answer")
     \/ Respond(h) /\ UNCHANGED history
  /\ UNCHANGED <<rows, store, active, generation, requests, excused>>

\* Mutant: the generation is not compared.
SnapshotHolds_ById(h) == active = req[h].id

\* _assert_profile_snapshot
SnapshotHolds(h) == active = req[h].id /\ generation = req[h].generation

AnswerSync(h) ==
  /\ req[h].pc = "answer" /\ LockFree(h) /\ SnapshotHolds(h)
  /\ Respond(h)
  /\ UNCHANGED <<rows, store, history, active, generation, requests, excused>>

\* active_profile_changed: "discard this result".
DiscardSync(h) ==
  /\ req[h].pc = "answer" /\ LockFree(h) /\ ~SnapshotHolds(h)
  /\ Respond(h)
  /\ UNCHANGED <<rows, store, history, active, generation, requests, excused>>

\* What requests of a dying process leave half done stays so.
ProfilesCrash ==
  /\ req' = [h \in Handlers |-> IdleReq]
  /\ generation' = 0
  /\ excused' = excused \union ({req[h].id : h \in Handlers} \ {NoId})
  /\ UNCHANGED <<rows, store, history, active, requests>>

ProfileStep(h, referred) ==
  \/ BeginCreate(h) \/ BeginUpdate(h) \/ BeginReplace(h) \/ BeginClear(h)
  \/ BeginDelete(h) \/ BeginActivate(h) \/ BeginConfig(h) \/ BeginSync(h)
  \/ Unique(h) \/ Put(h) \/ Add(h) \/ ReadRow(h) \/ SaveRow(h) \/ DropKey(h)
  \/ RemoveRow(h, referred) \/ CleanUp(h) \/ Publish(h) \/ Client(h)
  \/ SyncUsage(h) \/ AnswerSync(h) \/ DiscardSync(h)

ProfilesNext == ProfilesCrash \/ \E h \in Handlers : ProfileStep(h, history)

ProfilesSpec == ProfilesInit /\ [][ProfilesNext]_profileVars

-----------------------------------------------------------------------------
(* Properties                                                              *)

Request ==
  [op : {"none", "create", "update", "replace", "clear", "delete", "activate", "config", "sync",
         "test"},
   pc : {"idle", "check", "put", "add", "read", "save", "drop", "remove", "cleanup", "publish",
         "client", "sync", "answer", "sending"},
   id : Ids \union {NoId}, key : Keys \union {NoKey}, todo : Seq({"keep", "on", "off"}),
   enabled : BOOLEAN, generation : Nat, switched : BOOLEAN]

\* The tables, the credential store and the requests hold what they may.
ProfilesTypeOK ==
  /\ rows \in [Ids -> {"unborn", "enabled", "disabled", "gone"}]
  /\ store \in [Ids -> Keys \union {NoKey}]
  /\ history \subseteq Ids
  /\ active \in Ids \union {NoId}
  /\ generation \in Nat
  /\ req \in [Handlers -> Request]
  /\ requests \in Nat
  /\ excused \subseteq Ids \union Keys

\* "This credential is already assigned to another profile" (runtime.py): no
\* two profiles share a key, unless requests for it overlapped or the store
\* could not be read.
KeysUnique ==
  \A p, q \in Ids :
    p # q /\ Live(p) /\ Live(q) /\ store[p] = store[q] /\ store[p] # NoKey =>
      store[p] \in excused

\* The active profile exists, unless its activation and its deletion overlapped.
ActiveExists == active \in {NoId} \union excused \/ Live(active)

\* A deleted profile, or one whose creation failed, leaves no credential
\* behind in the store, unless the clean-up failed too.
NoOrphanKeys ==
  \A p \in Ids :
    store[p] # NoKey => Live(p) \/ p \in excused \/ \E h \in Handlers : req[h].id = p

\* "Remove the native credential and disable the profile" (api-v1.md): a
\* disabled profile is enabled by a request to enable it alone, unless
\* requests for it overlapped.
EnabledOnRequest ==
  [][\A p \in Ids : rows[p] = "disabled" /\ rows'[p] = "enabled" =>
       \/ p \in excused
       \/ \E h \in Handlers : req[h].id = p /\ req[h].todo = <<"on">>]_profileVars

\* A sync answers with success only if its profile has been the active one
\* all the while, also when another was active in between.
SyncAnswersForActive ==
  [][\A h \in Handlers : AnswerSync(h) => ~req[h].switched]_profileVars
=============================================================================

------------------------------ MODULE HttpApi -------------------------------
(***************************************************************************)
(* The loopback HTTP API of server.py: one connection, one request at a    *)
(* time.  A handler checks host, target, browser boundary, query, route    *)
(* and body in the order of do_GET, do_PUT, do_POST and do_DELETE, calls   *)
(* the runtime services, and answers.  The services have modules of their  *)
(* own; here a call succeeds, is refused or fails.  The two handlers that  *)
(* compute their answer are whole: the live dashboard data, fetched page   *)
(* by page from OpenAI, and the update check.                              *)
(*                                                                         *)
(* A header or field is one of the few values the code tells apart.        *)
(***************************************************************************)
EXTENDS UsageReports, UpdateManifest

CONSTANTS
  Requests,      \* requests that a client may send
  Cursors,       \* pagination cursors of the upstream
  UsagePages,    \* pages the Usage API may answer: [form, results, next]
  CostsPages,    \* pages the Costs API may answer: [form, amount, next]
  Manifests,     \* what may be found at the manifest URL
  Versions,      \* versions this installation may have
  MaxBody        \* size of the largest JSON body that is read

First == "first"    \* the page that is fetched without a cursor
NoPage == "end"

ASSUME ApiAssumption ==
  /\ MaxBody \in Nat /\ {First, NoPage} \intersect Cursors = {}
  /\ \A r \in Requests :
       /\ r.method \in {"GET", "PUT", "POST", "DELETE", "OPTIONS"}
       /\ r.chunked \in BOOLEAN /\ r.size \in Nat
       /\ r.length \in {"number", "absent", "malformed", "negative"}
       /\ r.key \in {"valid", "absent", "malformed"}
  /\ \A page \in UsagePages \union CostsPages : page.next \in Cursors \union {NoPage}
  /\ \A page \in UsagePages :
       LET results == {page.results[i] : i \in DOMAIN page.results}
       IN page.results \in Seq(results) /\ \A r \in results : IsResult(r)
  /\ \A page \in CostsPages : page.amount \in Int
  /\ Versions \subseteq Version
  /\ \A m \in Manifests :
       /\ m = [f \in DOMAIN m |-> m[f]] /\ {"key", "signature"} \subseteq DOMAIN m
       /\ m.version \in Version /\ m.minimum \in Version

VARIABLES
  request,   \* the request that is handled
  step,      \* where its handler is
  conn,      \* body bytes read, whether the body is done with, whether the
             \* connection stays open after the answer
  called,    \* the operation of the runtime services that was called
  fetch,     \* the usage pages fetched from the upstream, and the next cursor
  bill,      \* the same of the costs pages
  usage,     \* the live summary
  costs,     \* the live costs
  check,     \* the update check: manifest, installed version, verdict
  answer     \* status and code of the answer

vars == <<request, step, conn, called, fetch, bill, usage, costs, check, answer>>

Pass == <<200, "ok">>
NoFetch == [cursor |-> First, seen |-> {}, pages |-> <<>>, visits |-> <<>>]
Unknown == [known |-> FALSE]
NoCall == <<"none", "none">>
NewConnection == [read |-> 0, done |-> FALSE, open |-> FALSE]

-----------------------------------------------------------------------------
(* Checks: <<what fails, status, code>>, in the order of the code.         *)

FirstFailure(checks) ==
  LET failed == {i \in DOMAIN checks : checks[i][1]}
  IN IF failed = {} THEN Pass ELSE Tail(checks[Min(failed)])

IsApi(r) == r.route \notin {"page", "asset"}

HostChecks(r) == << <<r.host \notin {"own", "noPort"}, 403, "invalid_host">> >>

\* The port of an Origin that is no port at all raises outside the checks.
BoundaryChecks(r) ==
  << <<r.site = "cross", 403, "cross_site_request">>,
     <<r.origin = "foreign", 403, "invalid_origin">>,
     <<r.origin = "unreadable", 500, "internal_error">> >>

HeadChecks(r) ==
  HostChecks(r) \o << <<r.target = "tooLong", 414, "request_target_too_large">> >>
    \o IF IsApi(r) THEN BoundaryChecks(r) ELSE <<>>

\* _query; fields is false for a route that takes none.
QueryChecks(r, fields) ==
  << <<r.query = "malformed", 400, "invalid_query">>,
     <<r.query = "unknown" \/ (~fields /\ r.query # "none"), 400, "unknown_query_field">>,
     <<r.query = "twice", 400, "duplicate_query_field">> >>

\* _integer_query and _boolean_query
ValueChecks(r, required) ==
  << <<required /\ r.query = "none", 400, "missing_query_field">>,
     <<r.query = "badValue", 400, "invalid_query_field">> >>

IdChecks(r) == << <<r.name \in {"empty", "nested"}, 404, "not_found">> >>

LocaleChecks(r) ==
  << <<r.name = "undecodable", 400, "invalid_locale">>,
     <<r.name \in {"empty", "nested", "parent"}, 403, "forbidden_path">>,
     <<r.name = "other", 404, "locale_not_found">> >>

\* _static_path; a page of the dashboard is also a navigation target.
StaticChecks(r) ==
  << <<r.name = "undecodable", 400, "invalid_path">>,
     <<r.route = "page" /\ r.query \notin {"none", "allowed"}, 400, "invalid_navigation_target">>,
     <<r.name = "parent", 403, "forbidden_path">>,
     <<r.route = "asset" /\ r.name # "one", 404, "not_found">> >>

Unchecked == {"health", "config", "updateCheck", "catalog", "data"}

GetChecks(r) ==
  CASE r.route \in Unchecked -> <<>>
    [] r.route = "locale" -> LocaleChecks(r)
    [] r.route \in {"updateStatus", "profiles"} -> QueryChecks(r, FALSE)
    [] r.route = "profile" -> QueryChecks(r, FALSE) \o IdChecks(r)
    [] r.route = "history" -> QueryChecks(r, TRUE) \o ValueChecks(r, TRUE)
    [] r.route \in {"projects", "alerts"} -> QueryChecks(r, TRUE)
    [] r.route \in {"alertHistory", "integrity"} -> QueryChecks(r, TRUE) \o ValueChecks(r, FALSE)
    [] OTHER -> StaticChecks(r)

PutRoutes == {"config", "profile", "profileKey"}

PutChecks(r) ==
  QueryChecks(r, FALSE) \o << <<r.route \notin PutRoutes, 405, "method_not_allowed">> >>

PostRoutes == {"updateCheck", "updateConsent", "updateAction", "retention", "profiles", "activate",
               "sync", "export", "alerts", "notification", "backup", "restore"}

PostChecks(r) ==
  QueryChecks(r, FALSE) \o << <<r.route \notin PostRoutes, 405, "method_not_allowed">> >>

DeleteChecks(r) ==
  CASE r.route \in {"profile", "profileKey"} -> QueryChecks(r, FALSE) \o IdChecks(r)
    [] r.route = "alert" -> QueryChecks(r, TRUE) \o IdChecks(r)
    [] OTHER -> << <<TRUE, 405, "method_not_allowed">> >>

\* What a handler checks before it looks at the body.
Checks(r) ==
  CASE r.method = "GET"     -> HeadChecks(r) \o GetChecks(r)
    [] r.method = "PUT"     -> HeadChecks(r) \o PutChecks(r)
    [] r.method = "POST"    -> HeadChecks(r) \o PostChecks(r)
    [] r.method = "DELETE"  -> HeadChecks(r) \o DeleteChecks(r)
    [] r.method = "OPTIONS" -> << <<TRUE, 405, "method_not_allowed">> >>

TakesBody(r) == \/ r.method = "PUT"
                \/ r.method = "POST" /\ r.route # "updateCheck"

\* _read_json_object: before the body is read.
LengthChecks(r) ==
  << <<r.chunked, 400, "unsupported_transfer_encoding">>,
     <<r.length = "absent", 411, "content_length_required">>,
     <<r.length \in {"malformed", "negative"}, 400, "invalid_content_length">>,
     <<r.size > MaxBody, 413, "request_too_large">> >>

\* _read_json_object, and the checks of the document: a configuration is
\* checked by its service.
DocumentChecks(r) ==
  << <<r.type # "json", 415, "unsupported_media_type">>,
     <<r.document \in {"notJson", "duplicateField", "notObject"}, 400, "invalid_json">> >>
    \o (IF r.route \in {"profile", "profileKey", "activate"} THEN IdChecks(r) ELSE <<>>)
    \o IF r.route = "config" THEN <<>>
       ELSE << <<r.document = "unknownField", 400, "unknown_request_field">>,
               <<r.document = "missingField", 400, "missing_request_field">> >>

-----------------------------------------------------------------------------
(* The body on the connection                                              *)

\* What one drain reads: at most one byte more than the largest body.
Prefix(r) == Min({r.size, MaxBody + 1})

\* Nothing is left to drain, or nothing says how much.
Undrained(r, c) == ~c.done /\ r.method \notin {"GET", "OPTIONS"} /\ ~r.chunked
                   /\ r.length = "number" /\ r.size > 0

\* Mutant: the connection stays open although a part of the body is left.
Drain_StaysOpen(r, c) ==
  IF Undrained(r, c)
  THEN [read |-> Min({r.size, c.read + Prefix(r)}), done |-> Prefix(r) = r.size, open |-> TRUE]
  ELSE c

\* _drain_unread_body.  An HTTP/1.0 handler closes the connection unless
\* something says otherwise: the drain does, for a body that it read whole.
Drain(r, c) ==
  IF Undrained(r, c)
  THEN [read |-> Min({r.size, c.read + Prefix(r)}),
        done |-> Prefix(r) = r.size,
        open |-> Prefix(r) = r.size]
  ELSE c

\* A second drain of a body asks again for the full prefix: if less is left,
\* it waits for bytes that the client does not have.
DrainBlocks(r, c) == Undrained(r, c) /\ c.read + Prefix(r) > r.size

-----------------------------------------------------------------------------
Init ==
  /\ request \in Requests
  /\ step = "received"
  /\ conn = NewConnection
  /\ called = NoCall
  /\ fetch = NoFetch /\ bill = NoFetch
  /\ usage = Unknown /\ costs = Unknown /\ check = Unknown
  /\ answer = Pass

Untouched == UNCHANGED <<request, fetch, bill, usage, costs, check>>

\* send_json and send_public_error
Send(status, code) == step' = "answered" /\ answer' = <<status, code>>

\* send_public_error after _drain_unread_body.
Refuse(failure) ==
  /\ answer' = failure
  /\ step' = IF DrainBlocks(request, conn) THEN "waiting" ELSE "answered"
  /\ conn' = Drain(request, conn)

\* The client gives up; the handler's answer reaches nobody.
GiveUp ==
  /\ step = "waiting" /\ step' = "answered"
  /\ UNCHANGED <<conn, called, answer>> /\ Untouched

RefuseRequest ==
  /\ step = "received" /\ FirstFailure(Checks(request)) # Pass
  /\ Refuse(FirstFailure(Checks(request)))
  /\ UNCHANGED called /\ Untouched

\* DELETE and the update check discard a body that they do not look at.
Admit ==
  /\ step = "received" /\ FirstFailure(Checks(request)) = Pass
  /\ step' = IF TakesBody(request) THEN "body"
             ELSE CASE request.route = "data" -> "data"
                    [] request.route = "updateCheck" -> "check"
                    [] OTHER -> "serve"
  /\ conn' = IF TakesBody(request) THEN conn ELSE Drain(request, conn)
  /\ UNCHANGED <<called, answer>> /\ Untouched

RefuseLength ==
  /\ step = "body" /\ FirstFailure(LengthChecks(request)) # Pass
  /\ LET failure == FirstFailure(LengthChecks(request))
     IN IF failure[1] = 413
        THEN /\ conn' = [read |-> Prefix(request), done |-> TRUE,
                         open |-> Prefix(request) = request.size]
             /\ Send(failure[1], failure[2])
        ELSE Refuse(failure)
  /\ UNCHANGED called /\ Untouched

ReadBody ==
  /\ step = "body" /\ FirstFailure(LengthChecks(request)) = Pass
  /\ conn' = [conn EXCEPT !.read = request.size, !.done = TRUE]
  /\ LET failure == FirstFailure(DocumentChecks(request))
     IN IF failure = Pass THEN step' = "serve" /\ UNCHANGED answer
        ELSE Send(failure[1], failure[2])
  /\ UNCHANGED called /\ Untouched

\* A consent is recorded (200), an operation of the updater is begun (202).
SuccessStatus(r) ==
  CASE r.method = "POST" /\ r.route \in {"profiles", "alerts", "backup"} -> 201
    [] r.route = "updateAction" -> 202
    [] OTHER -> 200

\* The services are called, and succeed, refuse with an error of theirs, or
\* raise something else.
Serve ==
  /\ step = "serve"
  /\ called' = <<request.method, request.route>>
  /\ \/ Send(SuccessStatus(request), "ok") /\ UNCHANGED conn
     \/ Refuse(<<409, "refused">>)
     \/ Refuse(<<500, "internal_error">>)
  /\ Untouched

-----------------------------------------------------------------------------
(* The live dashboard data                                                 *)

\* OpenAIAdminClient.get: what a failed request is reported as.
ClientErrors ==
  [unauthorized |-> <<401, "authentication_failed">>,
   forbidden    |-> <<403, "permission_denied">>,
   limited      |-> <<429, "rate_limited">>,
   redirected   |-> <<502, "upstream_redirect_rejected">>,
   down         |-> <<502, "upstream_unavailable">>,
   rejected     |-> <<502, "upstream_request_rejected">>,
   timeout      |-> <<504, "upstream_timeout">>,
   offline      |-> <<503, "offline">>,
   tooLarge     |-> <<502, "upstream_response_too_large">>,
   garbled      |-> <<502, "upstream_response_invalid">>]

\* _send_data
BeginData ==
  /\ step = "data"
  /\ CASE request.key = "absent"    -> Send(400, "missing_admin_key")
       [] request.key = "malformed" -> Send(400, "invalid_admin_key")
       [] request.key = "valid"     -> step' = "usage" /\ UNCHANGED answer
  /\ UNCHANGED <<conn, called>> /\ Untouched

\* At midnight there is nothing to ask for.
EmptyDay ==
  /\ step = "usage" /\ fetch = NoFetch
  /\ usage' = Summarize(<<>>)
  /\ costs' = [available |-> TRUE, actual |-> 0]
  /\ Send(200, "ok")
  /\ UNCHANGED <<request, conn, called, fetch, bill, check>>

\* The upstream answers a cursor with one page, however often it is asked.
PagesFor(f, Pages) == IF f.cursor \in DOMAIN f.pages THEN {f.pages[f.cursor]} ELSE Pages

With(g, c, value) == [d \in DOMAIN g \union {c} |-> IF d = c THEN value ELSE g[d]]

\* Visits to a page are counted up to 2 (a bound of the model).
Visited(f, page) ==
  [f EXCEPT !.pages  = With(@, f.cursor, page),
            !.visits = With(@, f.cursor, IF f.cursor \in DOMAIN @ THEN 2 ELSE 1)]

Follow(f, next) == [f EXCEPT !.cursor = next, !.seen = @ \union {next}]

\* The pages received, as often as they were visited.
Collected(f) ==
  FlattenSeq([i \in 1 .. Cardinality(DOMAIN f.pages) |->
    LET c == SetToSeq(DOMAIN f.pages)[i] IN [n \in 1 .. f.visits[c] |-> f.pages[c]]])

Results(pages) == FlattenSeq([i \in DOMAIN pages |-> pages[i].results])
Amount(pages)  == SumFunction([i \in DOMAIN pages |-> pages[i].amount])

Summarizable(results) == \A i \in DOMAIN results : WellFormed(results[i])

\* Mutant: a cursor that was followed before is followed again.
Refused_Again(f, page) == page.form # "ok"

\* _usage_page and _costs_page, and the cursor that comes back.
Refused(f, page) == page.form # "ok" \/ page.next \in f.seen

\* fetch_usage: one page.
UsagePage ==
  /\ step = "usage"
  /\ \E page \in PagesFor(fetch, UsagePages) :
       LET f == Visited(fetch, page)
       IN \/ /\ \/ Refused(fetch, page)
                \/ page.next = NoPage /\ ~Summarizable(Results(Collected(f)))
             /\ Send(502, "usage_response_invalid")
             /\ UNCHANGED <<fetch, usage>>
          \/ /\ ~Refused(fetch, page) /\ page.next # NoPage
             /\ fetch' = Follow(f, page.next)
             /\ UNCHANGED <<step, answer, usage>>
          \/ /\ ~Refused(fetch, page) /\ page.next = NoPage /\ Summarizable(Results(Collected(f)))
             /\ fetch' = f /\ usage' = Summarize(Results(Collected(f)))
             /\ step' = "bill" /\ UNCHANGED answer
  /\ UNCHANGED <<request, conn, called, bill, costs, check>>

\* A request to OpenAI fails; "broken" is an exception the client leaves alone.
UsageFails ==
  /\ step = "usage"
  /\ \/ \E e \in DOMAIN ClientErrors : Send(ClientErrors[e][1], ClientErrors[e][2])
     \/ Send(500, "internal_error")
  /\ UNCHANGED <<conn, called>> /\ Untouched

\* What the dashboard is told when a page of the costs cannot be had or read.
NoCosts(code) == [available |-> FALSE, code |-> code]

\* fetch_costs: one page.
CostsPage ==
  /\ step = "bill"
  /\ \E page \in PagesFor(bill, CostsPages) :
       LET f == Visited(bill, page)
       IN \/ /\ Refused(bill, page)
             /\ costs' = NoCosts("costs_response_invalid") /\ Send(200, "ok")
             /\ UNCHANGED bill
          \/ /\ ~Refused(bill, page) /\ page.next # NoPage
             /\ bill' = Follow(f, page.next)
             /\ UNCHANGED <<step, answer, costs>>
          \/ /\ ~Refused(bill, page) /\ page.next = NoPage
             /\ bill' = f
             /\ costs' = [available |-> TRUE,
                          actual |-> Amount(Collected(f))]
             /\ Send(200, "ok")
  /\ UNCHANGED <<request, conn, called, fetch, usage, check>>

\* Costs that fail do not fail the usage.
CostsFail ==
  /\ step = "bill"
  /\ \E e \in DOMAIN ClientErrors \union {"broken"} :
       costs' = NoCosts(IF e = "broken" THEN "costs_unavailable" ELSE ClientErrors[e][2])
  /\ Send(200, "ok")
  /\ UNCHANGED <<request, conn, called, fetch, bill, usage, check>>

-----------------------------------------------------------------------------
(* The update check: _send_update_check.  A GET only looks; a POST also    *)
(* prepares the update.                                                    *)

Prepares == IF request.method = "POST" THEN <<"POST", "updateCheck">> ELSE NoCall

CheckUpdate ==
  /\ step = "check" /\ called' = Prepares
  /\ \E m \in Manifests, current \in Versions :
       LET verdict == CheckDocument(m, current)
       IN /\ check' = [manifest |-> m, current |-> current]
          /\ IF verdict = "escapes" THEN Refuse(<<502, "update_check_failed">>)
             ELSE Send(200, verdict) /\ UNCHANGED conn
  /\ UNCHANGED <<request, fetch, bill, usage, costs>>

ManifestUnavailable ==
  /\ step = "check" /\ called' = Prepares
  /\ \E delivery \in {"redirected", "tooLarge", "offline"} : Send(200, FetchVerdict(delivery))
  /\ UNCHANGED conn /\ Untouched

\* No update service is configured in this build.
CheckUnavailable ==
  /\ step = "check"
  /\ Refuse(<<503, "capability_unavailable">>)
  /\ UNCHANGED called /\ Untouched

-----------------------------------------------------------------------------
Handle ==
  \/ RefuseRequest \/ Admit \/ RefuseLength \/ ReadBody \/ Serve
  \/ BeginData \/ EmptyDay \/ UsagePage \/ UsageFails \/ CostsPage \/ CostsFail
  \/ CheckUpdate \/ ManifestUnavailable \/ CheckUnavailable

Next == Handle \/ GiveUp

Spec == Init /\ [][Next]_vars

\* A handler thread runs until it has answered: each of its steps is
\* computation or a network call that times out.
FairSpec == Spec /\ WF_vars(Handle)

-----------------------------------------------------------------------------
(* Properties                                                              *)

\* An unread part of a body is never taken for the next request: a
\* connection stays open only after the whole body was read, which no
\* handler does beyond its limit, however a request is refused.
FramingKept ==
  /\ step = "answered" /\ conn.open =>
       ~request.chunked /\ request.length = "number" /\ conn.read = request.size
  /\ conn.read <= 2 * (MaxBody + 1)

\* The pages of the upstream that were fetched, each once.
AllResults(f) ==
  FlattenSeq([i \in 1 .. Cardinality(DOMAIN f.pages) |->
                f.pages[SetToSeq(DOMAIN f.pages)[i]].results])

\* What the dashboard, the alert rules, the history and the export say of one
\* list of results.
Agreement(all, live) ==
  LET rows    == StoredRows(all)
      history == DailyUsage(rows)
      tokens  == SumOf(all, Tokens, LAMBDA r : TRUE)
      off(g)  == SumOf(all, Tokens, LAMBDA r : /\ IsIncentivized(r.tier)
                                               /\ FindModel(r.model).group = g
                                               /\ FindModel(r.model).eligible
                                               /\ ~FindModel(r.model).enabled)
  IN /\ \A g \in Groups :
          /\ live.groups[g] = ObservedTokens(rows, g, ProjectsOf(rows))
          /\ live.groups[g] = SumFunction([p \in ProjectsOf(rows) |-> ObservedTokens(rows, g, {p})])
          /\ history.groups[g] = live.groups[g] + off(g)
     /\ live.other + SumFunction(live.groups) = tokens
     /\ history.other + SumFunction(history.groups) = tokens
     /\ SumFunction([row \in Export(rows, "exclude") |-> row.tokens]) = tokens

\* The dashboard, the alert rules, the history and the export tell the same
\* story about one upstream answer, however it is paged, split and spelled:
\* the live groups are what the alert rules see, per project and in all; the
\* history adds only models that the catalog disables; no token is lost or
\* counted twice on the way.  (Names with blanks around them are excepted:
\* the store trims them, the live summary does not.)
TotalsAgree ==
  step = "bill" /\ (\A i \in DOMAIN AllResults(fetch) : AllResults(fetch)[i].model.form # "blanks") =>
    Agreement(AllResults(fetch), usage)

\* An update that the dashboard offers is one that a trusted publisher signed
\* for this channel as it stands, not expired, installable by this updater,
\* and newer than what runs by the order of semver.org.
OnlyTrustedUpdates ==
  answer[2] = "available" =>
    LET m == check.manifest
    IN /\ \E k \in TrustedKeys : m = Sign(m, k)
       /\ m.channel = Channel /\ (Channel = "stable" => ~IsPrerelease(m.version))
       /\ m.expires # 0 => CheckTime < m.expires
       /\ Precedes(check.current, m.version)
       /\ ~Precedes(UpdaterVersion, m.minimum)

\* Every request is answered, whatever the upstream answers, cursors that go
\* in a circle included.  (Excepted is a body that is discarded unread and is
\* longer than one drain: a refusal drains it a second time.)
RequestsAnswered ==
  (step = "received" /\ (TakesBody(request) \/ request.size <= MaxBody + 1))
    ~> (step = "answered")
=============================================================================

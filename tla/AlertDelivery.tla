--------------------------- MODULE AlertDelivery ---------------------------
(***************************************************************************)
(* Threshold alerts (alert_storage.py, PersistentAlertDispatcher in        *)
(* desktop_runtime.py, the notification adapter in desktop.py), composed   *)
(* with Profiles: while the collector's thread evaluates rules and sends   *)
(* notifications, HTTP threads edit rules, delete profiles and send tests. *)
(***************************************************************************)
EXTENDS Profiles

CONSTANTS
  RuleIds,      \* identifiers of rules within a profile
  Levels,       \* percentages and thresholds that are told apart
  Days          \* bound: number of UTC days

Dispatcher == "dispatcher"

ASSUME AlertAssumption ==
  /\ Levels \subseteq Nat \ {0}
  /\ Days \in Nat \ {0}
  /\ Dispatcher \notin Handlers

Projects == {"all", "project"}

VARIABLES
  day,         \* UTC day of the latest collection
  rules,       \* table alert_rules
  dedup,       \* table alert_dedup
  notes,       \* table notification_history
  disp,        \* the dispatcher's call of process
  sending,     \* how far each thread is in the adapter's send
  permission, attempted, backendUp,    \* the notification adapter
  shown,       \* history variable: alerts the user has seen
  late,        \* alerts whose send failed or timed out: they may still appear
  lost,        \* history variable: alerts of a call that ended before it sent
               \* them, or before it recorded that the send failed
  unseen       \* history variable: rules and days whose threshold a stale or
               \* partial observation reached, or that were edited

outcomes == <<shown, late, lost, unseen>>
alertVars == <<day, rules, dedup, notes, disp, sending, permission, attempted, backendUp,
               outcomes>>
allVars == <<profileVars, alertVars>>

Senders == Handlers \union {Dispatcher}
NoRule == [threshold |-> 0, project |-> "all", enabled |-> FALSE, born |-> 0]
NoDedup == [previous |-> 0, sent |-> FALSE]
NewDedup == [d \in 1 .. Days |-> NoDedup]
NoEvent == [profile |-> NoId, rule |-> "none", project |-> "all", threshold |-> 0,
            day |-> 0, born |-> 0]
IdleDispatcher == [pc |-> "idle", profile |-> NoId, day |-> 0, complete |-> FALSE,
                   rules |-> [r \in RuleIds |-> NoRule], todo |-> <<>>, events |-> {},
                   event |-> NoEvent]

\* Rules and notifications restrict the deletion of their profile, as usage does.
Referred ==
  history \union {p \in Ids : \E r \in RuleIds : rules[p][r] # NoRule}
          \union {n.profile : n \in notes}

AlertInit ==
  /\ ProfilesInit
  /\ day = 1
  /\ rules \in [Ids -> [RuleIds -> {NoRule, [NoRule EXCEPT !.threshold = 1, !.enabled = TRUE]}]]
  /\ \A p \in Ids \ First, r \in RuleIds : rules[p][r] = NoRule
  /\ dedup = [p \in Ids |-> [r \in RuleIds |-> NewDedup]]
  /\ notes = {}
  /\ disp = IdleDispatcher
  /\ sending = [t \in Senders |-> "none"]
  /\ permission = "unknown" /\ attempted = FALSE /\ backendUp = TRUE
  /\ shown = {} /\ late = {} /\ lost = {} /\ unseen = {}

-----------------------------------------------------------------------------
(* Rules                                                                   *)

\* The days whose row an edit may disagree with; a later day is not one.
EditedBy(p, r) == {<<p, r, d>> : d \in 1 .. day}

\* The row that save_rule writes; it keeps the dedup rows of a rule it replaces.
SavedRule(old, threshold, project, on) ==
  [threshold |-> threshold, project |-> project, enabled |-> on,
   born |-> IF old = NoRule THEN requests + 1 ELSE old.born]

SaveRule(h) ==
  /\ req[h] = IdleReq /\ requests < MaxRequests
  /\ \E p \in Ids, r \in RuleIds, threshold \in Levels, project \in Projects, on \in BOOLEAN :
       /\ Live(p)
       /\ rules' = [rules EXCEPT ![p][r] = SavedRule(@, threshold, project, on)]
       /\ unseen' = IF rules[p][r] # NoRule \/ disp.profile = p
                    THEN unseen \union EditedBy(p, r) ELSE unseen
  /\ requests' = requests + 1
  /\ UNCHANGED <<rows, store, history, active, generation, req, excused, day, dedup, notes,
                 disp, sending, permission, attempted, backendUp, shown, late, lost>>

\* delete_rule; its dedup rows go with it (ON DELETE CASCADE).
DeleteRule(h) ==
  /\ req[h] = IdleReq /\ requests < MaxRequests
  /\ \E p \in Ids, r \in RuleIds :
       /\ rules[p][r] # NoRule
       /\ rules' = [rules EXCEPT ![p][r] = NoRule]
       /\ dedup' = [dedup EXCEPT ![p][r] = NewDedup]
  /\ requests' = requests + 1
  /\ UNCHANGED <<rows, store, history, active, generation, req, excused, day, notes,
                 disp, sending, permission, attempted, backendUp, outcomes>>

-----------------------------------------------------------------------------
(* The dispatcher                                                          *)

\* The collector synchronises an enabled profile and hands over the totals of
\* all projects and of one project; complete: the sync was a success.  Only
\* this step reads the clock, hence it is here that the UTC day changes.
Collect ==
  /\ disp.pc = "idle" /\ requests < MaxRequests
  /\ \E p \in Ids, all \in Levels \union {0}, project \in Levels \union {0},
        complete \in BOOLEAN :
       /\ day' \in day .. Days
       /\ rows[p] = "enabled" /\ store[p] # NoKey
       /\ project <= all
       /\ history' = history \union {p}
       /\ disp' = [IdleDispatcher EXCEPT
                     !.pc = "rules", !.profile = p, !.day = day', !.complete = complete,
                     !.todo = << [project |-> "all", percent |-> all],
                                 [project |-> "project", percent |-> project] >>]
  /\ requests' = requests + 1
  /\ UNCHANGED <<rows, store, active, generation, req, excused, rules, dedup, notes,
                 sending, permission, attempted, backendUp, outcomes>>

\* The rules are read once per call of process.
ListRules ==
  /\ disp.pc = "rules"
  /\ disp' = [disp EXCEPT !.pc = "evaluate",
                          !.rules = [r \in RuleIds |-> rules[disp.profile][r]]]
  /\ UNCHANGED <<profileVars, day, rules, dedup, notes, sending, permission, attempted,
                 backendUp, outcomes>>

Matching(obs) ==
  {r \in RuleIds : disp.rules[r].enabled /\ disp.rules[r].project \in {"all", obs.project}}

\* Mutant: every observation over the threshold is a crossing.
Crossing_Always(obs, fresh) ==
  {r \in Matching(obs) : fresh /\ disp.rules[r].threshold <= obs.percent}

\* Mutant: reaching the threshold exactly is not enough.
Crossing_Over(obs, fresh) ==
  {r \in Matching(obs) :
     /\ fresh
     /\ ~dedup[disp.profile][r][disp.day].sent
     /\ dedup[disp.profile][r][disp.day].previous <= disp.rules[r].threshold
     /\ disp.rules[r].threshold < obs.percent}

Crossing(obs, fresh) ==
  {r \in Matching(obs) :
     /\ fresh
     /\ ~dedup[disp.profile][r][disp.day].sent
     /\ dedup[disp.profile][r][disp.day].previous < disp.rules[r].threshold
     /\ disp.rules[r].threshold <= obs.percent}

EventOf(obs, r) ==
  [profile |-> disp.profile, rule |-> r, project |-> obs.project,
   threshold |-> disp.rules[r].threshold, day |-> disp.day, born |-> rules[disp.profile][r].born]

\* evaluate, one transaction for one observation: every matching rule
\* remembers the percentage, stale or not, of whatever project it is.  An
\* observation that has meanwhile grown old is stale too.
Evaluate ==
  LET obs == Head(disp.todo)
      p   == disp.profile
  IN /\ disp.pc = "evaluate" /\ disp.events = {} /\ disp.todo # <<>>
     /\ \A r \in Matching(obs) : rules[p][r] # NoRule
     /\ \E fresh \in {disp.complete, FALSE} :
          /\ dedup' = [dedup EXCEPT ![p] = [r \in RuleIds |->
               IF r \in Matching(obs)
               THEN [dedup[p][r] EXCEPT ![disp.day] =
                       [previous |-> obs.percent, sent |-> @.sent \/ r \in Crossing(obs, fresh)]]
               ELSE dedup[p][r]]]
          /\ disp' = [disp EXCEPT !.events = {EventOf(obs, r) : r \in Crossing(obs, fresh)},
                                  !.todo = Tail(@)]
          /\ unseen' = IF fresh THEN unseen
                       ELSE unseen \union {<<p, r, disp.day>> : r \in
                              {s \in Matching(obs) : disp.rules[s].threshold <= obs.percent}}
     /\ UNCHANGED <<profileVars, day, rules, notes, sending, permission, attempted, backendUp,
                    shown, late, lost>>

\* A rule of the list is gone: the transaction fails and with it the call.
EvaluateFails ==
  /\ disp.pc = "evaluate" /\ disp.events = {} /\ disp.todo # <<>>
  /\ \E r \in Matching(Head(disp.todo)) : rules[disp.profile][r] = NoRule
  /\ disp' = IdleDispatcher
  /\ UNCHANGED <<profileVars, day, rules, dedup, notes, sending, permission, attempted,
                 backendUp, outcomes>>

Processed ==
  /\ disp.pc = "evaluate" /\ disp.events = {} /\ disp.todo = <<>>
  /\ disp' = IdleDispatcher
  /\ UNCHANGED <<profileVars, day, rules, dedup, notes, sending, permission, attempted,
                 backendUp, outcomes>>

\* The events of one observation are sent from the lowest threshold up.
Notify ==
  /\ disp.pc = "evaluate" /\ sending[Dispatcher] = "none"
  /\ \E e \in disp.events :
       /\ \A f \in disp.events : e.threshold <= f.threshold
       /\ disp' = [disp EXCEPT !.pc = "record", !.event = e, !.events = @ \ {e}]
  /\ sending' = [sending EXCEPT ![Dispatcher] = "check"]
  /\ UNCHANGED <<profileVars, day, rules, dedup, notes, permission, attempted, backendUp,
                 outcomes>>

\* Mutant: a denied permission counts as delivered.
StatusOf_Optimist(t) ==
  IF sending[t] = "delivered" \/ permission = "denied" THEN "sent" ELSE "failed"

StatusOf(t) ==
  IF sending[t] = "delivered" THEN "sent"
  ELSE IF permission = "denied" THEN "suppressed" ELSE "failed"

\* The events that the call has committed and neither shown nor recorded.
InHand == disp.events \union (IF disp.pc = "record" THEN {disp.event} ELSE {})

\* record_notification; a profile deleted meanwhile, or the database, refuses
\* it and ends the call: the events it has not sent are lost.
Record ==
  /\ disp.pc = "record" /\ sending[Dispatcher] \in {"delivered", "refused"}
  /\ \/ /\ Live(disp.profile)
        /\ notes' = notes \union {[profile |-> disp.profile, event |-> disp.event,
                                   status |-> StatusOf(Dispatcher)]}
        /\ disp' = [disp EXCEPT !.pc = "evaluate", !.event = NoEvent]
        /\ UNCHANGED lost
     \/ disp' = IdleDispatcher /\ lost' = lost \union (InHand \ shown) /\ UNCHANGED notes
  /\ sending' = [sending EXCEPT ![Dispatcher] = "none"]
  /\ UNCHANGED <<profileVars, day, rules, dedup, permission, attempted, backendUp, shown, late,
                 unseen>>

-----------------------------------------------------------------------------
(* The notification adapter, used by the dispatcher and by HTTP threads    *)

Available == backendUp /\ permission \notin {"denied", "unavailable"}

BeginTest(h) ==
  /\ Available
  /\ \E p \in Ids : Live(p) /\ Begin(h, "test", "sending", p, NoKey, <<>>)
  /\ sending' = [sending EXCEPT ![h] = "check"]
  /\ UNCHANGED <<day, rules, dedup, notes, disp, permission, attempted, backendUp, outcomes>>

EndTest(h) ==
  /\ req[h].op = "test" /\ sending[h] \in {"delivered", "refused"}
  /\ \/ /\ Live(req[h].id)
        /\ notes' = notes \union {[profile |-> req[h].id, event |-> NoEvent,
             status |-> IF sending[h] = "delivered" THEN "test" ELSE "failed"]}
     \/ UNCHANGED notes
  /\ sending' = [sending EXCEPT ![h] = "none"]
  /\ Respond(h)
  /\ UNCHANGED <<rows, store, history, active, generation, requests, excused, day, rules, dedup,
                 disp, permission, attempted, backendUp, outcomes>>

\* send: the attempt is looked up, and only then noted.
SendCheck(t) ==
  /\ sending[t] = "check"
  /\ sending' = [sending EXCEPT ![t] = IF ~Available THEN "refused"
                                       ELSE IF attempted THEN "deliver" ELSE "ask"]
  /\ UNCHANGED <<profileVars, day, rules, dedup, notes, disp, permission, attempted, backendUp,
                 outcomes>>

Ask(t) ==
  /\ sending[t] = "ask"
  /\ attempted' = TRUE
  /\ sending' = [sending EXCEPT ![t] = "prompt"]
  /\ UNCHANGED <<profileVars, day, rules, dedup, notes, disp, permission, backendUp, outcomes>>

\* request_permission returns; a time-out takes the backend down.
Answer(t) ==
  /\ sending[t] = "prompt"
  /\ \E answer \in {"granted", "denied", "unavailable"} :
       /\ permission' = answer
       /\ backendUp' = (backendUp /\ answer # "unavailable")
       /\ sending' = [sending EXCEPT ![t] = IF answer = "granted" THEN "deliver" ELSE "refused"]
  /\ UNCHANGED <<profileVars, day, rules, dedup, notes, disp, attempted, outcomes>>

\* The backend's send shows the notification, or finds the permission denied,
\* or fails: it times out, or raises, and the backend is given up.  A time-out
\* does not cancel the coroutine that shows it.
Deliver(t) ==
  /\ sending[t] = "deliver"
  /\ \/ /\ backendUp
        /\ sending' = [sending EXCEPT ![t] = "delivered"]
        /\ shown' = IF t = Dispatcher THEN shown \union {disp.event} ELSE shown
        /\ UNCHANGED <<permission, attempted, backendUp, late>>
     \/ /\ backendUp
        /\ permission' = "denied" /\ attempted' = TRUE
        /\ sending' = [sending EXCEPT ![t] = "refused"]
        /\ UNCHANGED <<backendUp, shown, late>>
     \/ /\ permission' = "unavailable" /\ backendUp' = FALSE
        /\ sending' = [sending EXCEPT ![t] = "refused"]
        /\ late' = IF backendUp /\ t = Dispatcher THEN late \union {disp.event} ELSE late
        /\ UNCHANGED <<attempted, shown>>
  /\ UNCHANGED <<profileVars, day, rules, dedup, notes, disp, lost, unseen>>

\* The coroutine of a send that timed out shows its notification after all.
Appear(e) ==
  /\ e \in late \ shown
  /\ shown' = shown \union {e}
  /\ UNCHANGED <<profileVars, day, rules, dedup, notes, disp, sending, permission, attempted,
                 backendUp, late, lost, unseen>>

-----------------------------------------------------------------------------
\* The process dies and is started again.
Restart ==
  /\ ProfilesCrash
  /\ disp' = IdleDispatcher
  /\ sending' = [t \in Senders |-> "none"]
  /\ permission' = "unknown" /\ attempted' = FALSE /\ backendUp' = TRUE
  /\ lost' = lost \union (InHand \ shown)
  /\ UNCHANGED <<day, rules, dedup, notes, shown, late, unseen>>

ProfileRequest ==
  /\ \E h \in Handlers : ProfileStep(h, Referred)
  /\ UNCHANGED alertVars

AlertNext ==
  \/ ProfileRequest
  \/ \E h \in Handlers : SaveRule(h) \/ DeleteRule(h) \/ BeginTest(h) \/ EndTest(h)
  \/ Collect \/ ListRules \/ Evaluate \/ EvaluateFails \/ Processed \/ Notify \/ Record
  \/ \E t \in Senders : SendCheck(t) \/ Ask(t) \/ Answer(t) \/ Deliver(t)
  \/ \E e \in late : Appear(e)
  \/ Restart

AlertSpec == AlertInit /\ [][AlertNext]_allVars

-----------------------------------------------------------------------------
(* Properties                                                              *)

\* "Alert crossings use SQLite-backed rules and UTC-day deduplication"
\* (desktop-runtime.md), "dedup is persisted by profile/rule/group/project/UTC
\* day" (en/troubleshooting.md:25): the user sees at most one alert of a rule,
\* a project and a day, over edits of the rule, restarts, totals that fall and
\* rise again and notifications that appear after their send was given up.
Shows(e) == \/ e = disp.event /\ Deliver(Dispatcher) /\ sending'[Dispatcher] = "delivered"
            \/ Appear(e)
OneAlertPerRuleDay ==
  [][\A e \in {disp.event} \union late : Shows(e) =>
       \A f \in shown : <<f.profile, f.rule, f.born, f.project, f.day>> #
                        <<e.profile, e.rule, e.born, e.project, e.day>>
    ]_allVars

\* A rule whose threshold is passed has its alert of the day: the user has
\* seen it, or the history says what became of it, or the dispatcher is about
\* to send it.  Exceptions, each noted when it happens: the call was cut off
\* between the commit that uses the crossing up and the record (lost); a stale
\* or partial observation used the crossing up, or the rule was edited that
\* day (unseen).  A rule for all projects has one alert for all of them:
\* whichever crosses first has it (the documentation counts them apart).
CrossingsAlerted ==
  \A p \in Ids, r \in RuleIds, d \in 1 .. Days :
    rules[p][r] # NoRule /\ dedup[p][r][d].previous >= rules[p][r].threshold =>
      \/ \E e \in shown \union {n.event : n \in notes} \union InHand \union lost :
           e.profile = p /\ e.rule = r /\ e.day = d /\ e.born = rules[p][r].born
      \/ <<p, r, d>> \in unseen

\* The notification history is true: an alert it calls sent was shown, and an
\* alert that was shown it calls sent, unless the send had been given up (the
\* notification came after the time-out).
HistoryTellsTruth ==
  \A n \in notes : n.event # NoEvent =>
    /\ n.status = "sent" => n.event \in shown
    /\ n.event \in shown => n.status = "sent" \/ n.event \in late
=============================================================================

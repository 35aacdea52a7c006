--------------------------- MODULE AlertEvaluation ---------------------------
(***************************************************************************)
(* notification-service: evaluate_event of app/evaluation.py under the     *)
(* loop of BaseConsumer, and the alert rules of one organization.          *)
(* Handlers are the evaluations that may be at work at once (a rebalance   *)
(* lets two processes hold events of one organization).                    *)
(*                                                                         *)
(* One transaction spans an evaluation.  The debounce key in Redis and the *)
(* message on the WebSocket channel take effect at once and do not roll    *)
(* back with it.  The e-mail and the gRPC enrichment never raise and leave *)
(* nothing behind in this system, so they are not steps.                   *)
(***************************************************************************)
EXTENDS Naturals

CONSTANTS
  Handlers,
  Events,      \* events on analytics-updated for the organization
  Rules,       \* its alert rules that list the channel "websocket"
  Matching,    \* Matching[e]: the rules whose condition the metrics of e meet
  Malformed,   \* rules whose threshold is not a number: _matches raises
  MaxRetries,
  MaxFaults,   \* bound: disturbances in a behaviour
  MaxEdits,    \* bound: uses of the rule API in a behaviour
  MaxWindows,  \* bound: debounce keys that expire in a behaviour
  Nothing

ASSUME AlertAssumption ==
  /\ Matching \in [Events -> SUBSET Rules]
  /\ Malformed \subseteq Rules
  /\ MaxRetries \in Nat \ {0}
  /\ {MaxFaults, MaxEdits, MaxWindows} \subseteq Nat
  /\ Nothing \notin Rules \cup Events

\* A row of `alerts`; n stands for its uuid.
Alert == [rule : Rules, n : Nat]

VARIABLES
  fresh,      \* rules nobody has created yet
  rules,      \* rows of `alert_rules`
  enabled,    \* rules with is_enabled
  alerts,     \* committed rows of `alerts`
  debounced,  \* rules whose key alert:debounce:{rule_id} is set
  pushes,     \* pushes[r]: messages for r since its key last expired
  late,       \* rules whose key expired between the setting and the push
  pushed,     \* alerts sent to ws:alerts:{org}
  settled,    \* events whose offset is committed
  pc, event, attempt, todo, rule, tx,  \* the locals of each evaluation
  inserts,    \* alerts inserted, rolled back or not
  faults, edits, windows

rowVars == <<fresh, rules, enabled, alerts>>
redisVars == <<debounced, pushes, late, pushed>>
handlerVars == <<pc, event, attempt, todo, rule, tx>>
vars == <<rowVars, redisVars, settled, handlerVars, inserts, faults, edits, windows>>

TypeOK ==
  /\ fresh \subseteq Rules
  /\ rules \subseteq Rules \ fresh
  /\ enabled \subseteq Rules
  /\ alerts \subseteq Alert
  /\ debounced \subseteq Rules
  /\ pushes \in [Rules -> Nat]
  /\ late \subseteq Rules
  /\ pushed \subseteq Alert
  /\ settled \subseteq Events
  /\ pc \in [Handlers -> {"idle", "select", "loop", "insert", "push", "offset", "dlt"}]
  /\ event \in [Handlers -> Events \cup {Nothing}]
  /\ attempt \in [Handlers -> 0..MaxRetries]
  /\ todo \in [Handlers -> SUBSET Rules]
  /\ rule \in [Handlers -> Rules \cup {Nothing}]
  /\ tx \in [Handlers -> SUBSET Alert]
  /\ inserts \in Nat
  /\ faults \in 0..MaxFaults
  /\ edits \in 0..MaxEdits
  /\ windows \in 0..MaxWindows

Init ==
  /\ fresh \in SUBSET Rules
  /\ rules = Rules \ fresh
  /\ enabled \in SUBSET rules
  /\ alerts = {}
  /\ debounced = {}
  /\ pushes = [r \in Rules |-> 0]
  /\ late = {}
  /\ pushed = {}
  /\ settled = {}
  /\ pc = [h \in Handlers |-> "idle"]
  /\ event = [h \in Handlers |-> Nothing]
  /\ attempt = [h \in Handlers |-> 0]
  /\ todo = [h \in Handlers |-> {}]
  /\ rule = [h \in Handlers |-> Nothing]
  /\ tx = [h \in Handlers |-> {}]
  /\ inserts = 0
  /\ faults = 0
  /\ edits = 0
  /\ windows = 0

Goto(h, next) == pc' = [pc EXCEPT ![h] = next]

Disturbed ==
  /\ faults < MaxFaults
  /\ faults' = faults + 1

-----------------------------------------------------------------------------
\* A settled event comes again to a process that fetched it before it lost the
\* partition.
Deliver(h, e) ==
  /\ pc[h] = "idle"
  /\ IF e \in settled THEN Disturbed ELSE UNCHANGED faults
  /\ event' = [event EXCEPT ![h] = e]
  /\ attempt' = [attempt EXCEPT ![h] = 1]
  /\ Goto(h, "select")
  /\ UNCHANGED <<rowVars, redisVars, settled, todo, rule, tx, inserts, edits, windows>>

\* The enabled rules are read once; without any the handler returns.
SelectRules(h) ==
  /\ pc[h] = "select"
  /\ todo' = [todo EXCEPT ![h] = rules \cap enabled]
  /\ Goto(h, IF rules \cap enabled = {} THEN "offset" ELSE "loop")
  /\ UNCHANGED <<rowVars, redisVars, settled, event, attempt, rule, tx, inserts, faults, edits, windows>>

\* Variant for mutation: `break` in place of `continue`.
NoMatchBreaks(h, r) ==
  /\ pc[h] = "loop"
  /\ r \in todo[h] \ (Malformed \cup Matching[event[h]])
  /\ todo' = [todo EXCEPT ![h] = {}]
  /\ UNCHANGED <<rowVars, redisVars, settled, pc, event, attempt, rule, tx, inserts, faults, edits, windows>>

\* _matches is false: the next rule.
NoMatch(h, r) ==
  /\ pc[h] = "loop"
  /\ r \in todo[h] \ (Malformed \cup Matching[event[h]])
  /\ todo' = [todo EXCEPT ![h] = @ \ {r}]
  /\ UNCHANGED <<rowVars, redisVars, settled, pc, event, attempt, rule, tx, inserts, faults, edits, windows>>

\* _debounce_ok (SET NX EX): a rule that has fired in this window is skipped.
Debounce(h, r) ==
  /\ pc[h] = "loop"
  /\ r \in (todo[h] \cap Matching[event[h]]) \ Malformed
  /\ todo' = [todo EXCEPT ![h] = @ \ {r}]
  /\ IF r \in debounced
       THEN UNCHANGED <<debounced, rule, pc>>
       ELSE /\ debounced' = debounced \cup {r}
            /\ rule' = [rule EXCEPT ![h] = r]
            /\ Goto(h, "insert")
  /\ UNCHANGED <<rowVars, pushes, late, pushed, settled, event, attempt, tx, inserts, faults, edits, windows>>

NewAlert(h) == [rule |-> rule[h], n |-> inserts]

InsertAlert(h) ==
  /\ pc[h] = "insert"
  /\ rule[h] \in rules
  /\ tx' = [tx EXCEPT ![h] = @ \cup {NewAlert(h)}]
  /\ inserts' = inserts + 1
  /\ Goto(h, "push")
  /\ UNCHANGED <<rowVars, redisVars, settled, event, attempt, todo, rule, faults, edits, windows>>

\* The alert this evaluation has just inserted.
OpenAlert(h) == CHOOSE a \in tx[h] : a.rule = rule[h]

\* Variant for mutation: an error of the push is logged and passed over.
PushLost(h) ==
  /\ pc[h] = "push"
  /\ rule' = [rule EXCEPT ![h] = Nothing]
  /\ Goto(h, "loop")
  /\ UNCHANGED <<rowVars, redisVars, settled, event, attempt, todo, tx, inserts, faults, edits, windows>>

\* publish_ws: the clients hear of the alert before the commit.
Push(h) ==
  /\ pc[h] = "push"
  /\ pushed' = pushed \cup {OpenAlert(h)}
  /\ pushes' = [pushes EXCEPT ![rule[h]] = @ + 1]
  /\ rule' = [rule EXCEPT ![h] = Nothing]
  /\ Goto(h, "loop")
  /\ UNCHANGED <<rowVars, debounced, late, settled, event, attempt, todo, tx, inserts, faults, edits, windows>>

CommitAlerts(h) ==
  /\ pc[h] = "loop"
  /\ todo[h] = {}
  /\ alerts' = alerts \cup tx[h]
  /\ tx' = [tx EXCEPT ![h] = {}]
  /\ Goto(h, "offset")
  /\ UNCHANGED <<fresh, rules, enabled, redisVars, settled, event, attempt, todo, rule, inserts, faults, edits, windows>>

Leave(h) ==
  /\ Goto(h, "idle")
  /\ event' = [event EXCEPT ![h] = Nothing]
  /\ attempt' = [attempt EXCEPT ![h] = 0]
  /\ todo' = [todo EXCEPT ![h] = {}]
  /\ rule' = [rule EXCEPT ![h] = Nothing]
  /\ tx' = [tx EXCEPT ![h] = {}]

\* The offset is committed, after the handling or after the dead-letter publish.
CommitOffset(h) ==
  /\ pc[h] \in {"offset", "dlt"}
  /\ settled' = settled \cup {event[h]}
  /\ Leave(h)
  /\ UNCHANGED <<rowVars, redisVars, inserts, faults, edits, windows>>

-----------------------------------------------------------------------------
\* Variant for mutation: the attempts are never exhausted.
RetryForever(h) ==
  /\ Goto(h, "select")
  /\ UNCHANGED attempt

\* Variant for mutation: one attempt too many.
RetryOffByOne(h) ==
  IF attempt[h] <= MaxRetries
    THEN /\ attempt' = [attempt EXCEPT ![h] = @ + 1]
         /\ Goto(h, "select")
    ELSE /\ Goto(h, "dlt")
         /\ UNCHANGED attempt

Retry(h) ==
  IF attempt[h] < MaxRetries
    THEN /\ attempt' = [attempt EXCEPT ![h] = @ + 1]
         /\ Goto(h, "select")
    ELSE /\ Goto(h, "dlt")
         /\ UNCHANGED attempt

\* Variant for mutation: the handler gives the debounce keys of its rules back.
RaisedUndebounces(h) ==
  /\ Retry(h)
  /\ debounced' = debounced \ {a.rule : a \in tx[h]}
  /\ todo' = [todo EXCEPT ![h] = {}]
  /\ rule' = [rule EXCEPT ![h] = Nothing]
  /\ tx' = [tx EXCEPT ![h] = {}]
  /\ UNCHANGED <<rowVars, pushes, late, pushed, settled, event, inserts, edits, windows>>

\* An exception leaves evaluate_event: the rows are rolled back, the keys and
\* the messages stay, and the loop tries again or dead-letters.
Raised(h) ==
  /\ Retry(h)
  /\ todo' = [todo EXCEPT ![h] = {}]
  /\ rule' = [rule EXCEPT ![h] = Nothing]
  /\ tx' = [tx EXCEPT ![h] = {}]
  /\ UNCHANGED <<rowVars, redisVars, settled, event, inserts, edits, windows>>

\* float(threshold) raises.
MatchRaises(h, r) ==
  /\ pc[h] = "loop"
  /\ r \in todo[h] \cap Malformed
  /\ Raised(h)
  /\ UNCHANGED faults

\* The rule was deleted after it was read: the foreign key of the alert fails.
InsertRaises(h) ==
  /\ pc[h] = "insert"
  /\ rule[h] \notin rules
  /\ Raised(h)
  /\ UNCHANGED faults

\* Redis, the database or the commit of the offset fails.
Fail(h) ==
  /\ pc[h] \notin {"idle", "dlt"}
  /\ Disturbed
  /\ Raised(h)

\* The process is gone; the event will be delivered again.
Crash(h) ==
  /\ pc[h] # "idle"
  /\ Disturbed
  /\ Leave(h)
  /\ UNCHANGED <<rowVars, redisVars, settled, inserts, edits, windows>>

\* DEBOUNCE_SECONDS pass.
DebounceExpires(r) ==
  /\ r \in debounced
  /\ windows < MaxWindows
  /\ windows' = windows + 1
  /\ debounced' = debounced \ {r}
  /\ pushes' = [pushes EXCEPT ![r] = 0]
  /\ late' = IF \E h \in Handlers : rule[h] = r THEN late \cup {r} ELSE late
  /\ UNCHANGED <<rowVars, pushed, settled, handlerVars, inserts, faults, edits>>

-----------------------------------------------------------------------------
\* create_rule: a new rule is enabled, and takes any condition.
CreateRule(r) ==
  /\ edits < MaxEdits
  /\ edits' = edits + 1
  /\ r \in fresh
  /\ fresh' = fresh \ {r}
  /\ rules' = rules \cup {r}
  /\ enabled' = enabled \cup {r}
  /\ UNCHANGED <<alerts, redisVars, settled, handlerVars, inserts, faults, windows>>

\* update_rule with `enabled`.
UpdateRule(r) ==
  /\ edits < MaxEdits
  /\ edits' = edits + 1
  /\ r \in rules
  /\ enabled' = IF r \in enabled THEN enabled \ {r} ELSE enabled \cup {r}
  /\ UNCHANGED <<fresh, rules, alerts, redisVars, settled, handlerVars, inserts, faults, windows>>

\* delete_rule: waits for transactions whose alerts reference the rule, and ON
\* DELETE CASCADE takes its alerts along.
DeleteRule(r) ==
  /\ edits < MaxEdits
  /\ edits' = edits + 1
  /\ r \in rules
  /\ \A h \in Handlers : \A a \in tx[h] : a.rule # r
  /\ rules' = rules \ {r}
  /\ alerts' = {a \in alerts : a.rule # r}
  /\ UNCHANGED <<fresh, enabled, redisVars, settled, handlerVars, inserts, faults, windows>>

HandlerStep(h) ==
  \/ \E e \in Events : Deliver(h, e)
  \/ SelectRules(h)
  \/ \E r \in Rules : NoMatch(h, r) \/ Debounce(h, r) \/ MatchRaises(h, r)
  \/ InsertAlert(h)
  \/ InsertRaises(h)
  \/ Push(h)
  \/ CommitAlerts(h)
  \/ CommitOffset(h)

Next ==
  \/ \E h \in Handlers : HandlerStep(h) \/ Fail(h) \/ Crash(h)
  \/ \E r \in Rules : DebounceExpires(r) \/ CreateRule(r) \/ UpdateRule(r) \/ DeleteRule(r)

Spec == Init /\ [][Next]_vars

\* While a process of notification-service is up, its consumer goes on.
FairSpec == Spec /\ \A h \in Handlers : WF_vars(HandlerStep(h))

-----------------------------------------------------------------------------
\* A rule is pushed once per window at most ("debounced to max 1 alert/rule/10
\* min"), whatever is retried, redelivered or evaluated at the same time, unless
\* an evaluation took longer than the window.
OnePushPerWindow == \A r \in Rules : pushes[r] > 1 => r \in late

\* An alert in the history was pushed to the clients of its organization.
AlertPushed == alerts \subseteq pushed

\* Without a fault, an edit or a malformed rule, an event that has been settled
\* has an alert for every enabled rule it matches, committed or about to be by
\* the evaluation that holds the debounce key: the one that skips a rule and the
\* one that fires it never both leave it out.
Open(r) == \E h \in Handlers : rule[h] = r \/ \E a \in tx[h] : a.rule = r
QuietEventsAlert ==
  faults = 0 /\ edits = 0 /\ enabled \cap Malformed = {} =>
    \A e \in settled : \A r \in rules \cap enabled \cap Matching[e] :
      Open(r) \/ \E a \in alerts : a.rule = r

\* Neither a malformed rule nor a rule deleted under way stops the consumer.
EveryUpdateSettled == <>(settled = Events)

\* "persist an `alerts` row, email the org admins, and push": what the clients
\* were shown is in the history when no evaluation is under way.
PushedIsPersisted ==
  \A a \in pushed : \/ a \in alerts
                    \/ a.rule \notin rules
                    \/ \E h \in Handlers : a \in tx[h]
=============================================================================

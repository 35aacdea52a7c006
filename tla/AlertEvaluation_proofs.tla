----------------------- MODULE AlertEvaluation_proofs -----------------------
(***************************************************************************)
(* Theorems about AlertEvaluation, for every set of handlers, events and   *)
(* rules, and any number of disturbances, edits and debounce windows, and  *)
(* about the listing of the alerts and its sister, for every table.        *)
(***************************************************************************)
EXTENDS AlertEvaluation, Listings, SumTheorems

\* The part of the state each program counter stands for: an event is held from
\* its delivery to its offset, a rule from its debounce key to its push, and the
\* transaction is open inside the loop over the rules only.
LocalsMatch ==
  \A h \in Handlers :
    /\ pc[h] # "idle" => event[h] # Nothing
    /\ pc[h] \in {"insert", "push"} <=> rule[h] # Nothing
    /\ pc[h] \in {"loop", "insert", "push"} \/ tx[h] = {}
    /\ pc[h] = "push" => \E a \in tx[h] : a.rule = rule[h]

TypeInv == TypeOK /\ LocalsMatch

\* An evaluation has at most one open alert for a rule, and none for a rule it
\* still has to look at.
RulesOnce ==
  \A h \in Handlers :
    /\ rule[h] \notin todo[h]
    /\ \A a \in tx[h] : a.rule \notin todo[h] /\ (a.rule = rule[h] => pc[h] = "push")
    /\ \A a, b \in tx[h] : a.rule = b.rule => a = b

\* Every open alert but the one of the rule at hand has been pushed.
PushInv ==
  /\ AlertPushed
  /\ \A h \in Handlers : \A a \in tx[h] : a.rule = rule[h] \/ a \in pushed

\* Unless its key expired under an evaluation, a rule is in the hands of one
\* evaluation at most, which set its key and is the first of the window to push.
WindowInv ==
  \A r \in Rules \ late :
    /\ pushes[r] <= 1
    /\ r \notin debounced => pushes[r] = 0
    /\ \A h \in Handlers : rule[h] = r => r \in debounced /\ pushes[r] = 0
    /\ \A g, h \in Handlers : rule[g] = r /\ rule[h] = r => g = h

\* A rule somebody has fired: its alert is committed or on its way there.
Fired(r) == Open(r) \/ \E a \in alerts : a.rule = r

\* Nothing has been disturbed or edited, and no rule that is on is malformed.
Quiet == faults = 0 /\ edits = 0 /\ enabled \cap Malformed = {}

\* In a quiet run every rule an evaluation has seen and dropped was fired, by it
\* or by the one that set the debounce key.
SeenInv ==
  /\ \A h \in Handlers :
       /\ pc[h] # "dlt"
       /\ todo[h] \subseteq rules \cap enabled
       /\ pc[h] = "offset" => todo[h] = {}
       /\ rule[h] # Nothing => rule[h] \in rules
       /\ pc[h] \in {"loop", "insert", "push", "offset"} =>
            \A r \in rules \cap enabled \cap Matching[event[h]] : r \in todo[h] \/ Fired(r)
  /\ \A r \in debounced : Fired(r)
  /\ \A e \in settled : \A r \in rules \cap enabled \cap Matching[e] : Fired(r)

QuietInv == Quiet => SeenInv

-----------------------------------------------------------------------------
LEMMA DisturbedType ==
  ASSUME faults \in 0..MaxFaults, Disturbed
  PROVE faults' \in 0..MaxFaults /\ faults' # 0
  BY AlertAssumption DEF Disturbed

LEMMA EditedType ==
  ASSUME edits \in 0..MaxEdits, edits < MaxEdits, edits' = edits + 1
  PROVE edits' \in 0..MaxEdits /\ edits' # 0
  BY AlertAssumption

\* An exception leaves the handler with an empty transaction and no rule at hand.
LEMMA RaisedType ==
  ASSUME TypeInv, NEW h \in Handlers, pc[h] # "idle", Raised(h), faults' \in 0..MaxFaults
  PROVE TypeInv'
<1>1. /\ pc' \in [Handlers -> {"idle", "select", "loop", "insert", "push", "offset", "dlt"}]
      /\ attempt' \in [Handlers -> 0..MaxRetries]
      /\ pc'[h] \in {"select", "dlt"}
      /\ \A g \in Handlers : g # h => pc'[g] = pc[g]
  BY AlertAssumption DEF Raised, Retry, Goto, TypeInv, TypeOK
<1>2. TypeOK'
  BY <1>1 DEF Raised, TypeInv, TypeOK, rowVars, redisVars
<1>3. LocalsMatch'
  BY <1>1 DEF Raised, TypeInv, TypeOK, LocalsMatch, rowVars, redisVars
<1>4. QED
  BY <1>2, <1>3 DEF TypeInv

\* The locals of every evaluation match its program counter.
LEMMA TypeInvariant == Spec => []TypeInv
<1>1. Init => TypeInv
  BY AlertAssumption DEF Init, TypeInv, TypeOK, LocalsMatch
<1>2. TypeInv /\ [Next]_vars => TypeInv'
  <2> SUFFICES ASSUME TypeInv, [Next]_vars
               PROVE TypeInv'
    OBVIOUS
  <2> USE AlertAssumption DEF Goto, rowVars, redisVars, handlerVars
  <2>1. ASSUME NEW h \in Handlers, NEW e \in Events, Deliver(h, e)
        PROVE TypeInv'
    <3>1. faults' \in 0..MaxFaults
      BY <2>1, DisturbedType DEF Deliver, TypeInv, TypeOK
    <3>2. TypeOK'
      BY <2>1, <3>1 DEF Deliver, TypeInv, TypeOK
    <3>3. LocalsMatch'
      BY <2>1 DEF Deliver, TypeInv, TypeOK, LocalsMatch
    <3>4. QED
      BY <3>2, <3>3 DEF TypeInv
  <2>2. ASSUME NEW h \in Handlers, SelectRules(h)
        PROVE TypeInv'
    BY <2>2 DEF SelectRules, TypeInv, TypeOK, LocalsMatch
  <2>3. ASSUME NEW h \in Handlers, NEW r \in Rules, NoMatch(h, r)
        PROVE TypeInv'
    BY <2>3 DEF NoMatch, TypeInv, TypeOK, LocalsMatch
  <2>4. ASSUME NEW h \in Handlers, NEW r \in Rules, Debounce(h, r)
        PROVE TypeInv'
    <3>1. CASE r \in debounced
      BY <2>4, <3>1 DEF Debounce, TypeInv, TypeOK, LocalsMatch
    <3>2. CASE r \notin debounced
      <4>1. TypeOK'
        BY <2>4, <3>2 DEF Debounce, TypeInv, TypeOK
      <4>2. LocalsMatch'
        BY <2>4, <3>2 DEF Debounce, TypeInv, TypeOK, LocalsMatch
      <4>3. QED
        BY <4>1, <4>2 DEF TypeInv
    <3>3. QED
      BY <3>1, <3>2
  <2>5. ASSUME NEW h \in Handlers, InsertAlert(h)
        PROVE TypeInv'
    <3>1. NewAlert(h) \in Alert /\ NewAlert(h).rule = rule[h]
      BY <2>5 DEF InsertAlert, NewAlert, Alert, TypeInv, TypeOK
    <3>2. TypeOK'
      BY <2>5, <3>1 DEF InsertAlert, TypeInv, TypeOK
    <3>3. NewAlert(h) \in tx'[h]
      BY <2>5, <3>1 DEF InsertAlert, TypeInv, TypeOK
    <3>4. LocalsMatch'
      BY <2>5, <3>1, <3>3 DEF InsertAlert, TypeInv, TypeOK, LocalsMatch
    <3>5. QED
      BY <3>2, <3>4 DEF TypeInv
  <2>6. ASSUME NEW h \in Handlers, Push(h)
        PROVE TypeInv'
    <3>1. OpenAlert(h) \in Alert /\ rule[h] \in Rules
      BY <2>6 DEF Push, OpenAlert, TypeInv, TypeOK, LocalsMatch
    <3>2. TypeOK'
      BY <2>6, <3>1 DEF Push, TypeInv, TypeOK
    <3>3. LocalsMatch'
      BY <2>6 DEF Push, TypeInv, TypeOK, LocalsMatch
    <3>4. QED
      BY <3>2, <3>3 DEF TypeInv
  <2>7. ASSUME NEW h \in Handlers, CommitAlerts(h)
        PROVE TypeInv'
    BY <2>7 DEF CommitAlerts, TypeInv, TypeOK, LocalsMatch
  <2>8. ASSUME NEW h \in Handlers, CommitOffset(h)
        PROVE TypeInv'
    BY <2>8 DEF CommitOffset, Leave, TypeInv, TypeOK, LocalsMatch
  <2>9. ASSUME NEW h \in Handlers, NEW r \in Rules, MatchRaises(h, r)
        PROVE TypeInv'
    BY <2>9, RaisedType DEF MatchRaises, TypeInv, TypeOK
  <2>10. ASSUME NEW h \in Handlers, InsertRaises(h)
         PROVE TypeInv'
    BY <2>10, RaisedType DEF InsertRaises, TypeInv, TypeOK
  <2>11. ASSUME NEW h \in Handlers, Fail(h)
         PROVE TypeInv'
    BY <2>11, RaisedType, DisturbedType DEF Fail, TypeInv, TypeOK
  <2>12. ASSUME NEW h \in Handlers, Crash(h)
         PROVE TypeInv'
    <3>1. faults' \in 0..MaxFaults
      BY <2>12, DisturbedType DEF Crash, TypeInv, TypeOK
    <3>2. QED
      BY <2>12, <3>1 DEF Crash, Leave, TypeInv, TypeOK, LocalsMatch
  <2>13. ASSUME NEW r \in Rules, DebounceExpires(r)
         PROVE TypeInv'
    BY <2>13 DEF DebounceExpires, TypeInv, TypeOK, LocalsMatch
  <2>14. ASSUME NEW r \in Rules, CreateRule(r)
         PROVE TypeInv'
    BY <2>14, EditedType DEF CreateRule, TypeInv, TypeOK, LocalsMatch
  <2>15. ASSUME NEW r \in Rules, UpdateRule(r)
         PROVE TypeInv'
    BY <2>15, EditedType DEF UpdateRule, TypeInv, TypeOK, LocalsMatch
  <2>16. ASSUME NEW r \in Rules, DeleteRule(r)
         PROVE TypeInv'
    BY <2>16, EditedType DEF DeleteRule, TypeInv, TypeOK, LocalsMatch
  <2>17. CASE UNCHANGED vars
    BY <2>17 DEF vars, TypeInv, TypeOK, LocalsMatch
  <2>18. QED
    BY <2>1, <2>2, <2>3, <2>4, <2>5, <2>6, <2>7, <2>8, <2>9, <2>10, <2>11, <2>12,
       <2>13, <2>14, <2>15, <2>16, <2>17 DEF Next, HandlerStep
<1>3. QED
  BY <1>1, <1>2, PTL DEF Spec

\* Every variable of the evaluation keeps its type: the attempts stay within
\* max_retries, and an alert is inserted and pushed only for a rule.
THEOREM TypeCorrect == Spec => []TypeOK
  BY TypeInvariant, PTL DEF TypeInv

-----------------------------------------------------------------------------
\* The transaction of an evaluation has at most one alert for a rule.
LEMMA RulesOnceInvariant == Spec => [](TypeInv /\ RulesOnce)
<1>1. Init => RulesOnce
  BY AlertAssumption DEF Init, RulesOnce
<1>2. TypeInv /\ RulesOnce /\ [Next]_vars => RulesOnce'
  <2> SUFFICES ASSUME TypeInv, RulesOnce, [Next]_vars
               PROVE RulesOnce'
    OBVIOUS
  <2> USE AlertAssumption DEF Goto, rowVars, redisVars, handlerVars
  <2>1. ASSUME NEW h \in Handlers, NEW e \in Events, Deliver(h, e)
        PROVE RulesOnce'
    BY <2>1 DEF Deliver, TypeInv, TypeOK, LocalsMatch, RulesOnce
  <2>2. ASSUME NEW h \in Handlers, SelectRules(h)
        PROVE RulesOnce'
    BY <2>2 DEF SelectRules, TypeInv, TypeOK, LocalsMatch, RulesOnce
  <2>3. ASSUME NEW h \in Handlers, NEW r \in Rules, NoMatch(h, r)
        PROVE RulesOnce'
    BY <2>3 DEF NoMatch, TypeInv, TypeOK, RulesOnce
  <2>4. ASSUME NEW h \in Handlers, NEW r \in Rules, Debounce(h, r)
        PROVE RulesOnce'
    <3>1. CASE r \in debounced
      BY <2>4, <3>1 DEF Debounce, TypeInv, TypeOK, RulesOnce
    <3>2. CASE r \notin debounced
      BY <2>4, <3>2 DEF Debounce, TypeInv, TypeOK, LocalsMatch, RulesOnce
    <3>3. QED
      BY <3>1, <3>2
  <2>5. ASSUME NEW h \in Handlers, InsertAlert(h)
        PROVE RulesOnce'
    <3>1. NewAlert(h).rule = rule[h] /\ rule[h] \notin todo[h]
      BY DEF NewAlert, RulesOnce
    <3>2. /\ tx'[h] = tx[h] \cup {NewAlert(h)}
          /\ pc'[h] = "push"
          /\ \A g \in Handlers : g # h => tx'[g] = tx[g] /\ pc'[g] = pc[g]
          /\ UNCHANGED <<rule, todo>>
      BY <2>5 DEF InsertAlert, TypeInv, TypeOK
    <3>3. \A a \in tx[h] : a.rule # rule[h]
      BY <2>5 DEF InsertAlert, RulesOnce
    <3>4. QED
      BY <3>1, <3>2, <3>3 DEF RulesOnce
  <2>6. ASSUME NEW h \in Handlers, Push(h)
        PROVE RulesOnce'
    BY <2>6 DEF Push, Alert, TypeInv, TypeOK, RulesOnce
  <2>7. ASSUME NEW h \in Handlers, CommitAlerts(h)
        PROVE RulesOnce'
    BY <2>7 DEF CommitAlerts, TypeInv, TypeOK, RulesOnce
  <2>8. ASSUME NEW h \in Handlers, CommitOffset(h) \/ Crash(h)
        PROVE RulesOnce'
    BY <2>8 DEF CommitOffset, Crash, Leave, TypeInv, TypeOK, RulesOnce
  <2>9. ASSUME NEW h \in Handlers, Raised(h)
        PROVE RulesOnce'
    <3>1. \A g \in Handlers : g # h => pc'[g] = pc[g]
      BY <2>9 DEF Raised, Retry, TypeInv, TypeOK
    <3>2. QED
      BY <2>9, <3>1 DEF Raised, TypeInv, TypeOK, RulesOnce
  <2>10. ASSUME UNCHANGED <<todo, rule, tx, pc>>
         PROVE RulesOnce'
    BY <2>10 DEF RulesOnce
  <2>11. ASSUME NEW r \in Rules, DebounceExpires(r) \/ CreateRule(r) \/ UpdateRule(r) \/ DeleteRule(r)
         PROVE RulesOnce'
    BY <2>10, <2>11 DEF DebounceExpires, CreateRule, UpdateRule, DeleteRule
  <2>12. QED
    BY <2>1, <2>2, <2>3, <2>4, <2>5, <2>6, <2>7, <2>8, <2>9, <2>10, <2>11
    DEF Next, HandlerStep, MatchRaises, InsertRaises, Fail, vars
<1>3. QED
  BY <1>1, <1>2, TypeInvariant, PTL DEF Spec

-----------------------------------------------------------------------------
\* Every alert that is committed to the history was pushed: an evaluation commits
\* only when no rule is at hand, and it let go of each rule by pushing its alert,
\* or by rolling all of them back.
THEOREM Pushed == Spec => []AlertPushed
<1>1. Init => PushInv
  BY DEF Init, PushInv, AlertPushed
<1>2. TypeInv /\ RulesOnce /\ PushInv /\ [Next]_vars => PushInv'
  <2> SUFFICES ASSUME TypeInv, RulesOnce, PushInv, [Next]_vars
               PROVE PushInv'
    OBVIOUS
  <2> USE AlertAssumption DEF Goto, rowVars, redisVars, handlerVars
  <2>1. ASSUME UNCHANGED <<rule, tx, alerts, pushed>>
        PROVE PushInv'
    BY <2>1 DEF PushInv, AlertPushed
  <2>2. ASSUME NEW h \in Handlers,
               (\E e \in Events : Deliver(h, e)) \/ SelectRules(h) \/ \E r \in Rules : NoMatch(h, r)
        PROVE PushInv'
    BY <2>1, <2>2 DEF Deliver, SelectRules, NoMatch
  <2>3. ASSUME NEW h \in Handlers, NEW r \in Rules, Debounce(h, r)
        PROVE PushInv'
    <3>1. CASE r \in debounced
      BY <2>1, <2>3, <3>1 DEF Debounce
    <3>2. CASE r \notin debounced
      <4>1. rule[h] = Nothing /\ \A a \in tx[h] : a.rule # Nothing
        BY <2>3 DEF Debounce, Alert, TypeInv, TypeOK, LocalsMatch
      <4>2. QED
        BY <2>3, <3>2, <4>1 DEF Debounce, TypeInv, TypeOK, PushInv, AlertPushed
    <3>3. QED
      BY <3>1, <3>2
  <2>4. ASSUME NEW h \in Handlers, InsertAlert(h)
        PROVE PushInv'
    BY <2>4 DEF InsertAlert, NewAlert, TypeInv, TypeOK, PushInv, AlertPushed
  <2>5. ASSUME NEW h \in Handlers, Push(h)
        PROVE PushInv'
    <3>1. \A a \in tx[h] : a.rule = rule[h] => a = OpenAlert(h)
      BY <2>5 DEF Push, OpenAlert, TypeInv, LocalsMatch, RulesOnce
    <3>2. \A a \in tx[h] : a \in pushed'
      BY <2>5, <3>1 DEF Push, PushInv
    <3>3. QED
      BY <2>5, <3>2 DEF Push, TypeInv, TypeOK, PushInv, AlertPushed
  <2>6. ASSUME NEW h \in Handlers, CommitAlerts(h)
        PROVE PushInv'
    <3>1. \A a \in tx[h] : a \in pushed
      BY <2>6 DEF CommitAlerts, Alert, TypeInv, TypeOK, LocalsMatch, PushInv
    <3>2. QED
      BY <2>6, <3>1 DEF CommitAlerts, TypeInv, TypeOK, PushInv, AlertPushed
  <2>7. ASSUME NEW h \in Handlers, CommitOffset(h) \/ Crash(h)
        PROVE PushInv'
    BY <2>7 DEF CommitOffset, Crash, Leave, TypeInv, TypeOK, PushInv, AlertPushed
  <2>8. ASSUME NEW h \in Handlers, Raised(h)
        PROVE PushInv'
    BY <2>8 DEF Raised, TypeInv, TypeOK, PushInv, AlertPushed
  <2>9. ASSUME NEW r \in Rules, DebounceExpires(r) \/ CreateRule(r) \/ UpdateRule(r)
        PROVE PushInv'
    BY <2>1, <2>9 DEF DebounceExpires, CreateRule, UpdateRule
  <2>10. ASSUME NEW r \in Rules, DeleteRule(r)
         PROVE PushInv'
    BY <2>10 DEF DeleteRule, PushInv, AlertPushed
  <2>11. QED
    BY <2>1, <2>2, <2>3, <2>4, <2>5, <2>6, <2>7, <2>8, <2>9, <2>10
    DEF Next, HandlerStep, MatchRaises, InsertRaises, Fail, vars
<1>3. QED
  BY <1>1, <1>2, RulesOnceInvariant, PTL DEF Spec, PushInv

-----------------------------------------------------------------------------
\* "Debounced to max 1 alert/rule/10 min": whatever is retried, redelivered or
\* evaluated at once, a rule is pushed twice in a window only if its key expired
\* while an evaluation had it at hand.
THEOREM Debounced == Spec => []OnePushPerWindow
<1>1. Init => WindowInv
  BY AlertAssumption DEF Init, WindowInv
<1>2. TypeInv /\ WindowInv /\ [Next]_vars => WindowInv'
  <2> SUFFICES ASSUME TypeInv, WindowInv, [Next]_vars
               PROVE WindowInv'
    OBVIOUS
  <2> USE AlertAssumption DEF Goto, rowVars, redisVars, handlerVars
  <2>1. ASSUME UNCHANGED <<debounced, pushes, late>>,
               rule' = rule \/ \E h \in Handlers : rule' = [rule EXCEPT ![h] = Nothing]
        PROVE WindowInv'
    BY <2>1 DEF TypeInv, TypeOK, WindowInv
  <2>2. ASSUME NEW h \in Handlers,
               \/ \E e \in Events : Deliver(h, e)
               \/ SelectRules(h) \/ InsertAlert(h) \/ CommitAlerts(h)
               \/ \E r \in Rules : NoMatch(h, r)
        PROVE WindowInv'
    BY <2>1, <2>2 DEF Deliver, SelectRules, InsertAlert, CommitAlerts, NoMatch
  <2>3. ASSUME NEW h \in Handlers, NEW r \in Rules, Debounce(h, r)
        PROVE WindowInv'
    <3>1. CASE r \in debounced
      BY <2>1, <2>3, <3>1 DEF Debounce
    <3>2. CASE r \notin debounced
      BY <2>3, <3>2 DEF Debounce, TypeInv, TypeOK, WindowInv
    <3>3. QED
      BY <3>1, <3>2
  <2>4. ASSUME NEW h \in Handlers, Push(h)
        PROVE WindowInv'
    <3>1. rule[h] \in Rules
      BY <2>4 DEF Push, TypeInv, TypeOK, LocalsMatch
    <3>2. /\ pushes' = [pushes EXCEPT ![rule[h]] = @ + 1]
          /\ rule' = [rule EXCEPT ![h] = Nothing]
          /\ UNCHANGED <<debounced, late>>
      BY <2>4 DEF Push
    <3>3. QED
      BY <3>1, <3>2 DEF TypeInv, TypeOK, WindowInv
  <2>5. ASSUME NEW h \in Handlers, CommitOffset(h) \/ Crash(h) \/ Raised(h)
        PROVE WindowInv'
    BY <2>1, <2>5 DEF CommitOffset, Crash, Raised, Leave
  <2>6. ASSUME NEW r \in Rules, DebounceExpires(r)
        PROVE WindowInv'
    BY <2>6 DEF DebounceExpires, TypeInv, TypeOK, WindowInv
  <2>7. ASSUME NEW r \in Rules, CreateRule(r) \/ UpdateRule(r) \/ DeleteRule(r)
        PROVE WindowInv'
    BY <2>1, <2>7 DEF CreateRule, UpdateRule, DeleteRule
  <2>8. CASE UNCHANGED vars
    BY <2>1, <2>8 DEF vars
  <2>9. QED
    BY <2>2, <2>3, <2>4, <2>5, <2>6, <2>7, <2>8
    DEF Next, HandlerStep, MatchRaises, InsertRaises, Fail
<1>3. TypeInv /\ WindowInv => OnePushPerWindow
  BY DEF TypeInv, TypeOK, WindowInv, OnePushPerWindow
<1>4. QED
  BY <1>1, <1>2, <1>3, TypeInvariant, PTL DEF Spec

-----------------------------------------------------------------------------
\* A fired rule stays fired as long as nothing is rolled back or deleted.
LEMMA FiredStays ==
  ASSUME TypeInv, NEW h \in Handlers, NEW r \in Rules, Fired(r), SeenInv,
         enabled \cap Malformed = {}, HandlerStep(h)
  PROVE Fired(r)'
<1> USE AlertAssumption DEF Goto, rowVars, redisVars, handlerVars, Fired, Open
<1>1. CASE UNCHANGED <<rule, tx, alerts>>
  BY <1>1
<1>2. ASSUME NEW q \in Rules, Debounce(h, q)
      PROVE Fired(r)'
  <2>1. CASE q \in debounced
    BY <1>2, <2>1 DEF Debounce
  <2>2. CASE q \notin debounced
    BY <1>2, <2>2 DEF Debounce, TypeInv, TypeOK, LocalsMatch
  <2>3. QED
    BY <2>1, <2>2
<1>3. CASE InsertAlert(h)
  BY <1>3 DEF InsertAlert, TypeInv, TypeOK
<1>4. CASE Push(h)
  BY <1>4 DEF Push, TypeInv, TypeOK, LocalsMatch
<1>5. CASE CommitAlerts(h)
  BY <1>5 DEF CommitAlerts, TypeInv, TypeOK
<1>6. CASE CommitOffset(h)
  <2>1. rule[h] = Nothing /\ tx[h] = {} /\ alerts' = alerts
    BY <1>6 DEF CommitOffset, TypeInv, LocalsMatch
  <2>2. QED
    BY <1>6, <2>1 DEF CommitOffset, Leave, TypeInv, TypeOK
<1>7. ASSUME (\E e \in Events : Deliver(h, e)) \/ SelectRules(h) \/ \E q \in Rules : NoMatch(h, q)
      PROVE Fired(r)'
  BY <1>1, <1>7 DEF Deliver, SelectRules, NoMatch
<1>8. ~InsertRaises(h) /\ \A q \in Rules : ~MatchRaises(h, q)
  BY DEF InsertRaises, MatchRaises, SeenInv, TypeInv, TypeOK, LocalsMatch
<1>9. QED
  BY <1>1, <1>2, <1>3, <1>4, <1>5, <1>6, <1>7, <1>8 DEF HandlerStep

\* In a run without faults, edits and malformed rules, every event whose offset is
\* committed has an alert for each rule it matches: of two evaluations that race
\* for a debounce key, the one that loses leaves the rule to one that fires it.
THEOREM QuietAlerts == Spec => []QuietEventsAlert
<1>1. Init => QuietInv
  BY AlertAssumption DEF Init, QuietInv, SeenInv
<1>2. TypeInv /\ QuietInv /\ [Next]_vars => QuietInv'
  <2> SUFFICES ASSUME TypeInv, QuietInv, [Next]_vars, Quiet'
               PROVE SeenInv'
    BY DEF QuietInv
  <2> USE AlertAssumption DEF Goto, rowVars, redisVars, handlerVars
  <2>1. ASSUME NEW r \in Rules, CreateRule(r) \/ UpdateRule(r) \/ DeleteRule(r)
        PROVE FALSE
    BY <2>1, EditedType DEF CreateRule, UpdateRule, DeleteRule, Quiet, TypeInv, TypeOK
  <2>2. ASSUME Disturbed
        PROVE FALSE
    BY <2>2, DisturbedType DEF Quiet, TypeInv, TypeOK
  <2>3. ASSUME NEW h \in Handlers, Fail(h) \/ Crash(h)
        PROVE FALSE
    BY <2>2, <2>3 DEF Fail, Crash
  <2>4. Quiet /\ UNCHANGED <<rules, enabled, edits>>
    <3>1. CASE UNCHANGED vars
      BY <3>1 DEF vars, Quiet
    <3>2. ASSUME NEW r \in Rules, DebounceExpires(r)
          PROVE Quiet /\ UNCHANGED <<rules, enabled, edits>>
      BY <3>2 DEF DebounceExpires, Quiet
    <3>3. ASSUME NEW h \in Handlers, HandlerStep(h)
          PROVE UNCHANGED <<rules, enabled, edits, faults>>
      <4>1. ASSUME NEW e \in Events, Deliver(h, e)
            PROVE UNCHANGED <<rules, enabled, edits, faults>>
        BY <2>2, <4>1 DEF Deliver
      <4>2. QED
        BY <3>3, <4>1 DEF HandlerStep, SelectRules, NoMatch, Debounce, MatchRaises, InsertAlert,
           InsertRaises, Raised, Push, CommitAlerts, CommitOffset
    <3>4. QED
      BY <2>1, <2>3, <3>1, <3>2, <3>3 DEF Next, Quiet
  <2>5. SeenInv /\ faults = 0 /\ faults' = 0 /\ enabled \cap Malformed = {}
    BY <2>4 DEF QuietInv, Quiet
  <2>6. ASSUME UNCHANGED <<pc, todo, event, rule, tx, alerts, settled>>, debounced' \subseteq debounced
        PROVE SeenInv'
    BY <2>4, <2>5, <2>6 DEF SeenInv, Fired, Open
  <2>7. ASSUME NEW r \in Rules, DebounceExpires(r)
        PROVE SeenInv'
    BY <2>6, <2>7 DEF DebounceExpires
  <2>8. ASSUME NEW h \in Handlers, HandlerStep(h)
        PROVE SeenInv'
    <3>1. \A r \in Rules : Fired(r) => Fired(r)'
      BY <2>5, <2>8, FiredStays
    <3>2. /\ debounced \subseteq Rules /\ rules \subseteq Rules
          /\ \A g \in Handlers : todo[g] \subseteq Rules
      BY DEF TypeInv, TypeOK
    <3>3. ASSUME NEW e \in Events, Deliver(h, e)
          PROVE SeenInv'
      BY <2>4, <2>5, <3>1, <3>2, <3>3 DEF Deliver, SeenInv, TypeInv, TypeOK
    <3>4. CASE SelectRules(h)
      BY <2>4, <2>5, <3>1, <3>2, <3>4 DEF SelectRules, SeenInv, TypeInv, TypeOK
    <3>5. ASSUME NEW r \in Rules, NoMatch(h, r)
          PROVE SeenInv'
      BY <2>4, <2>5, <3>1, <3>2, <3>5 DEF NoMatch, SeenInv, TypeInv, TypeOK
    <3>6. ASSUME NEW r \in Rules, Debounce(h, r)
          PROVE SeenInv'
      <4>1. CASE r \in debounced
        BY <2>4, <2>5, <3>1, <3>2, <3>6, <4>1 DEF Debounce, SeenInv, TypeInv, TypeOK
      <4>2. CASE r \notin debounced
        <5>1. Fired(r)'
          BY <3>6, <4>2 DEF Debounce, Fired, Open, TypeInv, TypeOK
        <5>2. QED
          BY <2>4, <2>5, <3>1, <3>2, <3>6, <4>2, <5>1 DEF Debounce, SeenInv, TypeInv, TypeOK
      <4>3. QED
        BY <4>1, <4>2
    <3>7. CASE InsertAlert(h)
      BY <2>4, <2>5, <3>1, <3>2, <3>7 DEF InsertAlert, SeenInv, TypeInv, TypeOK
    <3>8. CASE Push(h)
      BY <2>4, <2>5, <3>1, <3>2, <3>8 DEF Push, SeenInv, TypeInv, TypeOK
    <3>9. CASE CommitAlerts(h)
      BY <2>4, <2>5, <3>1, <3>2, <3>9 DEF CommitAlerts, SeenInv, TypeInv, TypeOK
    <3>10. CASE CommitOffset(h)
      BY <2>4, <2>5, <3>1, <3>2, <3>10 DEF CommitOffset, Leave, SeenInv, TypeInv, TypeOK
    <3>11. ~InsertRaises(h) /\ \A r \in Rules : ~MatchRaises(h, r)
      BY <2>5 DEF InsertRaises, MatchRaises, SeenInv, TypeInv, TypeOK, LocalsMatch
    <3>12. QED
      BY <2>8, <3>3, <3>4, <3>5, <3>6, <3>7, <3>8, <3>9, <3>10, <3>11 DEF HandlerStep
  <2>9. CASE UNCHANGED vars
    BY <2>6, <2>9 DEF vars
  <2>10. QED
    BY <2>1, <2>3, <2>7, <2>8, <2>9 DEF Next
<1>3. QuietInv => QuietEventsAlert
  BY DEF QuietInv, Quiet, SeenInv, Fired, QuietEventsAlert
<1>4. QED
  BY <1>1, <1>2, <1>3, TypeInvariant, PTL DEF Spec

-----------------------------------------------------------------------------
(* Listings *)

LEMMA NewestSize ==
  ASSUME NEW rows, IsFiniteSet(rows), NEW n \in Nat, NEW p \in Newest(rows, n)
  PROVE  /\ p \subseteq rows /\ IsFiniteSet(p)
         /\ Cardinality(rows) <= n => p = rows
         /\ Cardinality(rows) > n => Cardinality(p) = n
<1>1. p \subseteq rows /\ IsFiniteSet(p)
  BY FS_Subset DEF Newest
<1>2. Cardinality(rows) \in Nat /\ Cardinality(p) = IF Cardinality(rows) < n THEN Cardinality(rows) ELSE n
  BY FS_CardinalityType DEF Newest
<1>3. Cardinality(p) = Cardinality(rows) => p = rows
  BY <1>1, FS_Subset
<1>4. QED
  BY <1>1, <1>2, <1>3

Times == Int \cup {None}
Names == STRING \cup {None}
HistoryQuery == [org : STRING, from_date : Times, to_date : Times, cursor : Times, limit : Nat \ {0}]
MentionQuery == [org : STRING, keyword_id : Names, source : Names, from_date : Times,
                 page : Nat \ {0}, page_size : Nat \ {0}]

\* The next page of alert_history is older than the one its cursor came from, even when
\* alerts came or went in between: reading on shows no alert twice.
THEOREM HistoryAdvances ==
  ASSUME NEW table, NEW later, NEW q \in HistoryQuery, NEW r, NEW s,
         IsHistory(table, q, r), r.next_cursor # None,
         IsHistory(later, [q EXCEPT !.cursor = r.next_cursor], s)
  PROVE  \A a \in s.alerts, b \in r.alerts : a.at < r.next_cursor /\ r.next_cursor <= b.at
<1>1. \A b \in r.alerts : b.at >= r.next_cursor
  BY DEF IsHistory, IsOldest
<1> DEFINE t == [q EXCEPT !.cursor = r.next_cursor]
<1>2. t.cursor = r.next_cursor
  BY DEF HistoryQuery
<1>3. s.alerts \subseteq {a \in later : AlertMatches(a, t)}
  BY DEF IsHistory, Newest
<1>4. \A a \in s.alerts : a.at < r.next_cursor
  BY <1>2, <1>3 DEF AlertMatches
<1>5. QED
  BY <1>1, <1>4

\* An alert of the list that a page leaves out is on the list of the next one, unless it
\* has the very time of the cursor, to the microsecond.
THEOREM HistorySkipsTiesOnly ==
  ASSUME NEW table, \A a \in table : a.at \in Int, NEW q \in HistoryQuery, NEW r,
         IsHistory(table, q, r), r.next_cursor # None,
         NEW a \in table, AlertMatches(a, q), a \notin r.alerts, a.at # r.next_cursor
  PROVE  AlertMatches(a, [q EXCEPT !.cursor = r.next_cursor])
<1>1. PICK rows \in Newest({b \in table : AlertMatches(b, q)}, q.limit + 1) :
        r.alerts \in Newest(rows, q.limit) /\ IsOldest(r.next_cursor, r.alerts)
  BY DEF IsHistory
<1>2. PICK b \in r.alerts : b.at = r.next_cursor
  BY <1>1 DEF IsOldest
<1>3. b \in rows /\ b \in table
  BY <1>1, <1>2 DEF Newest
<1>4. b.at >= a.at
  <2>1. CASE a \in rows
    BY <1>1, <1>2, <2>1 DEF Newest
  <2>2. CASE a \notin rows
    BY <1>1, <1>3, <2>2 DEF Newest
  <2>3. QED
    BY <2>1, <2>2
<1>5. a.at < r.next_cursor
  BY <1>2, <1>3, <1>4
<1> DEFINE t == [q EXCEPT !.cursor = r.next_cursor]
<1>6. t.org = q.org /\ t.from_date = q.from_date /\ t.to_date = q.to_date /\ t.cursor = r.next_cursor
  BY DEF HistoryQuery
<1>7. QED
  BY <1>5, <1>6 DEF AlertMatches

\* Without a cursor there is no more to read.
THEOREM HistoryEnds ==
  ASSUME NEW table, IsFiniteSet(table), NEW q \in HistoryQuery, NEW r, None \notin Int,
         \A a \in table : a.at \in Int,
         IsHistory(table, q, r), r.next_cursor = None
  PROVE  r.alerts = {a \in table : AlertMatches(a, q)}
<1> DEFINE listed == {a \in table : AlertMatches(a, q)}
<1>1. listed \subseteq table /\ IsFiniteSet(listed)
  BY FS_Subset
<1>2. q.limit \in Nat /\ q.limit + 1 \in Nat
  BY DEF HistoryQuery
<1>3. PICK rows \in Newest(listed, q.limit + 1) :
        /\ r.alerts \in Newest(rows, q.limit)
        /\ IF Cardinality(rows) > q.limit THEN IsOldest(r.next_cursor, r.alerts) ELSE r.next_cursor = None
  BY DEF IsHistory
<1>4. rows \subseteq listed /\ r.alerts \subseteq rows
  BY <1>3 DEF Newest
<1>5. ~(Cardinality(rows) > q.limit)
  <2>1. \A a \in r.alerts : a.at # None
    BY <1>1, <1>4
  <2>2. QED
    BY <1>3, <2>1 DEF IsOldest
<1> HIDE DEF listed
<1>6. IsFiniteSet(rows) /\ Cardinality(rows) \in Nat /\ Cardinality(listed) \in Nat
  BY <1>1, <1>4, FS_Subset, FS_CardinalityType
<1>7. rows = listed
  BY <1>1, <1>2, <1>3, <1>5, <1>6, NewestSize
<1>8. r.alerts = rows
  BY <1>2, <1>3, <1>5, <1>6, NewestSize
<1>9. QED
  BY <1>7, <1>8 DEF listed

LEMMA Least ==
  ASSUME NEW n \in Nat, NEW S, S \subseteq 1..n, S # {}
  PROVE  \E m \in S : \A k \in S : m <= k
<1>1. IsFiniteSet(S) /\ S \subseteq Int
  <2>1. IsFiniteSet(1..n) /\ 1..n \subseteq Int
    BY FS_Interval
  <2>2. QED
    BY <2>1, FS_Subset
<1>2. Min(S) \in S /\ \A k \in S : Min(S) <= k
  BY ONLY <1>1, S # {}, Extremes
<1>3. QED
  BY <1>2

\* A client that reads the history of an unchanged table to the end, each page by the
\* cursor of the one before it, has seen every alert of its list, but those that share
\* their time with the end of a page.
THEOREM HistoryComplete ==
  ASSUME None \notin Int, NEW table, IsFiniteSet(table), \A a \in table : a.at \in Int,
         NEW n \in Nat \ {0}, NEW query, NEW answer,
         \A i \in 1..n : query[i] \in HistoryQuery /\ IsHistory(table, query[i], answer[i]),
         \A i \in 1..n : i < n => /\ answer[i].next_cursor # None
                                  /\ query[i + 1] = [query[i] EXCEPT !.cursor = answer[i].next_cursor],
         answer[n].next_cursor = None,
         NEW a \in table, AlertMatches(a, query[1])
  PROVE  \/ \E i \in 1..n : a \in answer[i].alerts
         \/ \E i \in 1..n : a.at = answer[i].next_cursor
<1> SUFFICES ASSUME \A i \in 1..n : a \notin answer[i].alerts /\ a.at # answer[i].next_cursor
             PROVE  FALSE
  OBVIOUS
<1> DEFINE left == {i \in 1..n : ~AlertMatches(a, query[i])}
<1>1. AlertMatches(a, query[n]) => FALSE
  <2> SUFFICES ASSUME AlertMatches(a, query[n]) PROVE FALSE
    OBVIOUS
  <2>1. n \in 1..n
    OBVIOUS
  <2>2. answer[n].alerts = {b \in table : AlertMatches(b, query[n])}
    BY <2>1, HistoryEnds
  <2>3. QED
    BY <2>1, <2>2
<1>2. left \subseteq 1..n /\ left # {}
  BY <1>1
<1>3. PICK m \in left : \A k \in left : m <= k
  BY ONLY n \in Nat \ {0}, <1>2, Least
<1>4. m \in 1..n /\ m # 1 /\ ~AlertMatches(a, query[m])
  OBVIOUS
<1>5. PICK i \in 1..n : i < n /\ m = i + 1
  <2>1. m - 1 \in 1..n /\ m - 1 < n /\ m = (m - 1) + 1
    BY <1>4
  <2>2. QED
    BY <2>1
<1>6. AlertMatches(a, query[i])
  BY <1>3, <1>5
<1>7. AlertMatches(a, [query[i] EXCEPT !.cursor = answer[i].next_cursor])
  BY <1>5, <1>6, HistorySkipsTiesOnly
<1>8. QED
  BY <1>4, <1>5, <1>7

\* Nor has it seen an alert twice, whatever alerts came and went while it was reading.
THEOREM HistoryOnce ==
  ASSUME NEW table, NEW n \in Nat \ {0}, NEW query, NEW answer,
         \A i \in 1..n : /\ \A a \in table[i] : a.at \in Int
                         /\ query[i] \in HistoryQuery /\ IsHistory(table[i], query[i], answer[i]),
         \A i \in 1..n : i < n => /\ answer[i].next_cursor # None
                                  /\ query[i + 1] = [query[i] EXCEPT !.cursor = answer[i].next_cursor],
         NEW i \in 1..n, NEW j \in 1..n, i < j,
         NEW a \in answer[i].alerts, NEW b \in answer[j].alerts
  PROVE  b.at < a.at
<1> DEFINE end == answer[i].next_cursor
           behind == {k \in 1..n : i < k /\ \E x \in answer[k].alerts : ~(x.at < end)}
<1>1. \A k \in 1..n : \A x \in answer[k].alerts : x.at \in Int
  BY DEF IsHistory, Newest
<1>2. \A k \in 1..n : k < n => /\ answer[k].next_cursor \in Int
                               /\ \E x \in answer[k].alerts : x.at = answer[k].next_cursor
                               /\ \A x \in answer[k].alerts : x.at >= answer[k].next_cursor
                               /\ \A x \in answer[k + 1].alerts : x.at < answer[k].next_cursor
  <2> SUFFICES ASSUME NEW k \in 1..n, k < n
               PROVE  /\ answer[k].next_cursor \in Int
                      /\ \E x \in answer[k].alerts : x.at = answer[k].next_cursor
                      /\ \A x \in answer[k].alerts : x.at >= answer[k].next_cursor
                      /\ \A x \in answer[k + 1].alerts : x.at < answer[k].next_cursor
    OBVIOUS
  <2>1. IsHistory(table[k], query[k], answer[k]) /\ answer[k].next_cursor # None /\ query[k] \in HistoryQuery
    OBVIOUS
  <2>2. IsOldest(answer[k].next_cursor, answer[k].alerts)
    BY <2>1 DEF IsHistory
  <2>3. k + 1 \in 1..n /\ IsHistory(table[k + 1], [query[k] EXCEPT !.cursor = answer[k].next_cursor], answer[k + 1])
    OBVIOUS
  <2>4. \E x \in answer[k].alerts : x.at = answer[k].next_cursor
    BY <2>2 DEF IsOldest
  <2>5. \A x \in answer[k + 1].alerts, y \in answer[k].alerts :
          x.at < answer[k].next_cursor /\ answer[k].next_cursor <= y.at
    BY ONLY <2>1, <2>3, HistoryAdvances
  <2>6. QED
    BY <1>1, <2>2, <2>4, <2>5 DEF IsOldest
<1>3. i < n /\ end \in Int /\ a.at >= end
  BY <1>2
<1>4. ASSUME behind # {} PROVE FALSE
  <2>1. behind \subseteq 1..n
    OBVIOUS
  <2>2. PICK m \in behind : \A k \in behind : m <= k
    BY ONLY n \in Nat \ {0}, <1>4, <2>1, Least
  <2>3. PICK k \in 1..n : k < n /\ m = k + 1 /\ i <= k
    <3>1. m - 1 \in 1..n /\ m - 1 < n /\ m = (m - 1) + 1 /\ i <= m - 1
      BY <2>2
    <3>2. QED
      BY <3>1
  <2>4. k # i
    BY <1>2, <2>2, <2>3
  <2>5. \A x \in answer[k].alerts : x.at < end
    BY <2>2, <2>3, <2>4
  <2>6. answer[k].next_cursor < end
    BY <1>2, <2>3, <2>5
  <2>7. \A x \in answer[m].alerts : x.at < end
    BY <1>1, <1>2, <1>3, <2>3, <2>6
  <2>8. QED
    BY <2>2, <2>7
<1>5. b.at < end
  BY <1>4
<1>6. QED
  BY <1>1, <1>3, <1>5

\* Of rows with times of their own, the newest few are among the newest more.
LEMMA NewestNested ==
  ASSUME NEW rows, IsFiniteSet(rows), \A a \in rows : a.at \in Int,
         \A a, b \in rows : a.at = b.at => a = b,
         NEW n \in Nat, NEW k \in Nat, n <= k, NEW p \in Newest(rows, n), NEW o \in Newest(rows, k)
  PROVE  p \subseteq o
<1> SUFFICES ASSUME NEW a \in p \ o PROVE FALSE
  OBVIOUS
<1>1. p \subseteq rows /\ o \subseteq rows /\ IsFiniteSet(p) /\ IsFiniteSet(o)
  BY FS_Subset DEF Newest
<1>2. \A b \in o \ p : FALSE
  BY <1>1 DEF Newest
<1>3. o \subseteq p /\ o # p
  BY <1>2
<1>4. Cardinality(o) < Cardinality(p)
  <2>1. Cardinality(o) \in Nat /\ Cardinality(p) \in Nat
    BY <1>1, FS_CardinalityType
  <2>2. Cardinality(o) <= Cardinality(p) /\ Cardinality(o) # Cardinality(p)
    BY <1>1, <1>3, FS_Subset
  <2>3. QED
    BY <2>1, <2>2
<1>5. /\ Cardinality(rows) \in Nat
      /\ Cardinality(p) = IF Cardinality(rows) < n THEN Cardinality(rows) ELSE n
      /\ Cardinality(o) = IF Cardinality(rows) < k THEN Cardinality(rows) ELSE k
  BY FS_CardinalityType DEF Newest
<1>6. QED
  BY <1>4, <1>5

\* A page and what is before it are the newest of a later page's offset.
LEMMA PageOfNewest ==
  ASSUME NEW rows, IsFiniteSet(rows), \A a \in rows : a.at \in Int,
         NEW n \in Nat, NEW k \in Nat, NEW o \in Newest(rows, n), NEW p \in Newest(rows \ o, k)
  PROVE  o \cup p \in Newest(rows, n + k)
<1>1. o \subseteq rows /\ p \subseteq rows \ o
  BY DEF Newest
<1>2. \A a \in o \cup p, b \in rows \ (o \cup p) : a.at >= b.at
  BY <1>1 DEF Newest
<1>3. /\ Cardinality(rows) \in Nat /\ IsFiniteSet(o) /\ IsFiniteSet(rows \ o) /\ IsFiniteSet(p)
      /\ Cardinality(o) \in Nat /\ Cardinality(p) \in Nat /\ Cardinality(rows \ o) \in Nat
  BY <1>1, FS_CardinalityType, FS_Subset
<1>4. Cardinality(o \cup p) = Cardinality(o) + Cardinality(p)
  <2>1. o \cap p = {}
    BY <1>1
  <2>2. Cardinality(o \cap p) = 0
    BY <2>1, FS_EmptySet
  <2>3. Cardinality(o \cup p) = Cardinality(o) + Cardinality(p) - Cardinality(o \cap p)
    BY <1>3, FS_Union
  <2>4. QED
    BY <1>3, <2>2, <2>3
<1>5. Cardinality(rows \ o) = Cardinality(rows) - Cardinality(o)
  <2>1. rows \cap o = o
    BY <1>1
  <2>2. QED
    BY <1>3, <2>1, FS_Difference
<1>6. /\ Cardinality(o) = IF Cardinality(rows) < n THEN Cardinality(rows) ELSE n
      /\ Cardinality(p) = IF Cardinality(rows \ o) < k THEN Cardinality(rows \ o) ELSE k
  BY DEF Newest
<1>7. Cardinality(o \cup p) = IF Cardinality(rows) < n + k THEN Cardinality(rows) ELSE n + k
  BY <1>3, <1>4, <1>5, <1>6
<1>8. QED
  BY <1>1, <1>2, <1>7 DEF Newest

LEMMA Offsets ==
  ASSUME NEW i \in Nat \ {0}, NEW j \in Nat, i < j, NEW n \in Nat
  PROVE  /\ (i - 1) * n \in Nat /\ (j - 1) * n \in Nat
         /\ (i - 1) * n + n <= (j - 1) * n
<1>1. PICK d \in Nat : j = i + 1 + d
  <2>1. j - i - 1 \in Nat /\ j = i + 1 + (j - i - 1)
    OBVIOUS
  <2>2. QED
    BY <2>1
<1>2. PICK m \in Nat : i = m + 1
  <2>1. i - 1 \in Nat /\ i = (i - 1) + 1
    OBVIOUS
  <2>2. QED
    BY <2>1
<1>3. m * n \in Nat /\ d * n \in Nat /\ i - 1 = m /\ j - 1 = m + 1 + d
  BY <1>1, <1>2
<1>4. (m + 1 + d) * n = m * n + n + d * n
  OBVIOUS
<1>5. QED
  BY <1>3, <1>4

\* Two pages of an unchanged table share no mention if no two mentions of the list were
\* scraped at the same time.
THEOREM MentionPagesApart ==
  ASSUME NEW mentions, IsFiniteSet(mentions), \A a \in mentions : a.at \in Int,
         NEW q \in MentionQuery, NEW j \in Nat, q.page < j,
         \A a, b \in Selected(mentions, q) : a.at = b.at => a = b,
         NEW x, NEW y, NEW r, NEW s,
         IsMentionList(x, mentions, q, r), IsMentionList(y, mentions, [q EXCEPT !.page = j], s)
  PROVE  r.mentions \cap s.mentions = {}
<1> DEFINE rows == Selected(mentions, q)
           t == [q EXCEPT !.page = j]
           n == (q.page - 1) * q.page_size
           k == (j - 1) * q.page_size
<1>1. PICK o \in Newest(rows, n) : r.mentions \in Newest(rows \ o, q.page_size)
  BY DEF IsMentionList
<1>2. PICK u \in Newest(rows, k) : s.mentions \in Newest(rows \ u, q.page_size)
  <2>1. /\ t.org = q.org /\ t.keyword_id = q.keyword_id /\ t.source = q.source
        /\ t.from_date = q.from_date /\ t.page = j /\ t.page_size = q.page_size
    BY DEF MentionQuery
  <2>2. Selected(mentions, t) = rows
    BY <2>1 DEF Selected, MentionMatches
  <2>3. IsMentionList(y, mentions, t, s)
    OBVIOUS
  <2> HIDE DEF t
  <2>4. QED
    BY <2>1, <2>2, <2>3 DEF IsMentionList
<1>3. IsFiniteSet(rows) /\ \A a \in rows : a.at \in Int
  BY FS_Subset DEF Selected
<1>4. n \in Nat /\ k \in Nat /\ n + q.page_size <= k /\ q.page_size \in Nat
  BY Offsets DEF MentionQuery
<1>5. s.mentions \subseteq rows \ u
  BY <1>2 DEF Newest
<1>6. \A a, b \in rows : a.at = b.at => a = b
  OBVIOUS
<1> HIDE DEF rows, n, k
<1>7. o \cup r.mentions \in Newest(rows, n + q.page_size)
  BY <1>1, <1>3, <1>4, PageOfNewest
<1>8. n + q.page_size \in Nat
  BY <1>4
<1>9. o \cup r.mentions \subseteq u
  BY <1>2, <1>3, <1>4, <1>6, <1>7, <1>8, NewestNested
<1>10. QED
  BY <1>5, <1>9
=============================================================================

----------------------- MODULE AnalyticsService_proofs -----------------------
(***************************************************************************)
(* Theorems about AnalyticsService, for every set of mentions, requests,   *)
(* readers and publishers and any number of disturbances and deletions.    *)
(***************************************************************************)
EXTENDS AnalyticsService, SumTheorems, SequenceTheorems

\* A mention that was announced as analysed still is, unless it was deleted, and
\* the events at hand are those of Home.
RowInv ==
  /\ published \cap stored \subseteq analysed
  /\ deletes = 0 => published \subseteq stored
  /\ \A e \in settled : e.org = Home
  /\ consumer.pc # "idle" => consumer.event.org = Home

\* A frame has the mentions whose events are in E, save the deleted ones.
Covers(F, E) == E \cap stored \subseteq F

\* From its SCAN on the consumer answers for the event at hand: an entry that does
\* not have it is still to be deleted, and a reader that does not is marked late.
CacheInv ==
  /\ \A q \in Requests \ tainted : cache[q] # Nothing =>
       /\ Covers(cache[q], settled \ dead)
       /\ consumer.pc = "delete" => q \in consumer.todo \/ Covers(cache[q], {consumer.event})
       /\ consumer.pc = "offset" => Covers(cache[q], {consumer.event})
  /\ \A r \in Readers \ late : reader[r].pc = "set" =>
       /\ Covers(reader[r].frame, settled \ dead)
       /\ consumer.pc \in {"delete", "offset"} => Covers(reader[r].frame, {consumer.event})

\* Unless its key expired under a publish, a keyword is in the hands of one pass
\* at most, which set the key and is the first of the window to publish.
WindowInv ==
  \A k \in Keywords \ slow :
    /\ alerts[k] <= 1
    /\ k \notin debounced => alerts[k] = 0
    /\ \A p \in Publishers : pass[p].keyword = k => k \in debounced /\ alerts[k] = 0
    /\ \A p, o \in Publishers : pass[p].keyword = k /\ pass[o].keyword = k => p = o

-----------------------------------------------------------------------------
\* A row of a frame is the mention, with the sentiment once it is analysed.
LEMMA RowFacts ==
  ASSUME NEW m \in Mentions
  PROVE /\ Row(m) \in AnyRow
        /\ m \in analysed => Row(m) = m
        /\ Row(m).keyword = m.keyword
<1>1. m \in Mention
  BY ServiceAssumption
<1>2. CASE m \in analysed
  <2>1. Row(m) = m
    BY <1>1, <1>2 DEF Row, Mention
  <2>2. QED
    BY <2>1 DEF AnyRow
<1>3. CASE m \notin analysed
  <2>1. Row(m) = [m EXCEPT !.sentiment = Unanalysed]
    BY <1>3 DEF Row
  <2>2. QED
    BY <1>1, <1>3, <2>1 DEF AnyRow, Mention
<1>4. QED
  BY <1>2, <1>3

LEMMA FrameFacts ==
  ASSUME stored \subseteq Mentions, NEW o
  PROVE /\ LoadFrame(o) \in SUBSET AnyRow
        /\ \A x \in LoadFrame(o) : x.keyword \in Keywords
        /\ \A m \in stored \cap analysed : m.org = o => m \in LoadFrame(o)
  BY RowFacts DEF LoadFrame, Keywords

\* Only keywords with a mention spike.
LEMMA SpikeFacts ==
  ASSUME NEW F
  PROVE \A s \in DetectSpikes(F) : \E r \in F : s.keyword = r.keyword
  BY DEF DetectSpikes

LEMMA NothingFacts == Nothing \notin Keywords /\ Nothing \notin Requests /\ Nothing \notin Mentions
  BY ServiceAssumption DEF Keywords, Mention

LEMMA DisturbedType ==
  ASSUME faults \in 0..MaxFaults, Disturbed
  PROVE faults' \in 0..MaxFaults
  BY ServiceAssumption DEF Disturbed

LEMMA LocalsType ==
  /\ Idle \in Request /\ Idle.pc = "idle" /\ Idle.request = Nothing
  /\ Listening \in Handling /\ Listening.pc = "idle" /\ Listening.event = Nothing
  /\ Asleep \in Pass /\ Asleep.pc = "sleep" /\ Asleep.keyword = Nothing
  BY ServiceAssumption DEF Idle, Request, Listening, Handling, Asleep, Pass

\* Every variable of the service keeps its type: the consumer holds a published
\* event while it is busy, a pass a keyword while it alerts.
THEOREM TypeCorrect == Spec => []TypeOK
<1>1. Init => TypeOK
  BY ServiceAssumption, LocalsType DEF Init, TypeOK, Asleep, Idle
<1>2. TypeOK /\ [Next]_vars => TypeOK'
  <2> SUFFICES ASSUME TypeOK, [Next]_vars
               PROVE TypeOK'
    OBVIOUS
  <2> USE ServiceAssumption, LocalsType, NothingFacts, DisturbedType
      DEF rowVars, cacheVars, consumerVars, passVars
  <2>1. ASSUME NEW m \in Mentions, StoreMention(m) \/ Analyse(m)
        PROVE TypeOK'
    BY <2>1 DEF StoreMention, Analyse, TypeOK
  <2>2. ASSUME NEW k \in Keywords, DeleteKeyword(k)
        PROVE TypeOK'
    BY <2>2 DEF DeleteKeyword, TypeOK
  <2>3. ASSUME NEW k \in Keywords, DebounceExpires(k)
        PROVE TypeOK'
    BY <2>3 DEF DebounceExpires, TypeOK
  <2>4. ASSUME NEW r \in Readers, NEW q \in Requests, Miss(r, q)
        PROVE TypeOK'
    <3>1. [pc |-> "load", request |-> q, frame |-> {}] \in Request
      BY DEF Request
    <3>2. QED
      BY <2>4, <3>1 DEF Miss, TypeOK
  <2>5. ASSUME NEW r \in Readers, Load(r)
        PROVE TypeOK'
    <3>1. reader[r] \in Request /\ LoadFrame(Home) \in SUBSET AnyRow
      BY FrameFacts DEF TypeOK
    <3>2. [reader[r] EXCEPT !.pc = "set", !.frame = LoadFrame(Home)] \in Request
      BY <3>1 DEF Request
    <3>3. reader' = [reader EXCEPT ![r] = [reader[r] EXCEPT !.pc = "set", !.frame = LoadFrame(Home)]]
      BY <2>5 DEF Load, TypeOK
    <3>4. QED
      BY <2>5, <3>1, <3>2, <3>3 DEF Load, Request, TypeOK
  <2>6. ASSUME NEW r \in Readers, Set(r)
        PROVE TypeOK'
    <3>1. reader[r].request \in Requests /\ reader[r].frame \in SUBSET AnyRow
      BY <2>6 DEF Set, Request, TypeOK
    <3>2. QED
      BY <2>6, <3>1 DEF Set, Done, TypeOK
  <2>7. ASSUME NEW r \in Readers, ReaderFails(r)
        PROVE TypeOK'
    BY <2>7 DEF ReaderFails, Done, TypeOK
  <2>8. ASSUME NEW q \in Requests, CacheExpires(q)
        PROVE TypeOK'
    BY <2>8 DEF CacheExpires, Drop, TypeOK
  <2>9. ASSUME consumer' \in Handling,
               consumer'.event \in IF consumer'.pc = "idle" THEN {Nothing} ELSE published,
               settled' \subseteq published, dead' \subseteq settled', counter' \in [n : Nat, expires : BOOLEAN],
               cache' \in [Requests -> {Nothing} \cup SUBSET AnyRow],
               late' \subseteq Readers, tainted' \subseteq Requests,
               faults' \in 0..MaxFaults,
               UNCHANGED <<rowVars, reader, passVars, deletes>>
        PROVE TypeOK'
    BY <2>9 DEF TypeOK
  <2>10. ASSUME ConsumerStep \/ HandleFails \/ Crash
         PROVE TypeOK'
    <3>1. consumer \in Handling /\ counter \in [n : Nat, expires : BOOLEAN] /\ published \subseteq Mentions
      BY DEF TypeOK
    <3>2. ASSUME NEW e \in published, Deliver(e)
          PROVE TypeOK'
      <4>1. consumer' = [pc |-> "incr", event |-> e, attempt |-> 1, todo |-> {}]
        BY <3>2 DEF Deliver, Listening
      <4>2. consumer' \in Handling /\ consumer'.event = e /\ consumer'.pc = "incr"
        BY <3>1, <4>1 DEF Handling
      <4>3. QED
        BY <2>9, <3>2, <4>2 DEF Deliver, TypeOK
    <3>3. CASE Incr \/ Expire \/ Scan \/ Scanned \/ HandleFails \/ \E q \in Requests : DeleteKey(q)
      <4>1. consumer.pc # "idle" /\ consumer.event \in published
        BY <3>3 DEF Incr, Expire, Scan, Scanned, HandleFails, DeleteKey, TypeOK
      <4>2. CASE Incr
        <5>1. consumer' \in Handling /\ consumer'.event = consumer.event /\ consumer'.pc # "idle"
          BY <3>1, <4>2 DEF Incr, Handling
        <5>2. counter' \in [n : Nat, expires : BOOLEAN]
          BY <3>1, <4>2 DEF Incr
        <5>3. QED
          BY <2>9, <4>1, <4>2, <5>1, <5>2 DEF Incr, TypeOK
      <4>3. CASE Expire
        <5>1. consumer' \in Handling /\ consumer'.event = consumer.event /\ consumer'.pc # "idle"
          BY <3>1, <4>3 DEF Expire, Handling
        <5>2. counter' \in [n : Nat, expires : BOOLEAN]
          BY <3>1, <4>3 DEF Expire
        <5>3. QED
          BY <2>9, <4>1, <4>3, <5>1, <5>2 DEF Expire, TypeOK
      <4>4. CASE Scan
        <5>1. consumer' \in Handling /\ consumer'.event = consumer.event /\ consumer'.pc # "idle"
          BY <3>1, <4>4 DEF Scan, Handling
        <5>2. QED
          BY <2>9, <4>1, <4>4, <5>1 DEF Scan, TypeOK
      <4>5. CASE Scanned
        <5>1. consumer' \in Handling /\ consumer'.event = consumer.event /\ consumer'.pc # "idle"
          BY <3>1, <4>5 DEF Scanned, Handling
        <5>2. QED
          BY <2>9, <4>1, <4>5, <5>1 DEF Scanned, TypeOK
      <4>6. CASE HandleFails
        <5>1. consumer' \in Handling /\ consumer'.event = consumer.event /\ consumer'.pc # "idle"
          <6>1. CASE consumer.attempt < MaxRetries
            <7>1. consumer.attempt + 1 \in 0..MaxRetries
              BY <3>1, <6>1 DEF Handling
            <7>2. QED
              BY <3>1, <4>6, <6>1, <7>1 DEF HandleFails, Handling
          <6>2. CASE ~(consumer.attempt < MaxRetries)
            BY <3>1, <4>6, <6>2 DEF HandleFails, Handling
          <6>3. QED
            BY <6>1, <6>2
        <5>2. QED
          BY <2>9, <4>1, <4>6, <5>1 DEF HandleFails, TypeOK
      <4>7. ASSUME NEW q \in Requests, DeleteKey(q)
            PROVE TypeOK'
        <5>1. consumer' \in Handling /\ consumer'.event = consumer.event /\ consumer'.pc # "idle"
          BY <3>1, <4>7 DEF DeleteKey, Handling
        <5>2. QED
          BY <2>9, <4>1, <4>7, <5>1 DEF DeleteKey, Drop, TypeOK
      <4>8. QED
        BY <3>3, <4>2, <4>3, <4>4, <4>5, <4>6, <4>7
    <3>4. CASE CommitOffset
      BY <2>9, <3>4 DEF CommitOffset, TypeOK
    <3>5. CASE Crash
      BY <2>9, <3>5 DEF Crash, TypeOK
    <3>6. QED
      BY <2>10, <3>2, <3>3, <3>4, <3>5 DEF ConsumerStep
  <2>11. ASSUME NEW p \in Publishers, NEW new \in Pass,
                pass' = [pass EXCEPT ![p] = new], new.pc = "alert" <=> new.keyword # Nothing,
                debounced' \subseteq Keywords, alerts' \in [Keywords -> Nat], faults' \in 0..MaxFaults,
                UNCHANGED <<rowVars, cacheVars, consumerVars, slow, deletes>>
         PROVE TypeOK'
    BY <2>11 DEF TypeOK
  <2>12. ASSUME NEW p \in Publishers, PassStep(p) \/ PassFails(p)
         PROVE TypeOK'
    <3>1. pass[p] \in Pass /\ (pass[p].pc = "alert" <=> pass[p].keyword # Nothing)
      BY DEF TypeOK
    <3>2. CASE StartPass(p)
      <4> DEFINE S == {m.org : m \in stored}
                 new == [pass[p] EXCEPT !.pc = "orgs", !.orgs = S]
      <4>1. S \subseteq Orgs
        BY DEF Orgs, TypeOK
      <4>2. pass' = [pass EXCEPT ![p] = new] /\ pass[p].pc # "alert"
        BY <3>2 DEF StartPass, TypeOK
      <4> HIDE DEF S
      <4>3. new \in Pass /\ new.pc = "orgs" /\ new.keyword = pass[p].keyword
        BY <3>1, <4>1 DEF Pass
      <4>4. UNCHANGED <<rowVars, cacheVars, consumerVars, debounced, alerts, slow, faults, deletes>>
        BY <3>2 DEF StartPass
      <4>5. debounced \subseteq Keywords /\ alerts \in [Keywords -> Nat] /\ faults \in 0..MaxFaults
        BY DEF TypeOK
      <4>6. new.pc # "alert" /\ new.keyword = Nothing
        BY <3>1, <4>2, <4>3
      <4> HIDE DEF new
      <4>7. QED
        BY <2>11, <4>2, <4>3, <4>4, <4>5, <4>6
    <3>3. ASSUME NEW o \in Orgs, PublishUpdate(p, o)
          PROVE TypeOK'
      <4> DEFINE S == {s.keyword : s \in DetectSpikes(LastWeek(LoadFrame(o)))}
                 new == [pass[p] EXCEPT !.pc = "spikes", !.orgs = @ \ {o}, !.spikes = S]
      <4>0. LastWeek(LoadFrame(o)) \subseteq LoadFrame(o)
        BY DEF LastWeek, InRange
      <4>1. S \subseteq Keywords
        <5>1. \A x \in LoadFrame(o) : x.keyword \in Keywords
          BY FrameFacts DEF TypeOK
        <5>2. \A s \in DetectSpikes(LastWeek(LoadFrame(o))) : \E x \in LastWeek(LoadFrame(o)) : s.keyword = x.keyword
          BY ONLY SpikeFacts
        <5>3. QED
          BY ONLY <4>0, <5>1, <5>2
      <4>2. pass' = [pass EXCEPT ![p] = new] /\ pass[p].pc # "alert"
        BY <3>3 DEF PublishUpdate, TypeOK
      <4> HIDE DEF S
      <4>3. new \in Pass /\ new.pc = "spikes" /\ new.keyword = pass[p].keyword
        BY <3>1, <4>1 DEF Pass
      <4>4. UNCHANGED <<rowVars, cacheVars, consumerVars, debounced, alerts, slow, faults, deletes>>
        BY <3>3 DEF PublishUpdate
      <4>5. debounced \subseteq Keywords /\ alerts \in [Keywords -> Nat] /\ faults \in 0..MaxFaults
        BY DEF TypeOK
      <4>6. new.pc # "alert" /\ new.keyword = Nothing
        BY <3>1, <4>2, <4>3
      <4> HIDE DEF new
      <4>7. QED
        BY <2>11, <4>2, <4>3, <4>4, <4>5, <4>6
    <3>4. ASSUME NEW k \in Keywords, Debounce(p, k)
          PROVE TypeOK'
      <4>1. CASE k \in debounced
        <5>1. pass' = [pass EXCEPT ![p] = [pass[p] EXCEPT !.spikes = @ \ {k}]]
          BY <3>4, <4>1 DEF Debounce, TypeOK
        <5>2. [pass[p] EXCEPT !.spikes = @ \ {k}] \in Pass
          BY <3>1 DEF Pass
        <5>3. QED
          BY <2>11, <3>1, <3>4, <5>1, <5>2 DEF Debounce, Pass, TypeOK
      <4>2. CASE k \notin debounced
        <5> DEFINE new == [pass[p] EXCEPT !.pc = "alert", !.spikes = @ \ {k}, !.keyword = k]
        <5>1. new \in Pass /\ new.pc = "alert" /\ new.keyword = k
          BY <3>1 DEF Pass
        <5>2. pass' = [pass EXCEPT ![p] = new]
          BY <3>4, <4>2 DEF Debounce, TypeOK
        <5> HIDE DEF new
        <5>3. UNCHANGED <<rowVars, cacheVars, consumerVars, alerts, slow, faults, deletes>>
          BY <3>4 DEF Debounce
        <5>4. debounced' \subseteq Keywords /\ alerts \in [Keywords -> Nat] /\ faults \in 0..MaxFaults
          BY <3>4 DEF Debounce, TypeOK
        <5>5. QED
          BY <2>11, <3>4, <5>1, <5>2, <5>3, <5>4
      <4>3. QED
        BY <4>1, <4>2
    <3>5. CASE PublishAlert(p)
      <4> DEFINE new == [pass[p] EXCEPT !.pc = "spikes", !.keyword = Nothing]
      <4>1. new \in Pass /\ new.pc = "spikes" /\ new.keyword = Nothing
        BY <3>1 DEF Pass
      <4>2. pass' = [pass EXCEPT ![p] = new]
        BY <3>5 DEF PublishAlert, TypeOK
      <4>3. pass[p].keyword \in Keywords
        BY <3>1, <3>5 DEF PublishAlert, Pass
      <4> HIDE DEF new
      <4>4. UNCHANGED <<rowVars, cacheVars, consumerVars, debounced, slow, faults, deletes>>
        BY <3>5 DEF PublishAlert
      <4>5. debounced \subseteq Keywords /\ alerts' \in [Keywords -> Nat] /\ faults \in 0..MaxFaults
        BY <3>5, <4>3 DEF PublishAlert, TypeOK
      <4>6. QED
        BY <2>11, <4>1, <4>2, <4>4, <4>5
    <3>6. CASE NextOrg(p)
      <4> DEFINE new == [pass[p] EXCEPT !.pc = IF pass[p].orgs = {} THEN "sleep" ELSE "orgs"]
      <4>1. new \in Pass /\ new.pc # "alert" /\ new.keyword = pass[p].keyword
        BY <3>1 DEF Pass
      <4>2. pass' = [pass EXCEPT ![p] = new]
        BY <3>6 DEF NextOrg, TypeOK
      <4>3. pass[p].keyword = Nothing
        BY <3>1, <3>6 DEF NextOrg
      <4>4. QED
        BY <2>11, <3>6, <4>1, <4>2, <4>3 DEF NextOrg, TypeOK
    <3>7. CASE PassFails(p)
      BY <2>11, <3>7 DEF PassFails, TypeOK
    <3>8. QED
      BY <2>12, <3>2, <3>3, <3>4, <3>5, <3>6, <3>7 DEF PassStep
  <2>13. CASE UNCHANGED vars
    BY <2>13 DEF vars, TypeOK
  <2>14. QED
    BY <2>1, <2>2, <2>3, <2>4, <2>5, <2>6, <2>7, <2>8, <2>10, <2>12, <2>13 DEF Next, ReaderStep
<1>3. QED
  BY <1>1, <1>2, PTL DEF Spec

-----------------------------------------------------------------------------
\* "Prevents duplicate spike alerts for the same keyword within the window":
\* SET NX lets one pass through in each window, however many processes publish and
\* whatever fails, unless the key ran out under a publish.
THEOREM Debounced == Spec => []OneSpikeAlertPerWindow
<1>1. Init => WindowInv
  BY NothingFacts DEF Init, Asleep, WindowInv
<1>2. TypeOK /\ WindowInv /\ [Next]_vars => WindowInv'
  <2> SUFFICES ASSUME TypeOK, WindowInv, [Next]_vars
               PROVE WindowInv'
    OBVIOUS
  <2> USE NothingFacts DEF rowVars, cacheVars, consumerVars, passVars
  <2>1. ASSUME UNCHANGED <<debounced, alerts, slow>>,
               \A p \in Publishers : pass'[p].keyword \in {pass[p].keyword, Nothing}
        PROVE WindowInv'
    BY <2>1 DEF WindowInv
  <2>2. CASE UNCHANGED passVars
    BY <2>1, <2>2
  <2>3. ASSUME NEW p \in Publishers, Asleep.keyword = Nothing,
               StartPass(p) \/ NextOrg(p) \/ PassFails(p) \/ \E o \in Orgs : PublishUpdate(p, o)
        PROVE WindowInv'
    <3>1. pass[p] \in Pass /\ DOMAIN pass = Publishers
      BY DEF TypeOK
    <3>2. pass'[p].keyword \in {pass[p].keyword, Nothing} /\ \A o \in Publishers : o # p => pass'[o] = pass[o]
      <4>1. CASE StartPass(p)
        BY <3>1, <4>1 DEF StartPass, Pass
      <4>2. CASE NextOrg(p)
        BY <3>1, <4>2 DEF NextOrg, Pass
      <4>3. CASE PassFails(p)
        BY <2>3, <3>1, <4>3 DEF PassFails
      <4>4. ASSUME NEW o \in Orgs, PublishUpdate(p, o)
            PROVE pass'[p].keyword = pass[p].keyword /\ \A q \in Publishers : q # p => pass'[q] = pass[q]
        BY <3>1, <4>4 DEF PublishUpdate, Pass
      <4>5. QED
        BY <2>3, <4>1, <4>2, <4>3, <4>4
    <3>3. UNCHANGED <<debounced, alerts, slow>>
      BY <2>3 DEF StartPass, NextOrg, PassFails, PublishUpdate
    <3>4. QED
      BY <2>1, <3>2, <3>3
  <2>4. ASSUME NEW p \in Publishers, NEW k \in Keywords, Debounce(p, k)
        PROVE WindowInv'
    <3>1. pass[p] \in Pass /\ DOMAIN pass = Publishers /\ UNCHANGED <<alerts, slow>>
      BY <2>4 DEF Debounce, TypeOK
    <3>2. CASE k \in debounced
      <4>1. \A o \in Publishers : pass'[o].keyword = pass[o].keyword
        BY <2>4, <3>1, <3>2 DEF Debounce, Pass
      <4>2. debounced' = debounced
        BY <2>4, <3>2 DEF Debounce
      <4>3. QED
        BY <2>1, <3>1, <4>1, <4>2
    <3>3. CASE k \notin debounced
      <4>1. pass'[p].keyword = k /\ \A o \in Publishers : o # p => pass'[o] = pass[o]
        BY <2>4, <3>1, <3>3 DEF Debounce, Pass
      <4>2. debounced' = debounced \cup {k}
        BY <2>4 DEF Debounce
      <4>3. k \notin slow => \A o \in Publishers : pass[o].keyword # k
        BY <3>3 DEF WindowInv
      <4>4. QED
        BY <3>1, <3>3, <4>1, <4>2, <4>3 DEF WindowInv
    <3>4. QED
      BY <3>2, <3>3
  <2>5. ASSUME NEW p \in Publishers, PublishAlert(p)
        PROVE WindowInv'
    <3>1. pass[p] \in Pass /\ DOMAIN pass = Publishers /\ pass[p].keyword \in Keywords
      BY <2>5 DEF PublishAlert, Pass, TypeOK
    <3>2. pass'[p].keyword = Nothing /\ \A o \in Publishers : o # p => pass'[o] = pass[o]
      BY <2>5, <3>1 DEF PublishAlert, Pass
    <3>3. alerts' = [alerts EXCEPT ![pass[p].keyword] = @ + 1] /\ UNCHANGED <<debounced, slow>>
      BY <2>5 DEF PublishAlert
    <3>4. QED
      BY <3>1, <3>2, <3>3 DEF TypeOK, WindowInv
  <2>6. ASSUME NEW k \in Keywords, DebounceExpires(k)
        PROVE WindowInv'
    BY <2>6 DEF DebounceExpires, TypeOK, WindowInv
  <2>7. Asleep.keyword = Nothing
    BY LocalsType
  <2>8. QED
    BY <2>2, <2>3, <2>4, <2>5, <2>6, <2>7
    DEF Next, PassStep, ReaderStep, ConsumerStep, StoreMention, Analyse, DeleteKeyword, Miss, Load, Set,
        ReaderFails, CacheExpires, Deliver, Incr, Expire, Scan, DeleteKey, Scanned, CommitOffset,
        HandleFails, Crash, vars
<1>3. TypeOK /\ WindowInv => OneSpikeAlertPerWindow
  BY DEF TypeOK, WindowInv, OneSpikeAlertPerWindow
<1>4. QED
  BY <1>1, <1>2, <1>3, TypeCorrect, PTL DEF Spec

-----------------------------------------------------------------------------
\* A mention whose event is out is analysed until it is deleted, and it never
\* comes back after that.
LEMMA RowInvariant == Spec => [](TypeOK /\ RowInv)
<1>1. Init => RowInv
  BY LocalsType DEF Init, RowInv
<1>2. TypeOK /\ RowInv /\ [Next]_vars => RowInv'
  <2> SUFFICES ASSUME TypeOK, RowInv, [Next]_vars
               PROVE RowInv'
    OBVIOUS
  <2> USE LocalsType DEF rowVars, cacheVars, consumerVars, passVars
  <2>1. ASSUME UNCHANGED <<rowVars, deletes, settled>>,
               consumer'.pc # "idle" => consumer'.event = consumer.event /\ consumer.pc # "idle"
        PROVE RowInv'
    BY <2>1 DEF RowInv
  <2>2. ASSUME NEW m \in Mentions, StoreMention(m) \/ Analyse(m)
        PROVE RowInv'
    BY <2>2 DEF StoreMention, Analyse, RowInv, TypeOK
  <2>3. ASSUME NEW k \in Keywords, DeleteKeyword(k)
        PROVE RowInv'
    <3>1. deletes' # 0
      BY <2>3, ServiceAssumption DEF DeleteKeyword, TypeOK
    <3>2. QED
      BY <2>3, <3>1 DEF DeleteKeyword, RowInv
  <2>4. ASSUME NEW e \in published, e.org = Home, Deliver(e)
        PROVE RowInv'
    <3>1. consumer' = [pc |-> "incr", event |-> e, attempt |-> 1, todo |-> {}]
      BY <2>4 DEF Deliver, Listening
    <3>2. QED
      BY <2>4, <3>1 DEF Deliver, RowInv
  <2>5. ASSUME Incr \/ Expire \/ Scan \/ Scanned \/ HandleFails \/ \E q \in Requests : DeleteKey(q)
        PROVE RowInv'
    <3>1. consumer.pc # "idle" /\ UNCHANGED <<rowVars, deletes, settled>>
      BY <2>5 DEF Incr, Expire, Scan, Scanned, HandleFails, DeleteKey
    <3>2. consumer'.event = consumer.event
      <4>1. consumer \in Handling
        BY DEF TypeOK
      <4>2. CASE Incr \/ Expire \/ Scan \/ Scanned \/ \E q \in Requests : DeleteKey(q)
        BY <4>1, <4>2 DEF Incr, Expire, Scan, Scanned, DeleteKey, Handling
      <4>3. CASE HandleFails
        BY <4>1, <4>3 DEF HandleFails, Handling
      <4>4. QED
        BY <2>5, <4>2, <4>3
    <3>3. QED
      BY <2>1, <3>1, <3>2
  <2>6. CASE CommitOffset
    BY <2>6 DEF CommitOffset, RowInv
  <2>7. CASE Crash
    BY <2>1, <2>7 DEF Crash
  <2>8. CASE UNCHANGED <<rowVars, consumerVars, deletes>>
    BY <2>1, <2>8
  <2>9. QED
    BY <2>2, <2>3, <2>4, <2>5, <2>6, <2>7, <2>8
    DEF Next, PassStep, ReaderStep, ConsumerStep, DebounceExpires, Miss, Load, Set, ReaderFails, CacheExpires,
        StartPass, PublishUpdate, Debounce, PublishAlert, NextOrg, PassFails, vars
<1>3. QED
  BY <1>1, <1>2, TypeCorrect, PTL DEF Spec

\* The frame a request would load now has the mentions whose events are out.
LEMMA FrameCovers ==
  ASSUME TypeOK, RowInv, NEW E \in SUBSET published, \A e \in E : e.org = Home
  PROVE Covers(LoadFrame(Home), E)
  BY FrameFacts DEF Covers, RowInv, TypeOK

\* While stored mentions can come, no event is out for a mention that is gone: a
\* frame goes on covering what it covers.
LEMMA CoversStays ==
  ASSUME TypeOK, RowInv, [Next]_vars, NEW F, NEW E \in SUBSET published, Covers(F, E)
  PROVE Covers(F, E)'
<1>1. ASSUME NEW m \in Mentions, StoreMention(m)
      PROVE E \cap stored' \subseteq stored
  BY <1>1 DEF StoreMention, RowInv
<1>2. E \cap stored' \subseteq stored
  BY <1>1 DEF Next, PassStep, ReaderStep, ConsumerStep, Analyse, DeleteKeyword, DebounceExpires, Miss, Load, Set,
     ReaderFails, CacheExpires, Deliver, Incr, Expire, Scan, DeleteKey, Scanned, CommitOffset, HandleFails, Crash,
     StartPass, PublishUpdate, Debounce, PublishAlert, NextOrg, PassFails, vars, rowVars
<1>3. QED
  BY <1>2 DEF Covers

\* Figures from before a handled event are served only if a request loaded them
\* before the invalidation and stored them after it: failures and crashes between
\* the deletes are made good by the next attempt, whose SCAN comes after.
THEOREM StaleByRace == Spec => []StaleOnlyByRace
<1>1. Init => CacheInv
  BY DEF Init, Idle, CacheInv
<1>2. TypeOK /\ RowInv /\ CacheInv /\ [Next]_vars => CacheInv'
  <2> SUFFICES ASSUME TypeOK, RowInv, CacheInv, [Next]_vars
               PROVE CacheInv'
    OBVIOUS
  <2> USE NothingFacts DEF rowVars, cacheVars, consumerVars, passVars
  <2>1. /\ settled \ dead \in SUBSET published
        /\ consumer.pc \in {"delete", "offset"} => {consumer.event} \in SUBSET published /\ consumer.event.org = Home
        /\ \A e \in settled : e.org = Home
    BY DEF RowInv, TypeOK
  <2>2. \A F : Covers(F, settled \ dead) => (settled \ dead) \cap stored' \subseteq F
    BY <2>1, CoversStays DEF Covers
  <2>3. \A F : consumer.pc \in {"delete", "offset"} /\ Covers(F, {consumer.event})
                 => {consumer.event} \cap stored' \subseteq F
    BY <2>1, CoversStays DEF Covers
  <2>4. CASE UNCHANGED <<cacheVars, consumerVars>>
    BY <2>2, <2>3, <2>4 DEF CacheInv, Covers
  <2>5. ASSUME NEW r \in Readers, NEW q \in Requests, Miss(r, q)
        PROVE CacheInv'
    <3>1. reader'[r].pc = "load" /\ \A o \in Readers : o # r => reader'[o] = reader[o]
      BY <2>5 DEF Miss, TypeOK
    <3>2. QED
      BY <2>5, <3>1 DEF Miss, CacheInv, Covers
  <2>6. ASSUME NEW r \in Readers, Load(r)
        PROVE CacheInv'
    <3>1. reader'[r].frame = LoadFrame(Home) /\ \A o \in Readers : o # r => reader'[o] = reader[o]
      BY <2>6 DEF Load, Request, TypeOK
    <3>2. /\ Covers(LoadFrame(Home), settled \ dead)
          /\ consumer.pc \in {"delete", "offset"} => Covers(LoadFrame(Home), {consumer.event})
      BY <2>1, FrameCovers
    <3>3. UNCHANGED <<stored, settled, dead, consumer, cache, late, tainted>>
      BY <2>6 DEF Load
    <3>4. QED
      BY ONLY CacheInv, <3>1, <3>2, <3>3 DEF CacheInv, Covers
  <2>7. ASSUME NEW r \in Readers, Set(r)
        PROVE CacheInv'
    <3>1. reader'[r].pc = "idle" /\ \A o \in Readers : o # r => reader'[o] = reader[o]
      BY <2>7, LocalsType DEF Set, Done, TypeOK
    <3>2. QED
      BY <2>7, <3>1 DEF Set, Done, CacheInv, Covers, TypeOK
  <2>8. ASSUME NEW r \in Readers, ReaderFails(r)
        PROVE CacheInv'
    <3>1. reader'[r].pc = "idle" /\ \A o \in Readers : o # r => reader'[o] = reader[o]
      BY <2>8, LocalsType DEF ReaderFails, Done, TypeOK
    <3>2. QED
      BY <2>8, <3>1 DEF ReaderFails, Done, CacheInv, Covers
  <2>9. ASSUME NEW q \in Requests, CacheExpires(q)
        PROVE CacheInv'
    BY <2>9 DEF CacheExpires, Drop, CacheInv, Covers, TypeOK
  <2>10. ASSUME UNCHANGED <<rowVars, cache, reader, late, tainted, settled, dead>>,
                consumer'.pc \notin {"delete", "offset"}
         PROVE CacheInv'
    BY <2>10 DEF CacheInv, Covers
  <2>11. ASSUME (\E e \in published : Deliver(e)) \/ Incr \/ Expire \/ HandleFails \/ Crash
         PROVE CacheInv'
    <3>1. consumer'.pc \notin {"delete", "offset"}
      <4>1. consumer \in Handling
        BY DEF TypeOK
      <4>2. ASSUME NEW e \in published, Deliver(e)
            PROVE consumer'.pc = "incr"
        BY <4>2 DEF Deliver, Listening
      <4>3. CASE Incr \/ Expire
        BY <4>1, <4>3 DEF Incr, Expire, Handling
      <4>4. CASE HandleFails \/ Crash
        BY <4>1, <4>4, LocalsType DEF HandleFails, Crash, Handling
      <4>5. QED
        BY <2>11, <4>2, <4>3, <4>4
    <3>2. QED
      BY <2>10, <2>11, <3>1 DEF Deliver, Incr, Expire, HandleFails, Crash
  <2>12. CASE Scan
    <3>1. /\ consumer'.pc = "delete" /\ consumer'.event = consumer.event
          /\ consumer'.todo = {q \in Requests : cache[q] # Nothing}
      BY <2>12 DEF Scan, Handling, TypeOK
    <3>2. {consumer.event} \in SUBSET published /\ consumer.event.org = Home
      BY <2>12 DEF Scan, RowInv, TypeOK
    <3>3. Covers(LoadFrame(Home), {consumer.event})
      BY <3>2, FrameCovers
    <3>4. QED
      BY <2>12, <3>1, <3>3 DEF Scan, CacheInv, Covers
  <2>13. ASSUME NEW q \in Requests, DeleteKey(q)
         PROVE CacheInv'
    <3>1. consumer'.pc = "delete" /\ consumer'.event = consumer.event /\ consumer'.todo = consumer.todo \ {q}
      BY <2>13 DEF DeleteKey, Handling, TypeOK
    <3>2. QED
      BY <2>13, <3>1 DEF DeleteKey, Drop, CacheInv, Covers, TypeOK
  <2>14. CASE Scanned
    <3>1. consumer'.pc = "offset" /\ consumer'.event = consumer.event
      BY <2>14 DEF Scanned, Handling, TypeOK
    <3>2. QED
      BY <2>14, <3>1 DEF Scanned, CacheInv, Covers
  <2>15. CASE CommitOffset
    <3>1. consumer'.pc = "idle"
      BY <2>15, LocalsType DEF CommitOffset
    <3>2. consumer.pc = "offset" \/ settled' \ dead' \subseteq settled \ dead
      BY <2>15 DEF CommitOffset
    <3>3. settled' \ dead' \subseteq (settled \ dead) \cup {consumer.event}
      BY <2>15 DEF CommitOffset
    <3>4. QED
      BY <2>15, <3>1, <3>2, <3>3 DEF CommitOffset, CacheInv, Covers
  <2>16. QED
    BY <2>4, <2>5, <2>6, <2>7, <2>8, <2>9, <2>11, <2>12, <2>13, <2>14, <2>15
    DEF Next, PassStep, ReaderStep, ConsumerStep, StoreMention, Analyse, DeleteKeyword, DebounceExpires,
        StartPass, PublishUpdate, Debounce, PublishAlert, NextOrg, PassFails, vars
<1>3. CacheInv => StaleOnlyByRace
  BY DEF CacheInv, Covers, StaleOnlyByRace
<1>4. QED
  BY <1>1, <1>2, <1>3, RowInvariant, PTL DEF Spec

-----------------------------------------------------------------------------
(* The figures of a frame: facts about app/analytics.py for every finite set *)
(* of rows.                                                                  *)

LEMMA FrameType ==
  ASSUME NEW F \in SUBSET AnyRow
  PROVE  /\ IsFiniteSet(F)
         /\ \A r \in F : r.keyword \in Nat /\ r.source \in Nat /\ r.hour \in Int
<1> DEFINE blank == [m \in Mentions |-> [m EXCEPT !.sentiment = Unanalysed]]
           blanks == {blank[m] : m \in Mentions}
<1>1. AnyRow = Mentions \cup blanks
  BY DEF AnyRow
<1>2. \A m \in Mentions : m.keyword \in Nat /\ m.source \in Nat /\ m.hour \in Int
  BY ServiceAssumption DEF Mention
<1>3. \A m \in Mentions : blank[m].keyword = m.keyword /\ blank[m].source = m.source /\ blank[m].hour = m.hour
  BY ServiceAssumption DEF Mention
<1> HIDE DEF blank
<1>4. \A r \in AnyRow : r.keyword \in Nat /\ r.source \in Nat /\ r.hour \in Int
  <2> TAKE r \in AnyRow
  <2>1. CASE r \in Mentions
    BY <1>2, <2>1
  <2>2. CASE r \in blanks
    <3>1. PICK m \in Mentions : r = blank[m]
      BY <2>2
    <3>2. QED
      BY <1>2, <1>3, <3>1
  <2>3. QED
    BY <1>1, <2>1, <2>2
<1>5. IsFiniteSet(blanks)
  BY ServiceAssumption, ImageFinite
<1> HIDE DEF blanks
<1>6. IsFiniteSet(AnyRow)
  BY <1>1, <1>5, ServiceAssumption, FS_Union
<1>7. QED
  BY <1>4, <1>6, FS_Subset

\* Every row is counted in one entry of a ranking.
LEMMA RankingCounts ==
  ASSUME NEW F, IsFiniteSet(F), NEW column, \A r \in F : r[column] \in Int,
         NEW top, top = Ranking(F, column)
  PROVE  \E n \in Nat : \E G : /\ n <= Cardinality(F)
                               /\ top \in [1..n -> G]
                               /\ \A i \in 1..n : top[i].count \in Nat
                               /\ ListCount(top, n) = Cardinality(F)
<1> DEFINE Group(d) == LET sub == {r \in F : r[column] = d}
                       IN [name |-> d, count |-> Cardinality(sub), sentiment |-> Dominant(sub)]
           g == [r \in F |-> r[column]]
           grp == [d \in Int |-> Group(d)]
           part == [d \in Int |-> {r \in F : r[column] = d}]
           groups == {Group(r[column]) : r \in F}
<1>1. \A r \in F : g[r] \in Int /\ grp[g[r]] = Group(r[column])
  OBVIOUS
<1>2. \A r \in F : /\ grp[g[r]].name = g[r]
                   /\ grp[g[r]].count = Cardinality(part[g[r]])
                   /\ part[g[r]] \subseteq F
                   /\ \A x \in F : x \in part[g[r]] <=> g[x] = g[r]
  OBVIOUS
<1>3. /\ \A r \in F : grp[g[r]] \in groups
      /\ \A x \in groups : \E r \in F : x = grp[g[r]]
  <2> HIDE DEF Group
  <2>1. QED
    BY <1>1
<1>4. top = InOrder(groups, LargestFirst(groups))
  BY DEF Ranking
<1> HIDE DEF g, grp, groups, part
<1>5. \E n \in Nat : /\ n <= Cardinality(F)
                     /\ InOrder(groups, LargestFirst(groups)) \in [1..n -> groups]
                     /\ \A i \in 1..n : InOrder(groups, LargestFirst(groups))[i].count \in Nat
                     /\ ListCount(InOrder(groups, LargestFirst(groups)), n) = Cardinality(F)
  <2>1. /\ IsFiniteSet(F)
        /\ \A r \in F : g[r] \in Int
        /\ \A r \in F : grp[g[r]] \in groups
        /\ \A x \in groups : \E r \in F : x = grp[g[r]]
        /\ \A r \in F : part[g[r]] \subseteq F /\ \A x \in F : x \in part[g[r]] <=> g[x] = g[r]
        /\ \A r \in F : grp[g[r]].name = g[r] /\ grp[g[r]].count = Cardinality(part[g[r]])
    BY <1>1, <1>2, <1>3
  <2>2. QED
    BY ONLY <2>1, GroupsCount, SMTT(60)
<1>6. QED
  BY ONLY <1>4, <1>5

\* The sum that the properties take over a ranking.
LEMMA RankingTotal ==
  ASSUME NEW F, NEW n \in Nat, NEW G, NEW top \in [1..n -> G], ListCount(top, n) = Cardinality(F)
  PROVE  SumFunction([i \in DOMAIN top |-> top[i].count]) = Cardinality(F)
<1>1. DOMAIN top = 1..n
  OBVIOUS
<1>2. DOMAIN [i \in DOMAIN top |-> top[i].count] = 1..n
  BY <1>1
<1>3. QED
  BY <1>1, <1>2 DEF SumFunction, ListCount

LEMMA SourcesTotal ==
  ASSUME NEW F, IsFiniteSet(F), \A r \in F : r.source \in Nat
  PROVE  SumFunction([i \in DOMAIN Sources(F) |-> Sources(F)[i].count]) = Cardinality(F)
<1> DEFINE top == Sources(F)
<1>1. top = Ranking(F, "source") /\ \A r \in F : r["source"] \in Int
  BY DEF Sources
<1> HIDE DEF top
<1>2. PICK n \in Nat : \E G : top \in [1..n -> G] /\ ListCount(top, n) = Cardinality(F)
  BY <1>1, RankingCounts
<1>3. QED
  BY <1>2, RankingTotal DEF top

LEMMA KeywordsTotal ==
  ASSUME NEW F, IsFiniteSet(F), \A r \in F : r.keyword \in Nat,
         NEW limit, limit = Cardinality(F)
  PROVE  SumFunction([i \in DOMAIN TopKeywords(F, limit) |-> TopKeywords(F, limit)[i].count]) = Cardinality(F)
<1> DEFINE all == Ranking(F, "keyword")
<1>1. \A r \in F : r["keyword"] \in Int
  OBVIOUS
<1>2. PICK n \in Nat : \E G : /\ n <= Cardinality(F)
                              /\ all \in [1..n -> G]
                              /\ ListCount(all, n) = Cardinality(F)
  BY <1>1, RankingCounts
<1>3. PICK G : all \in [1..n -> G]
  BY <1>2
<1>4. Len(all) = n /\ all \in Seq(G)
  BY <1>3
<1>5. Min({limit, n}) = n
  BY <1>2, FS_CardinalityType DEF Min
<1>6. TopKeywords(F, limit) = SubSeq(all, 1, Min({limit, Len(all)}))
  BY DEF TopKeywords
<1> HIDE DEF all
<1>7. TopKeywords(F, limit) = SubSeq(all, 1, Len(all))
  BY ONLY <1>4, <1>5, <1>6
<1>8. SubSeq(all, 1, Len(all)) = all
  BY <1>4, SubSeqFull
<1>9. QED
  BY ONLY <1>2, <1>3, <1>7, <1>8, RankingTotal

LEMMA BucketInt ==
  ASSUME NEW granularity, NEW hour \in Int
  PROVE  Bucket(granularity, hour) \in Int
<1> DEFINE size == CASE granularity = "hour" -> 1 [] granularity = "week" -> 168 [] OTHER -> 24
<1>1. size \in {1, 24, 168}
  OBVIOUS
<1> HIDE DEF size
<1>2. hour \div size \in Int
  BY <1>1
<1>3. QED
  BY <1>2 DEF Bucket, size

\* The buckets of a trend count every row once, and so does each of their columns.
LEMMA TrendsTotal ==
  ASSUME NEW F, IsFiniteSet(F), NEW granularity, NEW t, t = Trends(F, granularity)
  PROVE  /\ SumFunction([b \in DOMAIN t |-> t[b].count]) = Cardinality(F)
         /\ \A s \in Sentiment : SumFunction([b \in DOMAIN t |-> t[b][s]]) = Having(F, s)
<1> DEFINE g == [r \in F |-> Bucket(granularity, r.hour)]
           D == {Bucket(granularity, r.hour) : r \in F}
           image == {g[r] : r \in F}
           sub == [b \in D |-> {r \in F : Bucket(granularity, r.hour) = b}]
<1>1. \A r \in F : g[r] \in D
  OBVIOUS
<1>2. IsFiniteSet(D)
  <2>1. D = image
    OBVIOUS
  <2>2. IsFiniteSet(image)
    <3> HIDE DEF g
    <3>1. QED
      BY ImageFinite
  <2> HIDE DEF D, image
  <2>3. QED
    BY <2>1, <2>2
<1>3. \A b \in D : sub[b] \subseteq F /\ \A r \in F : r \in sub[b] <=> g[r] = b
  OBVIOUS
<1>4. DOMAIN t = D /\ \A b \in D : t[b] = Tally(sub[b])
  <2>1. t = [b \in D |-> Tally({r \in F : Bucket(granularity, r.hour) = b})]
    BY DEF Trends
  <2>2. QED
    BY <2>1
<1> HIDE DEF D, g, sub
<1>5. SumFunction([b \in DOMAIN t |-> t[b].count]) = Cardinality(F)
  <2> DEFINE h == [b \in DOMAIN t |-> t[b].count]
  <2>1. DOMAIN h = D /\ \A b \in D : h[b] = Cardinality(sub[b])
    BY <1>4 DEF Tally
  <2> HIDE DEF h
  <2>2. IsFiniteSet(F)
    OBVIOUS
  <2>3. SumFunctionOnSet(h, D) = Cardinality(F)
    BY ONLY <1>1, <1>2, <1>3, <2>1, <2>2, SumParts
  <2>4. SumFunction(h) = Cardinality(F)
    BY <2>1, <2>3 DEF SumFunction
  <2>5. QED
    BY <2>4 DEF h
<1>6. ASSUME NEW s \in Sentiment
      PROVE  SumFunction([b \in DOMAIN t |-> t[b][s]]) = Having(F, s)
  <2> DEFINE h == [b \in DOMAIN t |-> t[b][s]]
             X == {r \in F : r.sentiment = s}
             part == [b \in D |-> {r \in sub[b] : r.sentiment = s}]
  <2>1. DOMAIN h = D
    BY <1>4
  <2>2. \A b \in D : h[b] = Having(sub[b], s)
    <3> TAKE b \in D
    <3>1. h[b] = t[b][s] /\ t[b] = Tally(sub[b])
      BY <1>4
    <3>2. Tally(sub[b])[s] = Having(sub[b], s)
      BY DEF Tally, Sentiment
    <3>3. QED
      BY <3>1, <3>2
  <2>3. \A b \in D : h[b] = Cardinality(part[b])
    BY <2>2 DEF Having
  <2>4. X \in SUBSET F /\ IsFiniteSet(X) /\ \A r \in X : g[r] \in D
    BY <1>1, FS_Subset
  <2>5. \A b \in D : part[b] \subseteq X /\ \A r \in X : r \in part[b] <=> g[r] = b
    BY <1>3
  <2>6. Having(F, s) = Cardinality(X)
    BY DEF Having
  <2> HIDE DEF h, X, part
  <2>7. SumFunctionOnSet(h, D) = Cardinality(X)
    BY ONLY <1>2, <2>3, <2>4, <2>5, SumParts
  <2>8. SumFunction(h) = Having(F, s)
    BY <2>1, <2>6, <2>7 DEF SumFunction
  <2>9. QED
    BY <2>8 DEF h
<1>7. QED
  BY <1>5, <1>6

LEMMA Totals ==
  ASSUME NEW F, IsFiniteSet(F), \A r \in F : r.keyword \in Nat /\ r.source \in Nat /\ r.hour \in Int
  PROVE  TotalsAgree(F)
<1>1. SumFunction([i \in DOMAIN Sources(F) |-> Sources(F)[i].count]) = Cardinality(F)
  BY SourcesTotal
<1>2. SumFunction([i \in DOMAIN TopKeywords(F, Cardinality(F)) |-> TopKeywords(F, Cardinality(F))[i].count])
        = Cardinality(F)
  BY KeywordsTotal
<1>3. ASSUME NEW g \in {"hour", "day", "week"}
      PROVE  LET t == Trends(F, g) IN
             /\ SumFunction([b \in DOMAIN t |-> t[b].count]) = Cardinality(F)
             /\ \A s \in Sentiment : SumFunction([b \in DOMAIN t |-> t[b][s]]) = SentimentBreakdown(F)[s]
  <2> DEFINE t == Trends(F, g)
  <2>1. /\ SumFunction([b \in DOMAIN t |-> t[b].count]) = Cardinality(F)
        /\ \A s \in Sentiment : SumFunction([b \in DOMAIN t |-> t[b][s]]) = Having(F, s)
    BY TrendsTotal
  <2>2. \A s \in Sentiment : SentimentBreakdown(F)[s] = Having(F, s)
    BY DEF SentimentBreakdown, Sentiment
  <2> HIDE DEF t
  <2>3. \A s \in Sentiment : SumFunction([b \in DOMAIN t |-> t[b][s]]) = SentimentBreakdown(F)[s]
    BY <2>1, <2>2
  <2>4. QED
    BY <2>1, <2>3 DEF t
<1>4. QED
  BY <1>1, <1>2, <1>3, Zenon DEF TotalsAgree

\* Spikes of a keyword are among its hours, and Cantelli's inequality bounds those.
LEMMA SpikesRare ==
  ASSUME NEW F, IsFiniteSet(F)
  PROVE  SpikesAreRare(F)
<1> SUFFICES ASSUME NEW k \in Keywords
             PROVE  (1 + SpikeThreshold * SpikeThreshold) * Cardinality({s \in DetectSpikes(F) : s.keyword = k})
                      <= Cardinality(DOMAIN Hourly(OfKeyword(F, k)))
  BY DEF SpikesAreRare
<1> DEFINE X == OfKeyword(F, k)
           x == Hourly(X)
           D == DOMAIN x
           K == {h \in D : IsSpike(x, h)}
           spikes == {s \in DetectSpikes(F) : s.keyword = k}
           row == [h \in K |-> [keyword |-> k, time |-> h, count |-> x[h]]]
           rows == {row[h] : h \in K}
           y == [i \in D |-> x[i] * x[i]]
           n == Cardinality(D)
           m == SumFunctionOnSet(x, D)
           v == n * SumFunctionOnSet(y, D) - m * m
<1>1. X \in SUBSET F /\ IsFiniteSet(X)
  BY FS_Subset DEF OfKeyword
<1>2. IsFiniteSet(D) /\ \A i \in D : x[i] \in Nat
  <2> DEFINE hour == [r \in X |-> r.hour]
             image == {hour[r] : r \in X}
  <2>1. D = image
    BY DEF Hourly
  <2>2. \A i \in D : x[i] \in Nat
    <3> TAKE i \in D
    <3>1. x[i] = Cardinality({r \in X : r.hour = i}) /\ {r \in X : r.hour = i} \in SUBSET X
      BY DEF Hourly
    <3> HIDE DEF X
    <3>2. QED
      BY <1>1, <3>1, FS_Subset, FS_CardinalityType
  <2>3. IsFiniteSet(image)
    <3> HIDE DEF hour, X
    <3>1. QED
      BY <1>1, ImageFinite
  <2> HIDE DEF D, image
  <2>4. QED
    BY <2>1, <2>2, <2>3
<1>3. \A i \in K : v # 0 /\ n * x[i] - m >= 0 /\ (n * x[i] - m) * (n * x[i] - m) >= SpikeThreshold * SpikeThreshold * v
  <2> TAKE i \in K
  <2>1. DOMAIN y = D
    OBVIOUS
  <2>2. m = SumFunction(x) /\ SumFunctionOnSet(y, D) = SumFunction(y)
    BY <2>1 DEF SumFunction
  <2>3. IsSpike(x, i)
    OBVIOUS
  <2>4. LET above == n * x[i] - SumFunction(x)
            variance == n * SumFunction(y) - SumFunction(x) * SumFunction(x)
        IN /\ variance # 0 /\ above >= 0
           /\ above * above >= SpikeThreshold * SpikeThreshold * variance
    BY <2>3 DEF IsSpike
  <2> HIDE DEF m, y, n, x, D
  <2>5. QED
    BY <2>2, <2>4
<1>4. spikes \subseteq rows
  <2> SUFFICES ASSUME NEW s \in spikes PROVE s \in rows
    OBVIOUS
  <2> DEFINE Of(j) == Hourly(OfKeyword(F, j))
             Spiked(j) == {[keyword |-> j, time |-> h, count |-> Of(j)[h]] : h \in {i \in DOMAIN Of(j) : IsSpike(Of(j), i)}}
  <2>1. s \in DetectSpikes(F) /\ s.keyword = k
    OBVIOUS
  <2>2. DetectSpikes(F) = UNION {Spiked(j) : j \in {r.keyword : r \in F}}
    BY DEF DetectSpikes
  <2>3. PICK j : s \in Spiked(j)
    <3> HIDE DEF Spiked
    <3>1. QED
      BY ONLY <2>1, <2>2
  <2>4. PICK h \in DOMAIN Of(j) : IsSpike(Of(j), h) /\ s = [keyword |-> j, time |-> h, count |-> Of(j)[h]]
    <3> HIDE DEF Of
    <3>1. QED
      BY <2>3
  <2>5. j = k /\ Of(j) = x
    BY <2>1, <2>4
  <2>6. h \in K /\ s = [keyword |-> k, time |-> h, count |-> x[h]]
    <3> HIDE DEF x, Of
    <3>1. QED
      BY <2>4, <2>5
  <2>7. row[h] = s
    <3> HIDE DEF x, K
    <3>1. QED
      BY <2>6
  <2> HIDE DEF K, row
  <2>8. QED
    BY <2>6, <2>7
<1> HIDE DEF x, D, X
<1>5. K \in SUBSET D /\ IsFiniteSet(K)
  BY <1>2, FS_Subset
<1> HIDE DEF K, row, spikes
<1>6. IsFiniteSet(rows) /\ Cardinality(rows) <= Cardinality(K)
  BY <1>5, ImageFinite
<1>7. Cardinality(spikes) \in Nat /\ Cardinality(K) \in Nat /\ Cardinality(spikes) <= Cardinality(K)
  <2> HIDE DEF rows
  <2>1. IsFiniteSet(spikes) /\ Cardinality(spikes) <= Cardinality(rows)
    BY <1>4, <1>6, FS_Subset
  <2>2. QED
    BY <1>5, <1>6, <2>1, FS_CardinalityType
<1>8. (1 + SpikeThreshold * SpikeThreshold) * Cardinality(K) <= n
  <2>1. /\ \A i \in D : x[i] \in Int
        /\ \A i \in D : y[i] = x[i] * x[i]
        /\ n = Cardinality(D) /\ m = SumFunctionOnSet(x, D) /\ v = n * SumFunctionOnSet(y, D) - m * m
        /\ SpikeThreshold \in Nat
    BY <1>2, ServiceAssumption
  <2> HIDE DEF y, n, m, v
  <2>2. QED
    BY ONLY <1>2, <1>3, <1>5, <2>1, Cantelli
<1>9. (1 + SpikeThreshold * SpikeThreshold) * Cardinality(spikes) <= (1 + SpikeThreshold * SpikeThreshold) * Cardinality(K)
  <2>1. 1 + SpikeThreshold * SpikeThreshold \in Nat
    BY ServiceAssumption
  <2>2. QED
    BY ONLY <1>7, <2>1, ProductMonotone
<1>10. n \in Nat /\ SpikeThreshold \in Nat
  BY <1>2, FS_CardinalityType, ServiceAssumption
<1> HIDE DEF n
<1>11. (1 + SpikeThreshold * SpikeThreshold) * Cardinality(spikes) <= n
  BY ONLY <1>7, <1>8, <1>9, <1>10
<1>12. QED
  BY <1>11 DEF spikes, n, D, x, X

\* Rounding to even keeps the order.
LEMMA RoundMonotone ==
  ASSUME NEW a \in Int, NEW c \in Int, NEW b \in Nat \ {0}, a <= c
  PROVE  RoundDiv(a, b) \in Int /\ RoundDiv(c, b) \in Int /\ RoundDiv(a, b) <= RoundDiv(c, b)
<1> DEFINE p == a \div b
           q == c \div b
           r == a % b
           s == c % b
<1>1. p \in Int /\ r \in Int /\ 0 <= r /\ r < b /\ a = b * p + r
  OBVIOUS
<1>2. q \in Int /\ s \in Int /\ 0 <= s /\ s < b /\ c = b * q + s
  OBVIOUS
<1>3. /\ RoundDiv(a, b) = IF 2 * r < b \/ (2 * r = b /\ p % 2 = 0) THEN p ELSE p + 1
      /\ RoundDiv(c, b) = IF 2 * s < b \/ (2 * s = b /\ q % 2 = 0) THEN q ELSE q + 1
  BY DEF RoundDiv
<1> HIDE DEF p, q, r, s
<1>4. p <= q
  <2>1. ASSUME q + 1 <= p PROVE FALSE
    <3>1. b * (q + 1) <= b * p
      BY ONLY <1>1, <1>2, <2>1, b \in Nat \ {0}, ProductMonotone
    <3>2. b * (q + 1) = b * q + b
      BY ONLY <1>2, b \in Nat \ {0}
    <3> DEFINE bp == b * p
               bq == b * q
    <3>3. bp \in Int /\ bq \in Int /\ bq + b <= bp /\ a = bp + r /\ c = bq + s
      BY <1>1, <1>2, <3>1, <3>2
    <3> HIDE DEF bp, bq
    <3>4. QED
      BY ONLY <1>1, <1>2, <3>3, a <= c, b \in Nat \ {0}
  <2>2. QED
    BY <1>1, <1>2, <2>1
<1>5. RoundDiv(a, b) \in {p, p + 1} /\ RoundDiv(c, b) \in {q, q + 1}
  BY ONLY <1>3
<1>6. CASE p < q
  BY ONLY <1>1, <1>2, <1>5, <1>6
<1>7. CASE p = q
  <2> DEFINE bp == b * p
  <2>1. bp \in Int /\ a = bp + r /\ c = bp + s
    BY <1>1, <1>2, <1>7
  <2> HIDE DEF bp
  <2>2. r <= s
    BY ONLY <1>1, <1>2, <2>1, a <= c
  <2>3. QED
    BY ONLY <1>1, <1>2, <1>3, <1>7, <2>2, b \in Nat \ {0}
<1>8. QED
  BY <1>1, <1>2, <1>4, <1>6, <1>7

LEMMA ScoreMonotone ==
  ASSUME NEW a \in Int, NEW b \in Int, a <= b, NEW x \in Int, NEW y \in Int, x <= y, NEW most \in Nat \ {0}
  PROVE  Score(a, most, x) \in Int /\ Score(b, most, y) \in Int /\ Score(a, most, x) <= Score(b, most, y)
<1>1. most * (x + 10000) <= most * (y + 10000)
  BY ProductMonotone
<1> DEFINE u == most * (x + 10000)
           v == most * (y + 10000)
<1>2. u \in Int /\ v \in Int /\ u <= v /\ 5 * most \in Nat \ {0}
  BY <1>1
<1>3. Score(a, most, x) = RoundDiv(30000 * a + u, 5 * most) /\ Score(b, most, y) = RoundDiv(30000 * b + v, 5 * most)
  BY DEF Score
<1> HIDE DEF u, v
<1>4. 30000 * a + u \in Int /\ 30000 * b + v \in Int /\ 30000 * a + u <= 30000 * b + v
  BY <1>2
<1>5. QED
  BY ONLY <1>2, <1>3, <1>4, RoundMonotone

\* competitors(): the rows it ranks, each of which is in the answer once.
LEMMA ComparisonLists ==
  ASSUME NEW F, IsFiniteSet(F), NEW brands \in Seq(Nat)
  PROVE  \E most \in Nat \ {0} :
           \A i \in DOMAIN Competitors(F, brands) :
             LET row == Competitors(F, brands)[i] IN
             /\ row.mentions \in Nat /\ row.sentiment_score \in Int
             /\ row.score = Score(row.mentions, most, row.sentiment_score)
<1> DEFINE P == DOMAIN brands
           Sub(i) == {r \in F : Lower(r.keyword) = Lower(brands[i])}
           Count(i) == Cardinality(Sub(i))
           Feeling(i) == IF Count(i) = 0 THEN 0
                         ELSE RoundDiv(10000 * (Having(Sub(i), "positive") - Having(Sub(i), "negative")), Count(i))
           counts == {Count(i) : i \in P} \cup {1}
           most == Max(counts)
           Line(i) == [place |-> i, brand |-> brands[i], mentions |-> Count(i), sentiment_score |-> Feeling(i),
                      score |-> Score(Count(i), most, Feeling(i))]
           rows == {Line(i) : i \in P}
           ahead == [x \in rows |-> {y \in rows : y.score > x.score \/ (y.score = x.score /\ y.place < x.place)}]
<1>1. P = 1..Len(brands) /\ IsFiniteSet(P) /\ P \subseteq Int
  BY FS_Interval
<1>2. \A i \in P : Count(i) \in Nat
  <2> TAKE i \in P
  <2>1. Sub(i) \in SUBSET F
    OBVIOUS
  <2> HIDE DEF Sub
  <2>2. QED
    BY <2>1, FS_Subset, FS_CardinalityType
<1>3. \A i \in P : Feeling(i) \in Int
  <2> TAKE i \in P
  <2> DEFINE A == {r \in Sub(i) : r.sentiment = "positive"}
             B == {r \in Sub(i) : r.sentiment = "negative"}
  <2>1. A \in SUBSET F /\ B \in SUBSET F
    OBVIOUS
  <2>2. Having(Sub(i), "positive") = Cardinality(A) /\ Having(Sub(i), "negative") = Cardinality(B)
    BY DEF Having
  <2> HIDE DEF A, B, Sub
  <2>3. Cardinality(A) \in Nat /\ Cardinality(B) \in Nat
    BY <2>1, FS_Subset, FS_CardinalityType
  <2> DEFINE num == 10000 * (Having(Sub(i), "positive") - Having(Sub(i), "negative"))
             den == Count(i)
  <2>4. num \in Int /\ num <= num /\ den \in Nat
    BY <1>2, <2>2, <2>3
  <2>5. Feeling(i) = IF den = 0 THEN 0 ELSE RoundDiv(num, den)
    OBVIOUS
  <2> HIDE DEF num, den, Feeling, Count
  <2>6. QED
    BY <2>4, <2>5, RoundMonotone
<1>4. most \in Nat \ {0}
  <2> DEFINE count == [i \in P |-> Count(i)]
             image == {count[i] : i \in P}
  <2>1. image = {Count(i) : i \in P}
    OBVIOUS
  <2>2. IsFiniteSet(image)
    <3> HIDE DEF count, P
    <3>1. QED
      BY <1>1, ImageFinite
  <2>3. counts = image \cup {1} /\ image \in SUBSET Nat
    <3> HIDE DEF P, Count
    <3>1. QED
      BY <1>2
  <2> HIDE DEF image, counts
  <2>4. IsFiniteSet(counts)
    BY ONLY <2>2, <2>3, FS_AddElement
  <2>5. counts \in SUBSET Nat /\ counts \subseteq Int /\ counts # {} /\ 1 \in counts
    BY ONLY <2>3
  <2>6. Max(counts) \in counts /\ 1 <= Max(counts)
    BY ONLY <2>4, <2>5, Extremes
  <2> HIDE DEF most
  <2>7. ASSUME NEW x \in counts, 1 <= x PROVE x \in Nat \ {0}
    BY ONLY <2>5, <2>7
  <2>8. QED
    BY <2>6, <2>7 DEF most
<1> HIDE DEF P, Count, Feeling, most
<1>5. ASSUME NEW i \in P
      PROVE  Score(Count(i), most, Feeling(i)) \in Int
  <2>1. Count(i) \in Int /\ Count(i) <= Count(i) /\ Feeling(i) \in Int /\ Feeling(i) <= Feeling(i)
    BY <1>2, <1>3
  <2>2. QED
    BY ONLY <1>4, <2>1, ScoreMonotone
<1>6. \A x \in rows : /\ x.score \in Int /\ x.place \in P /\ x = Line(x.place)
                      /\ x.mentions \in Nat /\ x.sentiment_score \in Int
                      /\ x.score = Score(x.mentions, most, x.sentiment_score)
  BY <1>2, <1>3, <1>5
<1>7. IsFiniteSet(rows)
  <2> DEFINE row == [i \in P |-> Line(i)]
             image == {row[i] : i \in P}
  <2>1. rows = image
    OBVIOUS
  <2>2. IsFiniteSet(image)
    <3> HIDE DEF row
    <3>1. QED
      BY <1>1, ImageFinite
  <2> HIDE DEF rows, image
  <2>3. QED
    BY <2>1, <2>2
<1> HIDE DEF rows, Line
<1>8. \A x, y \in rows : x.place = y.place => x = y
  BY <1>6
<1>9. \A x \in rows : x.score \in Int /\ x.place \in Int
  BY <1>1, <1>6
<1>10. \A x, y \in rows : y \in ahead[x] <=> (y.score > x.score \/ (y.score = x.score /\ y.place < x.place))
  OBVIOUS
<1>11. \A x \in rows : ahead[x] \in SUBSET rows
  OBVIOUS
<1>12. Competitors(F, brands) = InOrder(rows, ahead)
  BY DEF Competitors, rows, Line, most, Feeling, Count, P
<1> HIDE DEF ahead
<1>13. \A x \in rows : x \notin ahead[x]
  BY <1>9, <1>10
<1>14. \A x, y, z \in rows : y \in ahead[x] /\ z \in ahead[y] => z \in ahead[x]
  <2> TAKE x, y, z \in rows
  <2>1. /\ x.score \in Int /\ x.place \in Int /\ y.score \in Int /\ y.place \in Int
        /\ z.score \in Int /\ z.place \in Int
    BY <1>9
  <2>2. /\ y \in ahead[x] <=> (y.score > x.score \/ (y.score = x.score /\ y.place < x.place))
        /\ z \in ahead[y] <=> (z.score > y.score \/ (z.score = y.score /\ z.place < y.place))
        /\ z \in ahead[x] <=> (z.score > x.score \/ (z.score = x.score /\ z.place < x.place))
    BY <1>10
  <2>3. QED
    BY ONLY <2>1, <2>2
<1>15. \A x, y \in rows : x # y => x \in ahead[y] \/ y \in ahead[x]
  <2> TAKE x, y \in rows
  <2>1. x.score \in Int /\ x.place \in Int /\ y.score \in Int /\ y.place \in Int /\ (x.place = y.place => x = y)
    BY <1>8, <1>9
  <2>2. /\ y \in ahead[x] <=> (y.score > x.score \/ (y.score = x.score /\ y.place < x.place))
        /\ x \in ahead[y] <=> (x.score > y.score \/ (x.score = y.score /\ x.place < y.place))
    BY <1>10
  <2>3. QED
    BY ONLY <2>1, <2>2
<1>16. \A x \in rows : \A y \in ahead[x] : ahead[y] \subseteq ahead[x]
  BY <1>11, <1>14
<1>17. InOrder(rows, ahead) \in [1..Cardinality(rows) -> rows]
  <2>1. \A x \in rows : ahead[x] \in SUBSET rows /\ x \notin ahead[x]
    BY <1>11, <1>13
  <2>2. QED
    BY ONLY <1>7, <1>15, <1>16, <2>1, InOrderLists
<1>18. \A i \in DOMAIN Competitors(F, brands) : Competitors(F, brands)[i] \in rows
  BY ONLY <1>12, <1>17
<1>19. QED
  BY <1>4, <1>6, <1>18

LEMMA Monotone ==
  ASSUME NEW F, IsFiniteSet(F), NEW brands \in Seq(Nat)
  PROVE  ComparisonMonotone(F, brands)
<1> DEFINE c == Competitors(F, brands)
<1>1. PICK most \in Nat \ {0} :
        \A i \in DOMAIN c : /\ c[i].mentions \in Nat /\ c[i].sentiment_score \in Int
                            /\ c[i].score = Score(c[i].mentions, most, c[i].sentiment_score)
  BY ComparisonLists
<1> HIDE DEF c
<1>2. ASSUME NEW i \in DOMAIN c, NEW j \in DOMAIN c,
             c[i].mentions >= c[j].mentions, c[i].sentiment_score >= c[j].sentiment_score
      PROVE  c[i].score >= c[j].score
  <2> DEFINE a == c[j].mentions
             b == c[i].mentions
             x == c[j].sentiment_score
             y == c[i].sentiment_score
  <2>1. /\ a \in Int /\ b \in Int /\ a <= b /\ x \in Int /\ y \in Int /\ x <= y
        /\ c[i].score = Score(b, most, y) /\ c[j].score = Score(a, most, x)
    BY <1>1, <1>2
  <2> HIDE DEF a, b, x, y
  <2>2. Score(a, most, x) \in Int /\ Score(b, most, y) \in Int /\ Score(a, most, x) <= Score(b, most, y)
    BY ONLY <2>1, most \in Nat \ {0}, ScoreMonotone
  <2>3. QED
    BY ONLY <2>1, <2>2
<1>3. QED
  BY <1>2 DEF ComparisonMonotone, c

\* The answers of the gRPC server: each filters the same rows, and the spikes of a
\* finite frame are finitely many.
LEMMA Grpc ==
  ASSUME NEW rows, IsFiniteSet(rows)
  PROVE  GrpcAgrees(rows)
<1> DEFINE F == InRange(rows, Now - 168, Now)
           summary == GetAnalyticsSummary(rows, Now - 168, Now)
           metrics == GetCurrentMetrics(rows, Now)
<1>1. IsFiniteSet(F)
  <2>1. F \in SUBSET rows
    BY DEF InRange
  <2>2. QED
    BY <2>1, FS_Subset
<1>2. summary.total_mentions = Cardinality(F) /\ metrics.total_mentions = Cardinality(F)
  BY DEF GetAnalyticsSummary, GetCurrentMetrics, Overview
<1>3. (summary.spike_detected <=> DetectSpikes(F) # {}) /\ metrics.spike_count = Cardinality(DetectSpikes(F))
  BY DEF GetAnalyticsSummary, GetCurrentMetrics
<1>4. ASSUME NEW g \in {"hour", "day", "week"}
      PROVE  LET t == GetTrends(rows, Now - 168, Now, g)
             IN SumFunction([b \in DOMAIN t |-> t[b].count]) = Cardinality(F)
  <2>1. GetTrends(rows, Now - 168, Now, g) = Trends(F, g)
    BY DEF GetTrends
  <2> HIDE DEF F
  <2>2. QED
    BY <1>1, <2>1, TrendsTotal
<1>5. IsFiniteSet(DetectSpikes(F))
  <2> HIDE DEF F
  <2> DEFINE Of(j) == Hourly(OfKeyword(F, j))
             Spiked(j) == {[keyword |-> j, time |-> h, count |-> Of(j)[h]] : h \in {i \in DOMAIN Of(j) : IsSpike(Of(j), i)}}
             spike == [r \in F |-> [keyword |-> r.keyword, time |-> r.hour, count |-> Of(r.keyword)[r.hour]]]
             image == {spike[r] : r \in F}
  <2>1. DetectSpikes(F) = UNION {Spiked(j) : j \in {r.keyword : r \in F}}
    BY DEF DetectSpikes
  <2>2. ASSUME NEW s \in DetectSpikes(F) PROVE s \in image
    <3>1. PICK j : s \in Spiked(j)
      <4> HIDE DEF Spiked
      <4>1. QED
        BY ONLY <2>1, <2>2
    <3>2. PICK h \in DOMAIN Of(j) : s = [keyword |-> j, time |-> h, count |-> Of(j)[h]]
      <4> HIDE DEF Of
      <4>1. QED
        BY <3>1
    <3>3. PICK r \in F : r.keyword = j /\ r.hour = h
      BY <3>2 DEF Hourly, OfKeyword
    <3>4. spike[r] = s
      <4> HIDE DEF Of
      <4>1. QED
        BY <3>2, <3>3
    <3> HIDE DEF spike
    <3>5. QED
      BY <3>4
  <2> HIDE DEF spike
  <2>3. IsFiniteSet(image)
    BY <1>1, ImageFinite
  <2> HIDE DEF image
  <2>4. QED
    BY <2>2, <2>3, FS_Subset
<1>6. summary.spike_detected <=> metrics.spike_count > 0
  <2> HIDE DEF F, summary, metrics
  <2>1. Cardinality(DetectSpikes(F)) \in Nat /\ (Cardinality(DetectSpikes(F)) = 0 <=> DetectSpikes(F) = {})
    BY <1>5, FS_EmptySet, FS_CardinalityType
  <2>2. QED
    BY <1>3, <2>1
<1>7. QED
  BY <1>2, <1>4, <1>6 DEF GrpcAgrees

\* The figures of any frame a request loads fit together: totals, buckets and
\* rankings count the same rows, spikes are rare, the comparison of brands is
\* monotone, and the answers over gRPC agree.
THEOREM Figures == Spec => []FiguresAgree
<1>1. TypeOK => FiguresAgree
  <2> SUFFICES ASSUME TypeOK, NEW r \in Readers
               PROVE  LET F == reader[r].frame IN
                      TotalsAgree(F) /\ SpikesAreRare(F) /\ ComparisonMonotone(F, Brands) /\ GrpcAgrees(F)
    BY DEF FiguresAgree
  <2> DEFINE F == reader[r].frame
  <2>1. F \in SUBSET AnyRow
    BY DEF TypeOK, Request
  <2> HIDE DEF F
  <2>2. IsFiniteSet(F) /\ \A x \in F : x.keyword \in Nat /\ x.source \in Nat /\ x.hour \in Int
    BY <2>1, FrameType
  <2>3. TotalsAgree(F)
    BY <2>2, Totals
  <2>4. SpikesAreRare(F)
    BY <2>2, SpikesRare
  <2>5. ComparisonMonotone(F, Brands)
    BY <2>2, Monotone, ServiceAssumption
  <2>6. GrpcAgrees(F)
    BY <2>2, Grpc
  <2>7. QED
    BY <2>3, <2>4, <2>5, <2>6 DEF F
<1>2. QED
  BY <1>1, TypeCorrect, PTL
=============================================================================

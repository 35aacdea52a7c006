-------------------------- MODULE AnalyticsService --------------------------
(***************************************************************************)
(* analytics-service at work: requests through the cache of app/cache.py,  *)
(* the consumer of sentiment-processed that counts events and invalidates  *)
(* the cache, and the periodic pass of app/publisher.py with its spike     *)
(* alerts, over the rows that scrapes, nlp-service and keyword deletions   *)
(* change meanwhile.                                                       *)
(*                                                                         *)
(* Requests and events are those of one organization, Home; the passes go  *)
(* over all.  A cache entry is represented by the frame it was computed    *)
(* from: what is served is Answer of the request and that frame.           *)
(***************************************************************************)
EXTENDS Analytics

CONSTANTS
  Mentions,    \* [id, org, keyword, source, hour, sentiment]: sentiment is what analysis finds
  Early,       \* the mentions stored and analysed before the start
  Home,
  Now,         \* the hour of the passes, all of which fall into it
  Requests,    \* requests with both dates: the key of any other holds the time and is never asked for again
  Brands,      \* brands that a competitors request compares
  Readers, Publishers,
  MaxRetries,
  MaxFaults,   \* bound: disturbances in a behaviour
  MaxDeletes,  \* bound: deleted keywords in a behaviour
  Nothing

Mention == [id : Nat, org : Nat, keyword : Nat, source : Nat, hour : Int, sentiment : Sentiment]

ASSUME ServiceAssumption ==
  /\ Early \subseteq Mentions /\ Mentions \subseteq Mention
  /\ MaxRetries \in Nat \ {0}
  /\ {MaxFaults, MaxDeletes} \subseteq Nat
  /\ Nothing \notin Requests \cup Mentions \cup Nat
  /\ IsFiniteSet(Mentions) /\ Brands \in Seq(Nat) /\ SpikeThreshold \in Nat /\ Now \in Int

VARIABLES
  stored,     \* rows of `mentions`
  analysed,   \* mentions with a row in `sentiment_results`
  published,  \* events on sentiment-processed
  cache,      \* cache[q]: the frame under the key of q, or Nothing
  reader,     \* the requests in progress, each [pc, request, frame]
  late,       \* readers whose frame an invalidation has outdated
  tainted,    \* requests whose entry was set by such a reader
  counter,    \* mention:count:{org}:{hour}: [n, expires]
  consumer,   \* [pc, event, attempt, todo]
  settled,    \* events handled and committed
  dead,       \* events dead-lettered
  pass,       \* the passes of the publishers, each [pc, orgs, spikes, keyword]
  debounced,  \* keywords with alert:debounce:{org}:{keyword} set
  alerts,     \* alerts[k]: alert-triggered events for k since its key last expired
  slow,       \* keywords whose key expired between its setting and the publish
  faults, deletes

rowVars == <<stored, analysed, published>>
cacheVars == <<cache, reader, late, tainted>>
consumerVars == <<counter, consumer, settled, dead>>
passVars == <<pass, debounced, alerts, slow>>
vars == <<rowVars, cacheVars, consumerVars, passVars, faults, deletes>>

Keywords == {m.keyword : m \in Mentions}
Orgs == {m.org : m \in Mentions}

\* load_frame: mentions of an organization with their sentiment, if they have one.
Row(m) == [m EXCEPT !.sentiment = IF m \in analysed THEN @ ELSE Unanalysed]
LoadFrame(org) == {Row(m) : m \in {x \in stored : x.org = org}}

AnyRow == Mentions \cup {[m EXCEPT !.sentiment = Unanalysed] : m \in Mentions}

\* The locals of a request in progress, of the consumer and of a pass.
Request == [pc : {"idle", "load", "set"}, request : Requests \cup {Nothing}, frame : SUBSET AnyRow]
Handling == [pc : {"idle", "incr", "expire", "scan", "delete", "offset", "dlt"},
             event : Mentions \cup {Nothing}, attempt : 0..MaxRetries, todo : SUBSET Requests]
Pass == [pc : {"sleep", "orgs", "spikes", "alert"}, orgs : SUBSET Orgs, spikes : SUBSET Keywords,
         keyword : Keywords \cup {Nothing}]

Idle == [pc |-> "idle", request |-> Nothing, frame |-> {}]
Listening == [pc |-> "idle", event |-> Nothing, attempt |-> 0, todo |-> {}]
Asleep == [pc |-> "sleep", orgs |-> {}, spikes |-> {}, keyword |-> Nothing]

TypeOK ==
  /\ analysed \subseteq stored /\ stored \subseteq Mentions /\ published \subseteq Mentions
  /\ cache \in [Requests -> {Nothing} \cup SUBSET AnyRow]
  /\ reader \in [Readers -> Request]
  /\ \A r \in Readers : reader[r].pc = "idle" <=> reader[r].request = Nothing
  /\ late \subseteq Readers /\ tainted \subseteq Requests
  /\ counter \in [n : Nat, expires : BOOLEAN]
  /\ consumer \in Handling
  /\ consumer.event \in IF consumer.pc = "idle" THEN {Nothing} ELSE published
  /\ settled \subseteq published /\ dead \subseteq settled
  /\ pass \in [Publishers -> Pass]
  /\ \A p \in Publishers : pass[p].pc = "alert" <=> pass[p].keyword # Nothing
  /\ debounced \subseteq Keywords /\ slow \subseteq Keywords
  /\ alerts \in [Keywords -> Nat]
  /\ faults \in 0..MaxFaults /\ deletes \in 0..MaxDeletes

Init ==
  /\ stored = Early /\ analysed = Early /\ published = {}
  /\ cache = [q \in Requests |-> Nothing]
  /\ reader = [r \in Readers |-> Idle]
  /\ late = {} /\ tainted = {}
  /\ counter = [n |-> 0, expires |-> FALSE]
  /\ consumer = Listening
  /\ settled = {} /\ dead = {}
  /\ pass = [p \in Publishers |-> Asleep]
  /\ debounced = {} /\ alerts = [k \in Keywords |-> 0] /\ slow = {}
  /\ faults = 0 /\ deletes = 0

Disturbed == faults < MaxFaults /\ faults' = faults + 1

-----------------------------------------------------------------------------
(* The rows, changed by the other services. *)

StoreMention(m) ==
  /\ m \notin stored /\ deletes = 0
  /\ stored' = stored \cup {m}
  /\ UNCHANGED <<analysed, published, cacheVars, consumerVars, passVars, faults, deletes>>

\* The row is committed, then the event is published, unless that fails.
Analyse(m) ==
  /\ m \in stored \ analysed
  /\ analysed' = analysed \cup {m}
  /\ \/ published' = published \cup {m} /\ UNCHANGED faults
     \/ Disturbed /\ UNCHANGED published
  /\ UNCHANGED <<stored, cacheVars, consumerVars, passVars, deletes>>

\* delete_keyword cascades and tells nobody.
DeleteKeyword(k) ==
  /\ deletes < MaxDeletes
  /\ deletes' = deletes + 1
  /\ stored' = {m \in stored : m.keyword # k}
  /\ analysed' = {m \in analysed : m.keyword # k}
  /\ UNCHANGED <<published, cacheVars, consumerVars, passVars, faults>>

-----------------------------------------------------------------------------
(* cache_aside.  A hit serves the entry and changes nothing. *)

Miss(r, q) ==
  /\ reader[r].pc = "idle"
  /\ cache[q] = Nothing
  /\ reader' = [reader EXCEPT ![r] = [pc |-> "load", request |-> q, frame |-> {}]]
  /\ UNCHANGED <<rowVars, cache, late, tainted, consumerVars, passVars, faults, deletes>>

Load(r) ==
  /\ reader[r].pc = "load"
  /\ reader' = [reader EXCEPT ![r].pc = "set", ![r].frame = LoadFrame(Home)]
  /\ UNCHANGED <<rowVars, cache, late, tainted, consumerVars, passVars, faults, deletes>>

Done(r) ==
  /\ reader' = [reader EXCEPT ![r] = Idle]
  /\ late' = late \ {r}

Set(r) ==
  /\ reader[r].pc = "set"
  /\ cache' = [cache EXCEPT ![reader[r].request] = reader[r].frame]
  /\ tainted' = IF r \in late THEN tainted \cup {reader[r].request} ELSE tainted \ {reader[r].request}
  /\ Done(r)
  /\ UNCHANGED <<rowVars, consumerVars, passVars, faults, deletes>>

\* The query or Redis fails, or the client is gone: nothing is stored.
ReaderFails(r) ==
  /\ reader[r].pc # "idle"
  /\ Disturbed
  /\ Done(r)
  /\ UNCHANGED <<rowVars, cache, tainted, consumerVars, passVars, deletes>>

Drop(q) ==
  /\ cache' = [cache EXCEPT ![q] = Nothing]
  /\ tainted' = tainted \ {q}

\* Variant for mutation: an entry is set without `ex`.
CacheNeverExpires(q) == FALSE /\ UNCHANGED vars

\* The TTL of the entry runs out.
CacheExpires(q) ==
  /\ cache[q] # Nothing
  /\ Drop(q)
  /\ UNCHANGED <<rowVars, reader, late, consumerVars, passVars, faults, deletes>>

-----------------------------------------------------------------------------
(* AnalyticsConsumer.handle under the loop of BaseConsumer. *)

\* A settled event comes again to a process that lost the partition.
Deliver(e) ==
  /\ consumer.pc = "idle"
  /\ IF e \in settled THEN Disturbed ELSE UNCHANGED faults
  /\ consumer' = [Listening EXCEPT !.pc = "incr", !.event = e, !.attempt = 1]
  /\ UNCHANGED <<rowVars, cacheVars, counter, settled, dead, passVars, deletes>>

Incr ==
  /\ consumer.pc = "incr"
  /\ counter' = [counter EXCEPT !.n = @ + 1]
  /\ consumer' = [consumer EXCEPT !.pc = IF counter.n = 0 THEN "expire" ELSE "scan"]
  /\ UNCHANGED <<rowVars, cacheVars, settled, dead, passVars, faults, deletes>>

Expire ==
  /\ consumer.pc = "expire"
  /\ counter' = [counter EXCEPT !.expires = TRUE]
  /\ consumer' = [consumer EXCEPT !.pc = "scan"]
  /\ UNCHANGED <<rowVars, cacheVars, settled, dead, passVars, faults, deletes>>

\* SCAN returns the keys that are there all the time it runs; of keys set
\* meanwhile it may return none.
Scan ==
  /\ consumer.pc = "scan"
  /\ consumer' = [consumer EXCEPT !.pc = "delete", !.todo = {q \in Requests : cache[q] # Nothing}]
  /\ late' = late \cup {r \in Readers : reader[r].pc = "set" /\ reader[r].frame # LoadFrame(Home)}
  /\ UNCHANGED <<rowVars, cache, reader, tainted, counter, settled, dead, passVars, faults, deletes>>

DeleteKey(q) ==
  /\ consumer.pc = "delete" /\ q \in consumer.todo
  /\ Drop(q)
  /\ consumer' = [consumer EXCEPT !.todo = @ \ {q}]
  /\ UNCHANGED <<rowVars, reader, late, counter, settled, dead, passVars, faults, deletes>>

\* Variant for mutation: the offset may be committed in the middle of the scan.
ScannedEarly ==
  /\ consumer.pc = "delete"
  /\ consumer' = [consumer EXCEPT !.pc = "offset", !.todo = {}]
  /\ UNCHANGED <<rowVars, cacheVars, counter, settled, dead, passVars, faults, deletes>>

Scanned ==
  /\ consumer.pc = "delete" /\ consumer.todo = {}
  /\ consumer' = [consumer EXCEPT !.pc = "offset"]
  /\ UNCHANGED <<rowVars, cacheVars, counter, settled, dead, passVars, faults, deletes>>

\* The offset is committed, after the handling or after the dead-letter publish.
CommitOffset ==
  /\ consumer.pc \in {"offset", "dlt"}
  /\ settled' = settled \cup {consumer.event}
  /\ dead' = IF consumer.pc = "dlt" THEN dead \cup {consumer.event} ELSE dead
  /\ consumer' = Listening
  /\ UNCHANGED <<rowVars, cacheVars, counter, passVars, faults, deletes>>

\* Variant for mutation: the last attempt is followed by another one.
HandleFailsOffByOne ==
  /\ consumer.pc \notin {"idle", "dlt"}
  /\ Disturbed
  /\ consumer' = IF consumer.attempt <= MaxRetries
                   THEN [consumer EXCEPT !.pc = "incr", !.attempt = @ + 1, !.todo = {}]
                   ELSE [consumer EXCEPT !.pc = "dlt", !.todo = {}]
  /\ UNCHANGED <<rowVars, cacheVars, counter, settled, dead, passVars, deletes>>

\* Redis or the commit of the offset fails: the loop tries again or dead-letters.
HandleFails ==
  /\ consumer.pc \notin {"idle", "dlt"}
  /\ Disturbed
  /\ consumer' = IF consumer.attempt < MaxRetries
                   THEN [consumer EXCEPT !.pc = "incr", !.attempt = @ + 1, !.todo = {}]
                   ELSE [consumer EXCEPT !.pc = "dlt", !.todo = {}]
  /\ UNCHANGED <<rowVars, cacheVars, counter, settled, dead, passVars, deletes>>

\* The process ends; what else it was at ends as in ReaderFails and PassFails.
Crash ==
  /\ consumer.pc # "idle"
  /\ Disturbed
  /\ consumer' = Listening
  /\ UNCHANGED <<rowVars, cacheVars, counter, settled, dead, passVars, deletes>>

-----------------------------------------------------------------------------
(* publish_analytics_updates, under _periodic_publisher of each process. *)

\* The organizations are read once.
StartPass(p) ==
  /\ pass[p].pc = "sleep"
  /\ pass' = [pass EXCEPT ![p].pc = "orgs", ![p].orgs = {m.org : m \in stored}]
  /\ UNCHANGED <<rowVars, cacheVars, consumerVars, debounced, alerts, slow, faults, deletes>>

\* default_range(7)
LastWeek(rows) == InRange(rows, Now - 168, Now)

\* analytics-updated; its effect is the business of AlertEvaluation.
PublishUpdate(p, o) ==
  /\ pass[p].pc = "orgs" /\ o \in pass[p].orgs
  /\ pass' = [pass EXCEPT ![p].pc = "spikes", ![p].orgs = @ \ {o},
                          ![p].spikes = {s.keyword : s \in DetectSpikes(LastWeek(LoadFrame(o)))}]
  /\ UNCHANGED <<rowVars, cacheVars, consumerVars, debounced, alerts, slow, faults, deletes>>

\* Variant for mutation: EXISTS, then SET.
DebounceUnchecked(p, k) ==
  /\ pass[p].pc = "spikes" /\ k \in pass[p].spikes
  /\ debounced' = debounced \cup {k}
  /\ pass' = [pass EXCEPT ![p].pc = "alert", ![p].spikes = @ \ {k}, ![p].keyword = k]
  /\ UNCHANGED <<rowVars, cacheVars, consumerVars, alerts, slow, faults, deletes>>

\* SET NX EX, before the publish.
Debounce(p, k) ==
  /\ pass[p].pc = "spikes" /\ k \in pass[p].spikes
  /\ debounced' = debounced \cup {k}
  /\ pass' = IF k \in debounced
               THEN [pass EXCEPT ![p].spikes = @ \ {k}]
               ELSE [pass EXCEPT ![p].pc = "alert", ![p].spikes = @ \ {k}, ![p].keyword = k]
  /\ UNCHANGED <<rowVars, cacheVars, consumerVars, alerts, slow, faults, deletes>>

PublishAlert(p) ==
  /\ pass[p].pc = "alert"
  /\ alerts' = [alerts EXCEPT ![pass[p].keyword] = @ + 1]
  /\ pass' = [pass EXCEPT ![p].pc = "spikes", ![p].keyword = Nothing]
  /\ UNCHANGED <<rowVars, cacheVars, consumerVars, debounced, slow, faults, deletes>>

NextOrg(p) ==
  /\ \/ pass[p].pc = "spikes" /\ pass[p].spikes = {}
     \/ pass[p].pc = "orgs" /\ pass[p].orgs = {}
  /\ pass' = [pass EXCEPT ![p].pc = IF pass[p].orgs = {} THEN "sleep" ELSE "orgs"]
  /\ UNCHANGED <<rowVars, cacheVars, consumerVars, debounced, alerts, slow, faults, deletes>>

\* Whatever raises ends the pass; it is logged, and the next pass comes.
PassFails(p) ==
  /\ pass[p].pc # "sleep"
  /\ Disturbed
  /\ pass' = [pass EXCEPT ![p] = Asleep]
  /\ UNCHANGED <<rowVars, cacheVars, consumerVars, debounced, alerts, slow, deletes>>

\* Variant for mutation: SET NX without EX.
DebounceNeverExpires(k) == FALSE /\ UNCHANGED vars

\* SPIKE_DEBOUNCE_SECONDS pass.
DebounceExpires(k) ==
  /\ k \in debounced
  /\ debounced' = debounced \ {k}
  /\ alerts' = [alerts EXCEPT ![k] = 0]
  /\ slow' = IF \E p \in Publishers : pass[p].keyword = k THEN slow \cup {k} ELSE slow
  /\ UNCHANGED <<rowVars, cacheVars, consumerVars, pass, faults, deletes>>

-----------------------------------------------------------------------------
ReaderStep(r) == Load(r) \/ Set(r)

ConsumerStep ==
  \/ \E e \in published : e.org = Home /\ Deliver(e)
  \/ Incr \/ Expire \/ Scan \/ Scanned \/ CommitOffset
  \/ \E q \in Requests : DeleteKey(q)

PassStep(p) ==
  \/ StartPass(p) \/ PublishAlert(p) \/ NextOrg(p)
  \/ \E o \in Orgs : PublishUpdate(p, o)
  \/ \E k \in Keywords : Debounce(p, k)

Next ==
  \/ \E m \in Mentions : StoreMention(m) \/ Analyse(m)
  \/ \E k \in Keywords : DeleteKeyword(k) \/ DebounceExpires(k)
  \/ \E r \in Readers : ReaderStep(r) \/ ReaderFails(r) \/ \E q \in Requests : Miss(r, q)
  \/ \E q \in Requests : CacheExpires(q)
  \/ ConsumerStep \/ HandleFails \/ Crash
  \/ \E p \in Publishers : PassStep(p) \/ PassFails(p)

Spec == Init /\ [][Next]_vars

\* The event loop runs what can run, and Redis lets keys expire.  Nothing makes
\* a client ask, a scrape find or an analysis end.
FairSpec ==
  /\ Spec
  /\ \A r \in Readers : WF_vars(ReaderStep(r))
  /\ \A q \in Requests : WF_vars(CacheExpires(q))
  /\ \A p \in Publishers : WF_vars(PassStep(p))
  /\ \A k \in Keywords : WF_vars(DebounceExpires(k))

-----------------------------------------------------------------------------
\* cache_aside can serve numbers from before an event that has been handled only
\* if a request had loaded its frame before the invalidation and stored it after:
\* neither a crash or failure between the deletes nor a redelivery leaves an old
\* entry behind.
StaleOnlyByRace ==
  \A q \in Requests \ tainted :
    cache[q] # Nothing => (settled \ dead) \cap stored \subseteq cache[q]

\* "prevents duplicate spike alerts for the same keyword within the window":
\* whatever the processes and their passes do, unless a publish took longer than
\* the window.
OneSpikeAlertPerWindow == \A k \in Keywords : alerts[k] > 1 => k \in slow

\* However a race, a lost event, a dead-lettered event or a deletion left the
\* cache, once the rows stay as they are it serves what they give: the TTL bounds
\* every staleness.
EventuallyFresh ==
  <>[](\A q \in Requests : cache[q] # Nothing => Answer(q, cache[q]) = Answer(q, LoadFrame(Home)))

\* A keyword that goes on spiking, among the mentions of the last seven days, is
\* alerted again and again: a publish that fails after the debounce key is set
\* costs one window, not the alert.
Spiking(k) ==
  LET counts == Hourly(OfKeyword(LastWeek(stored), k)) IN \E h \in DOMAIN counts : IsSpike(counts, h)
SpikeAlerted == \A k \in Keywords : <>[]Spiking(k) => []<>(alerts[k] > 0)

\* The endpoints count the same mentions: the totals of overview, the buckets of
\* trends at any granularity, the sources and the keywords agree.
TotalsAgree(F) ==
  LET Total(seq) == SumFunction([i \in DOMAIN seq |-> seq[i].count])
      n == Cardinality(F)
  IN /\ Total(Sources(F)) = n
     /\ Total(TopKeywords(F, n)) = n
     /\ \A g \in {"hour", "day", "week"} :
          LET t == Trends(F, g) IN
          /\ SumFunction([b \in DOMAIN t |-> t[b].count]) = n
          /\ \A s \in Sentiment : SumFunction([b \in DOMAIN t |-> t[b][s]]) = SentimentBreakdown(F)[s]

\* By Cantelli's inequality at most 1 / (1 + threshold^2) of a keyword's hours
\* are spikes, and none where traffic is even.
SpikesAreRare(F) ==
  \A k \in Keywords :
    LET counts == Hourly(OfKeyword(F, k))
    IN (1 + SpikeThreshold * SpikeThreshold) * Cardinality({s \in DetectSpikes(F) : s.keyword = k})
         <= Cardinality(DOMAIN counts)

\* A brand with no fewer mentions and no worse sentiment never scores lower.
ComparisonMonotone(F, brands) ==
  LET c == Competitors(F, brands) IN
  \A i, j \in DOMAIN c :
    c[i].mentions >= c[j].mentions /\ c[i].sentiment_score >= c[j].sentiment_score => c[i].score >= c[j].score

\* The three gRPC answers about the last seven days agree: the points of the trend
\* add up to the total of the summary and of the metrics, and the summary speaks of
\* a spike just when the metrics count one.
GrpcAgrees(rows) ==
  LET summary == GetAnalyticsSummary(rows, Now - 168, Now)
      metrics == GetCurrentMetrics(rows, Now)
  IN /\ metrics.total_mentions = summary.total_mentions
     /\ \A g \in {"hour", "day", "week"} :
          LET t == GetTrends(rows, Now - 168, Now, g)
          IN SumFunction([b \in DOMAIN t |-> t[b].count]) = summary.total_mentions
     /\ summary.spike_detected <=> metrics.spike_count > 0

\* The figures of a frame that a request has loaded fit together, whichever
\* endpoint, or call of the gRPC server, computes them.
FiguresAgree ==
  \A r \in Readers :
    LET F == reader[r].frame IN
    reader[r].pc = "set" =>
      TotalsAgree(F) /\ SpikesAreRare(F) /\ ComparisonMonotone(F, Brands) /\ GrpcAgrees(F)
=============================================================================

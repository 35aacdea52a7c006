# EchoscopeAI in TLA+

TLA+ models of EchoscopeAI's services, checked with TLC on small instances, and
theorems about them checked with TLAPS. The models translate the code under
`src/`; `PROJECT.json` maps each definition to the lines it stands for. This file
is the inventory of the system and the guide to the modules, the runs and the
proofs.

## 1. The system

Ten Python services share one PostgreSQL database, one Redis and one Kafka
cluster. They interact through four channels only: rows and their foreign keys,
Redis keys (with expiry) and pub/sub, Kafka topics, and HTTP/gRPC calls.

```
 keyword API --> Celery --> run_scrape --mention-created--> nlp-service
                               |                                |
                           `mentions` <----foreign key---- `sentiment_results`
                                                                |
 dashboards <--ws-- notification <--analytics-updated-- analytics <--sentiment-processed
                    (alert rules, `alerts`)   <--alert-triggered--
 report API --> Celery --> generate_report --report-generated-->
```

| Component | State | Operations | Hard behaviour | What makes it correct |
|---|---|---|---|---|
| Consumer base (`kafka/.../consumer.py`) | committed offsets, positions, group generation, retry counter | start, run, `_process`, stop | rebalance or stop under a running handler, failed commit, failed dead-letter publish, crash before commit | no commit passes an unsettled message; partitions drain in order |
| Producer (`producer.py`) | connection | publish with retry | transient errors | raises or was acknowledged |
| Scraping pipeline (`mention-service/app/pipeline.py`, `redis_client.py`) | `mentions`, scrape locks, dedup keys, one open transaction, connections pooled by a worker process | Beat and requested scrapes | lock and claim expiry, rollback of work whose events and claims stay, crash with the lock held, a pooled connection of a closed event loop | unique urls, stored means announced, one scrape per keyword, lost urls are found again |
| Sources (`mention-service/app/sources`) | none | search of Reddit, NewsAPI, RSS | each loses another part of its answer when it fails | a failed source never ends a scrape |
| Keyword API (`routers/keywords.py`) | `keywords` | create, delete, list, trigger | deletion under a scrape, count and duplicate checked before the insert, a POST that runs twice | cascades; quota |
| NLP processor (`nlp-service/app/processor.py`, `analysis.py`) | `sentiment_results`, summary keys, topic sentiment-processed | process_event, GET summary | redelivery, two handlers of one event, events of uncommitted mentions, a language model that never answers twice the same | announced once, with a row; copies of a summary agree |
| Alert evaluation (`notification-service/app/evaluation.py`) | `alert_rules`, `alerts`, debounce keys | evaluate_event, rule API | effects that outlive a rollback, racing evaluations, malformed rule | one push per window, history = what was pushed |
| Analytics (`analytics-service`) | cache keys, hourly counters, spike debounce | REST and gRPC figures, cache_aside, invalidate, publish pass | a value computed before an invalidation stored after it, debounce before publish | stale only by that race, and for one TTL; one alert per spike and window; figures that agree |
| WebSockets (`ws.py`, `bridge.py`, `useWebSocket.ts`, dashboard page) | subscriptions, sockets, timers, query cache | connect, forward, reconnect, poll | late close events, a forward task that dies behind a live connection, messages between accept and subscribe | one live socket; the page catches up |
| Reports (`report-service`) | `reports.status`, files or objects, pooled connections | create, generate, list, delete, download | failure in the middle, deletion under generation, a task delivered twice, a file emptied before it is written, text the font cannot draw | what is not done has a reason; a file stays behind its link; deletions are clean |
| Auth (`auth-service`) | refresh tokens, blacklist | login, refresh, logout, bearer check | two refreshes of one token, TTLs in whole seconds | one live token per session; a logout lasts |
| Gateway (`api-gateway`) | rate counters | authenticate, limit, proxy with resend | window edges, a counter that never gets its expiry, a resend beside the request it repeats | at most N requests in a window of the clock, 2N in any minute |
| Database, common, rpc, other frontend pages, deployment | schema, settings, stubs | - | - | - |

`PROJECT.json` lists under `hazards` every place where this code is hard to
test, with the properties that watch it, or why none does.

## 2. The modules

| Module | Models | Extends / composes |
|---|---|---|
| `OrderedDelivery` | what the consumer base promises: messages of a partition are settled in order, commits only grow and never pass an unsettled message | abstract specification |
| `Consumer` | `BaseConsumer` of a whole group | refines `OrderedDelivery` |
| `ScrapePipeline` | `run_scrape`, Redis lock and claims, keyword deletion | own specification |
| `Sources` | what the source clients return for a keyword, whole or cut short | operators; gives `MCMentionFlow` its scrape answers |
| `NlpAnalysis` | `analyze_text`: sentiment, keywords, entities, summary, and what its result must fit (`AnalysisFits`) | extends `Ordering`; operators |
| `SentimentFeed` | what scraping and nlp-service promise together: urls stored once, one row per mention, announced once by the handler that wrote it or never | abstract specification |
| `NlpProcessor` | `process_event` under the consumer loop, summary cache | instantiates `NlpAnalysis`; no `Spec` |
| `MentionFlow` | scrape and handlers on the shared tables and the topic between them | extends `ScrapePipeline`, instantiates `NlpProcessor`, refines `SentimentFeed` |
| `AlertEvaluation` | `evaluate_event` and the alert rule API | own specification |
| `Listings` | the two paged listings: the history of alerts by a cursor, the mentions by a page number | predicates on table and response |
| `Ordering` | sorting a finite set, what `sort` and `groupby` do to groups | operators |
| `Analytics` | the figures of every analytics endpoint over a frame of rows | extends `Ordering` |
| `AnalyticsService` | cache, invalidating consumer, publishing passes | extends `Analytics` |
| `ReportContent` | what a PDF or CSV holds | extends `Analytics` |
| `ReportLifecycle` | report handlers, Celery queue, workers, files, report list | extends `ReportContent` |
| `AuthSessions` | login, refresh, logout, bearer check | no `Spec` |
| `KeywordApi` | create_keyword, delete_keyword | no `Spec` |
| `Edge` | clients, gateway, and the two above behind it | instantiates `AuthSessions` and `KeywordApi` |
| `LiveDashboard` | the page, the WebSocket hook, the bridge and the handler | own specification |
| `*_proofs` | theorems about the module of that name (those about `ScrapePipeline` are in `MentionFlow_proofs`, those about `Listings` in `AlertEvaluation_proofs`) | extends it |
| `SumTheorems` | lemmas about sums over finite sets, sorting and sets of groups | extends `Ordering`; used by the proof modules of `MentionFlow`, `AnalyticsService`, `ReportLifecycle`, `AlertEvaluation` and `Edge` |
| `MC*` | values of the constants for TLC | extends it |

Each module takes the program counters from the `await`s (or, in Celery and the
browser, from the points where another actor can come between): one action is
the code from one of them to the next. Calls between which nothing else can tell
the difference are one step; the modules say where (`AuthSessions!Issue`).

### Consumer

`pc[m]` is the await the task stands at. `Fetch` is the `async for`;
`HandleOk`/`HandleFails` the call of `handle`; `CommitOk`/`CommitFails` the commit
in the same `try`; `DeadLetter*` what follows the retries, with no `try` around
it, so that an error there ends the task (`pc = "dead"`). `commit()` is called
without offsets, so `CommitPositions` commits the position of every assigned
partition. `NextAttempt` is the `except` clause. `Stop`, `Crash` and `Restart` are
the service's lifespan. Kafka's coordinator (`Rebalance`, `Join`,
`CommitAccepted`) is external and modelled by what the loop relies on. A rebalance
does not interrupt a handler: a member that has lost a partition goes on with it
until its commit is refused.

A message is *settled* when it has been handled or dead-lettered. Handlers are
abstract: they succeed, fail because of a disturbance, or always fail (`Poison`).

### ScrapePipeline

Each worker is a run of `run_scrape` with its locals. The database transaction is
`tx[w]`: rows become visible at `Commit` and vanish in `RollBack`, while Redis keys
and Kafka events take effect at once. `Insert` has the two constraints of the table
(unique url, foreign key); like the code it treats either as a duplicate. `Fail`
leaves through the `finally` that deletes the lock, `Crash` does not. The Celery task
runs in a new event loop (`asyncio.run`), while engine and pool belong to the worker
process: `pooled` are the workers whose pool holds a connection of an earlier loop,
and `Refuse` is the task that gets it and fails before it has done anything.
`DeleteKeyword` waits for transactions that hold a row of the keyword (PostgreSQL's
key-share lock) and cascades. The order of the keywords and urls is left open: the
query has no ORDER BY.

### Sources, NlpAnalysis, NlpProcessor and MentionFlow

`Sources` says what a failure costs: Reddit all of its posts, NewsAPI the articles
after the failure, RSS all feeds or, when one cannot be read, that feed. The run
takes `Found` and `Partial` of the scrape from it. A text of `NlpAnalysis` is a
record of what the lexicon and the models find; thresholds, ties, limits and the
order of results are those of the code. Keywords and entities are both a ranking:
the elements of a set by weight and, among equals, by first sight (`Ranked`, with
`InOrder` of `Ordering`), cut at a limit.

A handler goes through `insert`, `cache`, `publish`, `commit` (of the offset), and
`dlt`. What the loop of `BaseConsumer` adds is represented by what `Consumer` shows
of it: delivery until a handling succeeds or the retries run out, and a redelivery
of settled events by a process that lost the partition. The language model may give
another summary at each attempt (`Summaries`). `MentionFlow` extends the scrape and
interleaves the handlers with it; the deletion of a keyword is one step of both
components.

`SentimentFeed` is what readers of the tables and of sentiment-processed see of the
two services. In its refinement, `inHand` is the set of rows of handlers between
insert and publish, and `announced` counts the publishes of a mention. A scrape's
`Commit` is `Store`, an insert `Analyse`, a publish `Announce`, a retry or crash
between the two `Lose` (the retry finds its own row and skips), a deletion
`Delete`; every other step is a stutter.

### AlertEvaluation

The evaluation reads the enabled rules once, then per rule matches, sets the
debounce key, inserts, and pushes, all in one transaction. `Raised` rolls the
rows back and keeps keys and pushes. E-mail and gRPC enrichment never raise and
leave nothing behind in the system, so they are not steps.

### Analytics and AnalyticsService

`Analytics` computes each endpoint's figures from a frame, the set of rows that
`load_frame` returns. Percentages, averages and scores are integers with the
code's rounding; the z-score of a spike is compared after squaring, so that no
root is taken. The same operators serve REST, gRPC and reports, as in the code.
`Ordering!InOrder` sorts by counting for each element those that come before it:
the `SortSeq` of TLC's module is evaluated by Java, and no prover can look into it.

In `AnalyticsService` a cache entry is represented by the frame it was computed
from. A reader (`cache_aside`) misses, loads and sets; the consumer counts the
event, scans the keys and deletes them one by one; a pass goes over the
organizations and their spikes, sets the debounce key and publishes. The rows
change under all of them (`StoreMention`, `Analyse`, `DeleteKeyword`: what the
other services do to the tables). A pass looks at the last seven days (`LastWeek`).
The three gRPC answers are operators without state of their own; `GrpcAgrees` is the
part of `FiguresAgree` that is about them.

### ReportContent and ReportLifecycle

`Create` and `Delay`, `DeleteFile` and `DeleteRow` are the two halves of
`create_report` and `delete_report`. A worker takes a task once and never again
(acknowledged early), unless the broker's visibility timeout brings it back
(`Redeliver`). `Begin`, `Load`, `Enrich`, `Put` (with a bucket) or `Truncate` and
`Write` (without), `Finish` and `Announce` are `generate_report`. Four things end it
early and leave the status as it is: a malformed date (in `Load`), a keyword the PDF's
font cannot draw (in `Enrich`, with `Drawable` of `ReportContent`), the connection of
an earlier task in the worker's pool (`Refuse`, as in the scrape), and `Fail`, any
other exception. `write_bytes` empties the file and then writes it, so that `files[r]`
is `Torn` in between. Otherwise `files[r]` is a draft, that is with which live summary
and which top keywords (value_counts orders ties as it likes) the file was built, and
`ReportContent!Build` says what is in it. `bucket` is `aws_bucket`, chosen at the
start: there `delete_report`, which looks for a local path, removes nothing.
`PresignedUrl` and `Download` are what a link finds once its request is let in; who is
let in is not modelled (see the disagreements below).

### AuthSessions, KeywordApi and Edge

A login or refresh issues a *pair* of tokens under one number; `root` gives the login
it descends from. `store` is what Redis holds of refresh tokens, `black[p]` the end of
a blacklist entry. The clock counts half seconds (`Second = 2`) so that what `int()`
cuts off can be seen. The limiter's INCR and EXPIRE are two steps (`Rate`, then
`Expire` or `ExpireFails`, after which the key has no expiry). `KeywordApi` is the
check-then-act of `create_keyword`. `Edge` puts both behind the gateway: `AskGateway`
and `Rate` are its dependencies, `Send`, `Timeout` and `Answer` its proxy with
resends; a request that timed out goes on upstream, beside the one sent after it. The
proxy drops the Authorization header, so requests that need one succeed only at
auth-service's own port (`AskAuth`, `Login`).

### LiveDashboard

The hook is modelled with its refs and state: every render makes a new `connect` (its
callbacks change), so `Render` closes the socket and opens another; `CloseEvent` comes
later than `close()`, and its timer (`Reconnect`) does not ask what `wsRef` holds.
`Subscribe`, `Accept`, `Disconnect`, `ForwardDies` are the WebSocket handler with its
two tasks, `Bridge` the consumer that publishes to Redis. `Subscribe` only sends the
command; Redis takes it some time after (`Taken`), and a message that is published
before is missed, on an accepted connection too. `data` is a version of the figures,
`fetch` and `shown` the query of the page and what it shows.

## 3. What the runs check

| Run | Shows |
|---|---|
| `consumer` | `CommittedIsSettled`, `QuietRunExactlyOnce`, refinement of `OrderedDelivery`, and `DrainsWhileAlive` for 2 processes, 2 partitions of 2 messages, one poison message, 2 attempts, 2 disturbances of any kind |
| `consumer_blocked` | finding: one failed dead-letter publish blocks the partition for good |
| `scrape` | `UniqueUrl`, `CommittedAnnounced`, `LockExcludes`, `EveryFoundUrlStored` for 2 workers, 2 keywords that share a url, 1 disturbance (489,193 states) |
| `mention_flow` | refinement of `SentimentFeed`, `CopiesFollowRow`, `EveryEventSettled` for 1 worker, 2 handlers, 2 attempts, 1 disturbance (202,888 states); the limits of `analyze_text` on sample texts (an assumption of the MC module) |
| `mention_unanalysed` | finding: a stored mention that is never analysed, with no fault |
| `mention_unannounced` | finding: a sentiment that is never announced after one failed publish |
| `alerts` | `OnePushPerWindow`, `AlertPushed`, `QuietEventsAlert`, `EveryUpdateSettled` for 2 evaluations, 3 rules (one malformed, one not matching), 1 fault, 1 edit, 1 expired window; that a page leaves out an alert with the time of its cursor, and two pages can show one mention when times are equal (assumptions of the MC module) |
| `alert_unpersisted` | finding: a pushed alert that is in no history, with no fault |
| `analytics` | `StaleOnlyByRace`, `OneSpikeAlertPerWindow`, `FiguresAgree`, `EventuallyFresh`, `SpikeAlerted` for one reader, one publisher, two requests, four mentions of which the last makes a spike (194,720 states) |
| `reports` | `NoLimbo`, `OfferedFileKept`, `CleanDelete`, `FilesFit`, `EveryReportDone` for two of three reports (a PDF, a CSV with a malformed date, a PDF with a keyword the font cannot draw), 2 workers, 2 disturbances, with a bucket and without (641,650 states) |
| `edge` | `QuotaHeld`, `LogoutHolds`, `RateBound`, `SessionKept` for 2 connections of 2 attempts, 3 requests, 2 token pairs, 2 clock windows, 1 disturbance (1,473,152 states) |
| `live` | `OneConnection`, `SubscribeFirst`, `DashboardFresh` for 2 connections at a time, 2 changes, 1 disturbance (1,177,397 states) |

Each property of a passing run has a mutant in `PROJECT.json`: a variant of a
definition with a plausible bug, defined right before it and marked as such,
which makes TLC find the property violated.

**Bounds.** `MaxFaults` bounds disturbances (failures, crashes, rebalances,
stops, late redeliveries). Two or three allow a disturbance during the recovery
from another; one is enough where a second actor already gives the interleaving
and each disturbance acts alone. Two processes give every overlap of an old and a
new owner; two partitions let a commit move one while the other is unsettled; two
messages let a commit pass one. `MaxEdits` and `MaxWindows` bound uses of the rule
API and expiring debounce keys, `MaxDeletes` deleted keywords, `MaxRequests` and
`MaxPairs` the client's requests and tokens, `MaxTime` the clock (two rate windows
and a token's life), `MaxData` changes of the figures. `Sockets` bounds the
connections at one time, not their number: an ended connection is used again.
Counters without a bound of their own (`inserts`) are bounded by these.
`StoreMention` stops after a deletion, so that a deleted mention does not come
back under the same identity.

**Where the model stops the system.** The runs with `CHECK_DEADLOCK FALSE` check
systems that may stop: the topic is finite, clients need not ask, every report is
created once, a page may be left, and a process that is down may stay down.

**Assumptions about time.** A scrape is shorter than the 24 hours of the dedup
key, and a call of auth-service shorter than the life of a refresh token. Scrape
locks, debounce keys, cache entries and blacklist entries may expire at any
moment their clock allows; the properties that rest on them exempt exactly the
keywords, rules and readers for which this happened under a running step
(`lapsed`, `late`, `slow`, `tainted`).

**Fairness.** An event loop runs a task that can run (`TaskStep`, `HandlerStep`,
`RunStep`, `ReaderStep`, `PassStep`, `WorkerStep`), aiokafka rejoins (`Join`),
Redis keys expire, a request that has begun ends, and the browser's interval
timer fires (`Poll`). Nothing in the repository restarts a service process, so
`Restart` and `Rebalance` have no fairness and `DrainsWhileAlive` assumes that
tasks stay alive. Nothing is asked of the WebSocket: `DashboardFresh` rests on
polling alone. In `MentionFlow` and `AlertEvaluation` a handler that crashes is
free again at once: it stands for whichever process is up. Beat's task gets
strong fairness, since the Celery queue is first in, first out and Beat queues a
task every interval. That it does not always draw the connection of an earlier task
is an assumption: one turn in two of a worker does (`Refuse` is fair, and clears the
pool), and nothing in the code keeps it from being Beat's turn each time.
`EveryReportDone` makes no such assumption: it excuses a report whose task was refused.

**Disagreements met while modelling that no run states.** They concern a single
line or a pure function, where a run would add nothing:

- the gateway asks for a token on every path (`routers/proxy.py:99`) and keeps the
  header to itself (`routers/proxy.py:36`), while the frontend's sign-in page posts to
  it (`login/page.tsx:23`, base URL in `lib/api.ts:6`): a first login through the
  gateway is refused, and so are `me` and `logout` with a valid token, and the refresh
  of `lib/api.ts:27`, which sends no header at all;
- the download link of a locally stored report is a plain `<a href>`
  (`reports/page.tsx:32-35`, `:70`), which carries no Authorization header, and the
  gateway it leads to answers 401 without one (`dependencies/auth.py:43-47`): what
  `OfferedFileKept` says of the file helps only a client that sends its token. A
  presigned link works;
- `rate_limit.py:1`, `api-gateway/README.md:4` and `docs/PROGRESS.md:41` speak of a
  sliding window. The code counts per window of the clock, so that a minute across two
  windows lets through twice the maximum. `RateBound` states what the code gives, in a
  window and across two; a window that slid would not allow the second;
- a failure between INCR and EXPIRE (`rate_limit.py:29-32`) leaves a key that never
  runs out. It counts for its own window only, so it costs memory, not requests; with
  HSET and EXPIRE of a refresh token (`redis_client.py:39-43`) it leaves a token that
  nobody was given and that never runs out;
- the Celery tasks of report-service (`celery_app.py:25`) and mention-service
  (`celery_app.py:39`) run each in a new event loop over an engine of the process
  (`db.py:13`), whose pool keeps connections bound to loops that are closed (the Redis
  clients of the modules are kept in the same way). So about every other task of a worker
  process fails on its first statement: a report stays `queued` although
  nothing was disturbed. `NoLimbo` and `EveryReportDone` name these reports
  (`refused`), and those whose keywords are outside Latin-1, for which FPDF's core font
  raises (`generate.py:98-141`) and which stay `processing` (`CannotDraw`);
- `delete_report` (`routers/reports.py:132-136`) never removes an object from S3;
- `ws.py:41` subscribes "BEFORE accept so no early messages are missed", but
  `pubsub.subscribe` does not wait for Redis' confirmation: `SubscribeFirst` states the
  order of the two calls, which is what the code guarantees;
- the gateway does not look at the blacklist: a token that was logged out opens
  mention-, analytics- and report-service until it runs out;
- spike rules never match: `evaluation.py:35-36` asks for a spike in the metrics of
  an event that `publisher.py:41-45` publishes without one;
- `model_version` has 51 characters with the default transformer
  (`analysis.py:94`) and its column 50 (`models.py:197`): every insert fails;
- a value longer than its column raises DataError and rolls back the whole scrape
  whenever its source returns it (`pipeline.py:78`);
- paging by timestamp alone may repeat mentions with equal timestamps
  (`keywords.py:127`), as those of one scrape have;
- the hourly mention counter (`cache.py:74`) counts redeliveries, may stay for good
  after a crash, and is read by nothing.

## 4. What is proved

Every theorem holds for all values of the constants that satisfy the module's
named assumptions, thus for any number of processes, workers, keywords, reports,
connections and disturbances. Beyond what the models need to make sense, the
assumptions say: a database table is finite (`Rows`, `Mentions`), `brands` is a
list, so are the words, phrases, entities and sentences of a text and the summary of
a language model, scores and thresholds are numbers, and `Idle`, the value that
stands for no request, is none. Each proof module has one step per action, and lemmas for
steps of the same shape.

**`Consumer_proofs`**: `TypeCorrect`; `Invariant` (`Spec => []IInv`); `CommitSafe`
(`CommittedIsSettled`); `Refinement` (`ImplementsOrderedDelivery`); `ExactlyOnce`
(`QuietRunExactlyOnce`). `CommittedIsSettled` is not inductive: a commit takes
positions, which run ahead of the handlers. `IInv` adds what ties positions to
settled messages: `OlderSettled` (all messages before the one in hand are
settled), `DoneSettled` (a task at a commit has settled its message),
`PositionsSettled` (positions of a task pass settled messages only, except for
the message in hand), `GenerationOwns` (a member of the current generation holds
exactly what it was given, and its positions are not behind the commits) and
`DownHasNothing`. The refinement maps `HandleOk` and `DeadLetterOk` to `Settle`,
commits to `Commit`, and every other step to a stutter, with `IInv` at hand.
`ExactlyOnce` adds `QuietInv`: until the first disturbance every busy member is of
the current generation, and what was handled lies behind the position of the
owner of its partition.

**`MentionFlow_proofs`**, first for the scrape alone: `TypeCorrect`, `UniqueUrls`,
`Announced`, `Exclusion`. None is inductive, and each rests on the one before it.
`TypeInv` says which locals are set at which program counter: without it the row
of `Insert` and the event of `Publish` are not known to exist. `DedupInv` says that
a url belongs to one run, one open row or one committed row at most (`Claimed`,
`HoldersApart`, `RowsApart`): a claim excludes other runs, the UNIQUE check
excludes committed rows, and a `Commit` merges rows that were apart. `AnnounceInv`
says that every open row but the one at hand has been announced; it needs
`RowsApart`, since `Publish` finds its row by url. `LockInv` says that a run holds
the lock of its keyword unless that has run out, so that the `finally` deletes a
lock of another run only in that case. `UniqueUrls` and `Announced` rest on the
guard of `ClaimExpires`: a claim outlives the transaction it belongs to.

Then for the flow: `Once` (no mention is announced twice) and `Copies`
(`CopiesFollowRow`), from `FlowInv`: rows name keywords that exist (`KeywordInv`, an
invariant of the scrape that the composition needs); a mention that was announced,
is about to be or has a cached summary has its row or can never have one again
(`RowInv`); two handlers never stand between insert and publish of one mention, and
none stands there for an announced one (`OnceInv`); the row, the cached copy and the
handler's own analysis agree (`CopyInv`). `FlowTypes` (`FlowTypeOK`) and `ScrapeKept`
(what the scrape promises, it keeps in the flow) come from `WholeInv`: the scrape's
lemmas are about its steps, not its specification, and a step of the flow is a step
of the scrape, a step of a handler that leaves the scrape's variables alone, or the
deletion that both take together.

`Refinement` (`ImplementsSentimentFeed`) shows step by step, with `WholeInv` before and
after, that the flow implements `SentimentFeed`. Three of its steps need the
invariant: a `Commit` makes visible only mentions that nobody announced (`RowInv`) and
whose keywords exist; an insert finds no row of the mention, since the UNIQUE
constraint decides; and what a publish announces is a row in hand that no other
handler has (`OnceInv`), so that taking it out of hand takes out no other.

`AnalysisLimits` is about `analyze_text` for every text and every answer of the
language model: keywords and entities are the beginning of the ranking they come
from (no longer than the limit, nothing twice, and nothing left out that comes before
what is listed), the confidence is the largest share, and key points come exactly
with a summary. `Before` is a strict total order (`BeforeOrders`), since an element
has one first place; `InOrderSorts` turns that into a list. `RowsLimited` carries it
to the table: by `WholeInv` a row is an analysis of its mention's text, whichever
attempt wrote it. TLC evaluates the same predicate on sample texts.

**`AlertEvaluation_proofs`**: `TypeCorrect`, `Pushed` (`AlertPushed`), `Debounced`
(`OnePushPerWindow`), `QuietAlerts` (`QuietEventsAlert`). `RulesOnce` and `PushInv`
say that every open alert but that of the rule at hand was pushed; `WindowInv` that
a rule whose key did not run out under an evaluation is in the hands of one
evaluation, which is the first to push; `SeenInv` that in an undisturbed run every
rule an evaluation has passed was fired, by it or by the holder of the key.

The same module proves what paging promises, as theorems about all tables and
requests, since a query has no state that a run could walk through.
`HistoryAdvances`: a page of the history is older than the page its cursor came
from, whatever was inserted or deleted in between. `HistorySkipsTiesOnly` and
`HistoryEnds`: an alert that a page leaves out is on the list of the next, unless it
has the very time of the cursor, and a page without a next cursor leaves out none.
Over any number of pages, then: `HistoryOnce` (a client sees no alert twice,
whatever came and went while it was reading) and `HistoryComplete` (at the end it
has seen every alert of an unchanged table, but those that share their time with
the end of a page). `MentionPagesApart`: two pages by number over one table are
disjoint if no two mentions have one time. The last exception is real: the mentions
of one scrape share `NOW()` of its transaction (a hazard in `PROJECT.json`); two
alerts with one time take two evaluations on one microsecond.

**`AnalyticsService_proofs`**: `TypeCorrect`, `Debounced`
(`OneSpikeAlertPerWindow`), `StaleByRace` (`StaleOnlyByRace`). `CacheInv` follows the
invalidation: from the scan on, an entry without the mention of the event at hand
is still to be deleted and a reader without it is marked late; `RowInv` says that
an announced mention is analysed or deleted, so that a frame loaded after the scan
has it. The proof covers readers, redeliveries, retries and crashes at every point
between scan and commit.

`Figures` (`FiguresAgree`) is about arithmetic, not interleavings: `TypeOK` says that
a reader's frame is a finite set of rows, and the rest holds of every such set.
The answers over gRPC agree since each filters the same rows (`Grpc`).
Sources, keywords and buckets add up to the total because each is the partition of
the frame by a function of the row (`SumParts`), and sorting loses and repeats
nothing (`InOrderLists`). `SpikesRare` is Cantelli's inequality in integers: over
the k spikes and the n - k other hours, the quadratic form that bounds the variance
from below gives (1 + z^2) * k <= n. The comparison is monotone since rounding to
even is (`RoundMonotone`).

**`ReportLifecycle_proofs`**: `TypeCorrect`, `Limbo` (`NoLimbo`), `OfferedFiles`
(`OfferedFileKept`), `Deletion` (`CleanDelete`), `Fit` (`FilesFit`). `Limbo` goes through
every path on which a handler or a worker leaves `queued` or `processing` behind: the
malformed date, the font, the connection of an earlier task, and disturbances are all
there are. `FileInv`: a row has a path only once its file was written, and only a
deletion takes it away. `FinalInv`: a report whose deletion began when it was done, and
in nobody's hands, has no local file and never gets one. `Fit` needs no history: by
`TypeOK` a file that is whole is what `Build` makes of some outcome of the live summary
and some choice among equally frequent keywords, and `ContentFits` shows that its chart
(empty days included), totals and top keywords count the rows of the filters.

`Generated` is an action property (`GeneratedOnce`, stated there) of every report whose
task was delivered once, whatever fails around it: a report that is done does not go
back to `processing`, its file is not written a second time and it is announced once.
`OnceInv` says why: such a report has one task, with create_report, in the queue or with
one worker (`Once`), and its row, file and announcement are as far as that task has come
(`Stage`). `OfferedFiles` needs it as well: a file behind a link is torn only if a second
run has begun to write it.

**`LiveDashboard_proofs`**: `TypeCorrect` (with `2 ^ n` bounded by the cardinality
of a power set), `AtMostOne` (`OneConnection`), `Subscribed` (`SubscribeFirst`), from
`HookInv` and `ServedInv`.

**`Edge_proofs`**: `Quota` (`QuotaHeld`): `CreationInv` counts the creations between
check and insert together with the rows, so that the limit is passed by fewer
than the creations that can overlap. `Logout` (`LogoutHolds`): `BlackInv` says that
the blacklist entry of a token that was logged out lasts until its last second or
that this second has begun. It needs `CallInv` (only a token that was made can be
presented as a bearer, and no reply makes a token that exists) and `ClientType`
(clients present what they were given).

`TypeCorrect` (`TypeOK`), from `EdgeInv`: a request that waits has its call or its
creation upstream (`RequestInv`), a call has the tokens its program counter needs, and
the session of a token is that of the login it descends from (`TokenInv`). `Limited`
(`RateBound`), from `RateInv`: a counter holds at least the requests let through in
its window (`WindowInv`), however early its key expires, whether or not it gets an
expiry, and however late a request that read the clock is counted; a span as long as a
window meets two windows at most. `Kept` (`SessionKept`), from `KeepInv`: in a session
that nothing disturbed, one call at most works on it, and Redis holds its one token
except between the two halves of a refresh (`KeptInv`); attempts that were not made
have left nothing behind, so that the answer a client gets is that of its own call
(`RouteInv`). The other sessions may do anything in the meantime.

**`SumTheorems`**: sums over finite sets (remove, add, union, scale, rename, compare),
the sum over a partition, sorting (`InOrderRanks`: in a finite strict total order an
element has as many before it as its place says; from it `InOrderLists`, nothing is
lost or repeated, and `InOrderSorts`, what comes before comes first), least and
greatest elements, and `Cantelli`. The library's induction theorems take an operator
as a parameter and cannot be used, but induction over finite sets needs none of them:
`SmallestSet` picks a smallest set (by inclusion) out of a family of finite sets, and
`SetInduction` states the principle for the family of the sets that have what is to be
proved. The library's `SumFunctionOnSet` is a fold that chooses an order;
`IsSumExists` and `IsSumUnique` show that the order does not matter.

**Only model-checked.** All liveness (`DrainsWhileAlive`, `EveryFoundUrlStored`,
`EveryEventSettled`, `EveryUpdateSettled`, `EventuallyFresh`, `SpikeAlerted`,
`EveryReportDone`, `DashboardFresh`), which is out of the prover's reach, as is
`ENABLED`. Every invariant and both refinements that the passing runs check are
theorems. The four runs that expect a violation need the counterexamples that TLC
finds.

## 5. Plan

Done: the consumer loop and its refinement; scrape, analysis and alerting, the two
paths on which effects outlive a rollback, and the refinement of what they promise;
analytics; reports; the edge; the dashboard; as theorems, every invariant the passing
runs check, both refinements, and the limits of `analyze_text`. What could follow:

1. An abstract specification of the alert history (a rule fires once per window and
   what fired is kept), on top of `PushInv` and `WindowInv`.
2. The batch endpoint of nlp-service and `register`, `update_me` and
   `change_password` of auth-service, if a property about them is found: today no
   modelled step reads what they write.

## 6. Not modelled, and why

The lexicon, the language models, page rendering, PDF and CSV layout, e-mail
templates: pure functions or I/O whose results no state can tell apart here;
`NlpAnalysis` and `ReportContent` keep what the code decides from them. pandas'
floating point is replaced by exact integer arithmetic. `MockSource` invents new
urls at every call and is named in `Sources` only. Listings read and change nothing,
so `Listings` has no specification: the two that page are predicates, the others are
left out. The jitter of the reconnect delay and the texts of answers are
left out. The batch and gRPC front ends of nlp-service call `analyze_text` and
answer. `register`, `update_me` and `change_password` change columns of `users`
that no modelled step reads. `lib/api.ts` beyond its refresh call, forms and other
pages keep no shared state. Migrations, seed data, topic creation and container
configuration run once. Kafka, Redis, PostgreSQL, Celery and the browser's event
loop are external: what the code relies on is part of the actions that use them.

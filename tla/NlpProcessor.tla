---------------------------- MODULE NlpProcessor ----------------------------
(***************************************************************************)
(* nlp-service: process_event of app/processor.py under the loop of        *)
(* BaseConsumer.  Handlers are the handlers that may be at work at once    *)
(* (a rebalance lets two processes hold the same event).  What the loop    *)
(* adds is modelled by its effect, as module Consumer shows it: an event   *)
(* is handled until a handling succeeds and its offset is committed, or it *)
(* is dead-lettered after max_retries attempts.  The order of the events   *)
(* of a partition is left open.                                            *)
(*                                                                         *)
(* process_event analyses the text before its first await and touches      *)
(* nothing shared with that: the analysis is part of the insert.           *)
(***************************************************************************)
EXTENDS Integers

CONSTANTS
  Handlers,
  Mention,       \* the mentions an event can name
  MaxRetries,
  MaxFaults,
  Nothing,
  Texts,         \* Texts[u]: the content of the mention of url u
  Summaries,     \* summaries the language model may give, and Nothing
  Settings, Stopwords, Ignored  \* of NlpAnalysis

VARIABLES
  mentions,            \* committed rows of table `mentions`
  mentionCreated,      \* events on mention-created
  results,             \* rows of `sentiment_results`: [mention, result]
  cached,              \* keys nlp:summary:{mention_id}: [mention, summary]
  sentimentProcessed,  \* mentions announced on sentiment-processed
  announcedTwice,      \* mentions announced there more than once
  settled,             \* events whose offset is committed
  deadLettered,        \* events in mention-created.dlt
  step,                \* step[h]: the await handler h is at
  event,               \* event[h]: the event it handles
  attempt,
  made,                \* made[h]: the analysis of the row it has inserted
  faults

Analysis == INSTANCE NlpAnalysis WITH None <- Nothing

inputVars == <<mentions, mentionCreated>>
announceVars == <<sentimentProcessed, announcedTwice>>
offsetVars == <<settled, deadLettered>>

\* The analyses of a mention: the language model is asked anew each time.
Analyses(m) == {Analysis!AnalyzeText(Texts[m.url], gpt) : gpt \in Summaries}

\* Mentions with a row in `sentiment_results`.
Analysed == {r.mention : r \in results}

TypeOK ==
  /\ Analysed \subseteq Mention
  /\ \A r, s \in results : r.mention = s.mention => r = s
  /\ \A r \in results : r.result \in Analyses(r.mention)
  /\ \A c \in cached : c.mention \in Mention /\ Analysis!Truthy(c.summary)
  /\ sentimentProcessed \subseteq Mention
  /\ announcedTwice \subseteq Mention
  /\ settled \subseteq Mention
  /\ deadLettered \subseteq Mention
  /\ step \in [Handlers -> {"idle", "insert", "cache", "publish", "commit", "dlt"}]
  /\ event \in [Handlers -> Mention \cup {Nothing}]
  /\ attempt \in [Handlers -> 0..MaxRetries]
  /\ \A h \in Handlers :
       /\ step[h] # "idle" => event[h] \in mentionCreated
       /\ made[h] \in IF step[h] \in {"cache", "publish"} THEN Analyses(event[h]) ELSE {Nothing}
       /\ step[h] = "cache" => Analysis!Truthy(made[h].summary)

Init ==
  /\ results = {}
  /\ cached = {}
  /\ sentimentProcessed = {}
  /\ announcedTwice = {}
  /\ settled = {}
  /\ deadLettered = {}
  /\ step = [h \in Handlers |-> "idle"]
  /\ event = [h \in Handlers |-> Nothing]
  /\ attempt = [h \in Handlers |-> 0]
  /\ made = [h \in Handlers |-> Nothing]

Goto(h, next) == step' = [step EXCEPT ![h] = next]

Disturbed ==
  /\ faults < MaxFaults
  /\ faults' = faults + 1

\* An event that is settled is delivered again by a process that had fetched it
\* before it lost the partition.
Deliver(h, e) ==
  /\ step[h] = "idle"
  /\ e \in mentionCreated
  /\ IF e \in settled THEN Disturbed ELSE UNCHANGED faults
  /\ event' = [event EXCEPT ![h] = e]
  /\ attempt' = [attempt EXCEPT ![h] = 1]
  /\ Goto(h, "insert")
  /\ UNCHANGED <<inputVars, results, cached, announceVars, offsetVars, made>>

\* Variant for mutation: one attempt too many.
RetryOffByOne(h) ==
  /\ made' = [made EXCEPT ![h] = Nothing]
  /\ IF attempt[h] <= MaxRetries
       THEN attempt' = [attempt EXCEPT ![h] = @ + 1] /\ Goto(h, "insert")
       ELSE Goto(h, "dlt") /\ UNCHANGED attempt

\* Variant for mutation: the attempts are never exhausted.
RetryForever(h) ==
  /\ made' = [made EXCEPT ![h] = Nothing]
  /\ Goto(h, "insert")
  /\ UNCHANGED attempt

\* The handler raises: handle the event again, or dead-letter it.
Retry(h) ==
  /\ made' = [made EXCEPT ![h] = Nothing]
  /\ IF attempt[h] < MaxRetries
       THEN attempt' = [attempt EXCEPT ![h] = @ + 1] /\ Goto(h, "insert")
       ELSE Goto(h, "dlt") /\ UNCHANGED attempt

\* process_event goes on with its analysis r, past the cache without a summary.
Continue(h, r) ==
  /\ made' = [made EXCEPT ![h] = r]
  /\ Goto(h, IF Analysis!Truthy(r.summary) THEN "cache" ELSE "publish")

\* Variant for mutation: an existing row does not end the handler.
InsertResultNoSkip(h) ==
  /\ step[h] = "insert"
  /\ event[h] \in mentions
  /\ \E r \in Analyses(event[h]) :
       /\ results' = IF event[h] \in Analysed THEN results ELSE results \cup {[mention |-> event[h], result |-> r]}
       /\ Continue(h, r)
  /\ UNCHANGED <<inputVars, cached, announceVars, offsetVars, event, attempt, faults>>

\* INSERT ... ON CONFLICT DO NOTHING in a transaction of its own.  The foreign
\* key sees committed mentions only.  No new row means nothing is published.
InsertResult(h) ==
  /\ step[h] = "insert"
  /\ event[h] \in mentions
  /\ \/ /\ event[h] \in Analysed
        /\ Goto(h, "commit")
        /\ UNCHANGED <<results, made>>
     \/ /\ event[h] \notin Analysed
        /\ \E r \in Analyses(event[h]) :
             /\ results' = results \cup {[mention |-> event[h], result |-> r]}
             /\ Continue(h, r)
  /\ UNCHANGED <<inputVars, cached, announceVars, offsetVars, event, attempt, faults>>

\* Variant for mutation: the error of the insert is logged and passed over.
ForeignKeyIgnored(h) ==
  /\ step[h] = "insert"
  /\ event[h] \notin mentions
  /\ \E r \in Analyses(event[h]) : Continue(h, r)
  /\ UNCHANGED <<inputVars, results, cached, announceVars, offsetVars, event, attempt, faults>>

\* The mention is not there: not committed yet, rolled back, or deleted.
ForeignKeyFails(h) ==
  /\ step[h] = "insert"
  /\ event[h] \notin mentions
  /\ Retry(h)
  /\ UNCHANGED <<inputVars, results, cached, announceVars, offsetVars, event, faults>>

\* cache_summary: SET with an expiry.
CacheSummary(h) ==
  /\ step[h] = "cache"
  /\ cached' = {c \in cached : c.mention # event[h]} \cup {[mention |-> event[h], summary |-> made[h].summary]}
  /\ Goto(h, "publish")
  /\ UNCHANGED <<inputVars, results, announceVars, offsetVars, event, attempt, made, faults>>

\* Redis fails: "failed to cache summary" is logged, and the handler goes on.
CacheFails(h) ==
  /\ Disturbed
  /\ step[h] = "cache"
  /\ Goto(h, "publish")
  /\ UNCHANGED <<inputVars, results, cached, announceVars, offsetVars, event, attempt, made>>

PublishResult(h) ==
  /\ step[h] = "publish"
  /\ sentimentProcessed' = sentimentProcessed \cup {event[h]}
  /\ announcedTwice' = IF event[h] \in sentimentProcessed THEN announcedTwice \cup {event[h]} ELSE announcedTwice
  /\ made' = [made EXCEPT ![h] = Nothing]
  /\ Goto(h, "commit")
  /\ UNCHANGED <<inputVars, results, cached, offsetVars, event, attempt, faults>>

Leave(h) ==
  /\ Goto(h, "idle")
  /\ event' = [event EXCEPT ![h] = Nothing]
  /\ attempt' = [attempt EXCEPT ![h] = 0]
  /\ made' = [made EXCEPT ![h] = Nothing]

CommitOffset(h) ==
  /\ step[h] = "commit"
  /\ settled' = settled \cup {event[h]}
  /\ Leave(h)
  /\ UNCHANGED <<inputVars, results, cached, announceVars, deadLettered, faults>>

DeadLetter(h) ==
  /\ step[h] = "dlt"
  /\ deadLettered' = deadLettered \cup {event[h]}
  /\ settled' = settled \cup {event[h]}
  /\ Leave(h)
  /\ UNCHANGED <<inputVars, results, cached, announceVars, faults>>

\* The database, the publish or the commit of the offset fails.
Raise(h) ==
  /\ Disturbed
  /\ step[h] \in {"insert", "publish", "commit"}
  /\ Retry(h)
  /\ UNCHANGED <<inputVars, results, cached, announceVars, offsetVars, event>>

\* The process is gone; the event will be delivered again.
Crash(h) ==
  /\ Disturbed
  /\ step[h] # "idle"
  /\ Leave(h)
  /\ UNCHANGED <<inputVars, results, cached, announceVars, offsetVars>>

\* summary_cache_ttl seconds pass.
CacheExpires ==
  /\ \E c \in cached : cached' = cached \ {c}
  /\ UNCHANGED <<inputVars, results, announceVars, offsetVars, step, event, attempt, made, faults>>

\* ON DELETE CASCADE from mentions, in the transaction that deletes them.  The
\* summaries in Redis stay.
Cascade ==
  /\ results' = {r \in results : r.mention \in mentions'}
  /\ UNCHANGED <<cached, announceVars, offsetVars, step, event, attempt, made>>

HandlerStep(h) ==
  \/ \E e \in mentionCreated : Deliver(h, e)
  \/ InsertResult(h)
  \/ ForeignKeyFails(h)
  \/ CacheSummary(h)
  \/ PublishResult(h)
  \/ CommitOffset(h)
  \/ DeadLetter(h)

-----------------------------------------------------------------------------
\* GET /nlp/summary/{id}: the cached summary first, then the row; a mention that is
\* not analysed yet has no summary, one that does not exist is not found.
GetSummary(m) ==
  IF \E c \in cached : c.mention = m
  THEN (CHOOSE c \in cached : c.mention = m).summary
  ELSE IF m \in Analysed
       THEN (CHOOSE r \in results : r.mention = m).result.summary
       ELSE IF m \in mentions THEN Nothing ELSE "not found"
=============================================================================

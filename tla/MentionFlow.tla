----------------------------- MODULE MentionFlow -----------------------------
(***************************************************************************)
(* From a scrape to a sentiment: mention-service and nlp-service on the    *)
(* tables `keywords`, `mentions` and `sentiment_results` and the topics    *)
(* mention-created and sentiment-processed.  Their steps interleave; the   *)
(* deletion of a keyword is one transaction that touches the state of both.*)
(***************************************************************************)
EXTENDS Integers, ScrapePipeline

CONSTANTS
  Handlers, MaxRetries,                              \* of the consumer
  Texts, Summaries, Settings, Stopwords, Ignored     \* of the analysis

ASSUME FlowAssumption ==
  /\ DOMAIN Texts = Urls /\ Free \in Summaries
  /\ MaxRetries \in Nat \ {0}
  /\ Free \notin Handlers

VARIABLES
  results, cached, sentimentProcessed, announcedTwice, settled, deadLettered,
  step, event, attempt, made

Nlp == INSTANCE NlpProcessor WITH Nothing <- Free

ASSUME TextAssumption ==
  /\ \A u \in Urls : Nlp!Analysis!IsText(Texts[u])
  /\ \A gpt \in Summaries \ {Free} : Nlp!Analysis!IsList(gpt)
  /\ Settings.summary_min_chars \in Int

nlpVars == <<results, cached, sentimentProcessed, announcedTwice, settled, deadLettered, step, event, attempt, made>>
flowVars == <<vars, nlpVars>>

FlowTypeOK == TypeOK /\ Nlp!TypeOK

FlowInit == Init /\ Nlp!Init

ScrapeStep == WorkerNext /\ UNCHANGED nlpVars

HandlerStep(h) == Nlp!HandlerStep(h) /\ UNCHANGED ownVars

HandlerFails(h) == (Nlp!Raise(h) \/ Nlp!CacheFails(h) \/ Nlp!Crash(h)) /\ UNCHANGED ownVars

CacheExpires == Nlp!CacheExpires /\ UNCHANGED ownVars

DeleteKeywordRows(k) == DeleteKeyword(k) /\ Nlp!Cascade

FlowNext ==
  \/ ScrapeStep
  \/ \E h \in Handlers : HandlerStep(h) \/ HandlerFails(h)
  \/ CacheExpires
  \/ \E k \in Keywords : DeleteKeywordRows(k)

FlowSpec == FlowInit /\ [][FlowNext]_flowVars

\* A run that has begun ends and, while a process of nlp-service is up, so does
\* the handling of an event.
FlowFairSpec ==
  /\ FlowSpec
  /\ \A w \in Workers : WF_flowVars(RunStep(w) /\ UNCHANGED nlpVars)
  /\ \A h \in Handlers : WF_flowVars(HandlerStep(h))

-----------------------------------------------------------------------------
\* The rows of handlers that have inserted one and have not published it.
RowsInHand ==
  {[mention |-> event[h], result |-> made[h]] : h \in {g \in Handlers : step[g] \in {"cache", "publish"}}}

Feed == INSTANCE SentimentFeed WITH
  Analyses <- Nlp!Analyses, inHand <- RowsInHand,
  announced <- [m \in sentimentProcessed |-> IF m \in announcedTwice THEN 2 ELSE 1]

\* The two services implement SentimentFeed.  In particular a mention is announced
\* on sentiment-processed once at most, however often its event is delivered and
\* whichever handlers race for it: the handler that inserts the row is the one that
\* publishes ("ON CONFLICT DO NOTHING makes reprocessing idempotent"), with the
\* analysis of that row; and what a retry, a crash or a race leaves unannounced
\* stays so.
ImplementsSentimentFeed == Feed!Spec

\* What leaves nlp-service agrees with what it stored: a mention announced on
\* sentiment-processed has its row for the services that read it (analytics,
\* alerts), and GET /nlp/summary serves the summary of that row, from the cache or
\* not, although every handling of the event gets a summary of its own from the
\* language model; until the keyword is deleted and takes the row along.
CopiesFollowRow ==
  /\ \A m \in sentimentProcessed : m \in Nlp!Analysed \/ m.keyword \notin keywords
  /\ \A r \in results : Nlp!GetSummary(r.mention) = r.result.summary

\* Events of mentions that were rolled back or deleted do not hold up the
\* consumer: every event is handled or dead-lettered in the end.
EveryEventSettled == <>[](mentionCreated \subseteq settled)

\* "Consumes mention-created, analyzes, writes sentiment_results": a stored
\* mention whose event has been settled has its sentiment.
SettledMentionAnalysed == mentions \cap settled \subseteq Nlp!Analysed

\* "consumes mention-created, writes sentiment_results, publishes
\* sentiment-processed": a settled mention with a sentiment was announced.
SettledSentimentAnnounced == Nlp!Analysed \cap settled \subseteq sentimentProcessed
=============================================================================

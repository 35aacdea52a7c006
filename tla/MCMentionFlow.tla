---------------------------- MODULE MCMentionFlow ----------------------------
(***************************************************************************)
(* One run of the scrape at a time, up to two handlers of nlp-service, a   *)
(* mention of NewsAPI whose text is long enough for a summary.             *)
(***************************************************************************)
EXTENDS MentionFlow, Integers, Sequences

CONSTANTS w1, k1, u1, h1, h2

MCWorkers == {w1}
MCKeywords == {k1}
MCUrls == {u1}
OneHandler == {h1}
TwoHandlers == {h1, h2}

Web == INSTANCE Sources WITH
  Settings <- [reddit_client_id |-> TRUE, reddit_client_secret |-> FALSE,
               newsapi_key |-> TRUE, rss_feeds |-> {}],
  Posts    <- [k \in MCKeywords |-> <<>>],
  Articles <- [k \in MCKeywords |-> <<Free, u1>>],
  Entries  <- [f \in {} |-> <<>>],
  Limit    <- [reddit |-> 10, news |-> 10, rss |-> 20],
  NoLink   <- Free

MCFound == [k \in MCKeywords |-> Web!Whole(k)]
MCPartial == [k \in MCKeywords |-> Web!Outcomes(k) \ {Web!Whole(k)}]

MCSettings == [use_transformers |-> FALSE, use_spacy |-> FALSE, openai_api_key |-> TRUE,
               summary_min_chars |-> 500]
MCStopwords == {"the"}
MCIgnored == {"The"}
MCTexts == [u \in MCUrls |->
  [chars |-> 500,
   vader |-> [compound |-> 500, pos |-> 1000, neg |-> 0, neu |-> 9000],
   scores |-> [pos |-> 0, neg |-> 0, neu |-> 10000],
   words |-> <<"the", "acme">>,
   phrases |-> <<"Acme">>,
   ents |-> <<>>,
   sentences |-> <<"s1", "s2", "s3">>]]
MCSummaries == {<<"g1">>, Free}

-----------------------------------------------------------------------------
\* The analysis on small texts of all shapes, with both sets of models.
Light == INSTANCE NlpAnalysis WITH
  Settings <- MCSettings, Stopwords <- MCStopwords, Ignored <- MCIgnored, None <- Free
Heavy == INSTANCE NlpAnalysis WITH
  Settings <- [use_transformers |-> TRUE, use_spacy |-> TRUE, openai_api_key |-> FALSE, summary_min_chars |-> 500],
  Stopwords <- MCStopwords, Ignored <- MCIgnored, None <- Free

Scores == {s \in [pos : {0, 4000, 5000, 10000}, neg : {0, 5000}, neu : {0, 5000, 6000}] : s.pos + s.neg + s.neu = 10000}
Words == {"the", "acme", "launch"}
SampleTexts ==
  [chars : {499, 500}, vader : {[compound |-> c, pos |-> 0, neg |-> 0, neu |-> 10000] : c \in {-500, -499, 499, 500}},
   scores : Scores, words : UNION {[1..n -> Words] : n \in 0..4}, phrases : {<<>>, <<"The", "Acme", "Bo", "Acme">>},
   ents : {<<>>, <<[text |-> "Bo", label |-> "DATE"], [text |-> "Acme", label |-> "ORG"], [text |-> "Acme", label |-> "ORG"]>>},
   sentences : {<<>>, <<"s1">>, <<"s1", "s2", "s3">>}]

\* A text with more of everything than analyze_text lists.
Letters == <<"a", "b", "c", "d", "e", "f", "g", "h", "i", "j", "k", "l", "m">>
LongText ==
  [chars |-> 500, vader |-> [compound |-> 0, pos |-> 0, neg |-> 0, neu |-> 10000],
   scores |-> [pos |-> 0, neg |-> 0, neu |-> 10000],
   words |-> SubSeq(Letters, 1, 7) \o <<"g">>, phrases |-> SubSeq(Letters, 1, 9),
   ents |-> [i \in 1..13 |-> [text |-> Letters[i], label |-> "GPE"]],
   sentences |-> <<"s1", "s2", "s3">>]

\* analyze_text gives what its readers count on: the most frequent words, the first
\* entities, nothing twice, a label and a confidence that agree, and key points
\* exactly with a summary that says something.
ASSUME AnalysisWellFormed ==
  \A t \in SampleTexts \cup {LongText} : Light!IsText(t) /\ \A gpt \in MCSummaries \cup {<<>>} :
    Light!AnalysisFits(t, Light!AnalyzeText(t, gpt)) /\ Heavy!AnalysisFits(t, Heavy!AnalyzeText(t, gpt))
=============================================================================

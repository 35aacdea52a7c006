----------------------------- MODULE NlpAnalysis -----------------------------
(***************************************************************************)
(* app/analysis.py of nlp-service: what analyze_text makes of a text.  A   *)
(* text is a record of what the lexicon, the models and the regular        *)
(* expressions find in it, in the order in which they find it; scores are  *)
(* in ten-thousandths.  Only the summary of the language model is not a    *)
(* function of the text: each call may give another, or none.              *)
(***************************************************************************)
EXTENDS SequencesExt, Ordering

CONSTANTS
  Settings,   \* [use_transformers, use_spacy, openai_api_key : BOOLEAN, summary_min_chars : Nat]
  Stopwords,  \* words that _keywords passes over
  Ignored,    \* capitalized phrases that are stop words or shorter than three letters
  None

\* A text: [chars : length, vader : [compound, pos, neg, neu], scores : [pos, neg, neu],
\*          words, phrases, sentences : sequences, ents : sequence of [text, label]].

First(s, n) == SubSeq(s, 1, Min({n, Len(s)}))

At(s, x) == {i \in DOMAIN s : s[i] = x}

FirstAt(s, x) == Min(At(s, x))

\* y is heavier than x or, of the same weight, met first in s.
Before(s, weight, y, x) ==
  weight[y] > weight[x] \/ (weight[y] = weight[x] /\ FirstAt(s, y) < FirstAt(s, x))

\* The elements of S, a subset of those of s, once each and in that order.
Ranked(S, s, weight) == InOrder(S, [x \in S |-> {y \in S : Before(s, weight, y, x)}])

FirstSeen(S, s) == Ranked(S, s, [x \in S |-> 0])

-----------------------------------------------------------------------------
Confidence(scores) == Max({scores.pos, scores.neg, scores.neu})

\* _sentiment_vader: the compound score decides; the confidence is of the shares.
SentimentVader(t) ==
  [sentiment  |-> CASE t.vader.compound >= 500    -> "positive"
                    [] t.vader.compound <= 0 - 500 -> "negative"
                    [] OTHER                       -> "neutral",
   confidence |-> Confidence(t.vader),
   model      |-> "vader-3.3"]

\* _sentiment_transformer: the first of positive, negative, neutral with the best score.
SentimentTransformer(t) ==
  [sentiment  |-> CASE t.scores.pos = Confidence(t.scores) -> "positive"
                    [] t.scores.neg = Confidence(t.scores) -> "negative"
                    [] OTHER                               -> "neutral",
   confidence |-> Confidence(t.scores),
   model      |-> "hf"]

Sentiment(t) == IF Settings.use_transformers THEN SentimentTransformer(t) ELSE SentimentVader(t)

\* _keywords: Counter.most_common keeps the order of first sight among equals.
KeywordsOf(t) ==
  LET words == ToSet(t.words) \ Stopwords
  IN First(Ranked(words, t.words, [w \in words |-> Cardinality(At(t.words, w))]), 5)

\* _entities_regex, _entities_spacy
Entities(t) ==
  LET wanted == {e \in ToSet(t.ents) : e.label \in {"ORG", "PERSON", "GPE", "PRODUCT"}}
  IN IF Settings.use_spacy
     THEN First(FirstSeen(wanted, t.ents), 12)
     ELSE First(FirstSeen(ToSet(t.phrases) \ Ignored, t.phrases), 8)

\* summarize: a sequence of sentences, or None.  gpt is what the language model
\* answers, None when the request fails.
Summarize(t, gpt) ==
  CASE t.chars < Settings.summary_min_chars    -> None
    [] t.chars >= Settings.summary_min_chars /\ Settings.openai_api_key /\ gpt # None -> gpt
    [] OTHER -> IF t.sentences = <<>> THEN None ELSE First(t.sentences, 2)

\* `if summary`: neither None nor empty.
Truthy(summary) == summary \notin {None, <<>>}

\* analyze_text(..., with_summary=True)
AnalyzeText(t, gpt) ==
  LET summary == Summarize(t, gpt)
  IN [sentiment  |-> Sentiment(t),
      keywords   |-> KeywordsOf(t),
      entities   |-> Entities(t),
      summary    |-> summary,
      key_points |-> IF Truthy(summary) THEN First(summary, 3) ELSE <<>>]

-----------------------------------------------------------------------------
\* Texts as the lexicon, the models and the regular expressions may describe them.
IsList(s) == s \in Seq(ToSet(s))

IsShares(shares) == shares.pos \in Int /\ shares.neg \in Int /\ shares.neu \in Int

IsText(t) ==
  /\ IsList(t.words) /\ IsList(t.phrases) /\ IsList(t.ents) /\ IsList(t.sentences)
  /\ IsShares(t.vader) /\ IsShares(t.scores) /\ t.chars \in Nat

\* list is the beginning of S in the order of Before: no longer than limit, nothing
\* twice, and what comes before a listed element is listed before it.
ListsFirst(list, S, s, weight, limit) ==
  /\ IsList(list) /\ ToSet(list) \subseteq S
  /\ Len(list) = IF limit <= Cardinality(S) THEN limit ELSE Cardinality(S)
  /\ \A i, j \in DOMAIN list : list[i] = list[j] => i = j
  /\ \A i \in DOMAIN list : \A x \in S : Before(s, weight, x, list[i]) => \E j \in 1..(i - 1) : list[j] = x

\* The keywords of a row are the five most frequent words that are no stop words,
\* however many share a frequency.
KeywordsFit(t, r) ==
  LET words == ToSet(t.words) \ Stopwords
  IN ListsFirst(r.keywords, words, t.words, [w \in words |-> Cardinality(At(t.words, w))], 5)

\* The entities are the first ones of the text that are wanted, within the limit of
\* the model that found them.
EntitiesFit(t, r) ==
  IF Settings.use_spacy
  THEN \E wanted \in SUBSET ToSet(t.ents) :
         /\ \A e \in ToSet(t.ents) : e \in wanted <=> e.label \in {"ORG", "PERSON", "GPE", "PRODUCT"}
         /\ ListsFirst(r.entities, wanted, t.ents, [e \in wanted |-> 0], 12)
  ELSE \E wanted \in SUBSET ToSet(t.phrases) :
         /\ \A p \in ToSet(t.phrases) : p \in wanted <=> p \notin Ignored
         /\ ListsFirst(r.entities, wanted, t.phrases, [p \in wanted |-> 0], 8)

\* The confidence is the largest share; the transformer's label is one that has it.
SentimentFits(t, r) ==
  LET shares == IF Settings.use_transformers THEN t.scores ELSE t.vader
      top == r.sentiment.confidence
  IN /\ top \in {shares.pos, shares.neg, shares.neu}
     /\ shares.pos <= top /\ shares.neg <= top /\ shares.neu <= top
     /\ Settings.use_transformers =>
          \/ r.sentiment.sentiment = "positive" /\ shares.pos = top
          \/ r.sentiment.sentiment = "negative" /\ shares.neg = top
          \/ r.sentiment.sentiment = "neutral" /\ shares.neu = top

\* One to three key points come with a summary that says something, and none without.
KeyPointsFit(t, r) ==
  /\ Len(r.key_points) \in IF Truthy(r.summary) THEN 1..3 ELSE {0}
  /\ t.chars < Settings.summary_min_chars => r.summary = None

AnalysisFits(t, r) == KeywordsFit(t, r) /\ EntitiesFit(t, r) /\ SentimentFits(t, r) /\ KeyPointsFit(t, r)
=============================================================================

------------------------------ MODULE Analytics ------------------------------
(***************************************************************************)
(* analytics-service: the computations of app/analytics.py over a frame,   *)
(* the answers of the REST endpoints, and those of the gRPC server.        *)
(*                                                                         *)
(* A frame is a set of rows [id, keyword, source, hour, sentiment].        *)
(* Keywords and sources are numbers in alphabetical order, times are whole *)
(* hours since a Monday at midnight.  Fractions are rounded to integers as *)
(* the code rounds them (ties to even): percentages and scores in          *)
(* ten-thousandths, averages in hundredths.                                *)
(***************************************************************************)
EXTENDS Integers, SequencesExt, Ordering

CONSTANTS
  Lower(_),        \* str.lower on keywords and brands
  SpikeThreshold,  \* z-score, in whole standard deviations
  Unanalysed       \* the sentiment of a mention without a sentiment_results row

Sentiment == {"positive", "negative", "neutral"}

RoundDiv(a, b) ==
  LET q == a \div b
      r == 2 * (a % b)
  IN IF r < b \/ (r = b /\ q % 2 = 0) THEN q ELSE q + 1

Having(F, s) == Cardinality({r \in F : r.sentiment = s})

OfKeyword(F, k) == {r \in F : r.keyword = k}

\* Every caller gives both ends of the range.
Overview(F, from, to) ==
  LET total == Cardinality(F)
      Percent(s) == IF total = 0 THEN 0 ELSE RoundDiv(10000 * Having(F, s), total)
  IN [total_mentions |-> total,
      positive_pct   |-> Percent("positive"),
      negative_pct   |-> Percent("negative"),
      avg_per_day    |-> RoundDiv(100 * total, Max({(to - from) \div 24, 1}))]

Bucket(granularity, hour) ==
  hour \div (CASE granularity = "hour" -> 1 [] granularity = "week" -> 168 [] OTHER -> 24)

\* The counts of one bucket.
Tally(sub) == [count |-> Cardinality(sub), positive |-> Having(sub, "positive"),
               negative |-> Having(sub, "negative"), neutral |-> Having(sub, "neutral")]

\* Variant for mutation: rows without a sentiment are dropped before the count.
TrendsAnalysed(F, granularity) ==
  [b \in {Bucket(granularity, r.hour) : r \in {x \in F : x.sentiment # Unanalysed}} |->
    Tally({r \in F : Bucket(granularity, r.hour) = b /\ r.sentiment # Unanalysed})]

\* Buckets without a row are left out.
Trends(F, granularity) ==
  [b \in {Bucket(granularity, r.hour) : r \in F} |->
    Tally({r \in F : Bucket(granularity, r.hour) = b})]

SentimentBreakdown(F) ==
  [timeline |-> Trends(F, "day"), positive |-> Having(F, "positive"),
   negative |-> Having(F, "negative"), neutral |-> Having(F, "neutral")]

\* Series.mode().iloc[0]: the alphabetically first of the most frequent values.
Dominant(F) ==
  LET most == {s \in Sentiment : Having(F, s) > 0 /\ \A t \in Sentiment : Having(F, t) <= Having(F, s)}
  IN CASE most = {} -> "neutral"
       [] "negative" \in most -> "negative"
       [] "neutral" \in most -> "neutral"
       [] OTHER -> "positive"

\* groupby(column) in alphabetical order, then a stable sort by falling count.
Ranking(F, column) ==
  LET Group(n) == LET sub == {r \in F : r[column] = n}
                  IN [name |-> n, count |-> Cardinality(sub), sentiment |-> Dominant(sub)]
      groups == {Group(r[column]) : r \in F}
  IN InOrder(groups, LargestFirst(groups))

TopKeywords(F, limit) ==
  LET all == Ranking(F, "keyword") IN SubSeq(all, 1, Min({limit, Len(all)}))

Sources(F) == Ranking(F, "source")

Hourly(F) == [h \in {r.hour : r \in F} |-> Cardinality({r \in F : r.hour = h})]

\* z >= threshold for the population deviation, multiplied out: with n hours, z
\* is above / sqrt(variance) where both are n times (n * n times) themselves.
IsSpike(counts, h) ==
  LET n == Cardinality(DOMAIN counts)
      sum == SumFunction(counts)
      squares == SumFunction([i \in DOMAIN counts |-> counts[i] * counts[i]])
      above == n * counts[h] - sum
      variance == n * squares - sum * sum
  IN /\ n >= 3
     /\ variance # 0
     /\ above >= 0
     /\ above * above >= SpikeThreshold * SpikeThreshold * variance

DetectSpikes(F) ==
  UNION {LET counts == Hourly(OfKeyword(F, k))
         IN {[keyword |-> k, time |-> h, count |-> counts[h]] : h \in {i \in DOMAIN counts : IsSpike(counts, i)}}
         : k \in {r.keyword : r \in F}}

\* round(0.6 * mentions / most + 0.4 * (sentiment + 1) / 2, 4)
Score(mentions, most, sentiment) == RoundDiv(30000 * mentions + most * (sentiment + 10000), 5 * most)

Competitors(F, brands) ==
  LET Sub(i) == {r \in F : Lower(r.keyword) = Lower(brands[i])}
      Count(i) == Cardinality(Sub(i))
      Feeling(i) == IF Count(i) = 0 THEN 0
                    ELSE RoundDiv(10000 * (Having(Sub(i), "positive") - Having(Sub(i), "negative")), Count(i))
      most == Max({Count(i) : i \in DOMAIN brands} \cup {1})
      rows == {[place |-> i, brand |-> brands[i], mentions |-> Count(i), sentiment_score |-> Feeling(i),
                score |-> Score(Count(i), most, Feeling(i))] : i \in DOMAIN brands}
  IN InOrder(rows, [x \in rows |-> {y \in rows : y.score > x.score \/ (y.score = x.score /\ y.place < x.place)}])

-----------------------------------------------------------------------------
\* The rows a request's `keyword` leaves, if it has one.
Filtered(F, q) == IF "keyword" \in DOMAIN q THEN OfKeyword(F, q.keyword) ELSE F

InRange(F, from, to) == {r \in F : from <= r.hour /\ r.hour <= to}

\* What an endpoint of routers/analytics.py computes for a request.
Answer(q, rows) ==
  LET F == InRange(rows, q.from, q.to) IN
  CASE q.endpoint = "overview"     -> Overview(F, q.from, q.to)
    [] q.endpoint = "trends"       -> Trends(Filtered(F, q), q.granularity)
    [] q.endpoint = "sentiment"    -> SentimentBreakdown(Filtered(F, q))
    [] q.endpoint = "keywords_top" -> TopKeywords(F, q.limit)
    [] q.endpoint = "spikes"       -> DetectSpikes(F)
    [] q.endpoint = "competitors"  -> Competitors(F, q.brands)
    [] q.endpoint = "sources"      -> Sources(F)

\* gRPC: the summary is for reports; the metrics are those of the last seven days.
GetAnalyticsSummary(rows, from, to) ==
  LET ov == Overview(InRange(rows, from, to), from, to)
  IN [total_mentions |-> ov.total_mentions, positive_pct |-> ov.positive_pct, negative_pct |-> ov.negative_pct,
      avg_per_day |-> ov.avg_per_day, spike_detected |-> DetectSpikes(InRange(rows, from, to)) # {}]

GetTrends(rows, from, now, granularity) == Trends(InRange(rows, from, now), granularity)

GetCurrentMetrics(rows, now) ==
  LET F == InRange(rows, now - 168, now)
      ov == Overview(F, now - 168, now)
  IN [total_mentions |-> ov.total_mentions, positive_pct |-> ov.positive_pct, negative_pct |-> ov.negative_pct,
      spike_count |-> Cardinality(DetectSpikes(F))]
=============================================================================

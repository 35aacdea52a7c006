---------------------------- MODULE ReportContent ----------------------------
(* report-service: what generate_report writes into a file, from the rows of   *)
(* the organization (as in Analytics), the filters and the type of the report. *)
EXTENDS Analytics

CONSTANTS
  Rows,        \* the organization's mentions with their sentiments
  Now,         \* the hour of the generation
  Unavailable, \* no live summary
  TopSize,     \* how many keywords a PDF lists: 5 in the code
  Undrawable   \* keywords with a character that the PDF's core font lacks

\* _load_df: each filter is optional.
LoadDf(filters) ==
  {r \in Rows : /\ "from_date" \in DOMAIN filters => filters.from_date <= r.hour
                /\ "to_date" \in DOMAIN filters => r.hour <= filters.to_date
                /\ "keywords" \in DOMAIN filters => r.keyword \in filters.keywords}

\* with_retry: the first answer that is not UNAVAILABLE, or the last one.
Answers == [1..3 -> {"OK", "UNAVAILABLE", "DEADLINE_EXCEEDED"}]
WithRetry(answers) ==
  answers[Min({i \in DOMAIN answers : answers[i] # "UNAVAILABLE"} \cup {Len(answers)})]

\* grpc_client.get_analytics_summary: best effort, and the last 30 days whatever
\* the filters are.
Outcomes == {WithRetry(answers) = "OK" : answers \in Answers}
LiveSummary(ok) == IF ok THEN GetAnalyticsSummary(Rows, Now - 720, Now) ELSE Unavailable

BuildCsv(F) == [type |-> "csv", rows |-> F]

\* Variant for mutation: the last day is cut off.
TrendPngShort(F) ==
  LET days == {r.hour \div 24 : r \in F}
  IN IF F = {} THEN <<>> ELSE [d \in Min(days)..(Max(days) - 1) |-> Cardinality({r \in F : r.hour \div 24 = d})]

\* resample("1D"): every day from the first to the last, the empty ones too.
TrendPng(F) ==
  LET days == {r.hour \div 24 : r \in F}
  IN IF F = {} THEN <<>> ELSE [d \in Min(days)..Max(days) |-> Cardinality({r \in F : r.hour \div 24 = d})]

Frequency(F, k) == Cardinality(OfKeyword(F, k))

\* value_counts().head(5): the most frequent keywords, any of those that tie for
\* the last place; the order on the page is left out.
Heads(F) ==
  LET words == {r.keyword : r \in F} IN
  {top \in SUBSET words : /\ Cardinality(top) = Min({TopSize, Cardinality(words)})
                          /\ \A k \in top : \A j \in words \ top : Frequency(F, j) <= Frequency(F, k)}

\* pdf.cell raises on text outside Latin-1.
Drawable(top) == top \cap Undrawable = {}

BuildPdf(F, live, top) ==
  [type |-> "pdf", total |-> Cardinality(F), positive |-> Having(F, "positive"), negative |-> Having(F, "negative"),
   live |-> live, trend |-> TrendPng(F), top |-> [k \in top |-> Frequency(F, k)]]

\* What a run can put into a file: with a live summary or without, and with these
\* top keywords.  Two CSVs of one report are alike.
Plain == [live |-> FALSE, top |-> {}]
Drafts(type, filters) ==
  IF type = "csv" THEN {Plain}
  ELSE [live : Outcomes, top : {top \in Heads(LoadDf(filters)) : Drawable(top)}]

Build(type, filters, draft) ==
  IF type = "csv" THEN BuildCsv(LoadDf(filters))
  ELSE BuildPdf(LoadDf(filters), LiveSummary(draft.live), draft.top)
=============================================================================

------------------------------ MODULE MCReports ------------------------------
(* ReportLifecycle on a small instance: a PDF, a CSV with a malformed date, and *)
(* a PDF whose most frequent keyword the font cannot draw; two of the three are *)
(* created.                                                                    *)
EXTENDS ReportLifecycle

CONSTANTS a, b, c

MCRow(id, k, hour, s) == [id |-> id, keyword |-> k, source |-> 1, hour |-> hour, sentiment |-> s]
MCRows == {MCRow(1, 1, 0, "positive"), MCRow(2, 2, 9, "negative"), MCRow(3, 1, 76, "neutral"),
           MCRow(4, 1, 77, Unanalysed), MCRow(5, 3, 30, "positive"), MCRow(6, 3, 31, "neutral")}
MCType == (a :> "pdf") @@ (b :> "csv") @@ (c :> "pdf")
MCFilters == (a :> [keywords |-> {1, 2}]) @@ (b :> [from_date |-> 5, to_date |-> 76])
             @@ (c :> [from_date |-> 5, keywords |-> {2, 3}])
MCLower(k) == k
=============================================================================

-------------------------- MODULE MCScrapePipeline --------------------------
(***************************************************************************)
(* Two runs, two keywords that share a url: an entry of the one feed names *)
(* both keywords, and a search for the first finds it too.                 *)
(***************************************************************************)
EXTENDS ScrapePipeline

CONSTANTS w1, w2, k1, k2, u1, f1

MCWorkers == {w1, w2}
MCKeywords == {k1, k2}
MCUrls == {u1}

Web == INSTANCE Sources WITH
  Settings <- [reddit_client_id |-> TRUE, reddit_client_secret |-> TRUE,
               newsapi_key |-> FALSE, rss_feeds |-> {f1}],
  Posts    <- [k \in MCKeywords |-> IF k = k1 THEN <<u1>> ELSE <<>>],
  Articles <- [k \in MCKeywords |-> <<>>],
  Entries  <- [f \in {f1} |-> <<[link |-> u1, about |-> MCKeywords]>>],
  Limit    <- [reddit |-> 10, news |-> 10, rss |-> 20],
  NoLink   <- Free

MCFound == [k \in MCKeywords |-> Web!Whole(k)]
MCPartial == [k \in MCKeywords |-> Web!Outcomes(k) \ {Web!Whole(k)}]
=============================================================================

------------------------------ MODULE Listings ------------------------------
(***************************************************************************)
(* The two paged listings: GET /alerts/history of notification-service,    *)
(* by a cursor, and GET /mentions of mention-service, by a page number.    *)
(* Both order by one timestamp alone: triggered_at of an alert, which the  *)
(* evaluation takes from its clock row by row, and scraped_at of a mention, *)
(* NOW() of its transaction, which the mentions of one scrape share.  Both *)
(* are `at` here.  What a request may answer is a predicate on the table   *)
(* and the response.                                                       *)
(***************************************************************************)
EXTENDS Integers, FiniteSets

CONSTANT None  \* a query parameter or a cursor that is not there

\* ORDER BY at DESC LIMIT n: rows with the same time come in any order.
Newest(rows, n) ==
  {p \in SUBSET rows : /\ Cardinality(p) = IF Cardinality(rows) < n THEN Cardinality(rows) ELSE n
                       /\ \A a \in p, b \in rows \ p : a.at >= b.at}

\* The time of the last row of a page.
IsOldest(t, rows) == /\ \E a \in rows : a.at = t
                     /\ \A a \in rows : a.at >= t

-----------------------------------------------------------------------------
(* q: the caller's organization and the query parameters *)

AlertMatches(a, q) ==
  /\ a.org = q.org
  /\ q.from_date # None => a.at >= q.from_date
  /\ q.to_date # None => a.at <= q.to_date
  /\ q.cursor # None => a.at < q.cursor

\* alert_history reads one row more than it shows, to know whether there is more.
IsHistory(alerts, q, r) ==
  \E rows \in Newest({a \in alerts : AlertMatches(a, q)}, q.limit + 1) :
    /\ r.alerts \in Newest(rows, q.limit)
    /\ IF Cardinality(rows) > q.limit THEN IsOldest(r.next_cursor, r.alerts) ELSE r.next_cursor = None

MentionMatches(m, q) ==
  /\ m.org = q.org
  /\ q.keyword_id # None => m.keyword_id = q.keyword_id
  /\ q.source # None => m.source = q.source
  /\ q.from_date # None => m.published_at >= q.from_date

Selected(mentions, q) == {m \in mentions : MentionMatches(m, q)}

\* list_mentions counts and reads in two statements, of two states of the table.
IsMentionList(counted, mentions, q, r) ==
  /\ r.total = Cardinality(Selected(counted, q))
  /\ \E skipped \in Newest(Selected(mentions, q), (q.page - 1) * q.page_size) :
       r.mentions \in Newest(Selected(mentions, q) \ skipped, q.page_size)
=============================================================================

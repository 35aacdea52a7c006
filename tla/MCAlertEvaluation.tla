-------------------------- MODULE MCAlertEvaluation --------------------------
(***************************************************************************)
(* Three rules, one of them malformed and one that does not match.         *)
(***************************************************************************)
EXTENDS AlertEvaluation

CONSTANTS h1, h2, e1, r1, r2, r3

OneHandler == {h1}
TwoHandlers == {h1, h2}
MCEvents == {e1}
MCRules == {r1, r2, r3}
MCMalformed == {r2}
Match == [e \in Events |-> Rules \ {r3}]

-----------------------------------------------------------------------------
\* The listings on every table of three rows at two times, one row of another
\* organization, and of three mentions.
Listing == INSTANCE Listings WITH None <- Nothing

Tables == {[i \in 1..3 |-> [id |-> i, org |-> IF i = 3 THEN o ELSE "a", at |-> t[i]]] :
             o \in {"a", "b"}, t \in [1..3 -> 1..2]}
RowsOf(t) == {t[i] : i \in 1..3}
History(rows, q) == {r \in [alerts : SUBSET rows, next_cursor : {1, 2, Nothing}] : Listing!IsHistory(rows, q, r)}
Query(limit, cursor) ==
  [org |-> "a", from_date |-> Nothing, to_date |-> Nothing, cursor |-> cursor, limit |-> limit]

\* Reading on from page to page shows no alert twice, ends with the list's last alert,
\* and leaves out no alert but one with the time of a cursor; that one it may.
ASSUME HistoryRead ==
  /\ \A t \in Tables, n \in 1..3 : \A r \in History(RowsOf(t), Query(n, Nothing)) :
       LET mine == {a \in RowsOf(t) : a.org = "a"}
       IN  IF r.next_cursor = Nothing THEN r.alerts = mine
           ELSE \A s \in History(RowsOf(t), Query(n, r.next_cursor)) :
                  /\ s.alerts \cap r.alerts = {}
                  /\ s.next_cursor = Nothing =>
                       \A a \in mine \ (r.alerts \cup s.alerts) : a.at = r.next_cursor
  /\ \E t \in Tables : \E r \in History(RowsOf(t), Query(1, Nothing)) :
       /\ r.next_cursor # Nothing
       /\ \E a \in RowsOf(t) \ r.alerts : a.org = "a" /\ a.at = r.next_cursor

MentionPage(rows, n) ==
  LET q == [org |-> "a", keyword_id |-> Nothing, source |-> Nothing, from_date |-> Nothing,
            page |-> n, page_size |-> 1]
  IN {r.mentions : r \in {s \in [total : 0..3, mentions : SUBSET rows] : Listing!IsMentionList(rows, rows, q, s)}}

\* Pages of an unchanged table share no mention when all have times of their own, and
\* may when they do not.
ASSUME MentionsRead ==
  /\ \A f \in [1..3 -> 1..4] : (\A i, j \in 1..3 : f[i] = f[j] => i = j) =>
       LET rows == {[id |-> i, org |-> "a", at |-> f[i]] : i \in 1..3}
       IN  \A n, k \in 1..3 : n # k =>
             \A p \in MentionPage(rows, n), o \in MentionPage(rows, k) : p # {} /\ p \cap o = {}
  /\ LET tied == {[id |-> i, org |-> "a", at |-> 1] : i \in 1..2}
     IN  \E p \in MentionPage(tied, 1), o \in MentionPage(tied, 2) : p = o
=============================================================================

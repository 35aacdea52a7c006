---------------------------- MODULE SentimentFeed ----------------------------
(***************************************************************************)
(* What mention-service and nlp-service promise together to whoever reads  *)
(* their tables and sentiment-processed, with no scrapes, locks, claims,   *)
(* handlers or retries in sight: mentions are stored for keywords that     *)
(* exist, each url once; a mention is analysed once; the row of its        *)
(* analysis is in hand until it is announced, which happens once, or lost, *)
(* after which it is never announced.  A deleted keyword takes its         *)
(* mentions and rows along, not what is in hand.                           *)
(***************************************************************************)
EXTENDS Naturals

CONSTANTS
  Keywords,
  Analyses(_)   \* Analyses(m): the analyses a mention may be given

VARIABLES
  keywords,     \* the keywords that exist
  mentions,     \* the stored mentions
  results,      \* the rows [mention, result]
  inHand,       \* the rows inserted and not announced yet
  announced     \* announced[m]: how often mention m was announced

vars == <<keywords, mentions, results, inHand, announced>>

Init ==
  /\ keywords = Keywords
  /\ mentions = {} /\ results = {} /\ inHand = {}
  /\ announced = [m \in {} |-> 0]

\* Mentions no one has heard of become visible together.
Store ==
  /\ mentions \subseteq mentions'
  /\ \A m \in mentions' \ mentions : m.keyword \in keywords /\ m \notin DOMAIN announced
  /\ \A m, n \in mentions' : m.url = n.url => m = n
  /\ UNCHANGED <<keywords, results, inHand, announced>>

Analyse(row) ==
  /\ row.mention \in mentions /\ row.result \in Analyses(row.mention)
  /\ \A r \in results : r.mention # row.mention
  /\ results' = results \cup {row}
  /\ inHand' = inHand \cup {row}
  /\ UNCHANGED <<keywords, mentions, announced>>

Announce(row) ==
  /\ row.mention \notin DOMAIN announced
  /\ announced' = [m \in DOMAIN announced \cup {row.mention} |-> IF m = row.mention THEN 1 ELSE announced[m]]
  /\ inHand' = inHand \ {row}
  /\ UNCHANGED <<keywords, mentions, results>>

Lose(row) ==
  /\ inHand' = inHand \ {row}
  /\ UNCHANGED <<keywords, mentions, results, announced>>

Delete(k) ==
  /\ keywords' = keywords \ {k}
  /\ mentions' = {m \in mentions : m.keyword # k}
  /\ results' = {r \in results : r.mention \in mentions'}
  /\ UNCHANGED <<inHand, announced>>

Next ==
  \/ Store
  \/ \E row \in results' : Analyse(row)
  \/ \E row \in inHand : Announce(row) \/ Lose(row)
  \/ \E k \in keywords : Delete(k)

Spec == Init /\ [][Next]_vars
=============================================================================

--------------------------- MODULE OrderedDelivery ---------------------------
(***************************************************************************)
(* What kafka/echoscope_kafka/consumer.py promises its subclasses, with    *)
(* no group, no retries and no faults in sight: the messages of a          *)
(* partition are settled (handled, or dead-lettered) from the oldest to    *)
(* the newest with none left out, and the committed offset only grows and  *)
(* never passes a message that is not settled.                             *)
(***************************************************************************)
EXTENDS Naturals

CONSTANTS
  Partitions,   \* the partitions of the topic
  LogLen        \* the messages of every partition are 1 .. LogLen

VARIABLES
  settled,      \* the messages <<p, i>> handled or dead-lettered
  committed     \* committed[p]: messages 1 .. committed[p] are not delivered again

vars == <<settled, committed>>

SettledUpTo(p, n) == \A j \in 1..n : <<p, j>> \in settled

Init ==
  /\ settled = {}
  /\ committed = [p \in Partitions |-> 0]

\* A message is settled when every older message of its partition is.
Settle(p, i) ==
  /\ SettledUpTo(p, i - 1)
  /\ settled' = settled \cup {<<p, i>>}
  /\ UNCHANGED committed

\* One commit may move several partitions forward.
Commit ==
  /\ committed' \in [Partitions -> 0..LogLen]
  /\ \A p \in Partitions : /\ committed[p] <= committed'[p]
                           /\ SettledUpTo(p, committed'[p])
  /\ UNCHANGED settled

Next ==
  \/ \E p \in Partitions, i \in 1..LogLen : Settle(p, i)
  \/ Commit

Spec == Init /\ [][Next]_vars
=============================================================================

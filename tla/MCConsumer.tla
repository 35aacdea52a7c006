----------------------------- MODULE MCConsumer -----------------------------
(***************************************************************************)
(* Two processes and two partitions for Consumer.                          *)
(***************************************************************************)
EXTENDS Consumer

CONSTANTS m1, m2, p1, p2

OneMember == {m1}
MCMembers == {m1, m2}
MCPartitions == {p1, p2}
MCPoison == {<<p1, 1>>}
AllFaults == {"handler", "commit", "dlt", "rebalance", "stop", "crash"}
DeadLetterFaults == {"dlt"}
=============================================================================

------------------------------- MODULE Ordering -------------------------------
(* Sorting a finite set: what sort and groupby of the Python code do to it.    *)
(* SortSeq of TLC would do for model checking, but its definition is not open  *)
(* to the proof system.                                                        *)
EXTENDS Integers, FiniteSets

\* The elements of S by position: ahead[x] are those that come before x.
InOrder(S, ahead) == [i \in 1..Cardinality(S) |-> CHOOSE x \in S : Cardinality(ahead[x]) = i - 1]

\* Groups, each with a name and a count, by falling count and then by name.
LargestFirst(groups) ==
  [x \in groups |-> {y \in groups : y.count > x.count \/ (y.count = x.count /\ y.name < x.name)}]
=============================================================================

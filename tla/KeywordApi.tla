----------------------------- MODULE KeywordApi -----------------------------
(***************************************************************************)
(* create_keyword and delete_keyword of mention-service for one            *)
(* organization.  The quota and the duplicate check are queries of their   *)
(* own before the insert, and the table has no constraint behind them.     *)
(***************************************************************************)
EXTENDS Integers, FiniteSets

CONSTANTS
  Call,        \* handler executions
  Idle,        \* the record of a call that does not run
  Ids,         \* ids a keyword may get
  Texts,       \* keyword texts
  MaxKeywords  \* organization.max_keywords

VARIABLES
  create,   \* create[c]: Idle, or [pc, text]
  rows,     \* the organization's keywords: [id, text]
  raced     \* an insert came between the checks and the insert of another creation

At(c, pcs) == create[c] # Idle /\ create[c].pc \in pcs
Pending == {c \in Call : At(c, {"exists", "insert"})}
Tracked(t) == {k \in rows : k.text = t}

Creations == [pc : {"count", "exists", "insert", "remove", "ok", "refused"}, text : Texts]

TypeOK ==
  /\ create \in [Call -> {Idle} \cup Creations]
  /\ rows \subseteq [id : Ids, text : Texts]
  /\ \A k, l \in rows : k.id = l.id => k = l
  /\ raced \in BOOLEAN

Init ==
  /\ create = [c \in Call |-> Idle]
  /\ rows = {}
  /\ raced = FALSE

Goto(c, pc) == create' = [create EXCEPT ![c] = [pc |-> pc, text |-> create[c].text]]

Arrive(c, op, t) ==
  /\ create[c] = Idle
  /\ create' = [create EXCEPT ![c] = [pc |-> IF op = "create" THEN "count" ELSE "remove", text |-> t]]
  /\ UNCHANGED <<rows, raced>>

\* Variant for mutation: the quota is compared with >.
CountKeywordsOffByOne(c) ==
  /\ At(c, {"count"})
  /\ Goto(c, IF Cardinality(rows) > MaxKeywords THEN "refused" ELSE "exists")
  /\ UNCHANGED <<rows, raced>>

\* The organization's keywords against its plan.
CountKeywords(c) ==
  /\ At(c, {"count"})
  /\ Goto(c, IF Cardinality(rows) >= MaxKeywords THEN "refused" ELSE "exists")
  /\ UNCHANGED <<rows, raced>>

\* "avoid duplicate keyword text within the same org"
CheckExists(c) ==
  /\ At(c, {"exists"})
  /\ Goto(c, IF Tracked(create[c].text) # {} THEN "refused" ELSE "insert")
  /\ UNCHANGED <<rows, raced>>

Insert(c) ==
  LET fresh == Ids \ {k.id : k \in rows}
  IN
  /\ At(c, {"insert"}) /\ fresh # {}
  /\ rows' = rows \cup {[id |-> CHOOSE i \in fresh : TRUE, text |-> create[c].text]}
  /\ raced' = (raced \/ Pending # {c})
  /\ Goto(c, "ok")

\* delete_keyword, by the id of a keyword that may be gone.
Remove(c) ==
  LET found == Tracked(create[c].text)
  IN
  /\ At(c, {"remove"})
  /\ \/ found = {} /\ rows' = rows /\ Goto(c, "refused")
     \/ \E k \in found : rows' = rows \ {k} /\ Goto(c, "ok")
  /\ UNCHANGED raced

Step(c) == CountKeywords(c) \/ CheckExists(c) \/ Insert(c) \/ Remove(c)

\* The process dies or the database raises.
Lose(c) ==
  /\ At(c, {"count", "exists", "insert", "remove"})
  /\ Goto(c, "refused")
  /\ UNCHANGED <<rows, raced>>

Forget(c) ==
  /\ create' = [create EXCEPT ![c] = Idle]
  /\ UNCHANGED <<rows, raced>>

-----------------------------------------------------------------------------
\* create_keyword enforces the plan's limit and keeps texts apart as long as no
\* two creations overlap; when they do, the limit is passed by no more than the
\* creations that can run beside another.
QuotaHeld ==
  /\ Cardinality(rows) <= MaxKeywords + Cardinality(Call) - 1
  /\ ~raced => /\ Cardinality(rows) <= MaxKeywords
               /\ \A k, l \in rows : k.text = l.text => k = l
=============================================================================

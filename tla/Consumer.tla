------------------------------ MODULE Consumer ------------------------------
(***************************************************************************)
(* BaseConsumer of kafka/echoscope_kafka/consumer.py: the loop under every *)
(* event-driven service.  A group of processes (Members) consumes one      *)
(* topic; each process runs run() as one asyncio task that handles one     *)
(* message at a time, commits by hand, retries, and dead-letters.          *)
(*                                                                         *)
(* Kafka is external and modelled by what the loop relies on: a group      *)
(* assigns each partition to one member, a rebalance starts a generation,  *)
(* a commit of an older generation is refused, a member that joins starts  *)
(* from the committed offsets, and messages behind the position of a       *)
(* member are not fetched again by it.                                     *)
(***************************************************************************)
EXTENDS Naturals

CONSTANTS
  Members,      \* processes of the group (group_id)
  Partitions,   \* partitions of the topic
  LogLen,       \* messages 1 .. LogLen wait in every partition
  Poison,       \* the messages whose handler always raises
  MaxRetries,   \* max_retries
  FaultKinds,   \* which disturbances the environment may cause
  MaxFaults,    \* bound: how many disturbances a behaviour has
  None

Message == Partitions \X (1..LogLen)

ASSUME ConsumerAssumption ==
  /\ LogLen \in Nat
  /\ MaxRetries \in Nat \ {0}
  /\ MaxFaults \in Nat
  /\ Poison \subseteq Message
  /\ None \notin Message

VARIABLES
  \* the broker's side of the group
  committed,    \* committed[p]: the committed offset, as a count of messages
  owner,        \* owner[p]: the member the current generation gives p to
  joined,       \* the members that have joined the current generation
  \* each process
  assigned,     \* assigned[m]: the partitions m believes it owns
  pos,          \* pos[m][p]: messages 1 .. pos[m][p] have been given to run()
  pc,           \* pc[m]: where the task stands
  cur,          \* cur[m]: the message _process works on
  attempt,      \* attempt[m]: the loop variable of _process
  stopping,     \* the members whose stop() has been called
  \* effects
  handled,      \* messages a handler has completed
  repeated,     \* messages a handler has completed more than once
  deadLettered, \* messages in the dead-letter topic
  faults        \* how many disturbances there have been

brokerVars == <<committed, owner, joined>>
memberVars == <<assigned, pos, pc, cur, attempt, stopping>>
effectVars == <<handled, repeated, deadLettered>>
vars == <<brokerVars, memberVars, effectVars, faults>>

\* "idle": in `async for`; "handle", "commit", "dlt", "dltCommit": at that
\* await of _process; "dead": an exception left run() and ended the task while
\* the process lives on; "down": the process is gone.
Busy == {"handle", "commit", "dlt", "dltCommit"}
PC == Busy \cup {"idle", "dead", "down"}

TypeOK ==
  /\ committed \in [Partitions -> 0..LogLen]
  /\ owner \in [Partitions -> Members]
  /\ joined \subseteq Members
  /\ assigned \in [Members -> SUBSET Partitions]
  /\ pos \in [Members -> [Partitions -> 0..LogLen]]
  /\ pc \in [Members -> PC]
  /\ cur \in [Members -> Message \cup {None}]
  /\ \A m \in Members : pc[m] \in Busy => cur[m] \in Message
  /\ attempt \in [Members -> 0..MaxRetries]
  /\ stopping \subseteq Members
  /\ handled \subseteq Message
  /\ repeated \subseteq Message
  /\ deadLettered \subseteq Message
  /\ faults \in 0..MaxFaults

Settled == handled \cup deadLettered
SettledUpTo(p, n) == \A j \in 1..n : <<p, j>> \in Settled

-----------------------------------------------------------------------------
\* start(): auto_offset_reset is "earliest", so a new group begins at offset 0.
\* Every process is up and in `async for`, none has joined the group yet.
Init ==
  /\ committed = [p \in Partitions |-> 0]
  /\ owner \in [Partitions -> Members]
  /\ joined = {}
  /\ assigned = [m \in Members |-> {}]
  /\ pos = [m \in Members |-> [p \in Partitions |-> 0]]
  /\ pc = [m \in Members |-> "idle"]
  /\ cur = [m \in Members |-> None]
  /\ attempt = [m \in Members |-> 0]
  /\ stopping = {}
  /\ handled = {}
  /\ repeated = {}
  /\ deadLettered = {}
  /\ faults = 0

Fault(kind) ==
  /\ kind \in FaultKinds
  /\ faults < MaxFaults
  /\ faults' = faults + 1

-----------------------------------------------------------------------------
\* The group: a rebalance gives every partition to a process that is in the
\* group and starts a generation that nobody has joined.
Rebalance ==
  /\ Fault("rebalance")
  /\ owner' \in [Partitions -> {m \in Members : pc[m] # "down" /\ m \notin stopping}]
  /\ joined' = {}
  /\ UNCHANGED <<committed, memberVars, effectVars>>

\* A member learns its partitions and takes its positions from the committed
\* offsets.  aiokafka does this in its own task, whatever run() is awaiting.
Join(m) ==
  /\ m \notin joined \cup stopping
  /\ pc[m] # "down"
  /\ joined' = joined \cup {m}
  /\ assigned' = [assigned EXCEPT ![m] = {p \in Partitions : owner[p] = m}]
  /\ pos' = [pos EXCEPT ![m] = [p \in Partitions |-> IF owner[p] = m THEN committed[p] ELSE 0]]
  /\ UNCHANGED <<committed, owner, pc, cur, attempt, stopping, effectVars, faults>>

-----------------------------------------------------------------------------
\* Variant for mutation: the offset is committed when a message is fetched, as
\* with enable_auto_commit=True.
FetchAutoCommit(m, p) ==
  /\ pc[m] = "idle"
  /\ m \in joined
  /\ p \in assigned[m]
  /\ pos[m][p] < LogLen
  /\ pos' = [pos EXCEPT ![m][p] = @ + 1]
  /\ committed' = [committed EXCEPT ![p] = pos[m][p] + 1]
  /\ cur' = [cur EXCEPT ![m] = <<p, pos[m][p] + 1>>]
  /\ attempt' = [attempt EXCEPT ![m] = 1]
  /\ pc' = [pc EXCEPT ![m] = "handle"]
  /\ UNCHANGED <<owner, joined, assigned, stopping, effectVars, faults>>

\* `async for msg in self._consumer`, then _process(msg): the position passes
\* the message before it is handled.  A message that is already buffered is
\* delivered even when a newer generation has given its partition away.
\* After stop() the loop breaks instead.
Fetch(m, p) ==
  /\ pc[m] = "idle"
  /\ m \notin stopping
  /\ p \in assigned[m]
  /\ pos[m][p] < LogLen
  /\ pos' = [pos EXCEPT ![m][p] = @ + 1]
  /\ cur' = [cur EXCEPT ![m] = <<p, pos[m][p] + 1>>]
  /\ attempt' = [attempt EXCEPT ![m] = 1]
  /\ pc' = [pc EXCEPT ![m] = "handle"]
  /\ UNCHANGED <<brokerVars, assigned, stopping, effectVars, faults>>

\* Variant for mutation: one attempt too many.
NextAttemptOffByOne(m) ==
  IF attempt[m] <= MaxRetries
    THEN /\ attempt' = [attempt EXCEPT ![m] = @ + 1]
         /\ pc' = [pc EXCEPT ![m] = "handle"]
    ELSE /\ pc' = [pc EXCEPT ![m] = "dlt"]
         /\ UNCHANGED attempt

\* Variant for mutation: the attempts are never exhausted.
NextAttemptForever(m) ==
  /\ pc' = [pc EXCEPT ![m] = "handle"]
  /\ UNCHANGED attempt

\* The except clause of _process: sleep and try again, or fall out of the loop.
NextAttempt(m) ==
  IF attempt[m] < MaxRetries
    THEN /\ attempt' = [attempt EXCEPT ![m] = @ + 1]
         /\ pc' = [pc EXCEPT ![m] = "handle"]
    ELSE /\ pc' = [pc EXCEPT ![m] = "dlt"]
         /\ UNCHANGED attempt

HandleOk(m) ==
  /\ pc[m] = "handle"
  /\ cur[m] \notin Poison
  /\ handled' = handled \cup {cur[m]}
  /\ repeated' = IF cur[m] \in handled THEN repeated \cup {cur[m]} ELSE repeated
  /\ pc' = [pc EXCEPT ![m] = "commit"]
  /\ UNCHANGED <<brokerVars, assigned, pos, cur, attempt, stopping, deadLettered, faults>>

\* A poison message raises at every attempt, and so may anything after stop(),
\* which also stops the producers that handlers use.
HandleFails(m) ==
  /\ pc[m] = "handle"
  /\ IF cur[m] \in Poison \/ m \in stopping THEN UNCHANGED faults ELSE Fault("handler")
  /\ NextAttempt(m)
  /\ UNCHANGED <<brokerVars, assigned, pos, cur, stopping, effectVars>>

\* _process is left, by its return or by an exception: its locals are gone.
LeaveProcess(m, next) ==
  /\ pc' = [pc EXCEPT ![m] = next]
  /\ cur' = [cur EXCEPT ![m] = None]
  /\ attempt' = [attempt EXCEPT ![m] = 0]

\* commit() names no offsets: it commits the position of EVERY partition the
\* member has, not of the message it has just handled.
CommitPositions(m) ==
  committed' = [p \in Partitions |-> IF p \in assigned[m] THEN pos[m][p] ELSE committed[p]]

\* The broker takes the commit of a member of the current generation alone.
CommitAccepted(m) == m \in joined

\* Variant for mutation: the `return` after the commit is missing.
CommitOkNoReturn(m) ==
  /\ pc[m] = "commit"
  /\ CommitAccepted(m)
  /\ CommitPositions(m)
  /\ NextAttempt(m)
  /\ UNCHANGED <<owner, joined, assigned, pos, cur, stopping, effectVars, faults>>

CommitOk(m) ==
  /\ pc[m] = "commit"
  /\ CommitAccepted(m)
  /\ CommitPositions(m)
  /\ LeaveProcess(m, "idle")
  /\ UNCHANGED <<owner, joined, assigned, pos, stopping, effectVars, faults>>

CommitRaises(m) ==
  IF CommitAccepted(m) THEN Fault("commit") ELSE UNCHANGED faults

\* commit() stands in the same try as handle(): when it raises, the message
\* that was handled is handled again.
CommitFails(m) ==
  /\ pc[m] = "commit"
  /\ CommitRaises(m)
  /\ NextAttempt(m)
  /\ UNCHANGED <<brokerVars, assigned, pos, cur, stopping, effectVars>>

DeadLetterOk(m) ==
  /\ pc[m] = "dlt"
  /\ deadLettered' = deadLettered \cup {cur[m]}
  /\ pc' = [pc EXCEPT ![m] = "dltCommit"]
  /\ UNCHANGED <<brokerVars, assigned, pos, cur, attempt, stopping, handled, repeated, faults>>

\* Variant for mutation: a failed dead-letter publish is logged and passed over.
DeadLetterErrorSwallowed(m) ==
  /\ pc[m] = "dlt"
  /\ IF m \in stopping THEN UNCHANGED faults ELSE Fault("dlt")
  /\ LeaveProcess(m, "idle")
  /\ UNCHANGED <<brokerVars, assigned, pos, stopping, effectVars>>

\* Nothing catches what send_and_wait or the commit after it raises: the
\* exception leaves run() and the task made by the service's lifespan ends.
DeadLetterFails(m) ==
  /\ pc[m] = "dlt"
  /\ IF m \in stopping THEN UNCHANGED faults ELSE Fault("dlt")
  /\ LeaveProcess(m, "dead")
  /\ UNCHANGED <<brokerVars, assigned, pos, stopping, effectVars>>

DeadLetterCommitOk(m) ==
  /\ pc[m] = "dltCommit"
  /\ CommitAccepted(m)
  /\ CommitPositions(m)
  /\ LeaveProcess(m, "idle")
  /\ UNCHANGED <<owner, joined, assigned, pos, stopping, effectVars, faults>>

DeadLetterCommitFails(m) ==
  /\ pc[m] = "dltCommit"
  /\ CommitRaises(m)
  /\ LeaveProcess(m, "dead")
  /\ UNCHANGED <<brokerVars, assigned, pos, stopping, effectVars>>

-----------------------------------------------------------------------------
\* stop(): sets _stopping and leaves the group.  The task goes on until the
\* lifespan cancels it (Crash), and its commits raise from now on.
Stop(m) ==
  /\ Fault("stop")
  /\ pc[m] # "down"
  /\ m \notin stopping
  /\ stopping' = stopping \cup {m}
  /\ joined' = joined \ {m}
  /\ assigned' = [assigned EXCEPT ![m] = {}]
  /\ UNCHANGED <<committed, owner, pos, pc, cur, attempt, effectVars>>

\* The process ends at any point: killed, or cancelled after stop().
Crash(m) ==
  /\ pc[m] # "down"
  /\ IF m \in stopping THEN UNCHANGED faults ELSE Fault("crash")
  /\ LeaveProcess(m, "down")
  /\ joined' = joined \ {m}
  /\ assigned' = [assigned EXCEPT ![m] = {}]
  /\ pos' = [pos EXCEPT ![m] = [p \in Partitions |-> 0]]
  /\ stopping' = stopping \ {m}
  /\ UNCHANGED <<committed, owner, effectVars>>

\* The process is started again: start(), with nothing remembered.
Restart(m) ==
  /\ pc[m] = "down"
  /\ pc' = [pc EXCEPT ![m] = "idle"]
  /\ UNCHANGED <<brokerVars, assigned, pos, cur, attempt, stopping, effectVars, faults>>

-----------------------------------------------------------------------------
\* What the event loop runs by itself, as long as the task is alive.
TaskStep(m) ==
  \/ \E p \in Partitions : Fetch(m, p)
  \/ HandleOk(m)
  \/ HandleFails(m)
  \/ CommitOk(m)
  \/ CommitFails(m)
  \/ DeadLetterOk(m)
  \/ DeadLetterFails(m)
  \/ DeadLetterCommitOk(m)
  \/ DeadLetterCommitFails(m)

Next ==
  \/ Rebalance
  \/ \E m \in Members : \/ Join(m)
                        \/ TaskStep(m)
                        \/ Stop(m)
                        \/ Crash(m)
                        \/ Restart(m)

Spec == Init /\ [][Next]_vars

\* The event loop runs a task that can run, and aiokafka's own task rejoins a
\* group.  Nothing in the repository restarts a process or moves a partition
\* in bounded time, so Restart and Rebalance get no fairness.
FairSpec ==
  /\ Spec
  /\ \A m \in Members : WF_vars(TaskStep(m)) /\ WF_vars(Join(m))

-----------------------------------------------------------------------------
\* No committed offset passes a message that was neither handled nor
\* dead-lettered ("commit only after the message is handled successfully"),
\* although commit() commits positions that passed messages before they were
\* handled, of partitions that come and go with rebalances and restarts.
CommittedIsSettled == \A p \in Partitions : SettledUpTo(p, committed[p])

\* Without a disturbance each message is handled once and only poison is
\* dead-lettered.
QuietRunExactlyOnce == faults = 0 => repeated = {} /\ deadLettered \subseteq Poison

\* Delivery of every partition in order, with nothing skipped and commits that
\* only grow, also by zombies of older generations and after a loop has died:
\* the group with its retries, rebalances and crashes implements
\* OrderedDelivery, a message being settled when it is handled or dead-lettered.
Delivery == INSTANCE OrderedDelivery WITH settled <- Settled
ImplementsOrderedDelivery == Delivery!Spec

AllCommitted == \A p \in Partitions : committed[p] = LogLen
AllAlive == \A m \in Members : pc[m] \notin {"dead", "down"} /\ m \notin stopping

\* The only thing that stops a partition is a process or a task that is gone
\* for good: poison, retries, failed commits and rebalances do not.
DrainsWhileAlive == <>[]AllAlive => <>[]AllCommitted

\* The docstring's promise: "dead-letter-topic publishing after repeated
\* failures so a poison message can't block the partition".
PoisonNeverBlocks == <>[]AllCommitted
=============================================================================

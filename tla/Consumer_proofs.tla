--------------------------- MODULE Consumer_proofs ---------------------------
(***************************************************************************)
(* Theorems about Consumer, for every group, topic, poison set, retry      *)
(* limit and set of disturbances.                                          *)
(***************************************************************************)
EXTENDS Consumer, TLAPS

-----------------------------------------------------------------------------
\* Type correctness: every action keeps every variable in its range, the
\* attempt counter of _process within max_retries and the positions within the log.
LEMMA FaultCount == ASSUME NEW k, faults \in 0..MaxFaults, Fault(k)
                    PROVE faults' \in 0..MaxFaults
  BY ConsumerAssumption DEF Fault

LEMMA CommitType == ASSUME TypeOK, NEW m \in Members, CommitPositions(m)
                    PROVE committed' \in [Partitions -> 0..LogLen]
  BY DEF TypeOK, CommitPositions

LEMMA NextAttemptType ==
  ASSUME TypeOK, NEW m \in Members, pc[m] \in Busy, NextAttempt(m), UNCHANGED cur
  PROVE /\ attempt' \in [Members -> 0..MaxRetries]
        /\ pc' \in [Members -> PC]
        /\ \A n \in Members : pc'[n] \in Busy => cur'[n] \in Message
<1>1. CASE attempt[m] < MaxRetries
  <2>1. attempt[m] + 1 \in 0..MaxRetries
    BY <1>1, ConsumerAssumption DEF TypeOK
  <2>2. attempt' = [attempt EXCEPT ![m] = @ + 1] /\ pc' = [pc EXCEPT ![m] = "handle"]
    BY <1>1 DEF NextAttempt
  <2>3. attempt' \in [Members -> 0..MaxRetries]
    BY <2>1, <2>2 DEF TypeOK
  <2>4. pc' \in [Members -> PC]
    BY <2>2 DEF TypeOK, Busy, PC
  <2>5. \A n \in Members : pc'[n] \in Busy => cur'[n] \in Message
    BY <2>2 DEF TypeOK, Busy
  <2>6. QED
    BY <2>3, <2>4, <2>5
<1>2. CASE ~(attempt[m] < MaxRetries)
  BY <1>2, ConsumerAssumption DEF TypeOK, NextAttempt, Busy, PC
<1>3. QED
  BY <1>1, <1>2

THEOREM TypeCorrect == Spec => []TypeOK
<1>1. Init => TypeOK
  BY ConsumerAssumption DEF Init, TypeOK, PC, Busy
<1>2. TypeOK /\ [Next]_vars => TypeOK'
  <2> SUFFICES ASSUME TypeOK, [Next]_vars
               PROVE TypeOK'
    OBVIOUS
  <2> USE ConsumerAssumption DEF TypeOK, PC, Busy, brokerVars, memberVars, effectVars
  <2>1. CASE Rebalance
    BY <2>1, FaultCount DEF Rebalance
  <2>2. ASSUME NEW m \in Members, Join(m)
        PROVE TypeOK'
    BY <2>2 DEF Join
  <2>3. ASSUME NEW m \in Members, NEW p \in Partitions, Fetch(m, p)
        PROVE TypeOK'
    <3>1. pos[m][p] + 1 \in 1..LogLen
      BY <2>3 DEF Fetch
    <3>2. pos' \in [Members -> [Partitions -> 0..LogLen]]
      BY <2>3, <3>1 DEF Fetch
    <3>3. cur' \in [Members -> Message \cup {None}]
      BY <2>3, <3>1 DEF Fetch, Message
    <3>4. \A n \in Members : pc'[n] \in Busy => cur'[n] \in Message
      BY <2>3, <3>1 DEF Fetch, Message
    <3>5. attempt' \in [Members -> 0..MaxRetries]
      BY <2>3 DEF Fetch
    <3>6. pc' \in [Members -> PC]
      BY <2>3 DEF Fetch
    <3>7. UNCHANGED <<brokerVars, assigned, stopping, effectVars, faults>>
      BY <2>3 DEF Fetch
    <3>8. QED
      BY <3>2, <3>3, <3>4, <3>5, <3>6, <3>7
  <2>4. ASSUME NEW m \in Members, HandleOk(m)
        PROVE TypeOK'
    BY <2>4 DEF HandleOk
  <2>5. ASSUME NEW m \in Members, HandleFails(m)
        PROVE TypeOK'
    <3>1. faults' \in 0..MaxFaults
      BY <2>5, FaultCount DEF HandleFails
    <3>2. /\ attempt' \in [Members -> 0..MaxRetries]
          /\ pc' \in [Members -> PC]
          /\ \A n \in Members : pc'[n] \in Busy => cur'[n] \in Message
      BY <2>5, NextAttemptType DEF HandleFails
    <3>3. QED
      BY <2>5, <3>1, <3>2 DEF HandleFails
  <2>6. ASSUME NEW m \in Members, CommitOk(m)
        PROVE TypeOK'
    <3>1. committed' \in [Partitions -> 0..LogLen]
      BY <2>6, CommitType DEF CommitOk
    <3>2. \A n \in Members : pc'[n] \in Busy => cur'[n] \in Message
      BY <2>6 DEF CommitOk, LeaveProcess
    <3>3. QED
      BY <2>6, <3>1, <3>2 DEF CommitOk, LeaveProcess
  <2>7. ASSUME NEW m \in Members, CommitFails(m)
        PROVE TypeOK'
    <3>1. faults' \in 0..MaxFaults
      BY <2>7, FaultCount DEF CommitFails, CommitRaises
    <3>2. /\ attempt' \in [Members -> 0..MaxRetries]
          /\ pc' \in [Members -> PC]
          /\ \A n \in Members : pc'[n] \in Busy => cur'[n] \in Message
      BY <2>7, NextAttemptType DEF CommitFails
    <3>3. QED
      BY <2>7, <3>1, <3>2 DEF CommitFails
  <2>8. ASSUME NEW m \in Members, DeadLetterOk(m)
        PROVE TypeOK'
    BY <2>8 DEF DeadLetterOk
  <2>9. ASSUME NEW m \in Members, DeadLetterFails(m)
        PROVE TypeOK'
    BY <2>9, FaultCount DEF DeadLetterFails, LeaveProcess
  <2>10. ASSUME NEW m \in Members, DeadLetterCommitOk(m)
         PROVE TypeOK'
    <3>1. committed' \in [Partitions -> 0..LogLen]
      BY <2>10, CommitType DEF DeadLetterCommitOk
    <3>2. \A n \in Members : pc'[n] \in Busy => cur'[n] \in Message
      BY <2>10 DEF DeadLetterCommitOk, LeaveProcess
    <3>3. QED
      BY <2>10, <3>1, <3>2 DEF DeadLetterCommitOk, LeaveProcess
  <2>11. ASSUME NEW m \in Members, DeadLetterCommitFails(m)
         PROVE TypeOK'
    BY <2>11, FaultCount DEF DeadLetterCommitFails, CommitRaises, LeaveProcess
  <2>12. ASSUME NEW m \in Members, Stop(m)
         PROVE TypeOK'
    BY <2>12, FaultCount DEF Stop
  <2>13. ASSUME NEW m \in Members, Crash(m)
         PROVE TypeOK'
    BY <2>13, FaultCount DEF Crash, LeaveProcess
  <2>14. ASSUME NEW m \in Members, Restart(m)
         PROVE TypeOK'
    BY <2>14 DEF Restart
  <2>15. CASE UNCHANGED vars
    BY <2>15 DEF vars
  <2>16. QED
    BY <2>1, <2>2, <2>3, <2>4, <2>5, <2>6, <2>7, <2>8, <2>9, <2>10, <2>11,
       <2>12, <2>13, <2>14, <2>15 DEF Next, TaskStep
<1>3. QED
  BY <1>1, <1>2, PTL DEF Spec

-----------------------------------------------------------------------------
\* The inductive invariant.  CommittedIsSettled is not inductive: commit()
\* commits positions, so it rests on what the positions of a member have
\* passed, and this on what the member does with the message in its hands.

\* When _process works on a message, the older ones of its partition are settled.
OlderSettled ==
  \A m \in Members : pc[m] \in Busy => SettledUpTo(cur[m][1], cur[m][2] - 1)

\* At a commit the message itself is settled.
DoneSettled ==
  \A m \in Members : pc[m] \in {"commit", "dltCommit"} => cur[m] \in Settled

\* A live member's positions have passed only settled messages and the one it
\* is still working on.
PositionsSettled ==
  \A m \in Members : pc[m] # "dead" =>
    \A p \in assigned[m], j \in 1..LogLen :
      j <= pos[m][p] => \/ <<p, j>> \in Settled
                        \/ pc[m] \in {"handle", "dlt"} /\ cur[m] = <<p, j>>

\* A member of the current generation owns what it believes it owns, and it
\* started at or behind nothing that is committed.
GenerationOwns ==
  \A m \in joined : \A p \in assigned[m] : owner[p] = m /\ committed[p] <= pos[m][p]

\* A process that is gone has no partition.
DownHasNothing == \A m \in Members : pc[m] = "down" => assigned[m] = {}

IInv ==
  /\ CommittedIsSettled
  /\ OlderSettled
  /\ DoneSettled
  /\ PositionsSettled
  /\ GenerationOwns
  /\ DownHasNothing

LEMMA InitIInv == Init => IInv
  BY ConsumerAssumption
     DEF Init, IInv, CommittedIsSettled, SettledUpTo, OlderSettled, DoneSettled,
         PositionsSettled, GenerationOwns, DownHasNothing, Busy

\* A step in which no offset moves and no partition changes hands keeps IInv
\* when every member that is still busy is busy with the same message, or has
\* just taken up one that meets the invariant.
LEMMA LocalStep ==
  ASSUME IInv, TypeOK, NEW m \in Members,
         UNCHANGED <<committed, owner, assigned, pos>>,
         joined' = joined, Settled \subseteq Settled',
         \A n \in Members \ {m} : pc'[n] = pc[n] /\ cur'[n] = cur[n],
         pc'[m] \in Busy => SettledUpTo(cur[m][1], cur[m][2] - 1) /\ cur'[m] = cur[m],
         pc'[m] \in {"commit", "dltCommit"} => cur[m] \in Settled',
         pc'[m] # "dead" => pc[m] \in Busy /\ pc'[m] \in Busy,
         pc[m] # "down"
  PROVE IInv'
<1>1. CommittedIsSettled'
  BY DEF IInv, CommittedIsSettled, SettledUpTo
<1>2. OlderSettled'
  BY DEF IInv, OlderSettled, SettledUpTo
<1>3. DoneSettled'
  BY DEF IInv, DoneSettled, Busy
<1>4. PositionsSettled'
  BY DEF IInv, PositionsSettled, Busy
<1>5. GenerationOwns'
  BY DEF IInv, GenerationOwns
<1>6. DownHasNothing'
  BY DEF IInv, DownHasNothing, Busy
<1>7. QED
  BY <1>1, <1>2, <1>3, <1>4, <1>5, <1>6 DEF IInv

\* The commit of a member of the current generation whose message is settled.
LEMMA CommitStep ==
  ASSUME IInv, TypeOK, NEW m \in joined,
         pc[m] \in {"commit", "dltCommit"}, CommitPositions(m),
         LeaveProcess(m, "idle"),
         UNCHANGED <<owner, joined, assigned, pos, handled, deadLettered>>
  PROVE IInv'
<1> USE DEF Settled
<1>0. m \in Members
  BY DEF TypeOK
<1>1. \A p \in assigned[m] : SettledUpTo(p, pos[m][p])
  <2> SUFFICES ASSUME NEW p \in assigned[m], NEW j \in 1..pos[m][p]
               PROVE <<p, j>> \in Settled
    BY DEF SettledUpTo
  <2>1. j \in 1..LogLen /\ j <= pos[m][p]
    BY <1>0, ConsumerAssumption DEF TypeOK
  <2>2. QED
    BY <1>0, <2>1 DEF IInv, PositionsSettled
<1>2. CommittedIsSettled'
  BY <1>1 DEF IInv, CommittedIsSettled, SettledUpTo, CommitPositions
<1>3. pc' = [pc EXCEPT ![m] = "idle"] /\ cur' = [cur EXCEPT ![m] = None]
  BY DEF LeaveProcess
<1>4. OlderSettled' /\ DoneSettled' /\ DownHasNothing'
  BY <1>0, <1>3 DEF IInv, OlderSettled, DoneSettled, DownHasNothing, SettledUpTo, TypeOK, Busy
<1>5. PositionsSettled'
  BY <1>0, <1>3 DEF IInv, PositionsSettled, TypeOK
<1>6. GenerationOwns'
  <2> SUFFICES ASSUME NEW n \in joined, NEW p \in assigned[n]
               PROVE owner[p] = n /\ committed'[p] <= pos[n][p]
    BY DEF GenerationOwns
  <2>1. p \in Partitions /\ pos[n][p] \in Nat
    BY ConsumerAssumption DEF TypeOK
  <2>2. owner[p] = n /\ committed[p] <= pos[n][p]
    BY DEF IInv, GenerationOwns
  <2>3. p \in assigned[m] => n = m
    BY <2>2 DEF IInv, GenerationOwns
  <2>4. QED
    BY <2>1, <2>2, <2>3 DEF CommitPositions
<1>7. QED
  BY <1>2, <1>4, <1>5, <1>6 DEF IInv

\* The group's own steps: a new generation, and a member that joins it.
LEMMA RebalanceStep == ASSUME IInv, TypeOK, Rebalance PROVE IInv'
<1>1. UNCHANGED <<committed, memberVars, effectVars>> /\ joined' = {}
  BY DEF Rebalance
<1>2. QED
  BY <1>1 DEF IInv, memberVars, effectVars, CommittedIsSettled, SettledUpTo, Settled,
              OlderSettled, DoneSettled, PositionsSettled, GenerationOwns, DownHasNothing

LEMMA JoinStep == ASSUME IInv, TypeOK, NEW m \in Members, Join(m) PROVE IInv'
<1> USE DEF effectVars, Settled
<1>1. CommittedIsSettled' /\ OlderSettled' /\ DoneSettled'
  BY DEF Join, IInv, CommittedIsSettled, SettledUpTo, OlderSettled, DoneSettled
<1>2. PositionsSettled'
  <2> SUFFICES ASSUME NEW n \in Members, pc[n] # "dead", NEW p \in assigned'[n],
                      NEW j \in 1..LogLen, j <= pos'[n][p]
               PROVE \/ <<p, j>> \in Settled
                     \/ pc[n] \in {"handle", "dlt"} /\ cur[n] = <<p, j>>
    BY DEF PositionsSettled, Join
  <2>1. CASE n = m
    <3>1. p \in Partitions /\ owner[p] = m
      BY <2>1 DEF Join, TypeOK
    <3>2. pos'[m][p] = committed[p]
      BY <3>1 DEF Join, TypeOK
    <3>3. QED
      BY <2>1, <3>1, <3>2, ConsumerAssumption
         DEF IInv, CommittedIsSettled, SettledUpTo, TypeOK
  <2>2. CASE n # m
    BY <2>2 DEF Join, IInv, PositionsSettled, TypeOK
  <2>3. QED
    BY <2>1, <2>2
<1>3. GenerationOwns'
  <2> SUFFICES ASSUME NEW n \in joined', NEW p \in assigned'[n]
               PROVE owner[p] = n /\ committed[p] <= pos'[n][p]
    BY DEF GenerationOwns, Join
  <2>1. CASE n = m
    <3>1. p \in Partitions /\ owner[p] = m
      BY <2>1 DEF Join, TypeOK
    <3>2. pos'[m][p] = committed[p] /\ committed[p] \in Nat
      BY <3>1, ConsumerAssumption DEF Join, TypeOK
    <3>3. QED
      BY <2>1, <3>1, <3>2
  <2>2. CASE n # m
    BY <2>2 DEF Join, IInv, GenerationOwns, TypeOK
  <2>3. QED
    BY <2>1, <2>2
<1>4. DownHasNothing'
  BY DEF Join, IInv, DownHasNothing, TypeOK
<1>5. QED
  BY <1>1, <1>2, <1>3, <1>4 DEF IInv

\* The loop takes up the next message of one of its partitions.
LEMMA FetchStep ==
  ASSUME IInv, TypeOK, NEW m \in Members, NEW p \in Partitions, Fetch(m, p)
  PROVE IInv'
<1> DEFINE i == pos[m][p] + 1
<1> USE DEF brokerVars, effectVars, Settled
<1>1. /\ p \in assigned[m] /\ pc[m] = "idle"
      /\ i \in 1..LogLen
      /\ UNCHANGED <<committed, owner, joined, assigned, handled, deadLettered>>
      /\ pc' = [pc EXCEPT ![m] = "handle"]
      /\ cur' = [cur EXCEPT ![m] = <<p, i>>]
      /\ pos' = [pos EXCEPT ![m][p] = i]
  BY ConsumerAssumption DEF Fetch, TypeOK
<1> HIDE DEF i
<1>2. CommittedIsSettled' /\ DoneSettled' /\ DownHasNothing'
  BY <1>1 DEF IInv, CommittedIsSettled, SettledUpTo, DoneSettled, DownHasNothing, TypeOK
<1>3. SettledUpTo(p, i - 1)
  <2> SUFFICES ASSUME NEW j \in 1..(i - 1)
               PROVE <<p, j>> \in Settled
    BY DEF SettledUpTo
  <2>1. j \in 1..LogLen /\ j <= pos[m][p]
    BY <1>1, ConsumerAssumption DEF i, TypeOK
  <2>2. QED
    BY <1>1, <2>1 DEF IInv, PositionsSettled
<1>4. OlderSettled'
  BY <1>1, <1>3 DEF IInv, OlderSettled, SettledUpTo, TypeOK
<1>5. PositionsSettled'
  <2> SUFFICES ASSUME NEW n \in Members, pc'[n] # "dead", NEW q \in assigned[n],
                      NEW j \in 1..LogLen, j <= pos'[n][q]
               PROVE \/ <<q, j>> \in Settled
                     \/ pc'[n] \in {"handle", "dlt"} /\ cur'[n] = <<q, j>>
    BY <1>1 DEF PositionsSettled
  <2>1. CASE n = m /\ q = p
    <3>1. j <= i /\ i \in Nat
      BY <1>1, <2>1 DEF TypeOK
    <3>2. CASE j = i
      BY <1>1, <2>1, <3>2 DEF TypeOK
    <3>3. CASE j # i
      BY <1>3, <2>1, <3>1, <3>3 DEF SettledUpTo
    <3>4. QED
      BY <3>2, <3>3
  <2>2. CASE n = m /\ q # p
    <3>1. q \in Partitions /\ j <= pos[m][q]
      BY <1>1, <2>2 DEF TypeOK
    <3>2. QED
      BY <1>1, <2>2, <3>1 DEF IInv, PositionsSettled
  <2>3. CASE n # m
    BY <1>1, <2>3 DEF IInv, PositionsSettled, TypeOK
  <2>4. QED
    BY <2>1, <2>2, <2>3
<1>6. GenerationOwns'
  <2> SUFFICES ASSUME NEW n \in joined, NEW q \in assigned[n]
               PROVE owner[q] = n /\ committed[q] <= pos'[n][q]
    BY <1>1 DEF GenerationOwns
  <2>1. n \in Members /\ q \in Partitions /\ pos[n][q] \in Nat /\ committed[q] \in Nat
    BY ConsumerAssumption DEF TypeOK
  <2>2. owner[q] = n /\ committed[q] <= pos[n][q]
    BY DEF IInv, GenerationOwns
  <2>3. pos[n][q] <= pos'[n][q]
    BY <1>1, <2>1 DEF i, TypeOK
  <2>4. pos'[n][q] \in Nat
    BY <1>1, <2>1 DEF i, TypeOK
  <2>5. QED
    BY <2>1, <2>2, <2>3, <2>4
<1>7. QED
  BY <1>2, <1>4, <1>5, <1>6 DEF IInv

\* A task, or its whole process, goes away, or the process comes back.
LEMMA StopStep == ASSUME IInv, TypeOK, NEW m \in Members, Stop(m) PROVE IInv'
<1>1. /\ UNCHANGED <<committed, owner, pos, pc, cur, effectVars>>
      /\ joined' = joined \ {m} /\ assigned' = [assigned EXCEPT ![m] = {}]
  BY DEF Stop
<1>2. QED
  BY <1>1 DEF IInv, TypeOK, effectVars, CommittedIsSettled, SettledUpTo, Settled, OlderSettled,
              DoneSettled, PositionsSettled, GenerationOwns, DownHasNothing

LEMMA CrashStep == ASSUME IInv, TypeOK, NEW m \in Members, Crash(m) PROVE IInv'
<1>1. /\ UNCHANGED <<committed, owner, effectVars>>
      /\ \A n \in Members \ {m} : pos'[n] = pos[n] /\ pc'[n] = pc[n] /\ cur'[n] = cur[n]
      /\ pc'[m] = "down"
      /\ joined' = joined \ {m} /\ assigned' = [assigned EXCEPT ![m] = {}]
      /\ Settled' = Settled
  BY DEF Crash, LeaveProcess, TypeOK, effectVars, Settled
<1>2. CommittedIsSettled'
  BY <1>1 DEF IInv, CommittedIsSettled, SettledUpTo
<1>3. OlderSettled'
  BY <1>1 DEF IInv, OlderSettled, SettledUpTo, Busy
<1>4. DoneSettled'
  BY <1>1 DEF IInv, DoneSettled
<1>5. assigned'[m] = {} /\ \A n \in Members \ {m} : assigned'[n] = assigned[n]
  BY <1>1 DEF TypeOK
<1>6. PositionsSettled'
  BY <1>1, <1>5 DEF IInv, PositionsSettled
<1>7. GenerationOwns'
  BY <1>1, <1>5 DEF IInv, GenerationOwns, TypeOK
<1>8. DownHasNothing'
  BY <1>1, <1>5 DEF IInv, DownHasNothing
<1>9. QED
  BY <1>2, <1>3, <1>4, <1>6, <1>7, <1>8 DEF IInv

LEMMA RestartStep == ASSUME IInv, TypeOK, NEW m \in Members, Restart(m) PROVE IInv'
<1>1. /\ UNCHANGED <<brokerVars, assigned, pos, cur, effectVars>>
      /\ pc[m] = "down" /\ pc' = [pc EXCEPT ![m] = "idle"]
  BY DEF Restart
<1>2. QED
  BY <1>1 DEF IInv, TypeOK, brokerVars, effectVars, CommittedIsSettled, SettledUpTo, Settled,
              OlderSettled, DoneSettled, PositionsSettled, GenerationOwns, DownHasNothing, Busy

\* _process leaves with an exception.
LEMMA DieStep ==
  ASSUME IInv, TypeOK, NEW m \in Members, pc[m] \in Busy, LeaveProcess(m, "dead"),
         UNCHANGED <<brokerVars, assigned, pos, effectVars>>
  PROVE IInv'
<1>1. /\ \A n \in Members \ {m} : pc'[n] = pc[n] /\ cur'[n] = cur[n]
      /\ pc'[m] = "dead"
  BY DEF LeaveProcess, TypeOK
<1>2. /\ UNCHANGED <<committed, owner, assigned, pos>>
      /\ joined' = joined /\ Settled \subseteq Settled'
  BY DEF brokerVars, effectVars, Settled
<1>3. pc[m] # "down" /\ pc'[m] \notin Busy
  BY <1>1 DEF Busy
<1>4. QED
  BY <1>1, <1>2, <1>3, LocalStep DEF Busy

\* The steps of _process that keep it at work on its message.
LEMMA WorkStep ==
  ASSUME IInv, TypeOK, NEW m \in Members, pc[m] \in Busy,
         UNCHANGED <<brokerVars, assigned, pos, cur>>,
         NEW next \in Busy, pc' = [pc EXCEPT ![m] = next],
         Settled \subseteq Settled',
         next \in {"commit", "dltCommit"} => cur[m] \in Settled'
  PROVE IInv'
<1>1. /\ \A n \in Members \ {m} : pc'[n] = pc[n] /\ cur'[n] = cur[n]
      /\ pc'[m] = next /\ cur'[m] = cur[m]
  BY DEF TypeOK
<1>2. UNCHANGED <<committed, owner, assigned, pos>> /\ joined' = joined
  BY DEF brokerVars
<1>3. SettledUpTo(cur[m][1], cur[m][2] - 1)
  BY DEF IInv, OlderSettled
<1>4. pc[m] # "down" /\ pc'[m] # "dead"
  BY <1>1 DEF Busy
<1>5. QED
  BY <1>1, <1>2, <1>3, <1>4, LocalStep

LEMMA NextAttemptStep ==
  ASSUME IInv, TypeOK, NEW m \in Members, pc[m] \in Busy, NextAttempt(m),
         UNCHANGED <<brokerVars, assigned, pos, cur, effectVars>>
  PROVE IInv'
<1>1. Settled \subseteq Settled'
  BY DEF effectVars, Settled
<1>2. CASE pc' = [pc EXCEPT ![m] = "handle"]
  BY <1>1, <1>2, WorkStep DEF Busy
<1>3. CASE pc' = [pc EXCEPT ![m] = "dlt"]
  BY <1>1, <1>3, WorkStep DEF Busy
<1>4. QED
  BY <1>2, <1>3 DEF NextAttempt

LEMMA HandleOkStep == ASSUME IInv, TypeOK, NEW m \in Members, HandleOk(m) PROVE IInv'
<1>1. Settled \subseteq Settled' /\ cur[m] \in Settled'
  BY DEF HandleOk, Settled
<1>2. pc' = [pc EXCEPT ![m] = "commit"] /\ pc[m] \in Busy
  BY DEF HandleOk, Busy
<1>3. UNCHANGED <<brokerVars, assigned, pos, cur>>
  BY DEF HandleOk
<1>4. QED
  BY <1>1, <1>2, <1>3, WorkStep DEF Busy

LEMMA DeadLetterOkStep == ASSUME IInv, TypeOK, NEW m \in Members, DeadLetterOk(m) PROVE IInv'
<1>1. Settled \subseteq Settled' /\ cur[m] \in Settled'
  BY DEF DeadLetterOk, Settled
<1>2. pc' = [pc EXCEPT ![m] = "dltCommit"] /\ pc[m] \in Busy
  BY DEF DeadLetterOk, Busy
<1>3. UNCHANGED <<brokerVars, assigned, pos, cur>>
  BY DEF DeadLetterOk
<1>4. QED
  BY <1>1, <1>2, <1>3, WorkStep DEF Busy

\* Every step of the group keeps the inductive invariant.
LEMMA StepIInv == ASSUME IInv, TypeOK, [Next]_vars PROVE IInv'
<1>1. CASE Rebalance
  BY <1>1, RebalanceStep
<1>2. ASSUME NEW m \in Members, Join(m) PROVE IInv'
  BY <1>2, JoinStep
<1>3. ASSUME NEW m \in Members, NEW p \in Partitions, Fetch(m, p) PROVE IInv'
  BY <1>3, FetchStep
<1>4. ASSUME NEW m \in Members, HandleOk(m) PROVE IInv'
  BY <1>4, HandleOkStep
<1>5. ASSUME NEW m \in Members, HandleFails(m) PROVE IInv'
  BY <1>5, NextAttemptStep DEF HandleFails, Busy
<1>6. ASSUME NEW m \in Members, CommitOk(m) PROVE IInv'
  BY <1>6, CommitStep DEF CommitOk, CommitAccepted, effectVars
<1>7. ASSUME NEW m \in Members, CommitFails(m) PROVE IInv'
  BY <1>7, NextAttemptStep DEF CommitFails, Busy
<1>8. ASSUME NEW m \in Members, DeadLetterOk(m) PROVE IInv'
  BY <1>8, DeadLetterOkStep
<1>9. ASSUME NEW m \in Members, DeadLetterFails(m) PROVE IInv'
  BY <1>9, DieStep DEF DeadLetterFails, Busy
<1>10. ASSUME NEW m \in Members, DeadLetterCommitOk(m) PROVE IInv'
  BY <1>10, CommitStep DEF DeadLetterCommitOk, CommitAccepted, effectVars
<1>11. ASSUME NEW m \in Members, DeadLetterCommitFails(m) PROVE IInv'
  BY <1>11, DieStep DEF DeadLetterCommitFails, Busy
<1>12. ASSUME NEW m \in Members, Stop(m) PROVE IInv'
  BY <1>12, StopStep
<1>13. ASSUME NEW m \in Members, Crash(m) PROVE IInv'
  BY <1>13, CrashStep
<1>14. ASSUME NEW m \in Members, Restart(m) PROVE IInv'
  BY <1>14, RestartStep
<1>15. CASE UNCHANGED vars
  BY <1>15 DEF vars, brokerVars, memberVars, effectVars, IInv, CommittedIsSettled, SettledUpTo,
               Settled, OlderSettled, DoneSettled, PositionsSettled, GenerationOwns, DownHasNothing
<1>16. QED
  BY <1>1, <1>2, <1>3, <1>4, <1>5, <1>6, <1>7, <1>8, <1>9, <1>10, <1>11,
     <1>12, <1>13, <1>14, <1>15 DEF Next, TaskStep

\* The inductive invariant holds in every reachable state.
THEOREM Invariant == Spec => []IInv
  BY InitIInv, StepIInv, TypeCorrect, PTL DEF Spec

\* No committed offset ever passes a message that was neither handled nor
\* dead-lettered: commit() of BaseConsumer is safe although it names no offsets.
THEOREM CommitSafe == Spec => []CommittedIsSettled
<1>1. IInv => CommittedIsSettled
  BY DEF IInv
<1>2. QED
  BY <1>1, Invariant, PTL

-----------------------------------------------------------------------------
\* Consumer implements OrderedDelivery.

\* A step that changes neither offsets nor what is settled is a stutter.
LEMMA Stutter == ASSUME UNCHANGED <<committed, Settled>> PROVE UNCHANGED Delivery!vars
  BY DEF Delivery!vars

\* A message in the hands of _process may be settled next.
LEMMA SettleRefines ==
  ASSUME TypeOK, IInv, NEW m \in Members, pc[m] \in Busy,
         Settled' = Settled \cup {cur[m]}, committed' = committed
  PROVE Delivery!Next
<1>1. PICK p \in Partitions, i \in 1..LogLen : cur[m] = <<p, i>>
  BY DEF TypeOK, Message
<1>2. SettledUpTo(p, i - 1)
  BY <1>1 DEF IInv, OlderSettled
<1>3. Delivery!Settle(p, i)
  BY <1>1, <1>2 DEF Delivery!Settle, Delivery!SettledUpTo, SettledUpTo
<1>4. QED
  BY <1>3 DEF Delivery!Next

\* A commit of the positions of a joined member only advances offsets.
LEMMA CommitRefines ==
  ASSUME TypeOK, IInv, CommittedIsSettled', NEW m \in joined, CommitPositions(m),
         Settled' = Settled
  PROVE Delivery!Next
<1>1. committed' \in [Partitions -> 0..LogLen]
  BY CommitType DEF TypeOK
<1>2. ASSUME NEW p \in Partitions
      PROVE committed[p] <= committed'[p] /\ SettledUpTo(p, committed'[p])
  <2>1. committed[p] <= committed'[p]
    BY <1>2, ConsumerAssumption DEF CommitPositions, IInv, GenerationOwns, TypeOK
  <2>2. SettledUpTo(p, committed'[p])
    BY <1>2 DEF CommittedIsSettled, SettledUpTo
  <2>3. QED
    BY <2>1, <2>2
<1>3. Delivery!Commit
  BY <1>1, <1>2 DEF Delivery!Commit, Delivery!SettledUpTo, SettledUpTo
<1>4. QED
  BY <1>3 DEF Delivery!Next

LEMMA StepRefines ==
  ASSUME TypeOK, IInv, IInv', [Next]_vars
  PROVE [Delivery!Next]_(Delivery!vars)
<1> USE DEF brokerVars, effectVars
<1>1. CASE Rebalance
  BY <1>1, Stutter DEF Rebalance, Settled
<1>2. ASSUME NEW m \in Members, Join(m) PROVE UNCHANGED Delivery!vars
  BY <1>2, Stutter DEF Join, Settled
<1>3. ASSUME NEW m \in Members, NEW p \in Partitions, Fetch(m, p) PROVE UNCHANGED Delivery!vars
  BY <1>3, Stutter DEF Fetch, Settled
<1>4. ASSUME NEW m \in Members, HandleOk(m) PROVE Delivery!Next
  BY <1>4, SettleRefines DEF HandleOk, Settled, Busy
<1>5. ASSUME NEW m \in Members, HandleFails(m) PROVE UNCHANGED Delivery!vars
  BY <1>5, Stutter DEF HandleFails, Settled
<1>6. ASSUME NEW m \in Members, CommitOk(m) PROVE Delivery!Next
  BY <1>6, CommitRefines DEF CommitOk, CommitAccepted, Settled, IInv
<1>7. ASSUME NEW m \in Members, CommitFails(m) PROVE UNCHANGED Delivery!vars
  BY <1>7, Stutter DEF CommitFails, Settled
<1>8. ASSUME NEW m \in Members, DeadLetterOk(m) PROVE Delivery!Next
  BY <1>8, SettleRefines DEF DeadLetterOk, Settled, Busy
<1>9. ASSUME NEW m \in Members, DeadLetterFails(m) PROVE UNCHANGED Delivery!vars
  BY <1>9, Stutter DEF DeadLetterFails, Settled
<1>10. ASSUME NEW m \in Members, DeadLetterCommitOk(m) PROVE Delivery!Next
  BY <1>10, CommitRefines DEF DeadLetterCommitOk, CommitAccepted, Settled, IInv
<1>11. ASSUME NEW m \in Members, DeadLetterCommitFails(m) PROVE UNCHANGED Delivery!vars
  BY <1>11, Stutter DEF DeadLetterCommitFails, Settled
<1>12. ASSUME NEW m \in Members, Stop(m) PROVE UNCHANGED Delivery!vars
  BY <1>12, Stutter DEF Stop, Settled
<1>13. ASSUME NEW m \in Members, Crash(m) PROVE UNCHANGED Delivery!vars
  BY <1>13, Stutter DEF Crash, Settled
<1>14. ASSUME NEW m \in Members, Restart(m) PROVE UNCHANGED Delivery!vars
  BY <1>14, Stutter DEF Restart, Settled
<1>15. CASE UNCHANGED vars
  BY <1>15, Stutter DEF vars, Settled
<1>16. QED
  BY <1>1, <1>2, <1>3, <1>4, <1>5, <1>6, <1>7, <1>8, <1>9, <1>10, <1>11,
     <1>12, <1>13, <1>14, <1>15 DEF Next, TaskStep

\* BaseConsumer delivers every partition in order, skips nothing, and only
\* ever advances its committed offsets over settled messages.
THEOREM Refinement == Spec => ImplementsOrderedDelivery
<1>1. Init => Delivery!Init
  BY DEF Init, Delivery!Init, Settled
<1>2. TypeOK /\ IInv /\ IInv' /\ [Next]_vars => [Delivery!Next]_(Delivery!vars)
  BY StepRefines
<1>3. QED
  BY <1>1, <1>2, TypeCorrect, Invariant, PTL DEF Spec, ImplementsOrderedDelivery, Delivery!Spec

-----------------------------------------------------------------------------
\* Without a disturbance every member stays up and in the group, each message is in
\* the hands of the owner of its partition, and what has been handled lies behind
\* the owner's position, so that the loop never meets it again.
Undisturbed ==
  /\ stopping = {}
  /\ repeated = {} /\ deadLettered \subseteq Poison
  /\ \A m \in Members :
       /\ pc[m] \notin {"dead", "down"}
       /\ m \notin joined => assigned[m] = {}
       /\ pc[m] \in Busy => /\ cur[m][1] \in assigned[m] /\ cur[m][2] = pos[m][cur[m][1]]
       /\ pc[m] = "handle" => cur[m] \notin handled
       /\ pc[m] \in {"dlt", "dltCommit"} => cur[m] \in Poison
  /\ \A p \in Partitions, j \in 1..LogLen :
       <<p, j>> \in handled => owner[p] \in joined /\ j <= pos[owner[p]][p]

QuietInv == faults = 0 => Undisturbed

\* A fault leaves nothing to show, now and later.
LEMMA FaultsGrow == ASSUME TypeOK, NEW k, Fault(k) PROVE faults' # 0
BY ConsumerAssumption DEF TypeOK, Fault

\* A busy member of an undisturbed group works on a message of a partition of its own.
LEMMA InHand ==
  ASSUME TypeOK, IInv, Undisturbed, NEW m \in Members, pc[m] \in Busy
  PROVE /\ cur[m] = <<cur[m][1], cur[m][2]>> /\ cur[m][1] \in Partitions /\ cur[m][2] \in 1..LogLen
        /\ cur[m][1] \in assigned[m] /\ cur[m][2] = pos[m][cur[m][1]]
        /\ m \in joined /\ owner[cur[m][1]] = m
<1>1. cur[m] \in Message
  BY DEF TypeOK
<1>2. cur[m] = <<cur[m][1], cur[m][2]>> /\ cur[m][1] \in Partitions /\ cur[m][2] \in 1..LogLen
  BY <1>1 DEF Message
<1>3. cur[m][1] \in assigned[m] /\ cur[m][2] = pos[m][cur[m][1]] /\ m \in joined
  BY DEF Undisturbed
<1>4. QED
  BY <1>2, <1>3 DEF IInv, GenerationOwns

\* _process goes on with its message, or leaves it, and nothing else changes.
LEMMA QuietMove ==
  ASSUME TypeOK, Undisturbed, NEW m \in Members, pc[m] \in Busy,
         NEW next \in Busy \cup {"idle"}, pc' = [pc EXCEPT ![m] = next],
         next \in Busy => cur'[m] = cur[m],
         next = "handle" => cur[m] \notin handled,
         next \in {"dlt", "dltCommit"} => cur[m] \in Poison,
         \A n \in Members \ {m} : cur'[n] = cur[n],
         deadLettered' \subseteq Poison,
         UNCHANGED <<owner, joined, assigned, pos, stopping, handled, repeated>>
  PROVE Undisturbed'
<1>1. pc'[m] = next /\ \A n \in Members \ {m} : pc'[n] = pc[n]
  BY DEF TypeOK
<1>2. ASSUME NEW n \in Members
      PROVE /\ pc'[n] \notin {"dead", "down"}
            /\ n \notin joined => assigned[n] = {}
            /\ pc'[n] \in Busy => /\ cur'[n][1] \in assigned[n] /\ cur'[n][2] = pos[n][cur'[n][1]]
            /\ pc'[n] = "handle" => cur'[n] \notin handled
            /\ pc'[n] \in {"dlt", "dltCommit"} => cur'[n] \in Poison
  <2>1. CASE n = m
    BY <1>1, <2>1 DEF Undisturbed, Busy
  <2>2. CASE n # m
    BY <1>1, <2>2 DEF Undisturbed
  <2>3. QED
    BY <2>1, <2>2
<1>3. QED
  BY <1>2 DEF Undisturbed

\* HandleFails without a fault meets poison.
LEMMA QuietRetry ==
  ASSUME TypeOK, Undisturbed, NEW m \in Members, pc[m] = "handle", cur[m] \in Poison, NextAttempt(m),
         UNCHANGED <<brokerVars, assigned, pos, cur, stopping, effectVars>>
  PROVE Undisturbed'
<1>1. PICK next \in {"handle", "dlt"} : pc' = [pc EXCEPT ![m] = next]
  BY DEF NextAttempt
<1>2. cur[m] \notin handled /\ deadLettered \subseteq Poison
  BY DEF Undisturbed
<1>3. next \in Busy \cup {"idle"} /\ pc[m] \in Busy
  BY DEF Busy
<1>4. UNCHANGED <<owner, joined, assigned, pos, cur, stopping, handled, repeated, deadLettered>>
  BY DEF brokerVars, effectVars
<1>5. QED
  BY <1>1, <1>2, <1>3, <1>4, QuietMove

LEMMA QuietFetch ==
  ASSUME TypeOK, IInv, Undisturbed, NEW m \in Members, NEW p \in Partitions, Fetch(m, p)
  PROVE Undisturbed'
<1> DEFINE i == pos[m][p] + 1
<1>1. /\ p \in assigned[m] /\ i \in 1..LogLen /\ pos[m][p] < i
      /\ UNCHANGED <<owner, joined, assigned, stopping, handled, repeated, deadLettered>>
      /\ pc' = [pc EXCEPT ![m] = "handle"]
      /\ cur' = [cur EXCEPT ![m] = <<p, i>>]
      /\ pos' = [pos EXCEPT ![m][p] = i]
  BY ConsumerAssumption DEF Fetch, TypeOK, brokerVars, effectVars
<1> HIDE DEF i
<1>2. /\ pc'[m] = "handle" /\ cur'[m] = <<p, i>> /\ pos'[m][p] = i
      /\ \A n \in Members \ {m} : pc'[n] = pc[n] /\ cur'[n] = cur[n] /\ pos'[n] = pos[n]
      /\ \A q \in Partitions \ {p} : pos'[m][q] = pos[m][q]
  BY <1>1 DEF TypeOK
<1>3. m \in joined /\ owner[p] = m
  BY <1>1 DEF Undisturbed, IInv, GenerationOwns
<1>4. <<p, i>> \notin handled
  <2>1. <<p, i>> \in handled => i <= pos[m][p]
    BY <1>1, <1>3 DEF Undisturbed
  <2>2. pos[m][p] \in Nat /\ i \in Nat
    BY <1>1, ConsumerAssumption DEF TypeOK
  <2>3. QED
    BY <1>1, <2>1, <2>2
<1>5. ASSUME NEW n \in Members
      PROVE /\ pc'[n] \notin {"dead", "down"}
            /\ n \notin joined => assigned[n] = {}
            /\ pc'[n] \in Busy => /\ cur'[n][1] \in assigned[n] /\ cur'[n][2] = pos'[n][cur'[n][1]]
            /\ pc'[n] = "handle" => cur'[n] \notin handled
            /\ pc'[n] \in {"dlt", "dltCommit"} => cur'[n] \in Poison
  <2>1. CASE n = m
    BY <1>1, <1>2, <1>3, <1>4, <2>1
  <2>2. CASE n # m
    BY <1>2, <2>2 DEF Undisturbed
  <2>3. QED
    BY <2>1, <2>2
<1>6. ASSUME NEW q \in Partitions, NEW j \in 1..LogLen, <<q, j>> \in handled
      PROVE owner[q] \in joined /\ j <= pos'[owner[q]][q]
  <2>1. owner[q] \in joined /\ j <= pos[owner[q]][q] /\ owner[q] \in Members
    BY <1>6 DEF Undisturbed, TypeOK
  <2>2. CASE q = p
    <3>1. pos[m][p] \in Nat /\ i \in Nat /\ j \in Nat
      BY <1>1, ConsumerAssumption DEF TypeOK
    <3>2. QED
      BY <1>1, <1>2, <1>3, <2>1, <2>2, <3>1
  <2>3. CASE q # p
    BY <1>2, <2>1, <2>3
  <2>4. QED
    BY <2>2, <2>3
<1>7. QED
  BY <1>1, <1>5, <1>6 DEF Undisturbed

LEMMA QuietHandle ==
  ASSUME TypeOK, IInv, Undisturbed, NEW m \in Members, HandleOk(m)
  PROVE Undisturbed'
<1> DEFINE p == cur[m][1]
           i == cur[m][2]
<1>1. /\ pc[m] = "handle" /\ pc[m] \in Busy /\ cur[m] \notin handled
      /\ handled' = handled \cup {cur[m]} /\ repeated' = repeated
      /\ pc' = [pc EXCEPT ![m] = "commit"]
      /\ UNCHANGED <<owner, joined, assigned, pos, cur, stopping, deadLettered>>
  BY DEF HandleOk, Undisturbed, brokerVars, Busy
<1>2. /\ cur[m] = <<p, i>> /\ p \in Partitions /\ i \in 1..LogLen
      /\ p \in assigned[m] /\ i = pos[m][p] /\ m \in joined /\ owner[p] = m
  BY <1>1, InHand
<1>3. pc'[m] = "commit" /\ \A n \in Members \ {m} : pc'[n] = pc[n]
  BY <1>1 DEF TypeOK
<1>4. ASSUME NEW n \in Members
      PROVE /\ pc'[n] \notin {"dead", "down"}
            /\ n \notin joined => assigned[n] = {}
            /\ pc'[n] \in Busy => /\ cur[n][1] \in assigned[n] /\ cur[n][2] = pos[n][cur[n][1]]
            /\ pc'[n] = "handle" => cur[n] \notin handled'
            /\ pc'[n] \in {"dlt", "dltCommit"} => cur[n] \in Poison
  <2>1. CASE n = m
    BY <1>1, <1>2, <1>3, <2>1 DEF Undisturbed
  <2>2. CASE n # m
    <3>1. pc[n] \in Busy => owner[cur[n][1]] = n
      BY InHand
    <3>2. pc[n] = "handle" => cur[n] # cur[m]
      BY <1>2, <2>2, <3>1 DEF Busy
    <3>3. QED
      BY <1>1, <1>3, <2>2, <3>2 DEF Undisturbed
  <2>3. QED
    BY <2>1, <2>2
<1>5. ASSUME NEW q \in Partitions, NEW j \in 1..LogLen, <<q, j>> \in handled'
      PROVE owner[q] \in joined /\ j <= pos[owner[q]][q]
  <2>1. CASE <<q, j>> \in handled
    BY <2>1 DEF Undisturbed
  <2>2. CASE <<q, j>> = <<p, i>>
    BY <1>2, <2>2
  <2>3. QED
    BY <1>1, <1>2, <1>5, <2>1, <2>2
<1>6. QED
  BY <1>1, <1>4, <1>5 DEF Undisturbed

\* A member that joins had nothing, and nobody else has handled a message of the
\* partitions it is given.
LEMMA QuietJoin ==
  ASSUME TypeOK, Undisturbed, NEW m \in Members, Join(m)
  PROVE Undisturbed'
<1>1. /\ m \notin joined /\ joined' = joined \cup {m}
      /\ \A n \in Members \ {m} : assigned'[n] = assigned[n] /\ pos'[n] = pos[n]
      /\ UNCHANGED <<owner, pc, cur, stopping, handled, repeated, deadLettered>>
  BY DEF Join, TypeOK, effectVars
<1>2. pc[m] \notin Busy
  BY <1>1 DEF Undisturbed
<1>3. ASSUME NEW n \in Members
      PROVE /\ pc[n] \notin {"dead", "down"}
            /\ n \notin joined' => assigned'[n] = {}
            /\ pc[n] \in Busy => /\ cur[n][1] \in assigned'[n] /\ cur[n][2] = pos'[n][cur[n][1]]
            /\ pc[n] = "handle" => cur[n] \notin handled
            /\ pc[n] \in {"dlt", "dltCommit"} => cur[n] \in Poison
  BY <1>1, <1>2 DEF Undisturbed
<1>4. ASSUME NEW q \in Partitions, NEW j \in 1..LogLen, <<q, j>> \in handled
      PROVE owner[q] \in joined' /\ j <= pos'[owner[q]][q]
  <2>1. owner[q] \in joined /\ j <= pos[owner[q]][q] /\ owner[q] \in Members
    BY <1>4 DEF Undisturbed, TypeOK
  <2>2. QED
    BY <1>1, <2>1
<1>5. QED
  BY <1>1, <1>3, <1>4 DEF Undisturbed

LEMMA QuietStep == TypeOK /\ TypeOK' /\ IInv /\ QuietInv /\ [Next]_vars => QuietInv'
<1> SUFFICES ASSUME TypeOK, TypeOK', IInv, QuietInv, [Next]_vars, faults' = 0 PROVE Undisturbed'
  BY DEF QuietInv
<1>0. Fault("rebalance") \/ Fault("stop") \/ Fault("crash") \/ Fault("handler") \/ Fault("commit") \/ Fault("dlt") => FALSE
  BY FaultsGrow
<1>1. faults = 0 /\ Undisturbed
  <2>1. faults' = faults
    BY <1>0 DEF Next, TaskStep, vars, Rebalance, Join, Fetch, HandleOk, HandleFails, CommitOk, CommitFails, CommitRaises,
                DeadLetterOk, DeadLetterFails, DeadLetterCommitOk, DeadLetterCommitFails, Stop, Crash, Restart
  <2>2. QED
    BY <2>1 DEF QuietInv
<1>2. stopping = {} /\ deadLettered \subseteq Poison /\ \A m \in Members : pc[m] # "down"
  BY <1>1 DEF Undisturbed
<1>3. CASE Rebalance
  BY <1>0, <1>3 DEF Rebalance
<1>4. ASSUME NEW m \in Members, Join(m) PROVE Undisturbed'
  BY <1>1, <1>4, QuietJoin
<1>5. ASSUME NEW m \in Members, NEW p \in Partitions, Fetch(m, p) PROVE Undisturbed'
  BY <1>1, <1>5, QuietFetch
<1>6. ASSUME NEW m \in Members, HandleOk(m) PROVE Undisturbed'
  BY <1>1, <1>6, QuietHandle
<1>7. ASSUME NEW m \in Members, HandleFails(m) PROVE Undisturbed'
  BY <1>0, <1>1, <1>2, <1>7, QuietRetry DEF HandleFails
<1>8. ASSUME NEW m \in Members, CommitOk(m) \/ DeadLetterCommitOk(m) PROVE Undisturbed'
  <2>1. /\ pc[m] \in Busy /\ pc' = [pc EXCEPT ![m] = "idle"] /\ cur' = [cur EXCEPT ![m] = None]
        /\ UNCHANGED <<owner, joined, assigned, pos, stopping, handled, repeated, deadLettered>>
    BY <1>8 DEF CommitOk, DeadLetterCommitOk, LeaveProcess, Busy, effectVars
  <2>2. \A n \in Members \ {m} : cur'[n] = cur[n]
    BY <2>1 DEF TypeOK
  <2>3. "idle" \in Busy \cup {"idle"} /\ "idle" \notin Busy
    BY DEF Busy
  <2>4. QED
    BY <1>1, <1>2, <2>1, <2>2, <2>3, QuietMove
<1>9. ASSUME NEW m \in Members, CommitFails(m) \/ DeadLetterCommitFails(m) PROVE Undisturbed'
  <2>1. pc[m] \in Busy /\ CommitRaises(m)
    BY <1>9 DEF CommitFails, DeadLetterCommitFails, Busy
  <2>2. m \in joined
    BY <1>1, <2>1, InHand
  <2>3. QED
    BY <1>0, <2>1, <2>2 DEF CommitRaises, CommitAccepted
<1>10. ASSUME NEW m \in Members, DeadLetterOk(m) PROVE Undisturbed'
  <2>1. /\ pc[m] = "dlt" /\ deadLettered' = deadLettered \cup {cur[m]} /\ pc' = [pc EXCEPT ![m] = "dltCommit"]
        /\ UNCHANGED <<owner, joined, assigned, pos, cur, stopping, handled, repeated>>
    BY <1>10 DEF DeadLetterOk, brokerVars
  <2>2. cur[m] \in Poison
    BY <1>1, <2>1 DEF Undisturbed
  <2>3. pc[m] \in Busy /\ "dltCommit" \in Busy \cup {"idle"}
    BY <2>1 DEF Busy
  <2>4. QED
    BY <1>1, <1>2, <2>1, <2>2, <2>3, QuietMove
<1>11. ASSUME NEW m \in Members, DeadLetterFails(m) PROVE Undisturbed'
  BY <1>0, <1>2, <1>11 DEF DeadLetterFails
<1>12. ASSUME NEW m \in Members, Stop(m) \/ Crash(m) \/ Restart(m) PROVE Undisturbed'
  BY <1>0, <1>2, <1>12 DEF Stop, Crash, Restart
<1>13. CASE UNCHANGED vars
  BY <1>1, <1>13 DEF vars, brokerVars, memberVars, effectVars, Undisturbed
<1>14. QED
  BY <1>3, <1>4, <1>5, <1>6, <1>7, <1>8, <1>9, <1>10, <1>11, <1>12, <1>13 DEF Next, TaskStep

\* For every group and topic: as long as nothing disturbs the consumers, they handle no
\* message twice, although attempts, commits and partitions interleave, and dead-letter
\* nothing but poison.
THEOREM ExactlyOnce == Spec => []QuietRunExactlyOnce
<1>1. Init => QuietInv
  BY DEF Init, QuietInv, Undisturbed, Busy
<1>2. QuietInv => QuietRunExactlyOnce
  BY DEF QuietInv, Undisturbed, QuietRunExactlyOnce
<1>3. QED
  BY <1>1, <1>2, QuietStep, TypeCorrect, Invariant, PTL DEF Spec
=============================================================================

----------------------- MODULE ReportLifecycle_proofs -----------------------
(***************************************************************************)
(* Theorems about ReportLifecycle, for every set of reports and workers,   *)
(* every filter and any number of disturbances.                            *)
(***************************************************************************)
EXTENDS ReportLifecycle, SumTheorems

LEMMA DisturbedType ==
  ASSUME faults \in 0..MaxFaults, Disturbed
  PROVE faults' \in 0..MaxFaults
  BY ReportAssumption DEF Disturbed

LEMMA FreeType == Free \in Work /\ Free.pc = "idle" /\ Free.report = Nothing
  BY DEF Free, Work, Data

Stages == {"begin", "load", "enrich", "store", "write", "finish", "announce"}

\* What a worker holds fits its program counter.
Coherent(w) ==
  /\ worker[w].pc = "idle" <=> worker[w].report = Nothing
  /\ worker[w].pc = "enrich" => Type[worker[w].report] # "csv"
  /\ worker[w].pc \in {"store", "write"} => worker[w].data \in DraftsOf(worker[w].report)

\* A step of worker w, and of no other.
Worked(w) ==
  /\ worker' \in [Workers -> Work]
  /\ Coherent(w)'
  /\ \A v \in Workers : v # w => worker'[v] = worker[v]

\* A worker that is busy has a report.
LEMMA Busy ==
  ASSUME TypeOK, NEW w \in Workers
  PROVE  /\ worker[w].pc # "idle" => worker[w].report \in Reports
         /\ worker[w].pc \in Stages \cup {"idle"}
         /\ Coherent(w)
<1>1. worker[w] \in Work /\ Coherent(w)
  BY DEF TypeOK, Coherent
<1>2. QED
  BY <1>1 DEF Work, Stages, Coherent

LEMMA LeaveType ==
  ASSUME TypeOK, NEW w \in Workers, Leave(w)
  PROVE  Worked(w) /\ worker'[w].pc = "idle" /\ worker'[w].report = Nothing
<1>1. worker \in [Workers -> Work] /\ worker' = [worker EXCEPT ![w] = Free]
  BY DEF TypeOK, Leave
<1>2. worker'[w] = Free /\ \A v \in Workers : v # w => worker'[v] = worker[v]
  BY <1>1
<1>3. worker' \in [Workers -> Work]
  BY <1>1, FreeType
<1>4. QED
  BY <1>2, <1>3, FreeType DEF Worked, Coherent

LEMMA TakeType ==
  ASSUME TypeOK, NEW w \in Workers, NEW r \in Reports, Take(w, r)
  PROVE  Worked(w) /\ worker[w].report = Nothing /\ worker'[w].pc = "begin" /\ worker'[w].report = r
<1> DEFINE new == [Free EXCEPT !.pc = "begin", !.report = r]
<1>1. new \in Work /\ new.pc = "begin" /\ new.report = r
  BY DEF Free, Work, Data
<1>2. /\ worker \in [Workers -> Work] /\ worker' = [worker EXCEPT ![w] = new]
      /\ worker[w].report = Nothing
  BY Busy DEF TypeOK, Take, Coherent
<1> HIDE DEF new
<1>3. worker'[w] = new /\ worker' \in [Workers -> Work] /\ \A v \in Workers : v # w => worker'[v] = worker[v]
  BY <1>1, <1>2
<1>4. QED
  BY <1>1, <1>2, <1>3, ReportAssumption DEF Worked, Coherent

\* The step of a worker from one program counter to the next, with what it had or
\* with other data.
LEMMA GotoType ==
  ASSUME TypeOK, NEW w \in Workers, worker[w].pc # "idle", NEW next \in Stages,
         NEW data \in Data, (Goto(w, next) /\ data = worker[w].data) \/ GotoWith(w, next, data),
         next = "enrich" => Type[worker[w].report] # "csv",
         next \in {"store", "write"} => data \in DraftsOf(worker[w].report)
  PROVE  Worked(w) /\ worker'[w].pc = next /\ worker'[w].report = worker[w].report
<1> DEFINE new == [worker[w] EXCEPT !.pc = next, !.data = data]
<1>1. worker \in [Workers -> Work] /\ worker[w] \in Work /\ worker[w].report \in Reports
  BY Busy DEF TypeOK
<1>2. new \in Work /\ new.pc = next /\ new.report = worker[w].report /\ new.data = data
  BY <1>1 DEF Work, Stages
<1>3. worker'[w] = new /\ worker' \in [Workers -> Work] /\ \A v \in Workers : v # w => worker'[v] = worker[v]
  <2>1. CASE Goto(w, next) /\ data = worker[w].data
    <3>1. worker' = [worker EXCEPT ![w] = [worker[w] EXCEPT !.pc = next]]
      BY <2>1 DEF Goto
    <3>2. [worker[w] EXCEPT !.pc = next] = new
      BY <1>1, <2>1 DEF Work
    <3> HIDE DEF new
    <3>3. QED
      BY <1>1, <1>2, <3>1, <3>2
  <2>2. CASE GotoWith(w, next, data)
    <3>1. worker' = [worker EXCEPT ![w] = new]
      BY <1>1, <2>2 DEF GotoWith
    <3> HIDE DEF new
    <3>2. QED
      BY <1>1, <1>2, <3>1
  <2>3. QED
    BY <2>1, <2>2
<1> HIDE DEF new
<1>4. Coherent(w)'
  BY <1>1, <1>2, <1>3, ReportAssumption DEF Coherent, Stages
<1>5. QED
  BY <1>2, <1>3, <1>4 DEF Worked

\* The steps of a worker that has begun, and where each leads.
LEMMA WorkerSteps ==
  ASSUME TypeOK, NEW w \in Workers
  PROVE  /\ Refuse(w) => worker[w].pc = "begin" /\ Leave(w)
         /\ Begin(w) => worker[w].pc = "begin" /\ (Leave(w) \/ (Worked(w) /\ worker'[w].pc = "load" /\ worker'[w].report = worker[w].report))
         /\ Load(w) => worker[w].pc = "load" /\ (Leave(w) \/ (Worked(w) /\ worker'[w].pc \in {"enrich", "store"} /\ worker'[w].report = worker[w].report))
         /\ Enrich(w) => worker[w].pc = "enrich" /\ (Leave(w) \/ (Worked(w) /\ worker'[w].pc = "store" /\ worker'[w].report = worker[w].report))
         /\ Put(w) => worker[w].pc = "store" /\ Worked(w) /\ worker'[w].pc = "finish" /\ worker'[w].report = worker[w].report
         /\ Truncate(w) => worker[w].pc = "store" /\ Worked(w) /\ worker'[w].pc = "write" /\ worker'[w].report = worker[w].report
         /\ Write(w) => worker[w].pc = "write" /\ Worked(w) /\ worker'[w].pc = "finish" /\ worker'[w].report = worker[w].report
         /\ Finish(w) => worker[w].pc = "finish" /\ Worked(w) /\ worker'[w].pc = "announce" /\ worker'[w].report = worker[w].report
         /\ Announce(w) => worker[w].pc = "announce" /\ Leave(w)
         /\ Fail(w) => worker[w].pc # "idle" /\ Leave(w)
<1> DEFINE r == worker[w].report
           Reaches(next) == Worked(w) /\ worker'[w].pc = next /\ worker'[w].report = r
<1>0. worker[w].pc # "idle" => r \in Reports /\ worker[w].data \in Data
  BY Busy DEF TypeOK, Work
<1>a. ASSUME NEW next \in {"load", "finish", "announce"}, worker[w].pc # "idle", Goto(w, next)
      PROVE  Reaches(next)
  BY <1>0, <1>a, GotoType DEF Stages
<1>b. \A q \in Reports : DraftsOf(q) \subseteq Data
  BY DEF Data
<1>1. ASSUME Begin(w)
      PROVE  worker[w].pc = "begin" /\ (Leave(w) \/ Reaches("load"))
  <2>1. worker[w].pc = "begin" /\ (Leave(w) \/ Goto(w, "load"))
    BY <1>1 DEF Begin
  <2>2. QED
    BY <1>a, <2>1
<1>2. ASSUME Load(w)
      PROVE  worker[w].pc = "load" /\ (Leave(w) \/ Reaches("enrich") \/ Reaches("store"))
  <2>1. /\ worker[w].pc = "load"
        /\ \/ Leave(w)
           \/ Type[r] = "csv" /\ GotoWith(w, "store", Plain)
           \/ Type[r] # "csv" /\ Goto(w, "enrich")
    BY <1>2 DEF Load
  <2>2. ASSUME Type[r] = "csv", GotoWith(w, "store", Plain) PROVE Reaches("store")
    <3>1. Plain \in DraftsOf(r)
      BY <2>2 DEF DraftsOf, Drafts
    <3>2. Plain \in Data
      BY <1>0, <1>b, <2>1, <3>1
    <3>3. QED
      BY <2>1, <2>2, <3>1, <3>2, GotoType DEF Stages
  <2>3. ASSUME Type[r] # "csv", Goto(w, "enrich") PROVE Reaches("enrich")
    BY <1>0, <2>1, <2>3, GotoType DEF Stages
  <2>4. QED
    BY <2>1, <2>2, <2>3
<1>3. ASSUME Enrich(w)
      PROVE  worker[w].pc = "enrich" /\ (Leave(w) \/ Reaches("store"))
  <2>1. PICK live \in Outcomes, top \in Heads(LoadDf(Filters[r])) :
          IF Drawable(top) THEN GotoWith(w, "store", [live |-> live, top |-> top]) ELSE Leave(w)
    BY <1>3 DEF Enrich
  <2>2. worker[w].pc = "enrich"
    BY <1>3 DEF Enrich
  <2>3. ASSUME Drawable(top) PROVE Reaches("store")
    <3>1. Type[r] # "csv"
      BY <2>2, Busy DEF Coherent
    <3>2. [live |-> live, top |-> top] \in DraftsOf(r)
      BY <2>3, <3>1 DEF DraftsOf, Drafts
    <3>3. GotoWith(w, "store", [live |-> live, top |-> top])
      BY <2>1, <2>3
    <3>4. [live |-> live, top |-> top] \in Data
      BY <1>0, <1>b, <2>2, <3>2
    <3>5. QED
      BY <2>2, <3>2, <3>3, <3>4, GotoType DEF Stages
  <2>4. QED
    BY <2>1, <2>2, <2>3
<1>4. ASSUME Truncate(w)
      PROVE  worker[w].pc = "store" /\ Reaches("write")
  <2>1. worker[w].pc = "store" /\ Goto(w, "write")
    BY <1>4 DEF Truncate
  <2>2. worker[w].data \in DraftsOf(r)
    BY <2>1, Busy DEF Coherent
  <2>3. QED
    BY <1>0, <2>1, <2>2, GotoType DEF Stages
<1>5. ASSUME Write(w) \/ Put(w)
      PROVE  (Write(w) => worker[w].pc = "write") /\ (Put(w) => worker[w].pc = "store") /\ Reaches("finish")
  <2>1. /\ (Write(w) => worker[w].pc = "write") /\ (Put(w) => worker[w].pc = "store")
        /\ worker[w].pc # "idle" /\ GotoWith(w, "finish", Nothing)
    BY <1>5 DEF Write, Put
  <2>2. Nothing \in Data
    BY DEF Data
  <2>3. QED
    BY <2>1, <2>2, GotoType DEF Stages
<1>6. ASSUME Finish(w)
      PROVE  worker[w].pc = "finish" /\ Reaches("announce")
  <2>1. worker[w].pc = "finish" /\ Goto(w, "announce")
    BY <1>6 DEF Finish
  <2>2. QED
    BY <1>a, <2>1
<1>7. /\ Refuse(w) => worker[w].pc = "begin" /\ Leave(w)
      /\ Announce(w) => worker[w].pc = "announce" /\ Leave(w)
      /\ Fail(w) => worker[w].pc # "idle" /\ Leave(w)
  BY DEF Refuse, Announce, Fail
<1>8. QED
  BY <1>1, <1>2, <1>3, <1>4, <1>5, <1>6, <1>7

\* ... in short: a step of a busy worker keeps its report or lays it down.
AnyStep(w) ==
  \/ Refuse(w) \/ Begin(w) \/ Load(w) \/ Enrich(w) \/ Put(w) \/ Truncate(w)
  \/ Write(w) \/ Finish(w) \/ Announce(w) \/ Fail(w)

LEMMA WorkerKeeps ==
  ASSUME TypeOK, NEW w \in Workers, AnyStep(w)
  PROVE  /\ worker[w].pc # "idle" /\ worker[w].report \in Reports
         /\ Worked(w)
         /\ \/ worker'[w].pc = "idle" /\ worker'[w].report = Nothing
            \/ worker'[w].report = worker[w].report
         /\ UNCHANGED <<bucket, queue, requestVars, unlinked, again, final>>
<1>1. /\ worker[w].pc # "idle"
      /\ \/ Leave(w)
         \/ Worked(w) /\ worker'[w].report = worker[w].report
  BY WorkerSteps DEF AnyStep
<1>2. Leave(w) => Worked(w) /\ worker'[w].pc = "idle" /\ worker'[w].report = Nothing
  BY LeaveType
<1>3. UNCHANGED <<bucket, queue, requestVars, unlinked, again, final>>
  BY DEF AnyStep, Refuse, Begin, Load, Enrich, Put, Truncate, Write, Finish, Announce, Fail, ghostVars
<1>4. QED
  BY <1>1, <1>2, <1>3, Busy

LEMMA WorkedType ==
  ASSUME TypeOK, NEW w \in Workers, Worked(w), pooled' \subseteq Workers,
         {queue', announced', lost', refused'} \subseteq SUBSET Reports,
         status' \in [Reports -> {"none", "queued", "processing", "done", "gone"}],
         key' \subseteq {r \in Reports : status'[r] \in {"processing", "done", "gone"}},
         DOMAIN files' = Reports, \A r \in Reports : files'[r] \in DraftsOf(r) \cup {Nothing, Torn},
         faults' \in 0..MaxFaults,
         UNCHANGED <<bucket, requestVars, again, unlinked, final>>
  PROVE TypeOK'
<1>1. /\ bucket' \in BOOLEAN
      /\ {key', queue', creating', deleting', announced', offered'} \subseteq SUBSET Reports
      /\ {lost', refused', again', unlinked', final'} \subseteq SUBSET Reports
  BY DEF TypeOK, requestVars
<1>2. \A v \in Workers : Coherent(v)'
  <2> TAKE v \in Workers
  <2>1. CASE v = w
    BY <2>1 DEF Worked
  <2>2. CASE v # w
    <3>1. worker'[v] = worker[v] /\ Coherent(v)
      BY <2>2, Busy DEF Worked
    <3>2. QED
      BY <3>1 DEF Coherent
  <2>3. QED
    BY <2>1, <2>2
<1>3. QED
  BY <1>1, <1>2 DEF TypeOK, Worked, Coherent


\* Every variable of the report service keeps its type: a path is set only on a
\* row that was worked on, a file holds a draft of its own report, and a worker
\* holds a report exactly while it is busy.
THEOREM TypeCorrect == Spec => []TypeOK
<1>1. Init => TypeOK
  BY ReportAssumption, FreeType DEF Init, TypeOK, Free
<1>2. TypeOK /\ [Next]_vars => TypeOK'
  <2> SUFFICES ASSUME TypeOK, [Next]_vars
               PROVE TypeOK'
    OBVIOUS
  <2> USE ReportAssumption DEF workVars, requestVars, ghostVars
  <2>1. ASSUME NEW r \in Reports, Create(r)
        PROVE TypeOK'
    BY <2>1 DEF Create, TypeOK
  <2>2. ASSUME NEW r \in Reports, Delay(r)
        PROVE TypeOK'
    BY <2>2 DEF Delay, TypeOK
  <2>3. ASSUME NEW r \in Reports, DelayFails(r)
        PROVE TypeOK'
    BY <2>3, DisturbedType DEF DelayFails, TypeOK
  <2>4. ASSUME NEW r \in Reports, Redeliver(r)
        PROVE TypeOK'
    BY <2>4, DisturbedType DEF Redeliver, TypeOK
  <2>5. ASSUME NEW r \in Reports, DeleteFile(r)
        PROVE TypeOK'
    <3>1. DOMAIN files' = Reports /\ \A q \in Reports : files'[q] \in DraftsOf(q) \cup {Nothing, Torn}
      BY <2>5 DEF DeleteFile, TypeOK
    <3>2. QED
      BY <2>5, <3>1 DEF DeleteFile, Local, TypeOK
  <2>6. ASSUME NEW r \in Reports, DeleteRow(r)
        PROVE TypeOK'
    BY <2>6 DEF DeleteRow, TypeOK
  <2>7. ASSUME NEW r \in Reports, DeleteFails(r)
        PROVE TypeOK'
    BY <2>7, DisturbedType DEF DeleteFails, TypeOK
  <2>8. ASSUME NEW w \in Workers, NEW r \in Reports, Take(w, r)
        PROVE TypeOK'
    <3>1. Worked(w)
      BY <2>8, TakeType
    <3>2. QED
      BY <2>8, <3>1, WorkedType DEF Take, TypeOK
  <2>9. /\ status \in [Reports -> {"none", "queued", "processing", "done", "gone"}]
        /\ key \subseteq {r \in Reports : status[r] \in {"processing", "done", "gone"}}
        /\ {queue, announced, lost, refused} \subseteq SUBSET Reports
        /\ pooled \subseteq Workers
        /\ DOMAIN files = Reports /\ \A r \in Reports : files[r] \in DraftsOf(r) \cup {Nothing, Torn}
        /\ faults \in 0..MaxFaults
    BY DEF TypeOK
  <2>10. ASSUME NEW w \in Workers, AnyStep(w),
                status' \in [Reports -> {"none", "queued", "processing", "done", "gone"}],
                key' \subseteq {r \in Reports : status'[r] \in {"processing", "done", "gone"}},
                DOMAIN files' = Reports, \A r \in Reports : files'[r] \in DraftsOf(r) \cup {Nothing, Torn}
         PROVE  TypeOK'
    <3>1. Worked(w) /\ worker[w].report \in Reports /\ UNCHANGED <<bucket, queue, requestVars, again, unlinked, final>>
      BY <2>10, WorkerKeeps
    <3>2. /\ {announced', lost', refused'} \subseteq SUBSET Reports
          /\ pooled' \subseteq Workers
          /\ faults' \in 0..MaxFaults
      BY <2>9, <2>10, <3>1, DisturbedType
      DEF AnyStep, Refuse, Begin, Load, Enrich, Put, Truncate, Write, Finish, Announce, Fail
    <3>3. QED
      BY <2>9, <2>10, <3>1, <3>2, WorkedType
  <2>11. ASSUME NEW w \in Workers, Refuse(w) \/ Load(w) \/ Enrich(w) \/ Announce(w) \/ Fail(w)
         PROVE TypeOK'
    <3>1. AnyStep(w) /\ UNCHANGED <<status, key, files>>
      BY <2>11 DEF AnyStep, Refuse, Load, Enrich, Announce, Fail
    <3>2. QED
      BY <2>9, <2>10, <3>1
  <2>12. ASSUME NEW w \in Workers, Begin(w) \/ Finish(w)
         PROVE TypeOK'
    <3>1. AnyStep(w) /\ worker[w].report \in Reports
      BY <2>12, WorkerKeeps DEF AnyStep
    <3>2. UNCHANGED files
      BY <2>12 DEF Begin, Finish
    <3>3. /\ status' \in [Reports -> {"none", "queued", "processing", "done", "gone"}]
          /\ key' \subseteq {r \in Reports : status'[r] \in {"processing", "done", "gone"}}
      BY <2>9, <2>12, <3>1 DEF Begin, Finish
    <3>4. QED
      BY <2>9, <2>10, <3>1, <3>2, <3>3
  <2>13. ASSUME NEW w \in Workers, Put(w) \/ Truncate(w) \/ Write(w)
         PROVE TypeOK'
    <3>1. AnyStep(w) /\ worker[w].report \in Reports /\ UNCHANGED <<status, key>>
      BY <2>13, WorkerKeeps DEF AnyStep, Put, Truncate, Write
    <3>2. worker[w].data \in DraftsOf(worker[w].report)
      BY <2>13, Busy DEF Put, Truncate, Write, Coherent
    <3>3. \/ UNCHANGED files
          \/ \E f \in {worker[w].data, Torn} : files' = [files EXCEPT ![worker[w].report] = f]
      BY <2>13 DEF Put, Truncate, Write
    <3>4. DOMAIN files' = Reports /\ \A r \in Reports : files'[r] \in DraftsOf(r) \cup {Nothing, Torn}
      BY <2>9, <3>1, <3>2, <3>3
    <3>5. QED
      BY <2>9, <2>10, <3>1, <3>4
  <2>14. CASE Poll
    BY <2>14 DEF Poll, ListReports, TypeOK
  <2>15. CASE UNCHANGED vars
    BY <2>15 DEF vars, TypeOK
  <2>16. QED
    BY <2>1, <2>2, <2>3, <2>4, <2>5, <2>6, <2>7, <2>8, <2>11, <2>12, <2>13,
       <2>14, <2>15 DEF Next, WorkerStep
<1>3. QED
  BY <1>1, <1>2, PTL DEF Spec

-----------------------------------------------------------------------------
\* A report that is not done is on its way, unless its filters are malformed, the
\* font cannot draw its keywords, its task met the connection of an earlier one or
\* a disturbance took it: every path of the handlers and of the worker that leaves
\* `queued` or `processing` behind is one of these.
THEOREM Limbo == Spec => []NoLimbo
<1>1. Init => NoLimbo
  BY DEF Init, NoLimbo
<1>2. TypeOK /\ NoLimbo /\ [Next]_vars => NoLimbo'
  <2> SUFFICES ASSUME TypeOK, NoLimbo, [Next]_vars
               PROVE NoLimbo'
    OBVIOUS
  <2> USE ReportAssumption DEF workVars, requestVars, ghostVars
  <2> DEFINE Busily == {"begin", "load", "enrich", "store", "write", "finish"}
             Excused == Malformed \cup CannotDraw \cup refused \cup lost
  <2>1. ASSUME NEW r \in Reports,
               Create(r) \/ Delay(r) \/ DelayFails(r) \/ Redeliver(r) \/ DeleteFile(r) \/ DeleteRow(r) \/ DeleteFails(r)
        PROVE NoLimbo'
    BY <2>1 DEF Create, Delay, DelayFails, Redeliver, DeleteFile, DeleteRow, DeleteFails, TypeOK, NoLimbo, At
  <2>2. ASSUME NEW w \in Workers, NEW r \in Reports, Take(w, r)
        PROVE NoLimbo'
    <3>1. Worked(w) /\ worker[w].report = Nothing /\ At(w, r, {"begin"})'
      BY <2>2, TakeType DEF At
    <3>2. QED
      BY <2>2, <3>1 DEF Take, Worked, NoLimbo, At
  <2>3. ASSUME NEW w \in Workers, AnyStep(w),
               \A q \in Reports : q # worker[w].report => status'[q] = status[q],
               \/ status'[worker[w].report] \notin {"queued", "processing"}
               \/ worker[w].report \in Excused'
               \/ worker'[w].pc \in Busily /\ worker'[w].report = worker[w].report,
               refused \subseteq refused', lost \subseteq lost'
        PROVE  NoLimbo'
    <3>1. /\ worker[w].report \in Reports /\ Worked(w) /\ UNCHANGED <<queue, creating>>
      BY <2>3, WorkerKeeps
    <3>2. ASSUME NEW q \in Reports, status'[q] \in {"queued", "processing"}, q \notin creating \cup queue \cup Excused'
          PROVE  \E v \in Workers : At(v, q, Busily)'
      <4>1. CASE q = worker[w].report
        BY <2>3, <3>2, <4>1 DEF At
      <4>2. CASE q # worker[w].report
        <5>1. status[q] \in {"queued", "processing"} /\ q \notin creating \cup queue \cup Excused
          BY <2>3, <3>2, <4>2
        <5>2. PICK v \in Workers : At(v, q, Busily)
          BY <5>1 DEF NoLimbo
        <5>3. v # w /\ worker'[v] = worker[v]
          BY <3>1, <4>2, <5>2 DEF At, Worked
        <5>4. QED
          BY <5>2, <5>3 DEF At
      <4>3. QED
        BY <4>1, <4>2
    <3>3. QED
      BY <3>1, <3>2 DEF NoLimbo
  <2>4. ASSUME NEW w \in Workers, Refuse(w) \/ Fail(w)
        PROVE NoLimbo'
    <3>1. AnyStep(w) /\ worker[w].report \in Excused' /\ UNCHANGED status /\ refused \subseteq refused' /\ lost \subseteq lost'
      BY <2>4 DEF AnyStep, Refuse, Fail
    <3>2. QED
      BY <2>3, <3>1
  <2>5. ASSUME NEW w \in Workers, Begin(w)
        PROVE NoLimbo'
    <3>1. AnyStep(w) /\ UNCHANGED <<refused, lost>> /\ worker[w].report \in Reports
      BY <2>5, WorkerKeeps DEF AnyStep, Begin
    <3>2. CASE status[worker[w].report] = "gone"
      <4>1. UNCHANGED status
        BY <2>5, <3>2 DEF Begin
      <4>2. QED
        BY <2>3, <3>1, <3>2, <4>1
    <3>3. CASE status[worker[w].report] # "gone"
      <4>1. Goto(w, "load") /\ worker[w].pc = "begin" /\ status' = [status EXCEPT ![worker[w].report] = "processing"]
        BY <2>5, <3>3 DEF Begin
      <4>2. worker'[w].pc = "load" /\ worker'[w].report = worker[w].report
        BY <3>1, <4>1 DEF Goto, TypeOK, Work
      <4>3. QED
        BY <2>3, <3>1, <4>1, <4>2 DEF TypeOK
    <3>4. QED
      BY <3>2, <3>3
  <2>6. ASSUME NEW w \in Workers, Load(w)
        PROVE NoLimbo'
    <3>1. AnyStep(w) /\ UNCHANGED <<status, refused, lost>>
      BY <2>6 DEF AnyStep, Load
    <3>2. CASE worker[w].report \in Malformed
      BY <2>3, <3>1, <3>2
    <3>3. CASE worker[w].report \notin Malformed
      <4>1. (Goto(w, "enrich") \/ GotoWith(w, "store", Plain)) /\ worker[w].pc = "load"
        BY <2>6, <3>3 DEF Load
      <4>2. worker'[w].pc \in Busily /\ worker'[w].report = worker[w].report
        BY <4>1 DEF Goto, GotoWith, TypeOK, Work
      <4>3. QED
        BY <2>3, <3>1, <4>2
    <3>4. QED
      BY <3>2, <3>3
  <2>7. ASSUME NEW w \in Workers, Enrich(w)
        PROVE NoLimbo'
    <3>1. AnyStep(w) /\ UNCHANGED <<status, refused, lost>> /\ worker[w].pc = "enrich" /\ worker[w].report \in Reports
      BY <2>7, WorkerKeeps DEF AnyStep, Enrich
    <3>2. PICK live \in Outcomes, top \in Heads(LoadDf(Filters[worker[w].report])) :
            IF Drawable(top) THEN GotoWith(w, "store", [live |-> live, top |-> top]) ELSE Leave(w)
      BY <2>7 DEF Enrich
    <3>3. CASE ~Drawable(top)
      <4>1. worker[w].report \in CannotDraw
        BY <3>1, <3>2, <3>3, Busy DEF Coherent, CannotDraw
      <4>2. QED
        BY <2>3, <3>1, <4>1
    <3>4. CASE Drawable(top)
      <4>1. worker'[w].pc = "store" /\ worker'[w].report = worker[w].report
        BY <3>2, <3>4 DEF GotoWith, TypeOK, Work
      <4>2. QED
        BY <2>3, <3>1, <4>1
    <3>5. QED
      BY <3>3, <3>4
  <2>8. ASSUME NEW w \in Workers, Put(w) \/ Truncate(w) \/ Write(w)
        PROVE NoLimbo'
    <3>1. AnyStep(w) /\ UNCHANGED <<status, refused, lost>>
      BY <2>8 DEF AnyStep, Put, Truncate, Write
    <3>2. worker'[w].pc \in Busily /\ worker'[w].report = worker[w].report
      BY <2>8, WorkerSteps
    <3>3. QED
      BY <2>3, <3>1, <3>2
  <2>9. ASSUME NEW w \in Workers, Finish(w)
        PROVE NoLimbo'
    <3>1. AnyStep(w) /\ UNCHANGED <<refused, lost>> /\ worker[w].report \in Reports
      BY <2>9, WorkerKeeps DEF AnyStep, Finish
    <3>2. (status[worker[w].report] = "gone" /\ UNCHANGED status) \/ status' = [status EXCEPT ![worker[w].report] = "done"]
      BY <2>9 DEF Finish
    <3>3. /\ status'[worker[w].report] \in {"done", "gone"}
          /\ \A q \in Reports : q # worker[w].report => status'[q] = status[q]
      BY <3>1, <3>2 DEF TypeOK
    <3>4. QED
      BY <2>3, <3>1, <3>3
  <2>10. ASSUME NEW w \in Workers, Announce(w)
         PROVE NoLimbo'
    <3>1. Worked(w) /\ worker[w].pc = "announce" /\ UNCHANGED <<status, creating, queue, refused, lost>>
      BY <2>10, WorkerSteps, LeaveType DEF Announce
    <3>2. \A q \in Reports, v \in Workers : At(v, q, Busily) => At(v, q, Busily)'
      BY <3>1 DEF At, Worked
    <3>3. QED
      BY <3>1, <3>2 DEF NoLimbo
  <2>11. CASE Poll \/ UNCHANGED vars
    BY <2>11 DEF Poll, vars, NoLimbo, At
  <2>12. QED
    BY <2>1, <2>2, <2>4, <2>5, <2>6, <2>7, <2>8, <2>9, <2>10, <2>11 DEF Next, WorkerStep
<1>3. QED
  BY <1>1, <1>2, TypeCorrect, PTL DEF Spec

-----------------------------------------------------------------------------
(* One run: what holds of a report whose task was delivered once. *)

\* A report no run has begun for: its row may have been deleted in the meantime.
Ahead(r) ==
  /\ status[r] \in {"queued", "gone"}
  /\ files[r] = Nothing
  /\ r \notin announced \cup key

\* How far a worker that is at pc has brought report r.
Stage(pc, r) ==
  /\ pc = "begin" => Ahead(r)
  /\ pc # "begin" => r \notin announced
  /\ pc \in {"load", "enrich", "store", "write", "finish"} => status[r] \in {"processing", "gone"} /\ r \notin key
  /\ pc \in {"load", "enrich", "store"} => files[r] = Nothing
  /\ pc = "write" => files[r] = Torn
  /\ pc \in {"finish", "announce"} => files[r] # Torn
  /\ pc = "announce" => status[r] \in {"done", "gone"}

\* The report has one task at most, in one place.
Once(r) ==
  /\ r \in unlinked => r \in key
  /\ r \in key => files[r] # Torn
  /\ status[r] = "none" => /\ r \notin creating \cup queue \cup announced \cup key
                           /\ files[r] = Nothing
                           /\ \A w \in Workers : worker[w].report # r
  /\ r \in creating => r \notin queue
  /\ r \in creating \cup queue => Ahead(r) /\ \A w \in Workers : worker[w].report # r
  /\ \A v, w \in Workers : worker[v].report = r /\ worker[w].report = r => v = w
  /\ \A w \in Workers : worker[w].report = r => Stage(worker[w].pc, r)

OnceInv == \A r \in Reports \ again : Once(r)

\* A step of the worker that has the report.
LEMMA OwnStep ==
  ASSUME TypeOK, NEW r \in Reports, Once(r), NEW w \in Workers, worker[w].report = r, Worked(w),
         UNCHANGED <<queue, creating, unlinked>>,
         worker'[w].report = Nothing \/ (worker'[w].report = r /\ Stage(worker[w].pc, r)'),
         status'[r] # "none", key \subseteq key', r \in key' => files'[r] # Torn
  PROVE  Once(r)'
<1>1. \A v \in Workers : v # w => worker'[v] = worker[v] /\ worker[v].report # r
  BY DEF Once, Worked
<1>2. r \notin creating' \cup queue'
  BY DEF Once
<1>3. \A v \in Workers : worker'[v].report = r => v = w /\ Stage(worker[v].pc, r)'
  BY <1>1, ReportAssumption
<1>4. r \in unlinked' => r \in key'
  BY DEF Once
<1>5. \A v \in Workers : worker'[v].report = r => Stage(worker[v].pc, r)'
  BY <1>3
<1>6. QED
  BY <1>2, <1>3, <1>4, <1>5 DEF Once

\* A step of something else.
LEMMA OtherStep ==
  ASSUME TypeOK, NEW r \in Reports, Once(r),
         status'[r] = status[r], files'[r] = files[r],
         r \in announced' <=> r \in announced, r \in key' <=> r \in key, r \in unlinked' <=> r \in unlinked,
         r \in queue' <=> r \in queue, r \in creating' <=> r \in creating,
         \A v \in Workers : /\ worker'[v].report = r <=> worker[v].report = r
                            /\ worker[v].report = r => worker'[v].pc = worker[v].pc
  PROVE  Once(r)'
<1>1. Ahead(r) => Ahead(r)'
  BY DEF Ahead
<1>2. \A v \in Workers : worker[v].report = r => Stage(worker[v].pc, r)'
  BY <1>1 DEF Once, Stage
<1>3. \A v \in Workers : worker'[v].report = r => Stage(worker[v].pc, r)'
  BY <1>2
<1>4. QED
  BY <1>1, <1>3 DEF Once

\* The steps of a worker.
LEMMA OnceWorks ==
  ASSUME TypeOK, NEW r \in Reports, Once(r), NEW w \in Workers, AnyStep(w)
  PROVE  Once(r)'
<1> DEFINE q == worker[w].report
<1>1. /\ worker[w].pc # "idle" /\ q \in Reports /\ Worked(w)
      /\ worker'[w].report \in {Nothing, q}
      /\ UNCHANGED <<queue, creating, unlinked>>
  BY WorkerKeeps DEF requestVars
<1>2. CASE q # r
  <2>1. \A v \in Workers : /\ worker'[v].report = r <=> worker[v].report = r
                           /\ worker[v].report = r => worker'[v].pc = worker[v].pc
    BY <1>1, <1>2, ReportAssumption DEF Worked
  <2>2. status'[r] = status[r] /\ files'[r] = files[r]
    BY <1>1, <1>2 DEF TypeOK, AnyStep, Refuse, Begin, Load, Enrich, Put, Truncate, Write, Finish, Announce, Fail
  <2>3. (r \in announced' <=> r \in announced) /\ (r \in key' <=> r \in key)
    BY <1>2 DEF AnyStep, Refuse, Begin, Load, Enrich, Put, Truncate, Write, Finish, Announce, Fail
  <2>4. QED
    BY <1>1, <2>1, <2>2, <2>3, OtherStep
<1>3. CASE q = r
  <2>1. Stage(worker[w].pc, r) /\ status[r] # "none" /\ r \notin creating \cup queue
    BY <1>3 DEF Once
  <2>2. ASSUME Leave(w), UNCHANGED <<status, files, key>>
        PROVE  Once(r)'
    <3>1. worker'[w].report = Nothing
      BY <2>2, LeaveType
    <3>2. QED
      BY <1>1, <1>3, <2>1, <2>2, <3>1, OwnStep DEF Once
  <2>3. CASE Refuse(w) \/ Announce(w) \/ Fail(w)
    BY <2>2, <2>3 DEF Refuse, Announce, Fail
  <2>4. CASE Begin(w)
    <3>1. worker[w].pc = "begin" /\ UNCHANGED <<files, key, announced>>
      BY <2>4 DEF Begin
    <3>2. CASE status[q] = "gone"
      BY <2>2, <2>4, <3>1, <3>2 DEF Begin
    <3>3. CASE status[q] # "gone"
      <4>1. Goto(w, "load") /\ status' = [status EXCEPT ![r] = "processing"]
        BY <1>3, <2>4, <3>3 DEF Begin
      <4>2. worker'[w].pc = "load" /\ worker'[w].report = r /\ status'[r] = "processing"
        BY <1>3, <4>1 DEF Goto, TypeOK, Work
      <4>3. Stage(worker[w].pc, r)'
        BY <2>1, <3>1, <4>2 DEF Stage, Ahead
      <4>4. r \in key' => files'[r] # Torn
        BY <3>1 DEF Once
      <4>5. QED
        BY <1>1, <1>3, <3>1, <4>2, <4>3, <4>4, OwnStep
    <3>4. QED
      BY <3>2, <3>3
  <2>5. CASE Load(w) \/ Enrich(w)
    <3>1. UNCHANGED <<status, files, key, announced>> /\ worker[w].pc \in {"load", "enrich"}
      BY <2>5 DEF Load, Enrich
    <3>2. Leave(w) \/ (worker'[w].pc \in {"enrich", "store"} /\ worker'[w].report = r)
      BY <1>3, <2>5, WorkerSteps
    <3>3. CASE worker'[w].pc \in {"enrich", "store"} /\ worker'[w].report = r
      <4>1. Stage(worker[w].pc, r)'
        BY <2>1, <3>1, <3>3 DEF Stage
      <4>2. r \in key' => files'[r] # Torn
        BY <3>1 DEF Once
      <4>3. QED
        BY <1>1, <1>3, <2>1, <3>1, <3>3, <4>1, <4>2, OwnStep
    <3>4. QED
      BY <2>2, <3>1, <3>2, <3>3
  <2>6. CASE Truncate(w)
    <3>1. /\ worker[w].pc = "store" /\ UNCHANGED <<status, key, announced>>
          /\ files' = [files EXCEPT ![r] = Torn]
      BY <1>3, <2>6 DEF Truncate
    <3>2. worker'[w].pc = "write" /\ worker'[w].report = r
      BY <1>3, <2>6, WorkerSteps
    <3>3. files'[r] = Torn
      BY <3>1 DEF TypeOK
    <3>4. r \notin key
      BY <2>1, <3>1 DEF Stage
    <3>5. Stage(worker[w].pc, r)'
      BY <2>1, <3>1, <3>2, <3>3 DEF Stage
    <3>6. QED
      BY <1>1, <1>3, <2>1, <3>1, <3>2, <3>4, <3>5, OwnStep
  <2>10. CASE Put(w)
    <3>1. /\ worker[w].pc = "store" /\ UNCHANGED <<status, key, announced>>
          /\ files' = [files EXCEPT ![r] = worker[w].data]
      BY <1>3, <2>10 DEF Put
    <3>2. worker'[w].pc = "finish" /\ worker'[w].report = r
      BY <1>3, <2>10, WorkerSteps
    <3>3. worker[w].data \in DraftsOf(r) /\ Torn \notin DraftsOf(r)
      BY <1>3, <3>1, Busy, ReportAssumption DEF Coherent, DraftsOf
    <3>4. files'[r] # Torn
      BY <3>1, <3>3 DEF TypeOK
    <3>5. Stage(worker[w].pc, r)'
      BY <2>1, <3>1, <3>2, <3>4 DEF Stage
    <3>6. QED
      BY <1>1, <1>3, <2>1, <3>1, <3>2, <3>4, <3>5, OwnStep
  <2>7. CASE Write(w)
    <3>1. /\ worker[w].pc = "write" /\ UNCHANGED <<status, key, announced>>
      BY <2>7 DEF Write
    <3>2. worker'[w].pc = "finish" /\ worker'[w].report = r
      BY <1>3, <2>7, WorkerSteps
    <3>3. r \notin key /\ r \notin unlinked /\ files[r] = Torn
      BY <2>1, <3>1 DEF Stage, Once
    <3>4. worker[w].data \in DraftsOf(r)
      BY <1>3, <3>1, Busy DEF Coherent
    <3>5. Torn \notin DraftsOf(r)
      BY ReportAssumption DEF DraftsOf
    <3>6. files' = [files EXCEPT ![r] = worker[w].data]
      BY <1>3, <2>7, <3>3, <3>5 DEF Write
    <3>7. files'[r] # Torn
      BY <3>4, <3>5, <3>6 DEF TypeOK
    <3>8. Stage(worker[w].pc, r)'
      BY <2>1, <3>1, <3>2, <3>7 DEF Stage
    <3>9. QED
      BY <1>1, <1>3, <2>1, <3>1, <3>2, <3>7, <3>8, OwnStep
  <2>8. CASE Finish(w)
    <3>1. worker[w].pc = "finish" /\ UNCHANGED <<files, announced>> /\ key \subseteq key'
      BY <2>8 DEF Finish
    <3>2. worker'[w].pc = "announce" /\ worker'[w].report = r
      BY <1>3, <2>8, WorkerSteps
    <3>3. status'[r] \in {"done", "gone"}
      BY <1>3, <2>8 DEF Finish, TypeOK
    <3>4. files'[r] # Torn
      BY <2>1, <3>1 DEF Stage
    <3>5. Stage(worker[w].pc, r)'
      BY <2>1, <3>1, <3>2, <3>3, <3>4 DEF Stage
    <3>6. QED
      BY <1>1, <1>3, <3>1, <3>2, <3>3, <3>4, <3>5, OwnStep
  <2>9. QED
    BY <2>3, <2>4, <2>5, <2>6, <2>7, <2>8, <2>10 DEF AnyStep
<1>4. QED
  BY <1>2, <1>3

LEMMA OnceInit == Init => OnceInv
BY ReportAssumption, FreeType DEF Init, OnceInv, Once

LEMMA OnceStep == TypeOK /\ OnceInv /\ [Next]_vars => OnceInv'
<1> SUFFICES ASSUME TypeOK, OnceInv, [Next]_vars, NEW r \in Reports, r \notin again'
             PROVE  Once(r)'
  BY DEF OnceInv
<1> USE ReportAssumption DEF workVars, requestVars, ghostVars
<1>1. again \subseteq again'
  <2>1. ASSUME NEW w \in Workers, AnyStep(w) PROVE again \subseteq again'
    BY <2>1, WorkerKeeps
  <2>2. ASSUME NEW w \in Workers, NEW q \in Reports, Take(w, q) PROVE again \subseteq again'
    BY <2>2 DEF Take
  <2>3. ASSUME NEW q \in Reports,
               Create(q) \/ Delay(q) \/ DelayFails(q) \/ Redeliver(q) \/ DeleteFile(q) \/ DeleteRow(q) \/ DeleteFails(q)
        PROVE  again \subseteq again'
    BY <2>3 DEF Create, Delay, DelayFails, Redeliver, DeleteFile, DeleteRow, DeleteFails
  <2>4. CASE Poll \/ UNCHANGED vars
    BY <2>4 DEF Poll, vars
  <2>5. QED
    BY <2>1, <2>2, <2>3, <2>4 DEF Next, WorkerStep, AnyStep
<1>2. Once(r)
  BY <1>1 DEF OnceInv
<1>3. ASSUME NEW w \in Workers, AnyStep(w) PROVE Once(r)'
  BY <1>2, <1>3, OnceWorks
<1>4. ASSUME NEW w \in Workers, NEW q \in Reports, Take(w, q)
      PROVE  Once(r)'
  <2>1. /\ q \in queue /\ queue' = queue \ {q}
        /\ UNCHANGED <<status, files, announced, creating, key, unlinked>>
    BY <1>4 DEF Take
  <2>2. Worked(w) /\ worker[w].report = Nothing /\ worker'[w].pc = "begin" /\ worker'[w].report = q
    BY <1>4, TakeType
  <2>3. CASE q = r
    <3>1. Ahead(r) /\ (\A v \in Workers : worker[v].report # r) /\ r \notin creating
      BY <1>2, <2>1, <2>3 DEF Once
    <3>2. Ahead(r)' /\ Stage("begin", r)'
      BY <2>1, <3>1 DEF Ahead, Stage
    <3>3. \A v \in Workers : worker'[v].report = r => v = w
      BY <2>2, <3>1 DEF Worked
    <3>4. \A v \in Workers : worker'[v].report = r => Stage(worker[v].pc, r)'
      BY <2>2, <3>2, <3>3
    <3>5. r \notin creating' \cup queue' /\ status'[r] # "none"
      BY <2>1, <2>3, <3>1 DEF Ahead
    <3>6. QED
      BY <1>2, <2>1, <3>3, <3>4, <3>5 DEF Once
  <2>4. CASE q # r
    <3>1. \A v \in Workers : /\ worker'[v].report = r <=> worker[v].report = r
                             /\ worker[v].report = r => worker'[v].pc = worker[v].pc
      BY <2>2, <2>4 DEF Worked
    <3>2. QED
      BY <1>2, <2>1, <2>4, <3>1, OtherStep
  <2>5. QED
    BY <2>3, <2>4
<1>5. ASSUME NEW q \in Reports,
             Create(q) \/ Delay(q) \/ DelayFails(q) \/ Redeliver(q) \/ DeleteFile(q) \/ DeleteRow(q) \/ DeleteFails(q)
      PROVE  Once(r)'
  <2>0. UNCHANGED worker
    BY <1>5 DEF Create, Delay, DelayFails, Redeliver, DeleteFile, DeleteRow, DeleteFails
  <2>1. CASE q # r
    <3>1. /\ status'[r] = status[r] /\ files'[r] = files[r]
          /\ r \in announced' <=> r \in announced
          /\ r \in key' <=> r \in key
          /\ r \in unlinked' <=> r \in unlinked
          /\ r \in queue' <=> r \in queue
          /\ r \in creating' <=> r \in creating
      BY <1>5, <2>1 DEF TypeOK, Create, Delay, DelayFails, Redeliver, DeleteFile, DeleteRow, DeleteFails
    <3>2. QED
      BY <1>2, <2>0, <3>1, OtherStep
  <2>2. CASE q = r
    <3>1. CASE Create(r)
      <4>1. status[r] = "none" /\ status'[r] = "queued" /\ creating' = creating \cup {r}
            /\ UNCHANGED <<files, announced, key, queue, unlinked>>
        BY <3>1 DEF Create, TypeOK
      <4>2. Ahead(r)'
        BY <1>2, <4>1 DEF Once, Ahead
      <4>3. QED
        BY <1>2, <2>0, <4>1, <4>2 DEF Once
    <3>2. CASE Delay(r)
      <4>1. r \in creating /\ creating' = creating \ {r} /\ queue' = queue \cup {r}
            /\ UNCHANGED <<status, files, announced, key, unlinked>>
        BY <3>2 DEF Delay
      <4>2. Ahead(r)'
        BY <1>2, <4>1 DEF Once, Ahead
      <4>3. QED
        BY <1>2, <2>0, <4>1, <4>2 DEF Once, Ahead
    <3>3. CASE DelayFails(r)
      <4>1. creating' = creating \ {r} /\ UNCHANGED <<status, files, announced, key, queue, unlinked>>
        BY <3>3 DEF DelayFails
      <4>2. (Ahead(r) => Ahead(r)') /\ \A pc \in Stages \cup {"idle"} : Stage(pc, r) => Stage(pc, r)'
        BY <4>1 DEF Ahead, Stage
      <4>3. QED
        BY <1>2, <2>0, <4>1, <4>2, Busy DEF Once
    <3>4. CASE Redeliver(r)
      BY <3>4 DEF Redeliver
    <3>5. CASE DeleteFile(r)
      <4>1. /\ UNCHANGED <<status, announced, key, queue, creating>>
            /\ unlinked' \subseteq unlinked \cup ({r} \cap key)
            /\ files'[r] \in {Nothing, files[r]}
            /\ r \notin key => files'[r] = files[r]
        BY <3>5 DEF DeleteFile, Local, TypeOK
      <4>2. Ahead(r) => Ahead(r)'
        BY <4>1 DEF Ahead
      <4>3. \A pc \in Stages \cup {"idle"} : Stage(pc, r) => Stage(pc, r)'
        BY <4>1, <4>2 DEF Stage, Stages
      <4>4. (r \in unlinked' => r \in key') /\ (r \in key' => files'[r] # Torn)
        BY <1>2, <4>1 DEF Once
      <4>5. \A w \in Workers : worker'[w].report = r => Stage(worker[w].pc, r)'
        BY <1>2, <2>0, <4>3, Busy DEF Once
      <4>6. QED
        BY <1>2, <2>0, <4>1, <4>2, <4>4, <4>5 DEF Once
    <3>6. CASE DeleteRow(r)
      <4>1. status'[r] = "gone" /\ UNCHANGED <<files, announced, key, queue, creating, unlinked>>
        BY <3>6 DEF DeleteRow, TypeOK
      <4>2. Ahead(r) => Ahead(r)'
        BY <4>1 DEF Ahead
      <4>3. \A pc \in Stages \cup {"idle"} : Stage(pc, r) => Stage(pc, r)'
        BY <4>1, <4>2 DEF Stage, Stages
      <4>4. \A w \in Workers : worker'[w].report = r => Stage(worker[w].pc, r)'
        BY <1>2, <2>0, <4>3, Busy DEF Once
      <4>5. QED
        BY <1>2, <2>0, <4>1, <4>2, <4>4 DEF Once
    <3>7. CASE DeleteFails(r)
      <4>1. UNCHANGED <<status, files, announced, key, queue, creating, unlinked>>
        BY <3>7 DEF DeleteFails
      <4>2. QED
        BY <1>2, <2>0, <4>1, OtherStep
    <3>8. QED
      BY <1>5, <2>2, <3>1, <3>2, <3>3, <3>4, <3>5, <3>6, <3>7
  <2>3. QED
    BY <2>1, <2>2
<1>6. CASE Poll \/ UNCHANGED vars
  <2>1. UNCHANGED <<status, files, announced, key, queue, creating, unlinked, worker>>
    BY <1>6 DEF Poll, vars
  <2>2. QED
    BY <1>2, <2>1, OtherStep
<1>7. QED
  BY <1>3, <1>4, <1>5, <1>6 DEF Next, WorkerStep, AnyStep

-----------------------------------------------------------------------------
\* A link is offered only for a row with a path, a row has a path only when its
\* file was written, and only a deletion takes the file away.
FileInv ==
  /\ offered \subseteq key
  /\ \A r \in key : files[r] # Nothing \/ r \in unlinked
  /\ \A w \in Workers : worker[w].pc \in {"write", "finish", "announce"} =>
       files[worker[w].report] # Nothing \/ worker[w].report \in unlinked

\* A request that follows an offered link and is let in finds a file, however long
\* the link has been on the page, unless somebody has deleted it, and the file is
\* whole unless the task came twice: a row gets its path after the file is written,
\* keeps it, and only a second run writes again.  Who is let in is not the subject.
THEOREM OfferedFiles == Spec => []OfferedFileKept
<1>1. Init => FileInv
  BY DEF Init, Free, FileInv
<1>2. TypeOK /\ FileInv /\ [Next]_vars => FileInv'
  <2> SUFFICES ASSUME TypeOK, FileInv, [Next]_vars
               PROVE FileInv'
    OBVIOUS
  <2> USE ReportAssumption DEF workVars, requestVars, ghostVars
  <2>1. ASSUME NEW r \in Reports,
               Create(r) \/ Delay(r) \/ DelayFails(r) \/ Redeliver(r) \/ DeleteRow(r) \/ DeleteFails(r)
        PROVE FileInv'
    BY <2>1 DEF Create, Delay, DelayFails, Redeliver, DeleteRow, DeleteFails, FileInv
  <2>2. ASSUME NEW r \in Reports, DeleteFile(r)
        PROVE FileInv'
    BY <2>2 DEF DeleteFile, Local, TypeOK, FileInv
  <2>3. ASSUME NEW w \in Workers, Worked(w), worker'[w].pc \notin {"write", "finish", "announce"},
               UNCHANGED <<key, files, offered, unlinked>>
        PROVE FileInv'
    BY <2>3 DEF Worked, FileInv
  <2>4. ASSUME NEW w \in Workers,
               Refuse(w) \/ Begin(w) \/ Load(w) \/ Enrich(w) \/ Announce(w) \/ Fail(w) \/ \E r \in Reports : Take(w, r)
        PROVE FileInv'
    <3>1. Worked(w) /\ worker'[w].pc \notin {"write", "finish", "announce"}
      BY <2>4, WorkerSteps, LeaveType, TakeType
    <3>2. QED
      BY <2>3, <2>4, <3>1 DEF Refuse, Begin, Load, Enrich, Announce, Fail, Take
  <2>5. ASSUME NEW w \in Workers, Put(w) \/ Truncate(w) \/ Write(w)
        PROVE FileInv'
    <3>1. /\ Worked(w) /\ worker'[w].report = worker[w].report /\ worker[w].report \in Reports
          /\ worker[w].pc \in {"store", "write"}
          /\ UNCHANGED <<key, offered, unlinked>>
      BY <2>5, WorkerSteps, Busy DEF Put, Truncate, Write
    <3>2. worker[w].data # Nothing /\ worker[w].data \in DraftsOf(worker[w].report)
      BY <3>1, Busy DEF Coherent, DraftsOf
    <3>3. \/ \E f \in {worker[w].data, Torn} : files' = [files EXCEPT ![worker[w].report] = f]
          \/ UNCHANGED files /\ worker[w].report \in unlinked
      BY <2>5 DEF Put, Truncate, Write
    <3>4. \A r \in Reports : files'[r] # Nothing \/ files'[r] = files[r]
      BY <3>1, <3>2, <3>3 DEF TypeOK
    <3>5. files'[worker[w].report] # Nothing \/ worker[w].report \in unlinked
      BY <3>1, <3>2, <3>3 DEF TypeOK
    <3>6. key \subseteq Reports /\ \A v \in Workers : worker[v].pc # "idle" => worker[v].report \in Reports
      BY Busy DEF TypeOK
    <3>7. QED
      BY <3>1, <3>4, <3>5, <3>6 DEF Worked, FileInv
  <2>6. ASSUME NEW w \in Workers, Finish(w)
        PROVE FileInv'
    <3>1. Worked(w) /\ worker'[w].report = worker[w].report
      BY <2>6, WorkerSteps
    <3>2. QED
      BY <2>6, <3>1 DEF Finish, Worked, FileInv
  <2>7. CASE Poll
    BY <2>7 DEF Poll, ListReports, DownloadUrl, FileInv
  <2>8. CASE UNCHANGED vars
    BY <2>8 DEF vars, FileInv
  <2>9. QED
    BY <2>1, <2>2, <2>4, <2>5, <2>6, <2>7, <2>8 DEF Next, WorkerStep
<1>3. TypeOK /\ FileInv /\ OnceInv => OfferedFileKept
  BY DEF TypeOK, FileInv, OnceInv, Once, Local, PresignedUrl, Download, OfferedFileKept
<1>4. QED
  BY <1>1, <1>2, <1>3, OnceInit, OnceStep, TypeCorrect, PTL DEF Spec

-----------------------------------------------------------------------------
\* generate_report runs once for a report as long as the broker does not deliver
\* its task again, whatever fails, is deleted and is generated beside it: a report
\* that is done does not go back to `processing`, its file is not written a second
\* time, and it is announced once on report-generated.
GeneratedOnce == [][
  \A r \in Reports \ again :
    /\ status[r] = "done" => status'[r] \in {"done", "gone"}
    /\ files[r] \in DraftsOf(r) => files'[r] \in {files[r], Nothing}
    /\ \A w \in Workers : At(w, r, {"announce"}) => r \notin announced]_vars

\* Begin meets no report that is done and Truncate no file, and a worker about to
\* announce a report is the first to do so.
THEOREM Generated == Spec => GeneratedOnce
<1>1. ASSUME TypeOK, OnceInv, [Next]_vars, NEW r \in Reports \ again
      PROVE  /\ status[r] = "done" => status'[r] \in {"done", "gone"}
             /\ files[r] \in DraftsOf(r) => files'[r] \in {files[r], Nothing}
             /\ \A w \in Workers : At(w, r, {"announce"}) => r \notin announced
  <2>1. Once(r) /\ r \in Reports /\ Nothing \notin DraftsOf(r) /\ Torn \notin DraftsOf(r)
    BY <1>1, ReportAssumption DEF OnceInv, DraftsOf
  <2>2. \A w \in Workers : At(w, r, {"announce"}) => r \notin announced
    BY <2>1 DEF Once, Stage, At
  <2>3. DOMAIN status = Reports /\ DOMAIN files = Reports
    BY <1>1 DEF TypeOK
  <2>4. ASSUME NEW w \in Workers, AnyStep(w)
        PROVE  status[r] = "done" => status'[r] \in {"done", "gone"}
    <3>1. status[r] = "done" /\ worker[w].report = r => worker[w].pc # "begin"
      BY <2>1 DEF Once, Stage, Ahead
    <3>2. \/ status' = status
          \/ worker[w].pc = "begin" /\ status' = [status EXCEPT ![worker[w].report] = "processing"]
          \/ status' = [status EXCEPT ![worker[w].report] = "done"]
      BY <2>4 DEF AnyStep, Refuse, Begin, Load, Enrich, Put, Truncate, Write, Finish, Announce, Fail
    <3>3. QED
      BY <2>1, <2>3, <3>1, <3>2
  <2>5. ASSUME NEW w \in Workers, AnyStep(w), files[r] \in DraftsOf(r)
        PROVE  files'[r] = files[r]
    <3>1. worker[w].report = r => worker[w].pc \notin {"store", "write"}
      BY <2>1, <2>5 DEF Once, Stage
    <3>2. files' = files \/ (worker[w].pc \in {"store", "write"} /\ \E f : files' = [files EXCEPT ![worker[w].report] = f])
      BY <2>5 DEF AnyStep, Refuse, Begin, Load, Enrich, Put, Truncate, Write, Finish, Announce, Fail
    <3>3. QED
      BY <2>1, <2>3, <3>1, <3>2
  <2>6. ASSUME NEW q \in Reports, Create(q) \/ DeleteFile(q) \/ DeleteRow(q)
        PROVE  /\ status[r] = "done" => status'[r] \in {"done", "gone"}
               /\ files'[r] \in {files[r], Nothing}
    <3>1. \/ status[q] = "none" /\ status' = [status EXCEPT ![q] = "queued"]
          \/ status' = [status EXCEPT ![q] = "gone"]
          \/ status' = status
      BY <2>6 DEF Create, DeleteFile, DeleteRow
    <3>2. files' = files \/ files' = [files EXCEPT ![q] = Nothing]
      BY <2>6 DEF Create, DeleteFile, DeleteRow
    <3>3. QED
      BY <2>1, <2>3, <3>1, <3>2
  <2>7. ASSUME \/ \E q \in Reports : Delay(q) \/ DelayFails(q) \/ Redeliver(q) \/ DeleteFails(q)
               \/ \E w \in Workers, q \in Reports : Take(w, q)
               \/ Poll \/ UNCHANGED vars
        PROVE  UNCHANGED <<status, files>>
    BY <2>7 DEF Delay, DelayFails, Redeliver, DeleteFails, Take, Poll, vars
  <2>8. QED
    BY <1>1, <2>2, <2>4, <2>5, <2>6, <2>7 DEF Next, WorkerStep, AnyStep
<1>2. TypeOK /\ OnceInv /\ [Next]_vars =>
        [\A r \in Reports \ again :
           /\ status[r] = "done" => status'[r] \in {"done", "gone"}
           /\ files[r] \in DraftsOf(r) => files'[r] \in {files[r], Nothing}
           /\ \A w \in Workers : At(w, r, {"announce"}) => r \notin announced]_vars
  BY <1>1
<1>3. QED
  BY <1>2, OnceInit, OnceStep, TypeCorrect, PTL DEF Spec, GeneratedOnce
-----------------------------------------------------------------------------
\* A report that create_report has not queued was never worked on, and one whose
\* deletion began when it was done has no local file and never gets one again.
FinalInv ==
  /\ \A r \in Reports : status[r] = "done" => r \in key
  /\ \A r \in Reports : status[r] = "none" => ~InWork(r)
  /\ \A r \in creating : ~InWork(r) /\ status[r] \in {"queued", "gone"}
  /\ \A r \in final : /\ ~InWork(r) /\ r \notin creating
                      /\ status[r] \in {"done", "gone"}
                      /\ files[r] = Nothing \/ bucket

\* Deleting a report that was done, and that no worker has, leaves no local file: only a
\* task of the report can write one, and there is none left.
THEOREM Deletion == Spec => []CleanDelete
<1>1. Init => FinalInv
  BY ReportAssumption DEF Init, Free, InWork, FinalInv
<1>2. TypeOK /\ FinalInv /\ [Next]_vars => FinalInv'
  <2> SUFFICES ASSUME TypeOK, FinalInv, [Next]_vars
               PROVE FinalInv'
    OBVIOUS
  <2> USE ReportAssumption DEF workVars, requestVars, ghostVars
  <2>1. ASSUME NEW r \in Reports,
               Create(r) \/ Delay(r) \/ DelayFails(r) \/ Redeliver(r) \/ DeleteRow(r) \/ DeleteFails(r)
        PROVE FinalInv'
    <3>1. CASE Create(r)
      BY <2>1, <3>1 DEF Create, InWork, TypeOK, FinalInv
    <3>2. CASE Delay(r)
      BY <2>1, <3>2 DEF Delay, InWork, TypeOK, FinalInv
    <3>3. CASE Redeliver(r)
      <4>1. InWork(r) /\ \A q \in Reports : InWork(q)' => InWork(q)
        BY <3>3 DEF Redeliver, InWork
      <4>2. QED
        BY <2>1, <3>3, <4>1 DEF Redeliver, TypeOK, FinalInv
    <3>4. CASE DelayFails(r) \/ DeleteRow(r) \/ DeleteFails(r)
      BY <2>1, <3>4 DEF DelayFails, DeleteRow, DeleteFails, InWork, TypeOK, FinalInv
    <3>5. QED
      BY <2>1, <3>1, <3>2, <3>3, <3>4
  <2>2. ASSUME NEW r \in Reports, DeleteFile(r)
        PROVE FinalInv'
    BY <2>2 DEF DeleteFile, Local, InWork, TypeOK, FinalInv
  <2>3. ASSUME NEW w \in Workers, NEW r \in Reports, Take(w, r)
        PROVE FinalInv'
    <3>1. Worked(w) /\ worker[w].report = Nothing /\ worker'[w].report = r
      BY <2>3, TakeType
    <3>2. InWork(r) /\ \A q \in Reports : InWork(q)' => InWork(q)
      BY <2>3, <3>1 DEF Take, Worked, InWork
    <3>3. QED
      BY <2>3, <3>2 DEF Take, FinalInv, TypeOK
  <2>4. ASSUME NEW w \in Workers, AnyStep(w)
        PROVE /\ worker[w].report \in Reports /\ InWork(worker[w].report)
              /\ \A q \in Reports : InWork(q)' => InWork(q)
              /\ UNCHANGED <<bucket, creating, final>>
    <3>1. /\ worker[w].report \in Reports /\ Worked(w) /\ UNCHANGED <<bucket, queue, creating, final>>
          /\ worker'[w].report \in {Nothing, worker[w].report}
      BY <2>4, WorkerKeeps
    <3>2. \A v \in Workers : worker'[v].report \in {Nothing, worker[v].report}
      BY <3>1 DEF Worked
    <3>3. QED
      BY <3>1, <3>2, ReportAssumption DEF InWork
  <2>5. ASSUME NEW w \in Workers, AnyStep(w),
               \A q \in Reports : q # worker[w].report => status'[q] = status[q] /\ files'[q] = files[q],
               \A q \in Reports : q \in key => q \in key',
               status'[worker[w].report] = "done" => worker[w].report \in key',
               status'[worker[w].report] = "none" => status[worker[w].report] = "none"
        PROVE  FinalInv'
    <3>1. /\ worker[w].report \in Reports /\ InWork(worker[w].report)
          /\ \A q \in Reports : InWork(q)' => InWork(q)
          /\ UNCHANGED <<bucket, creating, final>>
      BY <2>4, <2>5
    <3>2. creating \cup final \subseteq Reports
      BY DEF TypeOK
    <3>3. QED
      BY ONLY FinalInv, <2>5, <3>1, <3>2 DEF FinalInv
  <2>6. ASSUME NEW w \in Workers, Begin(w)
        PROVE FinalInv'
    <3>1. AnyStep(w) /\ worker[w].report \in Reports /\ UNCHANGED <<files, key>>
      BY <2>6, WorkerKeeps DEF AnyStep, Begin
    <3>2. status' = status \/ status' = [status EXCEPT ![worker[w].report] = "processing"]
      BY <2>6 DEF Begin
    <3>3. /\ \A q \in Reports : q # worker[w].report => status'[q] = status[q]
          /\ status'[worker[w].report] \in {status[worker[w].report], "processing"}
      BY <3>1, <3>2 DEF TypeOK
    <3>4. QED
      BY <2>5, <3>1, <3>3 DEF FinalInv
  <2>7. ASSUME NEW w \in Workers, Finish(w)
        PROVE FinalInv'
    <3>1. AnyStep(w) /\ worker[w].report \in Reports /\ UNCHANGED files
      BY <2>7, WorkerKeeps DEF AnyStep, Finish
    <3>2. \/ UNCHANGED <<status, key>>
          \/ status' = [status EXCEPT ![worker[w].report] = "done"] /\ key' = key \cup {worker[w].report}
      BY <2>7 DEF Finish
    <3>3. /\ \A q \in Reports : q # worker[w].report => status'[q] = status[q]
          /\ status'[worker[w].report] = "done" => worker[w].report \in key'
          /\ status'[worker[w].report] = "none" => status[worker[w].report] = "none"
      BY <3>1, <3>2 DEF TypeOK, FinalInv
    <3>4. QED
      BY <2>5, <3>1, <3>2, <3>3
  <2>8. ASSUME NEW w \in Workers,
               Refuse(w) \/ Load(w) \/ Enrich(w) \/ Put(w) \/ Truncate(w) \/ Write(w) \/ Announce(w) \/ Fail(w)
        PROVE FinalInv'
    <3>1. AnyStep(w) /\ worker[w].report \in Reports /\ UNCHANGED <<status, key>>
      BY <2>8, WorkerKeeps DEF AnyStep, Refuse, Load, Enrich, Put, Truncate, Write, Announce, Fail
    <3>2. UNCHANGED files \/ \E f : files' = [files EXCEPT ![worker[w].report] = f]
      BY <2>8 DEF Refuse, Load, Enrich, Put, Truncate, Write, Announce, Fail
    <3>3. \A q \in Reports : q # worker[w].report => files'[q] = files[q]
      BY <3>2 DEF TypeOK
    <3>4. QED
      BY <2>5, <3>1, <3>3 DEF FinalInv
  <2>9. CASE Poll \/ UNCHANGED vars
    BY <2>9 DEF Poll, vars, InWork, FinalInv
  <2>10. QED
    BY <2>1, <2>2, <2>3, <2>6, <2>7, <2>8, <2>9 DEF Next, WorkerStep
<1>3. FinalInv => CleanDelete
  BY DEF FinalInv, CleanDelete
<1>4. QED
  BY <1>1, <1>2, <1>3, TypeCorrect, PTL DEF Spec

(* What a file holds: facts about generate_report's figures for every set of *)
(* rows.                                                                     *)

\* The chart has a bar for every day with a row, and the bars add up.
LEMMA ChartCounts ==
  ASSUME NEW F, IsFiniteSet(F), \A r \in F : r.hour \in Int
  PROVE  SumFunction(TrendPng(F)) = Cardinality(F)
<1>1. CASE F = {}
  <2>1. TrendPng(F) = << >>
    BY <1>1 DEF TrendPng
  <2>2. DOMAIN << >> = {}
    OBVIOUS
  <2>3. QED
    BY <1>1, <2>1, <2>2, SumEmpty, FS_EmptySet DEF SumFunction
<1>2. CASE F # {}
  <2> DEFINE g == [r \in F |-> r.hour \div 24]
             days == {r.hour \div 24 : r \in F}
             D == Min(days)..Max(days)
             part == [d \in D |-> {r \in F : r.hour \div 24 = d}]
             h == [d \in D |-> Cardinality({r \in F : r.hour \div 24 = d})]
  <2>1. TrendPng(F) = h
    BY <1>2 DEF TrendPng
  <2>2. days = {g[r] : r \in F}
    OBVIOUS
  <2>3. \A r \in F : g[r] \in Int /\ g[r] \in days
    OBVIOUS
  <2>4. days \subseteq Int /\ days # {}
    BY <1>2
  <2>5. \A d \in D : part[d] \subseteq F /\ \A r \in F : r \in part[d] <=> g[r] = d
    OBVIOUS
  <2>6. \A d \in D : h[d] = Cardinality(part[d])
    OBVIOUS
  <2>7. DOMAIN h = D
    OBVIOUS
  <2> HIDE DEF g, part, h
  <2>8. IsFiniteSet({g[r] : r \in F})
    BY ImageFinite
  <2>9. IsFiniteSet(days)
    BY <2>2, <2>8
  <2> HIDE DEF days
  <2>10. /\ Min(days) \in Int /\ Max(days) \in Int
         /\ \A d \in days : Min(days) <= d /\ d <= Max(days)
    BY <2>4, <2>9, Extremes
  <2>11. IsFiniteSet(D) /\ \A r \in F : g[r] \in D
    BY <2>3, <2>10, FS_Interval
  <2> HIDE DEF D
  <2>12. SumFunctionOnSet(h, D) = Cardinality(F)
    BY <2>5, <2>6, <2>11, SumParts
  <2>13. QED
    BY <2>1, <2>7, <2>12 DEF SumFunction
<1>3. QED
  BY <1>1, <1>2

\* The keywords of a list count no more rows than there are.
LEMMA TopCounts ==
  ASSUME NEW F, IsFiniteSet(F), NEW top \in SUBSET {r.keyword : r \in F}
  PROVE  SumFunction([k \in top |-> Frequency(F, k)]) <= Cardinality(F)
<1> DEFINE D == {r.keyword : r \in F}
           g == [r \in F |-> r.keyword]
           part == [d \in D |-> OfKeyword(F, d)]
           h == [d \in D |-> Frequency(F, d)]
           f == [k \in top |-> Frequency(F, k)]
<1>1. /\ \A r \in F : g[r] \in D
      /\ \A d \in D : part[d] \subseteq F /\ \A r \in F : r \in part[d] <=> g[r] = d
      /\ \A d \in D : h[d] = Cardinality(part[d])
  BY DEF OfKeyword, Frequency
<1>2. D = {g[r] : r \in F}
  OBVIOUS
<1>3. top \in SUBSET D /\ DOMAIN f = top /\ \A k \in top : f[k] = h[k]
  OBVIOUS
<1> HIDE DEF D, g, part, h, f
<1>4. IsFiniteSet(D)
  BY <1>2, ImageFinite
<1>5. \A d \in D : h[d] \in Nat
  BY <1>1, FS_Subset, FS_CardinalityType
<1>6. SumFunctionOnSet(h, D) = Cardinality(F)
  BY <1>1, <1>4, SumParts
<1>7. IsFiniteSet(top)
  BY <1>3, <1>4, FS_Subset
<1>8. SumFunctionOnSet(f, top) = SumFunctionOnSet(h, top)
  BY <1>3, <1>5, <1>7, SumSame
<1>9. SumFunctionOnSet(h, top) <= SumFunctionOnSet(h, D)
  BY <1>3, <1>4, <1>5, SumSubset
<1>10. SumFunction(f) <= Cardinality(F)
  BY <1>3, <1>6, <1>8, <1>9 DEF SumFunction
<1>11. QED
  BY <1>10 DEF f

\* What a report is built from is a finite set of rows, and a file, of whatever
\* type and with or without a live summary, counts just these.
LEMMA ContentFits ==
  ASSUME NEW r \in Reports, NEW draft \in DraftsOf(r)
  PROVE  Fits[r][draft]
<1> DEFINE F == LoadDf(Filters[r])
           f == Content[r][draft]
<1>1. F \in SUBSET Rows
  BY DEF LoadDf
<1>2. IsFiniteSet(F) /\ \A x \in F : x.keyword \in Int /\ x.hour \in Int
  BY <1>1, FS_Subset, ReportAssumption
<1>3. f = Build(Type[r], Filters[r], draft)
  BY DEF Content
<1>4. Fits[r][draft] =
        LET n == Cardinality(F)
        IN IF f.type = "csv" THEN Cardinality(f.rows) = n
           ELSE /\ SumFunction(f.trend) = n /\ f.total = n
                /\ f.positive + f.negative <= n
                /\ SumFunction(f.top) <= n
                /\ f.live # Unavailable => f.live.total_mentions <= Cardinality(Rows)
  BY DEF Fits
<1>5. CASE Type[r] = "csv"
  <2>1. f = [type |-> "csv", rows |-> F]
    BY <1>3, <1>5 DEF Build, BuildCsv
  <2> HIDE DEF f, F
  <2>2. f.type = "csv" /\ f.rows = F
    BY <2>1
  <2>3. QED
    BY <1>4, <2>2
<1>6. CASE Type[r] # "csv"
  <2> DEFINE live == LiveSummary(draft.live)
             top == [k \in draft.top |-> Frequency(F, k)]
  <2>0. draft.top \in SUBSET {x.keyword : x \in F}
    BY <1>6 DEF DraftsOf, Drafts, Heads
  <2>1. f = [type |-> "pdf", total |-> Cardinality(F), positive |-> Having(F, "positive"),
             negative |-> Having(F, "negative"), live |-> live, trend |-> TrendPng(F), top |-> top]
    BY <1>3, <1>6 DEF Build, BuildPdf
  <2>2. SumFunction(TrendPng(F)) = Cardinality(F)
    <3> HIDE DEF F
    <3>1. QED
      BY <1>2, ChartCounts
  <2>3. SumFunction(top) <= Cardinality(F)
    <3> HIDE DEF F
    <3>1. QED
      BY <1>2, <2>0, TopCounts
  <2>4. Having(F, "positive") + Having(F, "negative") <= Cardinality(F)
    <3> DEFINE A == {x \in F : x.sentiment = "positive"}
               B == {x \in F : x.sentiment = "negative"}
    <3>1. A \in SUBSET F /\ B \in SUBSET F /\ A \cup B \in SUBSET F /\ A \cap B = {}
      OBVIOUS
    <3>2. Having(F, "positive") = Cardinality(A) /\ Having(F, "negative") = Cardinality(B)
      BY DEF Having
    <3> HIDE DEF A, B, F
    <3>3. IsFiniteSet(A) /\ IsFiniteSet(B) /\ Cardinality(A \cup B) <= Cardinality(F)
      BY <1>2, <3>1, FS_Subset
    <3>4. Cardinality(A \cup B) = Cardinality(A) + Cardinality(B) - Cardinality(A \cap B)
      BY <3>3, FS_Union
    <3>5. Cardinality(A \cap B) = 0
      BY <3>1, FS_EmptySet
    <3>6. Cardinality(A) \in Nat /\ Cardinality(B) \in Nat
      BY <3>3, FS_CardinalityType
    <3>7. QED
      BY <3>2, <3>3, <3>4, <3>5, <3>6
  <2>5. live # Unavailable => live.total_mentions <= Cardinality(Rows)
    <3> SUFFICES ASSUME live # Unavailable PROVE live.total_mentions <= Cardinality(Rows)
      OBVIOUS
    <3> DEFINE seen == InRange(Rows, Now - 720, Now)
    <3>1. live = GetAnalyticsSummary(Rows, Now - 720, Now)
      BY DEF LiveSummary
    <3>2. live.total_mentions = Cardinality(seen)
      BY <3>1 DEF GetAnalyticsSummary, Overview
    <3>3. seen \in SUBSET Rows
      BY DEF InRange
    <3> HIDE DEF seen
    <3>4. QED
      BY <3>2, <3>3, FS_Subset, ReportAssumption
  <2> HIDE DEF live, top, F, f
  <2>6. /\ f.type = "pdf" /\ f.total = Cardinality(F) /\ f.live = live /\ f.trend = TrendPng(F) /\ f.top = top
        /\ f.positive = Having(F, "positive") /\ f.negative = Having(F, "negative")
    BY <2>1
  <2>7. QED
    BY <1>4, <2>2, <2>3, <2>4, <2>5, <2>6
<1>7. QED
  BY <1>5, <1>6

\* Chart, totals and top keywords of every stored PDF count the mentions of its
\* filters, as the CSV does, and its live figures no more than there are.
THEOREM Fit == Spec => []FilesFit
<1>1. TypeOK => FilesFit
  <2> SUFFICES ASSUME NEW r \in Reports, files[r] \in DraftsOf(r)
               PROVE Fits[r][files[r]]
    BY DEF FilesFit
  <2>1. QED
    BY ContentFits
<1>2. QED
  BY <1>1, TypeCorrect, PTL

=============================================================================

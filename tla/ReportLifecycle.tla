--------------------------- MODULE ReportLifecycle ---------------------------
(***************************************************************************)
(* report-service: the REST handlers of routers/reports.py, the Celery     *)
(* queue and generate_report, with its files on the disk of the service or *)
(* in a bucket, and the page that polls the list.  Celery acknowledges a   *)
(* task before it runs and does not run a failed one again; but a task a   *)
(* worker holds for longer than the broker's visibility timeout comes a    *)
(* second time.                                                            *)
(*                                                                         *)
(* A worker is a process.  Every task runs in an event loop of its own     *)
(* (asyncio.run), but the engine and its pool belong to the process: the   *)
(* connection a task leaves in the pool is bound to a loop that is closed  *)
(* when the next task takes it.  That task fails and the pool drops the    *)
(* connection.                                                             *)
(***************************************************************************)
EXTENDS ReportContent

CONSTANTS
  Reports,    \* the ids of reports: each is created once
  Type,       \* Type[r]: "pdf" or "csv"
  Filters,    \* Filters[r], as far as they can be parsed
  Malformed,  \* reports with a date that fromisoformat rejects
  Workers,
  MaxReports, \* bound: reports created in a behaviour
  MaxFaults,  \* bound: disturbances in a behaviour
  Nothing,
  Torn        \* a file that is empty, or that two runs have mixed

ASSUME ReportAssumption ==
  /\ Malformed \subseteq Reports
  /\ MaxFaults \in Nat
  /\ Nothing \notin Reports \cup {Torn}
  /\ \A r \in Reports : {Nothing, Torn} \cap Drafts(Type[r], Filters[r]) = {}
  /\ IsFiniteSet(Rows)
  /\ \A r \in Rows : r.keyword \in Int /\ r.hour \in Int

VARIABLES
  bucket,     \* whether aws_bucket is set: files go to S3; configured once
  status,     \* status[r] of the row; "none" before, "gone" after it exists
  key,        \* reports whose row has s3_key set
  queue,      \* tasks in the broker
  creating,   \* reports committed by create_report and not yet queued
  deleting,   \* reports whose delete request has looked for the file
  worker,     \* worker[w]: [pc, report, data]
  pooled,     \* workers whose pool holds a connection of an earlier task
  files,      \* files[r]: the draft in the file, or the object, of r, or Nothing or Torn
  announced,  \* reports announced on report-generated
  offered,    \* reports with a download link on the page
  lost,       \* reports with a run, or a call of delay, that a disturbance ended
  refused,    \* reports with a task that met such a connection
  again,      \* reports with a task that was delivered again
  unlinked,   \* reports whose file a deletion has removed
  final,      \* reports that were done, and not in the hands of a worker, when it began
  faults

workVars == <<queue, worker, pooled, announced>>
requestVars == <<creating, deleting, offered>>
ghostVars == <<lost, refused, again, unlinked, final>>
vars == <<bucket, status, key, files, workVars, requestVars, ghostVars, faults>>

\* What a run can put into the file of r, and what such a file holds.
DraftsOf(r) == Drafts(Type[r], Filters[r])
Content == [r \in Reports |-> [draft \in DraftsOf(r) |-> Build(Type[r], Filters[r], draft)]]

\* PDFs that may have to list a keyword which the font cannot draw.
CannotDraw == {r \in Reports : Type[r] # "csv" /\ \E top \in Heads(LoadDf(Filters[r])) : ~Drawable(top)}

Data == {Nothing} \cup UNION {DraftsOf(r) : r \in Reports}
Work == [pc : {"idle", "begin", "load", "enrich", "store", "write", "finish", "announce"},
         report : Reports \cup {Nothing}, data : Data]
Free == [pc |-> "idle", report |-> Nothing, data |-> Nothing]
At(w, r, pcs) == worker[w].report = r /\ worker[w].pc \in pcs
InWork(r) == r \in queue \/ \E w \in Workers : worker[w].report = r

TypeOK ==
  /\ bucket \in BOOLEAN
  /\ status \in [Reports -> {"none", "queued", "processing", "done", "gone"}]
  /\ {key, queue, creating, deleting, announced, offered} \subseteq SUBSET Reports
  /\ {lost, refused, again, unlinked, final} \subseteq SUBSET Reports
  /\ key \subseteq {r \in Reports : status[r] \in {"processing", "done", "gone"}}
  /\ worker \in [Workers -> Work]
  /\ \A w \in Workers : /\ worker[w].pc = "idle" <=> worker[w].report = Nothing
                        /\ worker[w].pc = "enrich" => Type[worker[w].report] # "csv"
                        /\ worker[w].pc \in {"store", "write"} => worker[w].data \in DraftsOf(worker[w].report)
  /\ pooled \subseteq Workers
  /\ DOMAIN files = Reports /\ \A r \in Reports : files[r] \in DraftsOf(r) \cup {Nothing, Torn}
  /\ faults \in 0..MaxFaults

Init ==
  /\ bucket \in BOOLEAN
  /\ status = [r \in Reports |-> "none"]
  /\ key = {} /\ queue = {} /\ creating = {} /\ deleting = {}
  /\ worker = [w \in Workers |-> Free] /\ pooled = {}
  /\ files = [r \in Reports |-> Nothing]
  /\ announced = {} /\ offered = {}
  /\ lost = {} /\ refused = {} /\ again = {} /\ unlinked = {} /\ final = {}
  /\ faults = 0

Disturbed == faults < MaxFaults /\ faults' = faults + 1

-----------------------------------------------------------------------------
(* The REST handlers. *)

Room == Cardinality({r \in Reports : status[r] # "none"}) < MaxReports

\* Variant for mutation: the path, which the id and the type fix, is stored with
\* the new row.
CreateKeyed(r) ==
  /\ status[r] = "none" /\ Room
  /\ status' = [status EXCEPT ![r] = "queued"]
  /\ key' = key \cup {r}
  /\ creating' = creating \cup {r}
  /\ UNCHANGED <<bucket, files, workVars, deleting, offered, ghostVars, faults>>

\* create_report: the row is committed first.
Create(r) ==
  /\ status[r] = "none" /\ Room
  /\ status' = [status EXCEPT ![r] = "queued"]
  /\ creating' = creating \cup {r}
  /\ UNCHANGED <<bucket, key, files, workVars, deleting, offered, ghostVars, faults>>

\* ... then the task is queued.
Delay(r) ==
  /\ r \in creating
  /\ creating' = creating \ {r}
  /\ queue' = queue \cup {r}
  /\ UNCHANGED <<bucket, status, key, files, worker, pooled, announced, deleting, offered, ghostVars, faults>>

\* The broker is down or the process ends: the client gets an error, the row stays.
DelayFails(r) ==
  /\ r \in creating
  /\ Disturbed
  /\ creating' = creating \ {r}
  /\ lost' = lost \cup {r}
  /\ UNCHANGED <<bucket, status, key, files, workVars, deleting, offered, refused, again, unlinked, final>>

\* The path of a local file is where delete_report looks; the key of an object is
\* no such path.
Local(r) == r \in key /\ ~bucket

\* Variant for mutation: the file is left where it is.
DeleteFileSkipped(r) ==
  /\ status[r] \notin {"none", "gone"} /\ r \notin deleting
  /\ deleting' = deleting \cup {r}
  /\ unlinked' = IF Local(r) THEN unlinked \cup {r} ELSE unlinked
  /\ final' = IF status[r] = "done" /\ ~InWork(r) THEN final \cup {r} ELSE final
  /\ UNCHANGED <<bucket, status, key, files, workVars, creating, offered, lost, refused, again, faults>>

\* delete_report reads the row and removes the local file it names, if there is
\* one.  Nothing removes an object from the bucket.
DeleteFile(r) ==
  /\ status[r] \notin {"none", "gone"} /\ r \notin deleting
  /\ deleting' = deleting \cup {r}
  /\ files' = IF Local(r) THEN [files EXCEPT ![r] = Nothing] ELSE files
  /\ unlinked' = IF Local(r) THEN unlinked \cup {r} ELSE unlinked
  /\ final' = IF status[r] = "done" /\ ~InWork(r) THEN final \cup {r} ELSE final
  /\ UNCHANGED <<bucket, status, key, workVars, creating, offered, lost, refused, again, faults>>

\* ... then deletes the row.
DeleteRow(r) ==
  /\ r \in deleting
  /\ deleting' = deleting \ {r}
  /\ status' = [status EXCEPT ![r] = "gone"]
  /\ UNCHANGED <<bucket, key, files, workVars, creating, offered, ghostVars, faults>>

DeleteFails(r) ==
  /\ r \in deleting
  /\ Disturbed
  /\ deleting' = deleting \ {r}
  /\ UNCHANGED <<bucket, status, key, files, workVars, creating, offered, ghostVars>>

DownloadUrl(r) == status[r] = "done" /\ r \in key

\* A presigned link leads to the object for as long as the signature lasts, a day.
PresignedUrl(r) == bucket /\ files[r] # Nothing

\* Any other leads to download_report, which looks at the row, then for its file.
Download(r) == status[r] # "gone" /\ Local(r) /\ files[r] # Nothing

ListReports == {r \in Reports : DownloadUrl(r)}

\* The page asks for the list every five seconds.
Poll ==
  /\ offered' = ListReports
  /\ offered' # offered
  /\ UNCHANGED <<bucket, status, key, files, workVars, creating, deleting, ghostVars, faults>>

-----------------------------------------------------------------------------
(* The Celery worker. *)

Goto(w, next) == worker' = [worker EXCEPT ![w].pc = next]
GotoWith(w, next, data) == worker' = [worker EXCEPT ![w].pc = next, ![w].data = data]
Leave(w) == worker' = [worker EXCEPT ![w] = Free]

Take(w, r) ==
  /\ worker[w].pc = "idle" /\ r \in queue
  /\ queue' = queue \ {r}
  /\ worker' = [worker EXCEPT ![w] = [Free EXCEPT !.pc = "begin", !.report = r]]
  /\ UNCHANGED <<bucket, status, key, files, pooled, announced, requestVars, ghostVars, faults>>

\* A task held for longer than the visibility timeout comes again.
Redeliver(r) ==
  /\ \E w \in Workers : worker[w].report = r
  /\ Disturbed
  /\ queue' = queue \cup {r}
  /\ again' = again \cup {r}
  /\ final' = final \ {r}
  /\ UNCHANGED <<bucket, status, key, files, worker, pooled, announced, requestVars, lost, refused, unlinked>>

\* The pool hands out the connection of an earlier task: its ping raises, and it
\* is dropped.
Refuse(w) ==
  /\ worker[w].pc = "begin" /\ w \in pooled
  /\ pooled' = pooled \ {w}
  /\ refused' = refused \cup {worker[w].report}
  /\ Leave(w)
  /\ UNCHANGED <<bucket, status, key, files, queue, announced, requestVars, lost, again, unlinked, final, faults>>

\* The first transaction, on a new connection; without a row it raises.
Begin(w) ==
  LET r == worker[w].report IN
  /\ worker[w].pc = "begin" /\ w \notin pooled
  /\ pooled' = pooled \cup {w}
  /\ IF status[r] = "gone"
       THEN /\ Leave(w)
            /\ UNCHANGED status
       ELSE /\ status' = [status EXCEPT ![r] = "processing"]
            /\ Goto(w, "load")
  /\ UNCHANGED <<bucket, key, files, queue, announced, requestVars, ghostVars, faults>>

\* Malformed filters raise, and the status stays as it is.
Load(w) ==
  LET r == worker[w].report IN
  /\ worker[w].pc = "load"
  /\ CASE r \in Malformed    -> Leave(w)
       [] Type[r] = "csv"    -> GotoWith(w, "store", Plain)
       [] OTHER              -> Goto(w, "enrich")
  /\ UNCHANGED <<bucket, status, key, files, queue, pooled, announced, requestVars, ghostVars, faults>>

\* Variant for mutation: the error of the gRPC call is not caught.
EnrichRaises(w) ==
  /\ worker[w].pc = "enrich"
  /\ \E live \in Outcomes, top \in Heads(LoadDf(Filters[worker[w].report])) :
       IF live /\ Drawable(top) THEN GotoWith(w, "store", [live |-> live, top |-> top]) ELSE Leave(w)
  /\ UNCHANGED <<bucket, status, key, files, queue, pooled, announced, requestVars, ghostVars, faults>>

\* The live summary is best effort, build_pdf is not: it raises on a keyword that
\* the font cannot draw, and the status stays as it is.
Enrich(w) ==
  /\ worker[w].pc = "enrich"
  /\ \E live \in Outcomes, top \in Heads(LoadDf(Filters[worker[w].report])) :
       IF Drawable(top) THEN GotoWith(w, "store", [live |-> live, top |-> top]) ELSE Leave(w)
  /\ UNCHANGED <<bucket, status, key, files, queue, pooled, announced, requestVars, ghostVars, faults>>

\* store_report with a bucket: put_object replaces the object as a whole.
Put(w) ==
  /\ worker[w].pc = "store" /\ bucket
  /\ files' = [files EXCEPT ![worker[w].report] = worker[w].data]
  /\ GotoWith(w, "finish", Nothing)
  /\ UNCHANGED <<bucket, status, key, queue, pooled, announced, requestVars, ghostVars, faults>>

\* Variant for mutation: the status is set to done before the file is written.
TruncateLate(w) ==
  LET r == worker[w].report IN
  /\ worker[w].pc = "store" /\ ~bucket
  /\ status' = IF status[r] = "gone" THEN status ELSE [status EXCEPT ![r] = "done"]
  /\ key' = key \cup {r}
  /\ files' = [files EXCEPT ![r] = Torn]
  /\ Goto(w, "write")
  /\ UNCHANGED <<bucket, queue, pooled, announced, requestVars, ghostVars, faults>>

\* ... without one: the path is fixed by the report.  write_bytes opens the file,
\* which empties what is there,
Truncate(w) ==
  /\ worker[w].pc = "store" /\ ~bucket
  /\ files' = [files EXCEPT ![worker[w].report] = Torn]
  /\ Goto(w, "write")
  /\ UNCHANGED <<bucket, status, key, queue, pooled, announced, requestVars, ghostVars, faults>>

\* ... then writes.  A file that was removed stays so (whether one removed was the
\* one this run had opened is left open), and over what another run has written in
\* the meantime, which may be longer, the data can be mixed.
Write(w) ==
  LET r == worker[w].report
      data == worker[w].data
  IN
  /\ worker[w].pc = "write"
  /\ \/ r \in unlinked /\ UNCHANGED files
     \/ files[r] = Torn /\ files' = [files EXCEPT ![r] = data]
     \/ files[r] \in DraftsOf(r) /\ \E f \in {data, Torn} : files' = [files EXCEPT ![r] = f]
  /\ GotoWith(w, "finish", Nothing)
  /\ UNCHANGED <<bucket, status, key, queue, pooled, announced, requestVars, ghostVars, faults>>

\* Variant for mutation: engine.connect() in place of begin(), which never commits.
FinishUncommitted(w) ==
  /\ worker[w].pc = "finish"
  /\ Goto(w, "announce")
  /\ UNCHANGED <<bucket, status, key, files, queue, pooled, announced, requestVars, ghostVars, faults>>

\* The second transaction updates no row if the report is deleted.
Finish(w) ==
  LET r == worker[w].report IN
  /\ worker[w].pc = "finish"
  /\ IF status[r] = "gone"
       THEN UNCHANGED <<status, key>>
       ELSE /\ status' = [status EXCEPT ![r] = "done"]
            /\ key' = key \cup {r}
  /\ Goto(w, "announce")
  /\ UNCHANGED <<bucket, files, queue, pooled, announced, requestVars, ghostVars, faults>>

Announce(w) ==
  /\ worker[w].pc = "announce"
  /\ announced' = announced \cup {worker[w].report}
  /\ Leave(w)
  /\ UNCHANGED <<bucket, status, key, files, queue, pooled, requestVars, ghostVars, faults>>

\* The database, the disk or Kafka fails, or the worker dies: the task is over.
Fail(w) ==
  /\ worker[w].pc # "idle"
  /\ Disturbed
  /\ lost' = lost \cup {worker[w].report}
  /\ Leave(w)
  /\ pooled' \in {pooled \ {w}, pooled \cup {w}}
  /\ UNCHANGED <<bucket, status, key, files, queue, announced, requestVars, refused, again, unlinked, final>>

-----------------------------------------------------------------------------
WorkerStep(w) ==
  \/ \E r \in Reports : Take(w, r)
  \/ Refuse(w) \/ Begin(w) \/ Load(w) \/ Enrich(w)
  \/ Put(w) \/ Truncate(w) \/ Write(w) \/ Finish(w) \/ Announce(w)

Next ==
  \/ \E r \in Reports : \/ Create(r) \/ Delay(r) \/ DelayFails(r) \/ Redeliver(r)
                        \/ DeleteFile(r) \/ DeleteRow(r) \/ DeleteFails(r)
  \/ \E w \in Workers : WorkerStep(w) \/ Fail(w)
  \/ Poll

Spec == Init /\ [][Next]_vars

\* A request that has begun ends, and the workers take what is queued.
FairSpec ==
  /\ Spec
  /\ \A r \in Reports : WF_vars(Delay(r)) /\ WF_vars(DeleteRow(r))
  /\ \A w \in Workers : WF_vars(WorkerStep(w))

-----------------------------------------------------------------------------
\* A report that is not done is being worked on: it waits for delay, is in the
\* queue or in the hands of a worker.  Nothing in the code sets `failed`, so what
\* leaves it in limbo is only a malformed filter, a keyword the font cannot
\* draw, a worker whose pool held the connection of its last task, or a
\* disturbance; an analytics service that does not answer is none of these.
NoLimbo ==
  \A r \in Reports : status[r] \in {"queued", "processing"} =>
    \/ r \in creating \cup queue \cup Malformed \cup CannotDraw \cup refused \cup lost
    \/ \E w \in Workers : At(w, r, {"begin", "load", "enrich", "store", "write", "finish"})

\* Behind a link that the page has shown, however old, is the file of the report,
\* until its row is deleted or a deletion has removed the file; and the file is
\* whole, if its task was not delivered twice: a second run empties a local file
\* before it writes.  (This is what a request finds that is let in: the gateway
\* asks for a bearer token, which the page's plain link to the service does not
\* carry.)
OfferedFileKept ==
  \A r \in offered \ unlinked : /\ status[r] = "gone" \/ PresignedUrl(r) \/ Download(r)
                                /\ files[r] # Nothing
                                /\ files[r] = Torn => r \in again

\* The deletion of a report that was done and in no worker's hands leaves neither
\* a row nor a local file behind (one that overlaps a generation can leave a file).
CleanDelete == \A r \in final : status[r] = "gone" => files[r] = Nothing \/ bucket

\* The figures in a whole file fit the rows of its filters: chart, totals and top
\* keywords of a PDF count the same mentions that the CSV lists.
Fits == [r \in Reports |-> [draft \in DraftsOf(r) |->
  LET n == Cardinality(LoadDf(Filters[r]))
      f == Content[r][draft]
  IN IF f.type = "csv" THEN Cardinality(f.rows) = n
     ELSE /\ SumFunction(f.trend) = n /\ f.total = n
          /\ f.positive + f.negative <= n
          /\ SumFunction(f.top) <= n
          /\ f.live # Unavailable => f.live.total_mentions <= Cardinality(Rows)]]
FilesFit == \A r \in Reports : files[r] \in DraftsOf(r) => Fits[r][files[r]]

\* Every report that is asked for is done in the end, if it is not deleted, its
\* filters can be read, its keywords can be drawn, nothing fails, and its task
\* meets no connection of an earlier one.
EveryReportDone ==
  \A r \in Reports \ (Malformed \cup CannotDraw) :
    status[r] = "queued" ~> status[r] \in {"done", "gone"} \/ r \in lost \cup refused
=============================================================================

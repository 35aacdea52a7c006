--------------------------- MODULE ScrapePipeline ---------------------------
(***************************************************************************)
(* mention-service: run_scrape of app/pipeline.py, the Redis lock and      *)
(* dedup keys of app/redis_client.py, and the deletion of a keyword.       *)
(* Workers are concurrent calls of run_scrape (Celery workers, Beat ticks, *)
(* jobs queued by POST /mentions/scrape).                                  *)
(*                                                                         *)
(* One database transaction spans a whole run_scrape.  Redis keys and      *)
(* Kafka events take effect at once and do not roll back with it.  A scrape*)
(* is assumed to take less than the 24 hours of the dedup key.             *)
(*                                                                         *)
(* A worker is a process, and every task runs in an event loop of its own  *)
(* (asyncio.run), but the engine and its pool belong to the process: the   *)
(* connection that one task leaves there is bound to a loop that is closed *)
(* when the next takes it.  That task fails, and the pool drops it.  The   *)
(* Redis client belongs to the process as well; what its library does with *)
(* a connection of a closed loop is left to Fail and Crash.                *)
(***************************************************************************)
EXTENDS Naturals

CONSTANTS
  Workers,    \* concurrent runs of run_scrape
  Keywords,   \* keyword ids
  Urls,       \* urls of mentions
  Found,      \* Found[k]: the urls the sources return for keyword k
  Partial,    \* Partial[k]: what they return for k when some of them fail
  MaxFaults,  \* bound: disturbances in a behaviour
  Free        \* no lock holder, no keyword, no url

ASSUME ScrapeAssumption ==
  /\ Found \in [Keywords -> SUBSET Urls]
  /\ Partial \in [Keywords -> SUBSET SUBSET Urls]
  /\ MaxFaults \in Nat
  /\ Free \notin Workers \cup Keywords \cup Urls

\* A row of `mentions`.  Its id is a fresh uuid4: n numbers the inserts of a url
\* (a url is inserted again only after a fault or the deletion of a keyword, so
\* n stays below MaxFaults plus the number of keywords).
Mention == [url : Urls, keyword : Keywords, n : Nat]

VARIABLES
  keywords,        \* rows of table `keywords`
  mentions,        \* committed rows of table `mentions`
  lock,            \* scrape:lock:{k}: the worker that set the key
  lapsed,          \* keywords whose lock has run out while it was set
  claimed,         \* dedup:{sha256(url)} keys
  mentionCreated,  \* events on topic mention-created
  pc, todo, kw, pending, url, tx,  \* the locals of each run_scrape
  pooled,          \* workers whose engine has a connection in its pool
  inserts,         \* inserts[u]: mentions inserted for u, rolled back or not
  faults

taskVars == <<pc, todo, kw, pending, url, tx>>
runVars == <<taskVars, pooled>>
ownVars == <<keywords, lock, lapsed, claimed, runVars, inserts>>
vars == <<ownVars, mentions, mentionCreated, faults>>

TypeOK ==
  /\ keywords \subseteq Keywords
  /\ mentions \subseteq Mention
  /\ lock \in [Keywords -> Workers \cup {Free}]
  /\ lapsed \subseteq Keywords
  /\ claimed \subseteq Urls
  /\ mentionCreated \subseteq Mention
  /\ pc \in [Workers -> {"idle", "keywords", "urls", "insert", "publish"}]
  /\ todo \in [Workers -> SUBSET Keywords]
  /\ kw \in [Workers -> Keywords \cup {Free}]
  /\ pending \in [Workers -> SUBSET Urls]
  /\ url \in [Workers -> Urls \cup {Free}]
  /\ tx \in [Workers -> SUBSET Mention]
  /\ pooled \subseteq Workers
  /\ inserts \in [Urls -> Nat]
  /\ faults \in 0..MaxFaults

Init ==
  /\ keywords = Keywords
  /\ mentions = {}
  /\ lock = [k \in Keywords |-> Free]
  /\ lapsed = {}
  /\ claimed = {}
  /\ mentionCreated = {}
  /\ pc = [w \in Workers |-> "idle"]
  /\ todo = [w \in Workers |-> {}]
  /\ kw = [w \in Workers |-> Free]
  /\ pending = [w \in Workers |-> {}]
  /\ url = [w \in Workers |-> Free]
  /\ tx = [w \in Workers |-> {}]
  /\ pooled = {}
  /\ inserts = [u \in Urls |-> 0]
  /\ faults = 0

Goto(w, next) == pc' = [pc EXCEPT ![w] = next]

-----------------------------------------------------------------------------
\* The task starts: begin a transaction, on a new connection, and select the
\* active ones of the keywords asked for.
Start(w, selected) ==
  /\ pc[w] = "idle" /\ w \notin pooled
  /\ todo' = [todo EXCEPT ![w] = selected]
  /\ Goto(w, "keywords")
  /\ pooled' = pooled \cup {w}
  /\ UNCHANGED <<keywords, mentions, lock, lapsed, claimed, mentionCreated, kw, pending, url, tx, inserts, faults>>

\* A task, of Beat or of a request, meets the connection of an earlier one: its
\* ping raises, and the pool drops it.
Refuse(w) ==
  /\ pc[w] = "idle" /\ w \in pooled
  /\ pooled' = pooled \ {w}
  /\ UNCHANGED <<keywords, mentions, lock, lapsed, claimed, mentionCreated, taskVars, inserts, faults>>

\* scrape_all of the Beat schedule.  A request that names no keyword does the
\* same: `if keyword_ids` takes the empty list for None.
Beat(w) == Start(w, keywords)

\* scrape_keywords, for the keywords a request names.
Request(w, ids) == ids # {} /\ Start(w, keywords \cap ids)

Disturbed ==
  /\ faults < MaxFaults
  /\ faults' = faults + 1

\* What a keyword's sources return: a failure is logged, and the source goes on
\* with what it has.
Fetched(k, found) ==
  \/ found = Found[k] /\ UNCHANGED faults
  \/ found \in Partial[k] /\ Disturbed

\* acquire_scrape_lock (SET NX EX) succeeds: the sources are asked.
Acquire(w, k) ==
  /\ pc[w] = "keywords"
  /\ k \in todo[w]
  /\ lock[k] = Free
  /\ lock' = [lock EXCEPT ![k] = w]
  /\ todo' = [todo EXCEPT ![w] = @ \ {k}]
  /\ kw' = [kw EXCEPT ![w] = k]
  /\ \E found \in SUBSET Urls : /\ Fetched(k, found)
                               /\ pending' = [pending EXCEPT ![w] = found]
  /\ Goto(w, "urls")
  /\ UNCHANGED <<keywords, mentions, lapsed, claimed, mentionCreated, url, tx, pooled, inserts>>

\* Variant for mutation: the skip runs through the `finally` that releases.
SkipReleases(w, k) ==
  /\ pc[w] = "keywords"
  /\ k \in todo[w]
  /\ lock[k] # Free
  /\ lock' = [lock EXCEPT ![k] = Free]
  /\ todo' = [todo EXCEPT ![w] = @ \ {k}]
  /\ UNCHANGED <<keywords, mentions, lapsed, claimed, mentionCreated, pc, kw, pending, url, tx, pooled, inserts, faults>>

\* acquire_scrape_lock fails: another run scrapes the keyword, skip it.
Skip(w, k) ==
  /\ pc[w] = "keywords"
  /\ k \in todo[w]
  /\ lock[k] # Free
  /\ todo' = [todo EXCEPT ![w] = @ \ {k}]
  /\ UNCHANGED <<keywords, mentions, lock, lapsed, claimed, mentionCreated, pc, kw, pending, url, tx, pooled, inserts, faults>>

\* claim_url (SET NX EX): a url that is new is claimed, another is a duplicate.
Claim(w, u) ==
  /\ pc[w] = "urls"
  /\ u \in pending[w]
  /\ pending' = [pending EXCEPT ![w] = @ \ {u}]
  /\ IF u \in claimed
       THEN UNCHANGED <<claimed, url, pc>>
       ELSE /\ claimed' = claimed \cup {u}
            /\ url' = [url EXCEPT ![w] = u]
            /\ Goto(w, "insert")
  /\ UNCHANGED <<keywords, mentions, lock, lapsed, mentionCreated, todo, kw, tx, pooled, inserts, faults>>

\* Variant for mutation: the row goes in without its keyword_id.
NewMentionNoKeyword(w) == [url |-> url[w], keyword |-> Free, n |-> inserts[url[w]]]

\* The row of the insert: UNIQUE (source_url) and the foreign key must hold.
NewMention(w) == [url |-> url[w], keyword |-> kw[w], n |-> inserts[url[w]]]

\* Variant for mutation: no UNIQUE constraint on source_url.
ViolatesIntegrityNoUnique(w) == kw[w] \notin keywords

ViolatesIntegrity(w) ==
  \/ kw[w] \notin keywords
  \/ \E m \in mentions : m.url = url[w]

\* The savepoint around the insert.  An IntegrityError counts as a duplicate,
\* whichever constraint raised it; the claim stays.
Insert(w) ==
  /\ pc[w] = "insert"
  /\ IF ViolatesIntegrity(w)
       THEN /\ Goto(w, "urls")
            /\ url' = [url EXCEPT ![w] = Free]
            /\ UNCHANGED <<tx, inserts>>
       ELSE /\ tx' = [tx EXCEPT ![w] = @ \cup {NewMention(w)}]
            /\ inserts' = [inserts EXCEPT ![url[w]] = @ + 1]
            /\ Goto(w, "publish")
            /\ UNCHANGED url
  /\ UNCHANGED <<keywords, mentions, lock, lapsed, claimed, mentionCreated, todo, kw, pending, pooled, faults>>

\* The mention of this url in the open transaction.
OpenMention(w) == CHOOSE m \in tx[w] : m.url = url[w]

\* Variant for mutation: an error of publish is swallowed.
PublishLost(w) ==
  /\ pc[w] = "publish"
  /\ Goto(w, "urls")
  /\ url' = [url EXCEPT ![w] = Free]
  /\ UNCHANGED <<keywords, mentions, lock, lapsed, claimed, mentionCreated, todo, kw, pending, tx, pooled, inserts, faults>>

\* producer.publish waits for the acknowledgement, inside the transaction.
Publish(w) ==
  /\ pc[w] = "publish"
  /\ mentionCreated' = mentionCreated \cup {OpenMention(w)}
  /\ Goto(w, "urls")
  /\ url' = [url EXCEPT ![w] = Free]
  /\ UNCHANGED <<keywords, mentions, lock, lapsed, claimed, todo, kw, pending, tx, pooled, inserts, faults>>

\* release_scrape_lock deletes the key, whoever set it.
Released(k) == [lock EXCEPT ![k] = Free]

\* The sources are exhausted: the `finally` of the keyword.
FinishKeyword(w) ==
  /\ pc[w] = "urls"
  /\ pending[w] = {}
  /\ lock' = Released(kw[w])
  /\ kw' = [kw EXCEPT ![w] = Free]
  /\ Goto(w, "keywords")
  /\ UNCHANGED <<keywords, mentions, lapsed, claimed, mentionCreated, todo, pending, url, tx, pooled, inserts, faults>>

\* engine.begin() ends: all keywords' mentions become visible at once.
Commit(w) ==
  /\ pc[w] = "keywords"
  /\ todo[w] = {}
  /\ mentions' = mentions \cup tx[w]
  /\ tx' = [tx EXCEPT ![w] = {}]
  /\ Goto(w, "idle")
  /\ UNCHANGED <<keywords, lock, lapsed, claimed, mentionCreated, todo, kw, pending, url, pooled, inserts, faults>>

-----------------------------------------------------------------------------
\* The run is over without a commit: its rows are gone, its events and its
\* claims are not.
RollBack(w) ==
  /\ Disturbed
  /\ pc[w] # "idle"
  /\ Goto(w, "idle")
  /\ todo' = [todo EXCEPT ![w] = {}]
  /\ kw' = [kw EXCEPT ![w] = Free]
  /\ pending' = [pending EXCEPT ![w] = {}]
  /\ url' = [url EXCEPT ![w] = Free]
  /\ tx' = [tx EXCEPT ![w] = {}]
  /\ UNCHANGED <<keywords, mentions, lapsed, claimed, mentionCreated, inserts>>

\* An exception (publish gives up, Redis or the database fails) leaves
\* run_scrape through the `finally` of the keyword.  A connection that failed
\* does not go back to the pool.
Fail(w) ==
  /\ RollBack(w)
  /\ lock' = IF kw[w] = Free THEN lock ELSE Released(kw[w])
  /\ pooled' \in {pooled, pooled \ {w}}

\* The process is killed: nothing releases the lock, and another takes its place.
Crash(w) ==
  /\ RollBack(w)
  /\ pooled' = pooled \ {w}
  /\ UNCHANGED lock

\* SCRAPE_LOCK_TTL_SECONDS pass.
LockExpires(k) ==
  /\ lock[k] # Free
  /\ lock' = Released(k)
  /\ lapsed' = lapsed \cup {k}
  /\ UNCHANGED <<keywords, mentions, claimed, mentionCreated, runVars, inserts, faults>>

\* Variant for mutation: the key is set without an expiry.
ClaimForever(u) ==
  /\ FALSE
  /\ u \in claimed
  /\ UNCHANGED vars

\* DEDUP_TTL_SECONDS pass, more than any scrape takes.
ClaimExpires(u) ==
  /\ u \in claimed
  /\ \A w \in Workers : url[w] # u /\ \A m \in tx[w] : m.url # u
  /\ claimed' = claimed \ {u}
  /\ UNCHANGED <<keywords, mentions, lock, lapsed, mentionCreated, runVars, inserts, faults>>

\* delete_keyword: waits for the transactions that reference the keyword, and
\* ON DELETE CASCADE takes the committed mentions along.
DeleteKeyword(k) ==
  /\ k \in keywords
  /\ \A w \in Workers : \A m \in tx[w] : m.keyword # k
  /\ keywords' = keywords \ {k}
  /\ mentions' = {m \in mentions : m.keyword # k}
  /\ UNCHANGED <<lock, lapsed, claimed, mentionCreated, runVars, inserts, faults>>

\* What a running scrape does by itself.
RunStep(w) ==
  \/ \E k \in Keywords : Acquire(w, k) \/ Skip(w, k)
  \/ \E u \in Urls : Claim(w, u)
  \/ Insert(w)
  \/ Publish(w)
  \/ FinishKeyword(w)
  \/ Commit(w)

WorkerNext ==
  \/ \E w \in Workers : \/ Beat(w)
                        \/ \E ids \in SUBSET Keywords : Request(w, ids)
                        \/ Refuse(w)
                        \/ RunStep(w)
                        \/ Fail(w)
                        \/ Crash(w)
  \/ \E k \in Keywords : LockExpires(k)
  \/ \E u \in Urls : ClaimExpires(u)

Next == WorkerNext \/ \E k \in Keywords : DeleteKeyword(k)

Spec == Init /\ [][Next]_vars

\* A run that can go on goes on, Redis keys run out, and a task that Beat has
\* queued gets its turn whatever else is queued (the queue is FIFO).  That such
\* turns do not all meet the connection of an earlier task is an assumption: one
\* turn in two does, and nothing in the code keeps it from being Beat's.
FairSpec ==
  /\ Spec
  /\ \A w \in Workers : WF_vars(RunStep(w)) /\ WF_vars(Refuse(w)) /\ SF_vars(Beat(w))
  /\ \A k \in Keywords : WF_vars(LockExpires(k))
  /\ \A u \in Urls : WF_vars(ClaimExpires(u))

-----------------------------------------------------------------------------
\* No url is stored twice, for any interleaving of runs, expiries of the dedup
\* key, crashes and deletions of keywords.
UniqueUrl == \A m, n \in mentions : m.url = n.url => m = n

\* A mention that can be seen in the database has been announced on
\* mention-created ("publishes mention-created after each insert"): nothing is
\* committed past a publish that failed.
CommittedAnnounced == mentions \subseteq mentionCreated

\* One run at a time scrapes a keyword ("prevents parallel duplicate jobs"), as
\* long as its lock has never outlived SCRAPE_LOCK_TTL_SECONDS.
LockExcludes ==
  \A v, w \in Workers : v # w /\ kw[v] = kw[w] => kw[v] \in lapsed \cup {Free}

\* Whatever was claimed and then lost to a rollback, a crash or a deleted
\* keyword is found again: in the end every url the sources return for a
\* keyword that still exists is stored.
Stored(u) == \E m \in mentions : m.url = u
EveryFoundUrlStored == <>[](\A k \in keywords : \A u \in Found[k] : Stored(u))
=============================================================================

------------------------- MODULE MentionFlow_proofs -------------------------
(***************************************************************************)
(* Theorems about MentionFlow and about ScrapePipeline, which is a part of *)
(* it: first the scrape by itself, then nlp-service on the rows and events *)
(* of the scrape, then the flow as a whole.  They hold for every set of    *)
(* workers, handlers, keywords and urls, every answer of the sources, every*)
(* analysis and any number of disturbances.                                *)
(***************************************************************************)
EXTENDS MentionFlow, SumTheorems, SequenceTheorems, TLAPS

-----------------------------------------------------------------------------
(* The scrape by itself *)

\* The part of the state each program counter stands for: a keyword is held
\* inside the `try` of the keyword, a url between its claim and its event, and its
\* row in the open transaction from the insert on.
LocalsMatch ==
  \A w \in Workers :
    /\ pc[w] \in {"urls", "insert", "publish"} <=> kw[w] # Free
    /\ pc[w] \in {"insert", "publish"} <=> url[w] # Free
    /\ pc[w] = "publish" => \E m \in tx[w] : m.url = url[w]

TypeInv == TypeOK /\ LocalsMatch

\* A url that a run works on, or holds in its open transaction, is claimed, so
\* that no second run can get to it.
Claimed ==
  \A w \in Workers : /\ url[w] # Free => url[w] \in claimed
                     /\ \A m \in tx[w] : m.url \in claimed

\* No two runs work on a url.
HoldersApart ==
  \A v, w \in Workers : url[v] = url[w] /\ url[v] # Free => v = w

\* A row of an open transaction has the url of no other open row, of no committed
\* row and of no run, save the one that is about to announce it.
RowsApart ==
  \A v \in Workers : \A m \in tx[v] :
    /\ \A w \in Workers : \A n \in tx[w] : m.url = n.url => v = w /\ m = n
    /\ \A n \in mentions : m.url # n.url
    /\ \A w \in Workers : m.url = url[w] => v = w /\ pc[w] = "publish"

DedupInv == Claimed /\ HoldersApart /\ RowsApart /\ UniqueUrl

\* Every open row but the one of the url at hand has been announced.
AnnounceInv ==
  /\ CommittedAnnounced
  /\ \A w \in Workers : \A m \in tx[w] : m.url = url[w] \/ m \in mentionCreated

\* A run that scrapes a keyword holds its lock, unless the lock has run out.
LockInv ==
  \A w \in Workers : kw[w] # Free => kw[w] \in lapsed \/ lock[kw[w]] = w

-----------------------------------------------------------------------------
\* A run leaves by Fail or Crash: its locals are reset.
LEMMA RollBackType ==
  ASSUME TypeInv, NEW w \in Workers, RollBack(w), pooled' \subseteq Workers,
         lock' \in [Keywords -> Workers \cup {Free}]
  PROVE TypeInv'
<1>1. faults' \in 0..MaxFaults
  BY ScrapeAssumption DEF RollBack, Disturbed, TypeInv, TypeOK
<1>2. TypeOK'
  BY <1>1 DEF RollBack, Goto, TypeInv, TypeOK
<1>3. LocalsMatch'
  BY DEF RollBack, Goto, TypeInv, TypeOK, LocalsMatch
<1>4. QED
  BY <1>2, <1>3 DEF TypeInv

\* The locals of every run match its program counter.
LEMMA ScrapeTypeStep ==
  ASSUME TypeInv, [Next]_vars
  PROVE TypeInv'
<1> USE ScrapeAssumption DEF Goto
<1>1. ASSUME NEW w \in Workers, NEW ids \in SUBSET Keywords, Start(w, ids)
      PROVE TypeInv'
  BY <1>1 DEF Start, TypeInv, TypeOK, LocalsMatch
<1>2. ASSUME NEW w \in Workers, NEW k \in Keywords, Acquire(w, k)
      PROVE TypeInv'
  <2>1. PICK found \in SUBSET Urls : Fetched(k, found) /\ pending' = [pending EXCEPT ![w] = found]
    BY <1>2 DEF Acquire
  <2>2. faults' \in 0..MaxFaults
    BY <2>1 DEF Fetched, Disturbed, TypeInv, TypeOK
  <2>3. TypeOK'
    BY <1>2, <2>1, <2>2 DEF Acquire, TypeInv, TypeOK
  <2>4. LocalsMatch'
    BY <1>2 DEF Acquire, TypeInv, TypeOK, LocalsMatch
  <2>5. QED
    BY <2>3, <2>4 DEF TypeInv
<1>3. ASSUME NEW w \in Workers, NEW k \in Keywords, Skip(w, k)
      PROVE TypeInv'
  BY <1>3 DEF Skip, TypeInv, TypeOK, LocalsMatch
<1>4. ASSUME NEW w \in Workers, NEW u \in Urls, Claim(w, u)
      PROVE TypeInv'
  BY <1>4 DEF Claim, TypeInv, TypeOK, LocalsMatch
<1>5. ASSUME NEW w \in Workers, Insert(w)
      PROVE TypeInv'
  <2>1. url[w] \in Urls /\ kw[w] \in Keywords
    BY <1>5 DEF Insert, TypeInv, TypeOK, LocalsMatch
  <2>2. NewMention(w) \in Mention
    BY <2>1 DEF NewMention, Mention, TypeInv, TypeOK
  <2>3. TypeOK'
    BY <1>5, <2>1, <2>2 DEF Insert, TypeInv, TypeOK
  <2>4. CASE ViolatesIntegrity(w)
    <3>1. LocalsMatch'
      BY <1>5, <2>4 DEF Insert, TypeInv, TypeOK, LocalsMatch
    <3>2. QED
      BY <2>3, <3>1 DEF TypeInv
  <2>5. CASE ~ViolatesIntegrity(w)
    <3>1. /\ tx' = [tx EXCEPT ![w] = @ \cup {NewMention(w)}]
          /\ pc' = [pc EXCEPT ![w] = "publish"]
          /\ UNCHANGED <<url, kw>>
      BY <1>5, <2>5 DEF Insert
    <3>2. NewMention(w) \in tx'[w] /\ NewMention(w).url = url'[w]
      BY <3>1 DEF NewMention, TypeInv, TypeOK
    <3>3. \A v \in Workers : v # w => tx'[v] = tx[v] /\ pc'[v] = pc[v]
      BY <3>1 DEF TypeInv, TypeOK
    <3>4. pc'[w] = "publish" /\ pc[w] = "insert"
      BY <1>5, <3>1 DEF Insert, TypeInv, TypeOK
    <3>5. LocalsMatch'
      BY <2>1, <3>1, <3>2, <3>3, <3>4 DEF TypeInv, LocalsMatch
    <3>6. QED
      BY <2>3, <3>5 DEF TypeInv
  <2>6. QED
    BY <2>4, <2>5
<1>6. ASSUME NEW w \in Workers, Publish(w)
      PROVE TypeInv'
  <2>1. mentionCreated' \subseteq Mention
    <3>1. \E m \in tx[w] : m.url = url[w]
      BY <1>6 DEF Publish, TypeInv, LocalsMatch
    <3>2. OpenMention(w) \in tx[w]
      BY <3>1 DEF OpenMention
    <3>3. QED
      BY <1>6, <3>2 DEF Publish, TypeInv, TypeOK
  <2>2. QED
    BY <1>6, <2>1 DEF Publish, TypeInv, TypeOK, LocalsMatch
<1>7. ASSUME NEW w \in Workers, FinishKeyword(w)
      PROVE TypeInv'
  <2>1. kw[w] \in Keywords
    BY <1>7 DEF FinishKeyword, TypeInv, TypeOK, LocalsMatch
  <2>2. QED
    BY <1>7, <2>1 DEF FinishKeyword, Released, TypeInv, TypeOK, LocalsMatch
<1>8. ASSUME NEW w \in Workers, Commit(w)
      PROVE TypeInv'
  BY <1>8 DEF Commit, TypeInv, TypeOK, LocalsMatch
<1>9. ASSUME NEW w \in Workers, Fail(w)
      PROVE TypeInv'
  BY <1>9, RollBackType DEF Fail, Released, TypeInv, TypeOK
<1>10. ASSUME NEW w \in Workers, Crash(w)
       PROVE TypeInv'
  BY <1>10, RollBackType DEF Crash, TypeInv, TypeOK
<1>11. ASSUME NEW k \in Keywords, LockExpires(k)
       PROVE TypeInv'
  BY <1>11 DEF LockExpires, Released, runVars, taskVars, TypeInv, TypeOK, LocalsMatch
<1>12. ASSUME NEW u \in Urls, ClaimExpires(u)
       PROVE TypeInv'
  BY <1>12 DEF ClaimExpires, runVars, taskVars, TypeInv, TypeOK, LocalsMatch
<1>13. ASSUME NEW k \in Keywords, DeleteKeyword(k)
       PROVE TypeInv'
  BY <1>13 DEF DeleteKeyword, runVars, taskVars, TypeInv, TypeOK, LocalsMatch
<1>14. ASSUME UNCHANGED vars
       PROVE TypeInv'
  BY <1>14 DEF vars, ownVars, runVars, taskVars, TypeInv, TypeOK, LocalsMatch
<1>15. \A w \in Workers : Beat(w) => TypeInv'
  BY <1>1 DEF Beat, TypeInv, TypeOK
<1>16. \A w \in Workers, ids \in SUBSET Keywords : Request(w, ids) => TypeInv'
  BY <1>1 DEF Request, TypeInv, TypeOK
<1>17. ASSUME NEW w \in Workers, Refuse(w)
       PROVE TypeInv'
  BY <1>17 DEF Refuse, taskVars, TypeInv, TypeOK, LocalsMatch
<1>18. QED
  BY <1>2, <1>3, <1>4, <1>5, <1>6, <1>7, <1>8, <1>9, <1>10, <1>11, <1>12, <1>13, <1>14, <1>15, <1>16, <1>17
  DEF Next, WorkerNext, RunStep

LEMMA ScrapeTypeInit == Init => TypeInv
BY ScrapeAssumption DEF Init, TypeInv, TypeOK, LocalsMatch

LEMMA ScrapeInvariant == Spec => []TypeInv
BY ScrapeTypeInit, ScrapeTypeStep, PTL DEF Spec

\* Type correctness: every action keeps every variable in its range; in
\* particular a row is only ever inserted for a keyword and a url, because the
\* locals that NewMention reads are set whenever Insert is reached.
THEOREM TypeCorrect == Spec => []TypeOK
<1>1. TypeInv => TypeOK
  BY DEF TypeInv
<1>2. QED
  BY <1>1, ScrapeInvariant, PTL

-----------------------------------------------------------------------------
\* A lapsed lock aside, a keyword is scraped under its lock, and the lock is
\* nobody else's: release_scrape_lock deletes the run's own key.
LEMMA LockStep ==
  ASSUME TypeInv, LockInv, [Next]_vars
  PROVE LockInv'
<1> USE ScrapeAssumption DEF Goto, TypeInv, TypeOK
<1>1. ASSUME NEW w \in Workers, NEW ids \in SUBSET Keywords, Start(w, ids)
      PROVE LockInv'
  BY <1>1 DEF Start, LockInv
<1>2. ASSUME NEW w \in Workers, NEW k \in Keywords, Acquire(w, k)
      PROVE LockInv'
  <2>1. kw' = [kw EXCEPT ![w] = k] /\ lock' = [lock EXCEPT ![k] = w] /\ lapsed' = lapsed
    BY <1>2 DEF Acquire
  <2>2. lock[k] = Free
    BY <1>2 DEF Acquire
  <2>3. QED
    BY <2>1, <2>2 DEF LockInv
<1>3. ASSUME NEW w \in Workers, NEW k \in Keywords, Skip(w, k)
      PROVE LockInv'
  BY <1>3 DEF Skip, LockInv
<1>4. ASSUME NEW w \in Workers, NEW u \in Urls, Claim(w, u)
      PROVE LockInv'
  BY <1>4 DEF Claim, LockInv
<1>5. ASSUME NEW w \in Workers, Insert(w)
      PROVE LockInv'
  BY <1>5 DEF Insert, LockInv
<1>6. ASSUME NEW w \in Workers, Publish(w)
      PROVE LockInv'
  BY <1>6 DEF Publish, LockInv
<1>7. ASSUME NEW w \in Workers, FinishKeyword(w)
      PROVE LockInv'
  <2>1. kw[w] \in Keywords
    BY <1>7 DEF FinishKeyword, LocalsMatch
  <2>2. kw' = [kw EXCEPT ![w] = Free] /\ lock' = [lock EXCEPT ![kw[w]] = Free] /\ lapsed' = lapsed
    BY <1>7 DEF FinishKeyword, Released
  <2>3. QED
    BY <2>1, <2>2 DEF LockInv
<1>8. ASSUME NEW w \in Workers, Commit(w)
      PROVE LockInv'
  BY <1>8 DEF Commit, LockInv
<1>9. ASSUME NEW w \in Workers, Fail(w)
      PROVE LockInv'
  <2>1. kw' = [kw EXCEPT ![w] = Free] /\ lapsed' = lapsed
    BY <1>9 DEF Fail, RollBack
  <2>2. lock' = IF kw[w] = Free THEN lock ELSE [lock EXCEPT ![kw[w]] = Free]
    BY <1>9 DEF Fail, Released
  <2>3. QED
    BY <2>1, <2>2 DEF LockInv
<1>10. ASSUME NEW w \in Workers, Crash(w)
       PROVE LockInv'
  BY <1>10 DEF Crash, RollBack, LockInv
<1>11. ASSUME NEW k \in Keywords, LockExpires(k)
       PROVE LockInv'
  BY <1>11 DEF LockExpires, Released, runVars, taskVars, LockInv
<1>12. ASSUME NEW u \in Urls, ClaimExpires(u)
       PROVE LockInv'
  BY <1>12 DEF ClaimExpires, runVars, taskVars, LockInv
<1>13. ASSUME NEW k \in Keywords, DeleteKeyword(k)
       PROVE LockInv'
  BY <1>13 DEF DeleteKeyword, runVars, taskVars, LockInv
<1>14. ASSUME UNCHANGED vars
       PROVE LockInv'
  BY <1>14 DEF vars, ownVars, runVars, taskVars, LockInv
<1>15. \A w \in Workers : Beat(w) => LockInv'
  BY <1>1 DEF Beat
<1>16. \A w \in Workers, ids \in SUBSET Keywords : Request(w, ids) => LockInv'
  BY <1>1 DEF Request
<1>17. ASSUME NEW w \in Workers, Refuse(w)
       PROVE LockInv'
  BY <1>17 DEF Refuse, taskVars, LockInv
<1>18. QED
  BY <1>2, <1>3, <1>4, <1>5, <1>6, <1>7, <1>8, <1>9, <1>10, <1>11, <1>12, <1>13, <1>14, <1>15, <1>16, <1>17
  DEF Next, WorkerNext, RunStep

\* "Prevents parallel duplicate jobs": two runs scrape a keyword at a time only
\* once its lock has run out under one of them.
THEOREM Exclusion == Spec => []LockExcludes
<1>1. Init => LockInv
  BY DEF Init, LockInv
<1>2. TypeInv /\ LockInv => LockExcludes
  BY DEF LockInv, LockExcludes
<1>3. QED
  BY <1>1, <1>2, LockStep, ScrapeInvariant, PTL DEF Spec

-----------------------------------------------------------------------------
\* Rows have urls of their own, which are not the url of an idle run.
LEMMA RowUrl ==
  ASSUME TypeInv, NEW w \in Workers, NEW m \in tx[w]
  PROVE m.url \in Urls /\ m.url # Free
BY ScrapeAssumption DEF TypeInv, TypeOK, Mention

\* The dedup key, the savepoint and the UNIQUE constraint together: whatever a run
\* does, no url gets to two runs, two open rows, or an open and a committed row.
LEMMA DedupStep ==
  ASSUME TypeInv, DedupInv, [Next]_vars
  PROVE DedupInv'
<1> USE ScrapeAssumption DEF Goto, TypeInv, TypeOK
<1> DEFINE Same == UNCHANGED <<mentions, claimed, url, tx>>
<1>0. ASSUME Same, \A v \in Workers : pc[v] = "publish" => pc'[v] = "publish"
      PROVE DedupInv'
  BY <1>0 DEF DedupInv, Claimed, HoldersApart, RowsApart, UniqueUrl
<1>1. ASSUME NEW w \in Workers, NEW ids \in SUBSET Keywords, Start(w, ids)
      PROVE DedupInv'
  BY <1>0, <1>1 DEF Start
<1>2. ASSUME NEW w \in Workers, NEW k \in Keywords, Acquire(w, k)
      PROVE DedupInv'
  BY <1>0, <1>2 DEF Acquire
<1>3. ASSUME NEW w \in Workers, NEW k \in Keywords, Skip(w, k)
      PROVE DedupInv'
  BY <1>0, <1>3 DEF Skip
<1>4. ASSUME NEW w \in Workers, NEW u \in Urls, Claim(w, u)
      PROVE DedupInv'
  <2>1. CASE u \in claimed
    BY <1>0, <1>4, <2>1 DEF Claim
  <2>2. CASE u \notin claimed
    <3>1. /\ claimed' = claimed \cup {u}
          /\ url' = [url EXCEPT ![w] = u]
          /\ pc' = [pc EXCEPT ![w] = "insert"]
          /\ UNCHANGED <<mentions, tx>>
      BY <1>4, <2>2 DEF Claim
    <3>2. \A v \in Workers : url[v] # u /\ \A m \in tx[v] : m.url # u
      BY <2>2 DEF DedupInv, Claimed
    <3>3. pc[w] # "publish"
      BY <1>4 DEF Claim
    <3>4. Claimed' /\ HoldersApart'
      BY <3>1, <3>2 DEF DedupInv, Claimed, HoldersApart
    <3>5. RowsApart'
      BY <3>1, <3>2, <3>3 DEF DedupInv, RowsApart
    <3>6. UniqueUrl'
      BY <3>1 DEF DedupInv, UniqueUrl
    <3>7. QED
      BY <3>4, <3>5, <3>6 DEF DedupInv
  <2>3. QED
    BY <2>1, <2>2
<1>5. ASSUME NEW w \in Workers, Insert(w)
      PROVE DedupInv'
  <2>1. url[w] \in Urls /\ url[w] # Free /\ pc[w] = "insert"
    BY <1>5 DEF Insert, LocalsMatch
  <2>2. CASE ViolatesIntegrity(w)
    <3>1. /\ url' = [url EXCEPT ![w] = Free]
          /\ pc' = [pc EXCEPT ![w] = "urls"]
          /\ UNCHANGED <<mentions, claimed, tx>>
      BY <1>5, <2>2 DEF Insert
    <3>2. Claimed' /\ HoldersApart' /\ UniqueUrl'
      BY <3>1 DEF DedupInv, Claimed, HoldersApart, UniqueUrl
    <3>3. RowsApart'
      BY <2>1, <3>1, RowUrl DEF DedupInv, RowsApart
    <3>4. QED
      BY <3>2, <3>3 DEF DedupInv
  <2>3. CASE ~ViolatesIntegrity(w)
    <3> DEFINE row == NewMention(w)
    <3>1. /\ tx' = [tx EXCEPT ![w] = @ \cup {row}]
          /\ pc' = [pc EXCEPT ![w] = "publish"]
          /\ UNCHANGED <<mentions, claimed, url>>
      BY <1>5, <2>3 DEF Insert
    <3>2. row.url = url[w]
      BY DEF NewMention
    <3>3. \A n \in mentions : n.url # row.url
      BY <2>3, <3>2 DEF ViolatesIntegrity
    <3>4. \A v \in Workers : \A m \in tx[v] : m.url # row.url
      BY <2>1, <3>2 DEF DedupInv, RowsApart
    <3> HIDE DEF row
    <3>5. \A v \in Workers : \A m \in tx'[v] : m \in tx[v] \/ (v = w /\ m = row)
      BY <3>1
    <3>6. \A v \in Workers : url[v] = row.url => v = w
      BY <2>1, <3>2 DEF DedupInv, HoldersApart
    <3>7. Claimed' /\ HoldersApart' /\ UniqueUrl'
      BY <2>1, <3>1, <3>2, <3>5 DEF DedupInv, Claimed, HoldersApart, UniqueUrl
    <3>8. RowsApart'
      <4> SUFFICES ASSUME NEW v \in Workers, NEW m \in tx'[v]
                   PROVE /\ \A x \in Workers : \A n \in tx'[x] : m.url = n.url => v = x /\ m = n
                         /\ \A n \in mentions : m.url # n.url
                         /\ \A x \in Workers : m.url = url[x] => v = x /\ pc'[x] = "publish"
        BY <3>1 DEF RowsApart
      <4>1. CASE m \in tx[v]
        <5>1. m.url # row.url
          BY <3>4, <4>1
        <5>2. \A x \in Workers : \A n \in tx'[x] : m.url = n.url => v = x /\ m = n
          BY <3>5, <4>1, <5>1 DEF DedupInv, RowsApart
        <5>3. \A n \in mentions : m.url # n.url
          BY <4>1 DEF DedupInv, RowsApart
        <5>4. \A x \in Workers : m.url = url[x] => v = x /\ pc'[x] = "publish"
          BY <3>1, <4>1 DEF DedupInv, RowsApart
        <5>5. QED
          BY <5>2, <5>3, <5>4
      <4>2. CASE v = w /\ m = row
        <5>1. \A x \in Workers : \A n \in tx'[x] : m.url = n.url => v = x /\ m = n
          BY <3>4, <3>5, <4>2
        <5>2. \A n \in mentions : m.url # n.url
          BY <3>3, <4>2
        <5>3. \A x \in Workers : m.url = url[x] => v = x /\ pc'[x] = "publish"
          BY <3>1, <3>6, <4>2
        <5>4. QED
          BY <5>1, <5>2, <5>3
      <4>3. QED
        BY <3>5, <4>1, <4>2
    <3>9. QED
      BY <3>7, <3>8 DEF DedupInv
  <2>4. QED
    BY <2>2, <2>3
<1>6. ASSUME NEW w \in Workers, Publish(w)
      PROVE DedupInv'
  <2>1. /\ url' = [url EXCEPT ![w] = Free]
        /\ pc' = [pc EXCEPT ![w] = "urls"]
        /\ UNCHANGED <<mentions, claimed, tx>>
    BY <1>6 DEF Publish
  <2>2. Claimed' /\ HoldersApart' /\ UniqueUrl'
    BY <2>1 DEF DedupInv, Claimed, HoldersApart, UniqueUrl
  <2>3. RowsApart'
    BY <2>1, RowUrl DEF DedupInv, RowsApart
  <2>4. QED
    BY <2>2, <2>3 DEF DedupInv
<1>7. ASSUME NEW w \in Workers, FinishKeyword(w)
      PROVE DedupInv'
  BY <1>0, <1>7 DEF FinishKeyword
<1>8. ASSUME NEW w \in Workers, Commit(w)
      PROVE DedupInv'
  <2>1. /\ mentions' = mentions \cup tx[w]
        /\ tx' = [tx EXCEPT ![w] = {}]
        /\ UNCHANGED <<claimed, url>>
        /\ \A v \in Workers : pc[v] = "publish" => pc'[v] = "publish"
    BY <1>8 DEF Commit
  <2>2. Claimed' /\ HoldersApart'
    BY <2>1 DEF DedupInv, Claimed, HoldersApart
  <2>3. RowsApart'
    BY <2>1 DEF DedupInv, RowsApart
  <2>4. UniqueUrl'
    BY <2>1 DEF DedupInv, RowsApart, UniqueUrl
  <2>5. QED
    BY <2>2, <2>3, <2>4 DEF DedupInv
<1>9. ASSUME NEW w \in Workers, RollBack(w)
      PROVE DedupInv'
  <2>1. /\ url' = [url EXCEPT ![w] = Free]
        /\ tx' = [tx EXCEPT ![w] = {}]
        /\ pc' = [pc EXCEPT ![w] = "idle"]
        /\ UNCHANGED <<mentions, claimed>>
    BY <1>9 DEF RollBack
  <2>2. Claimed' /\ HoldersApart' /\ UniqueUrl'
    BY <2>1 DEF DedupInv, Claimed, HoldersApart, UniqueUrl
  <2>3. RowsApart'
    BY <2>1, RowUrl DEF DedupInv, RowsApart
  <2>4. QED
    BY <2>2, <2>3 DEF DedupInv
<1>10. ASSUME NEW k \in Keywords, LockExpires(k)
       PROVE DedupInv'
  BY <1>0, <1>10 DEF LockExpires, runVars, taskVars
<1>11. ASSUME NEW u \in Urls, ClaimExpires(u)
       PROVE DedupInv'
  BY <1>11 DEF ClaimExpires, runVars, taskVars, DedupInv, Claimed, HoldersApart, RowsApart, UniqueUrl
<1>12. ASSUME NEW k \in Keywords, DeleteKeyword(k)
       PROVE DedupInv'
  BY <1>12 DEF DeleteKeyword, runVars, taskVars, DedupInv, Claimed, HoldersApart, RowsApart, UniqueUrl
<1>13. ASSUME UNCHANGED vars
       PROVE DedupInv'
  BY <1>0, <1>13 DEF vars, ownVars, runVars, taskVars
<1>14. \A w \in Workers : Beat(w) => DedupInv'
  BY <1>1 DEF Beat
<1>15. \A w \in Workers, ids \in SUBSET Keywords : Request(w, ids) => DedupInv'
  BY <1>1 DEF Request
<1>16. \A w \in Workers : Fail(w) \/ Crash(w) => DedupInv'
  BY <1>9 DEF Fail, Crash
<1>17. ASSUME NEW w \in Workers, Refuse(w)
       PROVE DedupInv'
  BY <1>0, <1>17 DEF Refuse, taskVars
<1>18. QED
  BY <1>2, <1>3, <1>4, <1>5, <1>6, <1>7, <1>8, <1>10, <1>11, <1>12, <1>13, <1>14, <1>15, <1>16, <1>17
  DEF Next, WorkerNext, RunStep

\* No url is stored twice, for any interleaving of runs, expiries of the dedup
\* key, crashes and deletions of keywords.
THEOREM UniqueUrls == Spec => []UniqueUrl
<1>1. Init => DedupInv
  BY DEF Init, DedupInv, Claimed, HoldersApart, RowsApart, UniqueUrl
<1>2. DedupInv => UniqueUrl
  BY DEF DedupInv
<1>3. QED
  BY <1>1, <1>2, DedupStep, ScrapeInvariant, PTL DEF Spec

-----------------------------------------------------------------------------
\* Every row is announced while its transaction is open: publish raises rather
\* than return without the acknowledgement.
LEMMA AnnounceStep ==
  ASSUME TypeInv, DedupInv, AnnounceInv, [Next]_vars
  PROVE AnnounceInv'
<1> USE ScrapeAssumption DEF Goto, TypeInv, TypeOK
<1>0. ASSUME UNCHANGED <<mentions, mentionCreated, url, tx>>
      PROVE AnnounceInv'
  BY <1>0 DEF AnnounceInv, CommittedAnnounced
<1>1. ASSUME NEW w \in Workers, NEW ids \in SUBSET Keywords, Start(w, ids)
      PROVE AnnounceInv'
  BY <1>0, <1>1 DEF Start
<1>2. ASSUME NEW w \in Workers, NEW k \in Keywords, Acquire(w, k) \/ Skip(w, k)
      PROVE AnnounceInv'
  BY <1>0, <1>2 DEF Acquire, Skip
<1>3. ASSUME NEW w \in Workers, NEW u \in Urls, Claim(w, u)
      PROVE AnnounceInv'
  <2>1. \A m \in tx[w] : m \in mentionCreated
    BY <1>3, RowUrl DEF Claim, LocalsMatch, AnnounceInv
  <2>2. QED
    BY <1>3, <2>1 DEF Claim, AnnounceInv, CommittedAnnounced
<1>4. ASSUME NEW w \in Workers, Insert(w)
      PROVE AnnounceInv'
  <2>1. url[w] # Free /\ pc[w] = "insert"
    BY <1>4 DEF Insert, LocalsMatch
  <2>2. \A m \in tx[w] : m \in mentionCreated
    BY <2>1 DEF DedupInv, RowsApart, AnnounceInv
  <2>3. CASE ViolatesIntegrity(w)
    BY <1>4, <2>2, <2>3 DEF Insert, AnnounceInv, CommittedAnnounced
  <2>4. CASE ~ViolatesIntegrity(w)
    <3>1. /\ tx' = [tx EXCEPT ![w] = @ \cup {NewMention(w)}]
          /\ UNCHANGED <<mentions, mentionCreated, url>>
      BY <1>4, <2>4 DEF Insert
    <3>2. NewMention(w).url = url[w]
      BY DEF NewMention
    <3>3. QED
      BY <3>1, <3>2 DEF AnnounceInv, CommittedAnnounced
  <2>5. QED
    BY <2>3, <2>4
<1>5. ASSUME NEW w \in Workers, Publish(w)
      PROVE AnnounceInv'
  <2>1. /\ mentionCreated' = mentionCreated \cup {OpenMention(w)}
        /\ url' = [url EXCEPT ![w] = Free]
        /\ UNCHANGED <<mentions, tx>>
    BY <1>5 DEF Publish
  <2>2. OpenMention(w) \in tx[w] /\ OpenMention(w).url = url[w]
    BY <1>5 DEF Publish, LocalsMatch, OpenMention
  <2>3. \A m \in tx[w] : m.url = url[w] => m = OpenMention(w)
    BY <2>2 DEF DedupInv, RowsApart
  <2>4. QED
    BY <2>1, <2>3 DEF AnnounceInv, CommittedAnnounced
<1>6. ASSUME NEW w \in Workers, FinishKeyword(w)
      PROVE AnnounceInv'
  BY <1>0, <1>6 DEF FinishKeyword
<1>7. ASSUME NEW w \in Workers, Commit(w)
      PROVE AnnounceInv'
  <2>1. \A m \in tx[w] : m \in mentionCreated
    BY <1>7, RowUrl DEF Commit, LocalsMatch, AnnounceInv
  <2>2. QED
    BY <1>7, <2>1 DEF Commit, AnnounceInv, CommittedAnnounced
<1>8. ASSUME NEW w \in Workers, RollBack(w)
      PROVE AnnounceInv'
  BY <1>8 DEF RollBack, AnnounceInv, CommittedAnnounced
<1>9. ASSUME NEW k \in Keywords, LockExpires(k)
      PROVE AnnounceInv'
  BY <1>0, <1>9 DEF LockExpires, runVars, taskVars
<1>10. ASSUME NEW u \in Urls, ClaimExpires(u)
       PROVE AnnounceInv'
  BY <1>0, <1>10 DEF ClaimExpires, runVars, taskVars
<1>11. ASSUME NEW k \in Keywords, DeleteKeyword(k)
       PROVE AnnounceInv'
  BY <1>11 DEF DeleteKeyword, runVars, taskVars, AnnounceInv, CommittedAnnounced
<1>12. ASSUME UNCHANGED vars
       PROVE AnnounceInv'
  BY <1>0, <1>12 DEF vars, ownVars, runVars, taskVars
<1>13. \A w \in Workers : Beat(w) => AnnounceInv'
  BY <1>1 DEF Beat
<1>14. \A w \in Workers, ids \in SUBSET Keywords : Request(w, ids) => AnnounceInv'
  BY <1>1 DEF Request
<1>15. \A w \in Workers : Fail(w) \/ Crash(w) => AnnounceInv'
  BY <1>8 DEF Fail, Crash
<1>16. ASSUME NEW w \in Workers, Refuse(w)
       PROVE AnnounceInv'
  BY <1>0, <1>16 DEF Refuse, taskVars
<1>17. QED
  BY <1>2, <1>3, <1>4, <1>5, <1>6, <1>7, <1>9, <1>10, <1>11, <1>12, <1>13, <1>14, <1>15, <1>16
  DEF Next, WorkerNext, RunStep

\* A mention that can be seen in the database has been announced on
\* mention-created, whatever failed or was rolled back in between.
THEOREM Announced == Spec => []CommittedAnnounced
<1>1. Init => DedupInv /\ AnnounceInv
  BY DEF Init, DedupInv, Claimed, HoldersApart, RowsApart, UniqueUrl,
         AnnounceInv, CommittedAnnounced
<1>2. AnnounceInv => CommittedAnnounced
  BY DEF AnnounceInv
<1>3. QED
  BY <1>1, <1>2, DedupStep, AnnounceStep, ScrapeInvariant, PTL DEF Spec

-----------------------------------------------------------------------------
(* nlp-service on what the scrape leaves it *)

\* Rows name keywords that exist, in the table and in the open transactions.
KeywordInv ==
  /\ tx = [w \in Workers |-> tx[w]]
  /\ \A m \in mentions : m.keyword \in keywords
  /\ \A w \in Workers : \A m \in tx[w] : m.keyword \in keywords

\* Handler h has inserted the row of its event and has not published it yet.
Announcing(h) == step[h] \in {"cache", "publish"}

Gone(m) == m.keyword \notin keywords

\* The locals of the handlers are functions of the handlers.
LocalInv ==
  /\ step = [h \in Handlers |-> step[h]]
  /\ event = [h \in Handlers |-> event[h]]
  /\ made = [h \in Handlers |-> made[h]]

\* A mention that was announced, is about to be, or has its summary in Redis, has
\* its row, or can never have one again.
RowInv ==
  /\ Nlp!Analysed \subseteq mentions
  /\ \A m \in sentimentProcessed : m \in Nlp!Analysed \/ Gone(m)
  /\ \A h \in Handlers : Announcing(h) => event[h] \in Nlp!Analysed \/ Gone(event[h])
  /\ \A c \in cached : c.mention \in Nlp!Analysed \/ Gone(c.mention)

\* One handler at a time announces a mention, and only one that is not announced.
OnceInv ==
  /\ announcedTwice = {}
  /\ \A h \in Handlers : Announcing(h) => event[h] \notin sentimentProcessed
  /\ \A g, h \in Handlers : Announcing(g) /\ Announcing(h) /\ event[g] = event[h] => g = h

\* The row of a mention, its copy in Redis and the handler that inserted it agree.
CopyInv ==
  /\ \A r, s \in results : r.mention = s.mention => r = s
  /\ \A r \in results : \A c \in cached : c.mention = r.mention => c.summary = r.result.summary
  /\ \A r \in results : \A h \in Handlers :
       Announcing(h) /\ event[h] = r.mention => made[h] = r.result

FlowInv == KeywordInv /\ LocalInv /\ RowInv /\ OnceInv /\ CopyInv

-----------------------------------------------------------------------------
\* A run of the scrape inserts rows of keywords that exist; nothing of it deletes one.
LEMMA ScrapeKeepsKeywords ==
  ASSUME KeywordInv, WorkerNext
  PROVE KeywordInv' /\ keywords' = keywords /\ mentions \subseteq mentions'
<1>1. ASSUME NEW w \in Workers, NEW s, Start(w, s)
      PROVE UNCHANGED <<keywords, mentions, tx>>
  BY <1>1 DEF Start
<1>2. ASSUME NEW w \in Workers, NEW k \in Keywords, Acquire(w, k) \/ Skip(w, k)
      PROVE UNCHANGED <<keywords, mentions, tx>>
  BY <1>2 DEF Acquire, Skip
<1>3. ASSUME NEW w \in Workers, NEW u \in Urls, Claim(w, u)
      PROVE UNCHANGED <<keywords, mentions, tx>>
  BY <1>3 DEF Claim
<1>4. ASSUME NEW w \in Workers, Publish(w) \/ FinishKeyword(w)
      PROVE UNCHANGED <<keywords, mentions, tx>>
  BY <1>4 DEF Publish, FinishKeyword
<1>5. ASSUME NEW k \in Keywords, LockExpires(k)
      PROVE UNCHANGED <<keywords, mentions, tx>>
  BY <1>5 DEF LockExpires, runVars, taskVars
<1>6. ASSUME NEW u \in Urls, ClaimExpires(u)
      PROVE UNCHANGED <<keywords, mentions, tx>>
  BY <1>6 DEF ClaimExpires, runVars, taskVars
<1>7. ASSUME UNCHANGED <<keywords, mentions, tx>>
      PROVE KeywordInv' /\ keywords' = keywords /\ mentions \subseteq mentions'
  BY <1>7 DEF KeywordInv
<1>8. ASSUME NEW w \in Workers, Insert(w)
      PROVE KeywordInv' /\ keywords' = keywords /\ mentions \subseteq mentions'
  <2>1. CASE ViolatesIntegrity(w)
    BY <1>7, <1>8, <2>1 DEF Insert
  <2>2. CASE ~ViolatesIntegrity(w)
    <3>1. /\ tx' = [tx EXCEPT ![w] = @ \cup {NewMention(w)}]
          /\ UNCHANGED <<keywords, mentions>>
      BY <1>8, <2>2 DEF Insert
    <3>2. NewMention(w).keyword \in keywords
      BY <2>2 DEF ViolatesIntegrity, NewMention
    <3>3. QED
      BY <3>1, <3>2 DEF KeywordInv
  <2>3. QED
    BY <2>1, <2>2
<1>9. ASSUME NEW w \in Workers, Commit(w)
      PROVE KeywordInv' /\ keywords' = keywords /\ mentions \subseteq mentions'
  <2>1. /\ mentions' = mentions \cup tx[w] /\ tx' = [tx EXCEPT ![w] = {}]
        /\ keywords' = keywords
    BY <1>9 DEF Commit
  <2>2. QED
    BY <2>1 DEF KeywordInv
<1>10. ASSUME NEW w \in Workers, Fail(w) \/ Crash(w)
       PROVE KeywordInv' /\ keywords' = keywords /\ mentions \subseteq mentions'
  <2>1. tx' = [tx EXCEPT ![w] = {}] /\ UNCHANGED <<keywords, mentions>>
    BY <1>10 DEF Fail, Crash, RollBack
  <2>2. QED
    BY <2>1 DEF KeywordInv
<1>11. ASSUME NEW w \in Workers, Refuse(w)
       PROVE UNCHANGED <<keywords, mentions, tx>>
  BY <1>11 DEF Refuse, taskVars
<1>12. QED
  BY <1>1, <1>2, <1>3, <1>4, <1>5, <1>6, <1>7, <1>8, <1>9, <1>10, <1>11
     DEF WorkerNext, RunStep, Beat, Request

\* Steps that leave nlp-service alone and take no keyword away.
LEMMA ScrapeStepInv ==
  ASSUME FlowInv, ScrapeStep
  PROVE FlowInv'
<1>1. KeywordInv' /\ keywords' = keywords /\ mentions \subseteq mentions' /\ UNCHANGED nlpVars
  BY ScrapeKeepsKeywords DEF FlowInv, ScrapeStep
<1>2. LocalInv' /\ OnceInv' /\ CopyInv'
  BY <1>1 DEF FlowInv, LocalInv, OnceInv, CopyInv, Announcing, nlpVars
<1>3. RowInv'
  BY <1>1 DEF FlowInv, RowInv, Announcing, Gone, nlpVars, Nlp!Analysed
<1>4. QED
  BY <1>1, <1>2, <1>3 DEF FlowInv

-----------------------------------------------------------------------------
\* A handler goes where it announces nothing, and what nlp-service has written stays.
LEMMA QuietStep ==
  ASSUME FlowInv, LocalInv',
         UNCHANGED <<keywords, mentions, tx, results, sentimentProcessed, announcedTwice>>,
         cached' \subseteq cached,
         \A h \in Handlers : Announcing(h)' => Announcing(h) /\ event'[h] = event[h] /\ made'[h] = made[h]
  PROVE FlowInv'
<1>1. KeywordInv' /\ OnceInv'
  BY DEF FlowInv, KeywordInv, OnceInv
<1>2. RowInv'
  BY DEF FlowInv, RowInv, Gone, Nlp!Analysed
<1>3. CopyInv'
  BY DEF FlowInv, CopyInv
<1>4. QED
  BY <1>1, <1>2, <1>3 DEF FlowInv

\* One handler moves to a step where it announces nothing.
LEMMA LeavesQuietly ==
  ASSUME FlowInv, NEW h \in Handlers, NEW s, NEW e, NEW r,
         step' = [step EXCEPT ![h] = s], event' = [event EXCEPT ![h] = e], made' = [made EXCEPT ![h] = r],
         \/ s \notin {"cache", "publish"}
         \/ Announcing(h) /\ e = event[h] /\ r = made[h],
         UNCHANGED <<keywords, mentions, tx, results, sentimentProcessed, announcedTwice>>,
         cached' \subseteq cached
  PROVE FlowInv'
<1>1. LocalInv'
  BY DEF FlowInv, LocalInv
<1>2. \A g \in Handlers : Announcing(g)' => Announcing(g) /\ event'[g] = event[g] /\ made'[g] = made[g]
  BY DEF FlowInv, LocalInv, Announcing
<1>3. QED
  BY <1>1, <1>2, QuietStep

\* The retry of an event, whatever failed.
LEMMA RetryInv ==
  ASSUME FlowInv, NEW h \in Handlers, Nlp!Retry(h), UNCHANGED event,
         UNCHANGED <<keywords, mentions, tx, results, cached, sentimentProcessed, announcedTwice>>
  PROVE FlowInv'
<1>1. PICK s \in {"insert", "dlt"} : step' = [step EXCEPT ![h] = s] /\ made' = [made EXCEPT ![h] = Free]
  BY DEF Nlp!Retry, Nlp!Goto
<1>2. event' = [event EXCEPT ![h] = event[h]]
  BY DEF FlowInv, LocalInv
<1>3. QED
  BY <1>1, <1>2, LeavesQuietly

\* A handler that leaves, committed, dead-lettered or killed.
LEMMA LeaveInv ==
  ASSUME FlowInv, NEW h \in Handlers, Nlp!Leave(h),
         UNCHANGED <<keywords, mentions, tx, results, cached, sentimentProcessed, announcedTwice>>
  PROVE FlowInv'
BY LeavesQuietly DEF Nlp!Leave, Nlp!Goto

\* The insert: ON CONFLICT DO NOTHING for a mention that has a row, or a row for one
\* that has none, is in the table, and so was never announced.
LEMMA InsertInv ==
  ASSUME FlowInv, NEW h \in Handlers, Nlp!InsertResult(h), UNCHANGED ownVars
  PROVE FlowInv'
<1>1. /\ event[h] \in mentions
      /\ UNCHANGED <<keywords, mentions, tx, cached, sentimentProcessed, announcedTwice, event>>
  BY DEF Nlp!InsertResult, Nlp!inputVars, Nlp!announceVars, ownVars, runVars, taskVars
<1>2. CASE event[h] \in Nlp!Analysed
  <2>1. step' = [step EXCEPT ![h] = "commit"] /\ UNCHANGED <<results, made>>
    BY <1>2 DEF Nlp!InsertResult, Nlp!Goto
  <2>2. /\ event' = [event EXCEPT ![h] = event[h]]
        /\ made' = [made EXCEPT ![h] = made[h]]
    BY <1>1, <2>1 DEF FlowInv, LocalInv
  <2>3. "commit" \notin {"cache", "publish"} /\ cached' \subseteq cached
    BY <1>1
  <2>4. UNCHANGED <<keywords, mentions, tx, results, sentimentProcessed, announcedTwice>>
    BY <1>1, <2>1
  <2>5. QED
    BY <2>1, <2>2, <2>3, <2>4, LeavesQuietly
<1>3. CASE event[h] \notin Nlp!Analysed
  <2>1. PICK r \in Nlp!Analyses(event[h]) :
          /\ results' = results \cup {[mention |-> event[h], result |-> r]}
          /\ Nlp!Continue(h, r)
    BY <1>3 DEF Nlp!InsertResult
  <2>2. PICK s \in {"cache", "publish"} : step' = [step EXCEPT ![h] = s]
    BY <2>1 DEF Nlp!Continue, Nlp!Goto
  <2>3. made' = [made EXCEPT ![h] = r]
    BY <2>1 DEF Nlp!Continue
  <2>4. ~Gone(event[h])
    BY <1>1 DEF FlowInv, KeywordInv, Gone
  <2>5. /\ event[h] \notin sentimentProcessed
        /\ \A g \in Handlers : Announcing(g) => event[g] # event[h]
        /\ \A c \in cached : c.mention # event[h]
    BY <1>3, <2>4 DEF FlowInv, RowInv
  <2>6. Nlp!Analysed' = Nlp!Analysed \cup {event[h]}
    <3>1. \A m : m \in Nlp!Analysed' <=> \E q \in results' : q.mention = m
      BY DEF Nlp!Analysed
    <3>2. \A m : m \in Nlp!Analysed <=> \E q \in results : q.mention = m
      BY DEF Nlp!Analysed
    <3>3. results' = results \cup {[mention |-> event[h], result |-> r]}
      BY <2>1
    <3> DEFINE row == [mention |-> event[h], result |-> r]
    <3>4. row.mention = event[h] /\ row \in results'
      BY <3>3
    <3>5. \A q \in results' : q \in results \/ q = row
      BY <3>3
    <3>6. results \subseteq results'
      BY <3>3
    <3> HIDE DEF row
    <3>7. QED
      BY <3>1, <3>2, <3>4, <3>5, <3>6
  <2>7. /\ step'[h] = s /\ made'[h] = r
        /\ \A g \in Handlers : g # h => step'[g] = step[g] /\ made'[g] = made[g]
    BY <2>2, <2>3 DEF FlowInv, LocalInv
  <2>8. KeywordInv' /\ LocalInv'
    BY <1>1, <2>2, <2>3 DEF FlowInv, KeywordInv, LocalInv
  <2>9. RowInv'
    BY <1>1, <2>6, <2>7 DEF FlowInv, RowInv, Announcing, Gone
  <2>10. OnceInv'
    BY <1>1, <2>5, <2>7 DEF FlowInv, OnceInv, Announcing
  <2>11. CopyInv'
    <3>1. \A q \in results : q.mention # event[h]
      BY <1>3 DEF Nlp!Analysed
    <3>2. \A q, z \in results' : q.mention = z.mention => q = z
      BY <2>1, <3>1 DEF FlowInv, CopyInv
    <3>3. \A q \in results' : \A c \in cached' : c.mention = q.mention => c.summary = q.result.summary
      BY <1>1, <2>1, <2>5 DEF FlowInv, CopyInv
    <3>4. \A q \in results' : \A g \in Handlers :
            Announcing(g)' /\ event'[g] = q.mention => made'[g] = q.result
      <4> SUFFICES ASSUME NEW q \in results', NEW g \in Handlers, Announcing(g)', event'[g] = q.mention
                   PROVE made'[g] = q.result
        OBVIOUS
      <4>1. CASE g = h
        BY <1>1, <2>1, <2>7, <3>1, <4>1
      <4>2. CASE g # h
        <5>1. Announcing(g) /\ made'[g] = made[g] /\ event[g] # event[h]
          BY <2>5, <2>7, <4>2 DEF Announcing
        <5>2. q \in results
          BY <1>1, <2>1, <5>1
        <5>3. QED
          BY <1>1, <5>1, <5>2 DEF FlowInv, CopyInv
      <4>3. QED
        BY <4>1, <4>2
    <3>5. QED
      BY <3>2, <3>3, <3>4 DEF CopyInv
  <2>12. QED
    BY <2>8, <2>9, <2>10, <2>11 DEF FlowInv
<1>4. QED
  BY <1>2, <1>3

\* The copy in Redis is of the row the handler inserted.
LEMMA CacheInv ==
  ASSUME FlowInv, NEW h \in Handlers, Nlp!CacheSummary(h), UNCHANGED ownVars
  PROVE FlowInv'
<1>1. /\ step[h] = "cache" /\ step' = [step EXCEPT ![h] = "publish"]
      /\ cached' = {c \in cached : c.mention # event[h]} \cup {[mention |-> event[h], summary |-> made[h].summary]}
      /\ UNCHANGED <<keywords, mentions, tx, results, sentimentProcessed, announcedTwice, event, made>>
  BY DEF Nlp!CacheSummary, Nlp!Goto, Nlp!inputVars, Nlp!announceVars, ownVars, runVars, taskVars
<1>2. \A g \in Handlers : Announcing(g)' <=> Announcing(g)
  BY <1>1 DEF FlowInv, LocalInv, Announcing
<1>3. KeywordInv' /\ LocalInv'
  BY <1>1 DEF FlowInv, KeywordInv, LocalInv
<1>4. OnceInv'
  BY <1>1, <1>2 DEF FlowInv, OnceInv
<1>5. RowInv'
  <2>1. Announcing(h)
    BY <1>1 DEF Announcing
  <2>2. event[h] \in Nlp!Analysed \/ Gone(event[h])
    BY <2>1 DEF FlowInv, RowInv
  <2>3. Nlp!Analysed' = Nlp!Analysed /\ \A m : Gone(m)' <=> Gone(m)
    BY <1>1 DEF Nlp!Analysed, Gone
  <2>4. \A c \in cached' : c.mention \in Nlp!Analysed \/ Gone(c.mention)
    BY <1>1, <2>2 DEF FlowInv, RowInv
  <2>5. QED
    BY <1>1, <1>2, <2>3, <2>4 DEF FlowInv, RowInv
<1>6. CopyInv'
  <2>1. \A r \in results : \A c \in cached' : c.mention = r.mention => c.summary = r.result.summary
    BY <1>1 DEF FlowInv, CopyInv, Announcing
  <2>2. QED
    BY <1>1, <1>2, <2>1 DEF FlowInv, CopyInv
<1>7. QED
  BY <1>3, <1>4, <1>5, <1>6 DEF FlowInv

\* The handler that announces is the only one, and the first.
LEMMA PublishInv ==
  ASSUME FlowInv, NEW h \in Handlers, Nlp!PublishResult(h), UNCHANGED ownVars
  PROVE FlowInv'
<1>1. /\ step[h] = "publish" /\ step' = [step EXCEPT ![h] = "commit"]
      /\ made' = [made EXCEPT ![h] = Free]
      /\ sentimentProcessed' = sentimentProcessed \cup {event[h]}
      /\ UNCHANGED <<keywords, mentions, tx, results, cached, event>>
  BY DEF Nlp!PublishResult, Nlp!Goto, Nlp!inputVars, ownVars, runVars, taskVars
<1>2. Announcing(h)
  BY <1>1 DEF Announcing
<1>3. announcedTwice' = announcedTwice
  BY <1>2 DEF Nlp!PublishResult, FlowInv, OnceInv
<1>4. \A g \in Handlers : Announcing(g)' => g # h /\ Announcing(g) /\ made'[g] = made[g]
  BY <1>1 DEF FlowInv, LocalInv, Announcing
<1>5. KeywordInv' /\ LocalInv'
  BY <1>1 DEF FlowInv, KeywordInv, LocalInv
<1>6. OnceInv'
  BY <1>1, <1>2, <1>3, <1>4 DEF FlowInv, OnceInv
<1>7. RowInv'
  <2>1. event[h] \in Nlp!Analysed \/ Gone(event[h])
    BY <1>2 DEF FlowInv, RowInv
  <2>2. Nlp!Analysed' = Nlp!Analysed /\ \A m : Gone(m)' <=> Gone(m)
    BY <1>1 DEF Nlp!Analysed, Gone
  <2>3. QED
    BY <1>1, <1>4, <2>1, <2>2 DEF FlowInv, RowInv
<1>8. CopyInv'
  BY <1>1, <1>4 DEF FlowInv, CopyInv
<1>9. QED
  BY <1>5, <1>6, <1>7, <1>8 DEF FlowInv

LEMMA HandlerStepInv ==
  ASSUME FlowInv, NEW h \in Handlers, HandlerStep(h)
  PROVE FlowInv'
<1> USE DEF Nlp!inputVars, Nlp!announceVars, ownVars, runVars, taskVars
<1>1. UNCHANGED ownVars
  BY DEF HandlerStep
<1>2. ASSUME NEW e \in mentionCreated, Nlp!Deliver(h, e)
      PROVE FlowInv'
  <2>1. /\ step' = [step EXCEPT ![h] = "insert"] /\ event' = [event EXCEPT ![h] = e]
        /\ UNCHANGED <<keywords, mentions, tx, results, cached, sentimentProcessed, announcedTwice, made>>
    BY <1>1, <1>2 DEF Nlp!Deliver, Nlp!Goto
  <2>2. made' = [made EXCEPT ![h] = made[h]]
    BY <2>1 DEF FlowInv, LocalInv
  <2>3. QED
    BY <2>1, <2>2, LeavesQuietly
<1>3. CASE Nlp!InsertResult(h)
  BY <1>1, <1>3, InsertInv
<1>4. CASE Nlp!ForeignKeyFails(h)
  BY <1>1, <1>4, RetryInv DEF Nlp!ForeignKeyFails
<1>5. CASE Nlp!CacheSummary(h)
  BY <1>1, <1>5, CacheInv
<1>6. CASE Nlp!PublishResult(h)
  BY <1>1, <1>6, PublishInv
<1>7. CASE Nlp!CommitOffset(h)
  BY <1>1, <1>7, LeaveInv DEF Nlp!CommitOffset
<1>8. CASE Nlp!DeadLetter(h)
  BY <1>1, <1>8, LeaveInv DEF Nlp!DeadLetter
<1>9. QED
  BY <1>2, <1>3, <1>4, <1>5, <1>6, <1>7, <1>8 DEF HandlerStep, Nlp!HandlerStep

LEMMA HandlerFailsInv ==
  ASSUME FlowInv, NEW h \in Handlers, HandlerFails(h)
  PROVE FlowInv'
<1> USE DEF Nlp!inputVars, Nlp!announceVars, ownVars, runVars, taskVars
<1>1. UNCHANGED ownVars
  BY DEF HandlerFails
<1>2. CASE Nlp!Raise(h)
  BY <1>1, <1>2, RetryInv DEF Nlp!Raise
<1>3. CASE Nlp!CacheFails(h)
  <2>1. /\ step[h] = "cache" /\ step' = [step EXCEPT ![h] = "publish"]
        /\ UNCHANGED <<keywords, mentions, tx, results, cached, sentimentProcessed, announcedTwice, event, made>>
    BY <1>1, <1>3 DEF Nlp!CacheFails, Nlp!Goto
  <2>2. LocalInv'
    BY <2>1 DEF FlowInv, LocalInv
  <2>3. \A g \in Handlers : Announcing(g)' => Announcing(g) /\ event'[g] = event[g] /\ made'[g] = made[g]
    BY <2>1 DEF FlowInv, LocalInv, Announcing
  <2>4. QED
    BY <2>1, <2>2, <2>3, QuietStep
<1>4. CASE Nlp!Crash(h)
  BY <1>1, <1>4, LeaveInv DEF Nlp!Crash
<1>5. QED
  BY <1>2, <1>3, <1>4 DEF HandlerFails

\* DELETE ... CASCADE: the keyword, its mentions and their rows go together, and no
\* open transaction can bring one back.
LEMMA DeleteInv ==
  ASSUME FlowInv, NEW k \in Keywords, DeleteKeywordRows(k)
  PROVE FlowInv'
<1>1. /\ keywords' = keywords \ {k}
      /\ mentions' = {m \in mentions : m.keyword # k}
      /\ \A w \in Workers : \A m \in tx[w] : m.keyword # k
      /\ results' = {r \in results : r.mention \in mentions'}
      /\ UNCHANGED <<tx, cached, sentimentProcessed, announcedTwice, step, event, made>>
  BY DEF DeleteKeywordRows, DeleteKeyword, runVars, taskVars, Nlp!Cascade, Nlp!announceVars
<1>2. KeywordInv' /\ LocalInv' /\ OnceInv' /\ CopyInv'
  BY <1>1 DEF FlowInv, KeywordInv, LocalInv, OnceInv, CopyInv, Announcing
<1>3. \A m : m \in Nlp!Analysed \/ Gone(m) => m \in Nlp!Analysed' \/ Gone(m)'
  <2> SUFFICES ASSUME NEW m, m \in Nlp!Analysed \/ Gone(m), ~Gone(m)'
               PROVE m \in Nlp!Analysed'
    OBVIOUS
  <2>1. m.keyword \in keywords /\ m.keyword # k
    BY <1>1 DEF Gone
  <2>2. m \in Nlp!Analysed /\ m \in mentions
    BY <2>1 DEF FlowInv, RowInv, Gone
  <2>3. m \in mentions'
    BY <1>1, <2>1, <2>2
  <2>4. QED
    BY <1>1, <2>2, <2>3 DEF Nlp!Analysed
<1>4. Nlp!Analysed' \subseteq mentions'
  BY <1>1 DEF Nlp!Analysed
<1>5. RowInv'
  BY <1>1, <1>3, <1>4 DEF FlowInv, RowInv, Announcing
<1>6. QED
  BY <1>2, <1>5 DEF FlowInv

LEMMA FlowInvariant == FlowSpec => []FlowInv
<1>1. FlowInit => FlowInv
  BY DEF FlowInit, Init, Nlp!Init, FlowInv, KeywordInv, LocalInv, RowInv, OnceInv, CopyInv,
         Announcing, Nlp!Analysed
<1>2. FlowInv /\ [FlowNext]_flowVars => FlowInv'
  <2> SUFFICES ASSUME FlowInv, [FlowNext]_flowVars
               PROVE FlowInv'
    OBVIOUS
  <2>1. CASE ScrapeStep
    BY <2>1, ScrapeStepInv
  <2>2. ASSUME NEW h \in Handlers, HandlerStep(h) \/ HandlerFails(h)
        PROVE FlowInv'
    BY <2>2, HandlerStepInv, HandlerFailsInv
  <2>3. CASE CacheExpires
    <3>1. /\ LocalInv' /\ cached' \subseteq cached
          /\ UNCHANGED <<keywords, mentions, tx, results, sentimentProcessed, announcedTwice, step, event, made>>
      BY <2>3 DEF CacheExpires, Nlp!CacheExpires, Nlp!inputVars, Nlp!announceVars, ownVars, runVars, taskVars, FlowInv, LocalInv
    <3>2. QED
      BY <3>1, QuietStep DEF Announcing
  <2>4. ASSUME NEW k \in Keywords, DeleteKeywordRows(k)
        PROVE FlowInv'
    BY <2>4, DeleteInv
  <2>5. CASE UNCHANGED flowVars
    <3>1. /\ LocalInv' /\ cached' = cached
          /\ UNCHANGED <<keywords, mentions, tx, results, sentimentProcessed, announcedTwice, step, event, made>>
      BY <2>5 DEF flowVars, vars, ownVars, runVars, taskVars, nlpVars, FlowInv, LocalInv
    <3>2. QED
      BY <3>1, QuietStep DEF Announcing
  <2>6. QED
    BY <2>1, <2>2, <2>3, <2>4, <2>5 DEF FlowNext
<1>3. QED
  BY <1>1, <1>2, PTL DEF FlowSpec

-----------------------------------------------------------------------------
\* A mention is announced on sentiment-processed once at most.
AnnouncedOnce == announcedTwice = {}

\* No mention is announced twice on sentiment-processed, whichever handlers race for
\* its event and however often it is delivered.
THEOREM Once == FlowSpec => []AnnouncedOnce
<1>1. FlowInv => AnnouncedOnce
  BY DEF FlowInv, OnceInv, AnnouncedOnce
<1>2. QED
  BY <1>1, FlowInvariant, PTL

\* An announced mention has its row until its keyword is deleted, and the summary
\* that GET /nlp/summary gives is that of the row, whether Redis has it or not.
THEOREM Copies == FlowSpec => []CopiesFollowRow
<1>1. FlowInv => CopiesFollowRow
  <2> SUFFICES ASSUME FlowInv
               PROVE CopiesFollowRow
    OBVIOUS
  <2>1. \A m \in sentimentProcessed : m \in Nlp!Analysed \/ m.keyword \notin keywords
    BY DEF FlowInv, RowInv, Gone
  <2>2. ASSUME NEW r \in results
        PROVE Nlp!GetSummary(r.mention) = r.result.summary
    <3>1. CASE \E c \in cached : c.mention = r.mention
      <4> DEFINE d == CHOOSE c \in cached : c.mention = r.mention
      <4>1. d \in cached /\ d.mention = r.mention
        BY <3>1
      <4>2. Nlp!GetSummary(r.mention) = d.summary
        BY <3>1 DEF Nlp!GetSummary
      <4> HIDE DEF d
      <4>3. QED
        BY <2>2, <4>1, <4>2 DEF FlowInv, CopyInv
    <3>2. CASE ~\E c \in cached : c.mention = r.mention
      <4> DEFINE q == CHOOSE s \in results : s.mention = r.mention
      <4>1. q \in results /\ q.mention = r.mention
        BY <2>2
      <4>2. r.mention \in Nlp!Analysed
        BY <2>2 DEF Nlp!Analysed
      <4>3. Nlp!GetSummary(r.mention) = q.result.summary
        BY <3>2, <4>2 DEF Nlp!GetSummary
      <4> HIDE DEF q
      <4>4. q = r
        BY <2>2, <4>1 DEF FlowInv, CopyInv
      <4>5. QED
        BY <4>3, <4>4
    <3>3. QED
      BY <3>1, <3>2
  <2>3. QED
    BY <2>1, <2>2 DEF CopiesFollowRow
<1>2. QED
  BY <1>1, FlowInvariant, PTL
-----------------------------------------------------------------------------
(* The types of nlp-service, and the scrape within the whole flow *)

\* What nlp-service has written, and where its handlers are.
RowType ==
  /\ Nlp!Analysed \subseteq Mention
  /\ \A r \in results : r.result \in Nlp!Analyses(r.mention)
  /\ \A c \in cached : c.mention \in Mention /\ Nlp!Analysis!Truthy(c.summary)
  /\ sentimentProcessed \subseteq Mention
  /\ announcedTwice \subseteq Mention
  /\ settled \subseteq Mention
  /\ deadLettered \subseteq Mention

Steps == {"idle", "insert", "cache", "publish", "commit", "dlt"}

\* What a handler at step s has made of event e.
MadeOf(s, e) == IF s \in {"cache", "publish"} THEN Nlp!Analyses(e) ELSE {Free}

HandlerType ==
  /\ step \in [Handlers -> Steps]
  /\ event \in [Handlers -> Mention \cup {Free}]
  /\ attempt \in [Handlers -> 0..MaxRetries]
  /\ \A h \in Handlers : /\ step[h] # "idle" => event[h] \in mentionCreated
                         /\ made[h] \in MadeOf(step[h], event[h])
                         /\ step[h] = "cache" => Nlp!Analysis!Truthy(made[h].summary)

LEMMA NlpTypeParts ==
  Nlp!TypeOK <=> RowType /\ HandlerType /\ \A r, s \in results : r.mention = s.mention => r = s
BY DEF Nlp!TypeOK, RowType, HandlerType, MadeOf, Steps

\* One handler goes to step s, with event e, attempt n and analysis r.
LEMMA HandlerMoves ==
  ASSUME LocalInv, HandlerType, NEW h \in Handlers,
         NEW s \in Steps, NEW e \in Mention \cup {Free}, NEW n \in 0..MaxRetries, NEW r \in MadeOf(s, e),
         s # "idle" => e \in mentionCreated,
         s = "cache" => Nlp!Analysis!Truthy(r.summary),
         step' = [step EXCEPT ![h] = s], event' = [event EXCEPT ![h] = e],
         attempt' = [attempt EXCEPT ![h] = n], made' = [made EXCEPT ![h] = r],
         UNCHANGED mentionCreated
  PROVE HandlerType'
<1>1. /\ step' \in [Handlers -> Steps]
      /\ event' \in [Handlers -> Mention \cup {Free}]
      /\ attempt' \in [Handlers -> 0..MaxRetries]
  BY DEF HandlerType
<1>2. ASSUME NEW g \in Handlers
      PROVE  /\ step'[g] # "idle" => event'[g] \in mentionCreated'
             /\ made'[g] \in MadeOf(step'[g], event'[g])
             /\ step'[g] = "cache" => Nlp!Analysis!Truthy(made'[g].summary)
  <2>1. CASE g = h
    BY <2>1 DEF HandlerType, LocalInv
  <2>2. CASE g # h
    BY <2>2 DEF HandlerType, LocalInv
  <2>3. QED
    BY <2>1, <2>2
<1>3. QED
  BY <1>1, <1>2 DEF HandlerType, MadeOf

\* One handler leaves the event, or takes it up again.
LEMMA LeaveType ==
  ASSUME LocalInv, HandlerType, NEW h \in Handlers, Nlp!Leave(h), UNCHANGED mentionCreated
  PROVE HandlerType'
<1>1. Free \in Mention \cup {Free} /\ 0 \in 0..MaxRetries /\ "idle" \in Steps /\ Free \in MadeOf("idle", Free)
  BY FlowAssumption DEF Steps, MadeOf
<1>2. QED
  BY <1>1, HandlerMoves DEF Nlp!Leave, Nlp!Goto

LEMMA RetryType ==
  ASSUME LocalInv, HandlerType, NEW h \in Handlers, Nlp!Retry(h), step[h] # "idle",
         UNCHANGED <<mentionCreated, event>>
  PROVE HandlerType'
<1>1. event[h] \in mentionCreated /\ event[h] \in Mention \cup {Free} /\ event' = [event EXCEPT ![h] = event[h]]
  BY DEF HandlerType, LocalInv
<1>2. PICK s \in {"insert", "dlt"}, n \in 0..MaxRetries :
        step' = [step EXCEPT ![h] = s] /\ attempt' = [attempt EXCEPT ![h] = n]
  <2>1. attempt[h] \in 0..MaxRetries /\ (attempt' = [attempt EXCEPT ![h] = attempt[h]] \/ attempt[h] < MaxRetries)
    BY DEF Nlp!Retry, HandlerType
  <2>2. CASE attempt[h] < MaxRetries
    BY <2>2, FlowAssumption DEF Nlp!Retry, Nlp!Goto, HandlerType
  <2>3. CASE ~(attempt[h] < MaxRetries)
    BY <2>1, <2>3 DEF Nlp!Retry, Nlp!Goto, HandlerType
  <2>4. QED
    BY <2>2, <2>3
<1>3. s \in Steps /\ s \notin {"idle", "cache"} /\ Free \in MadeOf(s, event[h])
  BY <1>2 DEF Steps, MadeOf
<1>4. made' = [made EXCEPT ![h] = Free]
  BY DEF Nlp!Retry
<1>5. QED
  BY <1>1, <1>2, <1>3, <1>4, HandlerMoves

\* A handler goes on with the event it has.
LEMMA StaysType ==
  ASSUME LocalInv, HandlerType, NEW h \in Handlers, step[h] # "idle",
         NEW s \in Steps, NEW r \in MadeOf(s, event[h]), s = "cache" => Nlp!Analysis!Truthy(r.summary),
         step' = [step EXCEPT ![h] = s], made' = [made EXCEPT ![h] = r],
         UNCHANGED <<mentionCreated, event, attempt>>
  PROVE HandlerType'
<1>1. event[h] \in mentionCreated /\ event[h] \in Mention \cup {Free} /\ attempt[h] \in 0..MaxRetries
  BY DEF HandlerType
<1>2. event' = [event EXCEPT ![h] = event[h]] /\ attempt' = [attempt EXCEPT ![h] = attempt[h]]
  BY DEF HandlerType, LocalInv
<1>3. QED
  BY <1>1, <1>2, HandlerMoves

LEMMA HandlerTypes ==
  ASSUME LocalInv, RowType, HandlerType, mentionCreated \subseteq Mention,
         NEW h \in Handlers, HandlerStep(h) \/ HandlerFails(h)
  PROVE RowType' /\ HandlerType'
<1> USE DEF Nlp!inputVars, Nlp!announceVars, Nlp!offsetVars
<1>0. ASSUME UNCHANGED <<results, cached, sentimentProcessed, announcedTwice, settled, deadLettered>>
      PROVE RowType'
  BY <1>0 DEF RowType, Nlp!Analysed
<1>1. step[h] # "idle" => event[h] \in mentionCreated /\ event[h] \in Mention
  BY DEF HandlerType
<1>2. ASSUME NEW e \in mentionCreated, Nlp!Deliver(h, e)
      PROVE RowType' /\ HandlerType'
  <2>1. /\ step' = [step EXCEPT ![h] = "insert"] /\ event' = [event EXCEPT ![h] = e]
        /\ attempt' = [attempt EXCEPT ![h] = 1]
        /\ step[h] = "idle"
        /\ UNCHANGED <<results, cached, sentimentProcessed, announcedTwice, settled, deadLettered, mentionCreated, made>>
    BY <1>2 DEF Nlp!Deliver, Nlp!Goto
  <2>2. made[h] = Free
    BY <2>1 DEF HandlerType, MadeOf
  <2>3. made' = [made EXCEPT ![h] = Free]
    BY <2>1, <2>2 DEF LocalInv
  <2>4. e \in Mention \cup {Free} /\ 1 \in 0..MaxRetries /\ "insert" \in Steps /\ Free \in MadeOf("insert", e)
    BY FlowAssumption DEF Steps, MadeOf
  <2>5. HandlerType'
    BY <2>1, <2>3, <2>4, HandlerMoves
  <2>6. QED
    BY <1>0, <2>1, <2>5
<1>3. CASE Nlp!InsertResult(h)
  <2>1. step[h] = "insert" /\ event[h] \in Mention
    BY <1>1, <1>3 DEF Nlp!InsertResult
  <2>2. UNCHANGED <<cached, sentimentProcessed, announcedTwice, settled, deadLettered, mentionCreated, event, attempt>>
    BY <1>3 DEF Nlp!InsertResult
  <2>3. CASE step' = [step EXCEPT ![h] = "commit"] /\ UNCHANGED <<results, made>>
    <3>1. made[h] = Free
      BY <2>1 DEF HandlerType, MadeOf
    <3>2. "commit" \in Steps /\ Free \in MadeOf("commit", event[h]) /\ made' = [made EXCEPT ![h] = Free]
      BY <2>3, <3>1 DEF Steps, MadeOf, LocalInv
    <3>3. HandlerType'
      BY <2>1, <2>2, <2>3, <3>2, StaysType
    <3>4. QED
      BY <1>0, <2>2, <2>3, <3>3
  <2>4. ASSUME NEW r \in Nlp!Analyses(event[h]),
               results' = results \cup {[mention |-> event[h], result |-> r]}, Nlp!Continue(h, r)
        PROVE RowType' /\ HandlerType'
    <3>1. RowType'
      BY <2>1, <2>2, <2>4 DEF RowType, Nlp!Analysed
    <3>2. PICK s \in {"cache", "publish"} : /\ step' = [step EXCEPT ![h] = s]
                                            /\ s = "cache" => Nlp!Analysis!Truthy(r.summary)
      BY <2>4 DEF Nlp!Continue, Nlp!Goto
    <3>3. s \in Steps /\ r \in MadeOf(s, event[h]) /\ made' = [made EXCEPT ![h] = r]
      BY <2>4, <3>2 DEF Steps, MadeOf, Nlp!Continue
    <3>4. HandlerType'
      BY <2>1, <2>2, <3>2, <3>3, StaysType
    <3>5. QED
      BY <3>1, <3>4
  <2>5. QED
    BY <1>3, <2>3, <2>4 DEF Nlp!InsertResult, Nlp!Goto
<1>4. CASE Nlp!ForeignKeyFails(h) \/ Nlp!Raise(h)
  <2>1. HandlerType'
    BY <1>4, RetryType DEF Nlp!ForeignKeyFails, Nlp!Raise
  <2>2. QED
    BY <1>0, <1>4, <2>1 DEF Nlp!ForeignKeyFails, Nlp!Raise
<1>5. CASE Nlp!CacheSummary(h) \/ Nlp!CacheFails(h)
  <2>1. /\ step[h] = "cache" /\ step' = [step EXCEPT ![h] = "publish"]
        /\ UNCHANGED <<results, sentimentProcessed, announcedTwice, settled, deadLettered, mentionCreated, event, attempt, made>>
    BY <1>5 DEF Nlp!CacheSummary, Nlp!CacheFails, Nlp!Goto
  <2>2. /\ made[h] \in MadeOf("publish", event[h]) /\ Nlp!Analysis!Truthy(made[h].summary)
        /\ made' = [made EXCEPT ![h] = made[h]] /\ "publish" \in Steps
    BY <2>1 DEF HandlerType, LocalInv, MadeOf, Steps
  <2>3. HandlerType'
    BY <2>1, <2>2, StaysType
  <2>4. \A c \in cached' : c \in cached \/ c = [mention |-> event[h], summary |-> made[h].summary]
    BY <1>5 DEF Nlp!CacheSummary, Nlp!CacheFails
  <2>5. \A c \in cached' : c.mention \in Mention /\ Nlp!Analysis!Truthy(c.summary)
    BY <1>1, <2>1, <2>2, <2>4 DEF RowType
  <2>6. QED
    BY <2>1, <2>3, <2>5 DEF RowType, Nlp!Analysed
<1>6. CASE Nlp!PublishResult(h)
  <2>1. /\ step[h] = "publish" /\ step' = [step EXCEPT ![h] = "commit"] /\ made' = [made EXCEPT ![h] = Free]
        /\ sentimentProcessed' = sentimentProcessed \cup {event[h]}
        /\ announcedTwice' \subseteq announcedTwice \cup {event[h]}
        /\ UNCHANGED <<results, cached, settled, deadLettered, mentionCreated, event, attempt>>
    BY <1>6 DEF Nlp!PublishResult, Nlp!Goto
  <2>2. "commit" \in Steps /\ Free \in MadeOf("commit", event[h])
    BY DEF Steps, MadeOf
  <2>3. HandlerType'
    BY <2>1, <2>2, StaysType
  <2>4. QED
    BY <1>1, <2>1, <2>3 DEF RowType, Nlp!Analysed
<1>7. CASE Nlp!CommitOffset(h) \/ Nlp!DeadLetter(h)
  <2>1. /\ step[h] # "idle" /\ Nlp!Leave(h)
        /\ settled' = settled \cup {event[h]} /\ deadLettered' \subseteq deadLettered \cup {event[h]}
        /\ UNCHANGED <<results, cached, sentimentProcessed, announcedTwice, mentionCreated>>
    BY <1>7 DEF Nlp!CommitOffset, Nlp!DeadLetter
  <2>2. HandlerType'
    BY <2>1, LeaveType
  <2>3. QED
    BY <1>1, <2>1, <2>2 DEF RowType, Nlp!Analysed
<1>8. CASE Nlp!Crash(h)
  <2>1. HandlerType'
    BY <1>8, LeaveType DEF Nlp!Crash
  <2>2. QED
    BY <1>0, <1>8, <2>1 DEF Nlp!Crash
<1>9. QED
  BY <1>2, <1>3, <1>4, <1>5, <1>6, <1>7, <1>8 DEF HandlerStep, HandlerFails, Nlp!HandlerStep


\* What holds of the scrape alone, and what holds of the whole flow.
ScrapeInv == TypeInv /\ LockInv /\ DedupInv /\ AnnounceInv

WholeInv == ScrapeInv /\ FlowInv /\ RowType /\ HandlerType

LEMMA ScrapeNextInv ==
  ASSUME ScrapeInv, [Next]_vars
  PROVE ScrapeInv'
BY ScrapeTypeStep, LockStep, DedupStep, AnnounceStep DEF ScrapeInv

\* nlp-service does not touch the state of the scrape; of what they share it only
\* reads the rows and the events, and adds to the disturbances.
LEMMA ScrapeUntouched ==
  ASSUME ScrapeInv, UNCHANGED <<ownVars, mentions, mentionCreated>>, faults' \in 0..MaxFaults
  PROVE ScrapeInv'
<1> USE DEF ScrapeInv, ownVars, runVars, taskVars
<1>1. TypeInv'
  BY DEF TypeInv, TypeOK, LocalsMatch
<1>2. LockInv' /\ AnnounceInv'
  BY DEF LockInv, AnnounceInv, CommittedAnnounced
<1>3. DedupInv'
  BY DEF DedupInv, Claimed, HoldersApart, RowsApart, UniqueUrl
<1>4. QED
  BY <1>1, <1>2, <1>3

LEMMA HandlerShares ==
  ASSUME faults \in 0..MaxFaults, NEW h \in Handlers, HandlerStep(h) \/ HandlerFails(h)
  PROVE UNCHANGED <<ownVars, mentions, mentionCreated>> /\ faults' \in 0..MaxFaults
<1> USE ScrapeAssumption DEF Nlp!inputVars, Nlp!Disturbed
<1>1. UNCHANGED ownVars
  BY DEF HandlerStep, HandlerFails
<1>2. ASSUME NEW e \in mentionCreated, Nlp!Deliver(h, e)
      PROVE UNCHANGED <<mentions, mentionCreated>> /\ faults' \in 0..MaxFaults
  BY <1>2 DEF Nlp!Deliver
<1>3. CASE Nlp!InsertResult(h) \/ Nlp!ForeignKeyFails(h) \/ Nlp!CacheSummary(h)
  BY <1>1, <1>3 DEF Nlp!InsertResult, Nlp!ForeignKeyFails, Nlp!CacheSummary
<1>4. CASE Nlp!PublishResult(h) \/ Nlp!CommitOffset(h) \/ Nlp!DeadLetter(h)
  BY <1>1, <1>4 DEF Nlp!PublishResult, Nlp!CommitOffset, Nlp!DeadLetter
<1>5. CASE Nlp!Raise(h) \/ Nlp!CacheFails(h) \/ Nlp!Crash(h)
  BY <1>1, <1>5 DEF Nlp!Raise, Nlp!CacheFails, Nlp!Crash
<1>6. QED
  BY <1>1, <1>2, <1>3, <1>4, <1>5 DEF HandlerStep, HandlerFails, Nlp!HandlerStep

\* Events are never taken back.
LEMMA EventsStay ==
  ASSUME WorkerNext
  PROVE mentionCreated \subseteq mentionCreated'
<1> USE DEF runVars, taskVars
<1>1. \A w \in Workers : \A t : Start(w, t) => UNCHANGED mentionCreated
  BY DEF Start
<1>2. \A w \in Workers, k \in Keywords : Acquire(w, k) \/ Skip(w, k) => UNCHANGED mentionCreated
  BY DEF Acquire, Skip
<1>3. \A w \in Workers, u \in Urls : Claim(w, u) => UNCHANGED mentionCreated
  BY DEF Claim
<1>4. \A w \in Workers : Insert(w) \/ FinishKeyword(w) \/ Commit(w) => UNCHANGED mentionCreated
  BY DEF Insert, FinishKeyword, Commit
<1>5. \A w \in Workers : Publish(w) => mentionCreated \subseteq mentionCreated'
  BY DEF Publish
<1>6. \A w \in Workers : Fail(w) \/ Crash(w) => UNCHANGED mentionCreated
  BY DEF Fail, Crash, RollBack
<1>7. \A k \in Keywords : LockExpires(k) => UNCHANGED mentionCreated
  BY DEF LockExpires
<1>8. \A u \in Urls : ClaimExpires(u) => UNCHANGED mentionCreated
  BY DEF ClaimExpires
<1>9. \A w \in Workers : Refuse(w) => UNCHANGED mentionCreated
  BY DEF Refuse
<1>10. QED
  BY <1>1, <1>2, <1>3, <1>4, <1>5, <1>6, <1>7, <1>8, <1>9
     DEF WorkerNext, RunStep, Beat, Request

\* The handlers stand still, and rows of theirs may go.
LEMMA HandlersStand ==
  ASSUME RowType, HandlerType, results' \subseteq results, cached' \subseteq cached,
         UNCHANGED <<sentimentProcessed, announcedTwice, settled, deadLettered, step, event, attempt, made>>,
         mentionCreated \subseteq mentionCreated'
  PROVE RowType' /\ HandlerType'
<1>1. RowType'
  BY DEF RowType, Nlp!Analysed
<1>2. HandlerType'
  BY DEF HandlerType, MadeOf
<1>3. QED
  BY <1>1, <1>2

LEMMA WholeStep ==
  ASSUME WholeInv, FlowInv', [FlowNext]_flowVars
  PROVE WholeInv'
<1> USE DEF WholeInv
<1>1. CASE ScrapeStep
  <2>1. ScrapeInv'
    BY <1>1, ScrapeNextInv DEF ScrapeStep, Next
  <2>2. RowType' /\ HandlerType'
    BY <1>1, EventsStay, HandlersStand DEF ScrapeStep, nlpVars
  <2>3. QED
    BY <2>1, <2>2
<1>2. ASSUME NEW h \in Handlers, HandlerStep(h) \/ HandlerFails(h)
      PROVE WholeInv'
  <2>1. faults \in 0..MaxFaults /\ mentionCreated \subseteq Mention
    BY DEF ScrapeInv, TypeInv, TypeOK
  <2>2. ScrapeInv'
    BY <1>2, <2>1, HandlerShares, ScrapeUntouched
  <2>3. RowType' /\ HandlerType'
    BY <1>2, <2>1, HandlerTypes DEF FlowInv
  <2>4. QED
    BY <2>2, <2>3
<1>3. CASE CacheExpires
  <2>1. faults' \in 0..MaxFaults
    BY <1>3 DEF CacheExpires, Nlp!CacheExpires, ScrapeInv, TypeInv, TypeOK
  <2>2. ScrapeInv'
    BY <1>3, <2>1, ScrapeUntouched DEF CacheExpires, Nlp!CacheExpires, Nlp!inputVars
  <2>3. RowType' /\ HandlerType'
    BY <1>3, HandlersStand DEF CacheExpires, Nlp!CacheExpires, Nlp!inputVars, Nlp!announceVars, Nlp!offsetVars
  <2>4. QED
    BY <2>2, <2>3
<1>4. ASSUME NEW k \in Keywords, DeleteKeywordRows(k)
      PROVE WholeInv'
  <2>1. ScrapeInv'
    BY <1>4, ScrapeNextInv DEF DeleteKeywordRows, Next
  <2>2. RowType' /\ HandlerType'
    BY <1>4, HandlersStand DEF DeleteKeywordRows, DeleteKeyword, Nlp!Cascade, Nlp!announceVars, Nlp!offsetVars
  <2>3. QED
    BY <2>1, <2>2
<1>5. CASE UNCHANGED flowVars
  <2>1. ScrapeInv'
    BY <1>5, ScrapeUntouched DEF flowVars, vars, ScrapeInv, TypeInv, TypeOK
  <2>2. RowType' /\ HandlerType'
    BY <1>5, HandlersStand DEF flowVars, vars, nlpVars
  <2>3. QED
    BY <2>1, <2>2
<1>6. QED
  BY <1>1, <1>2, <1>3, <1>4, <1>5 DEF FlowNext

LEMMA WholeInvariant == FlowSpec => []WholeInv
<1>1. FlowInit /\ FlowInv => WholeInv
  <2> SUFFICES ASSUME FlowInit, FlowInv PROVE WholeInv
    OBVIOUS
  <2>1. TypeInv
    BY ScrapeTypeInit DEF FlowInit
  <2>2. LockInv /\ DedupInv /\ AnnounceInv
    BY DEF FlowInit, Init, LockInv, DedupInv, Claimed, HoldersApart, RowsApart, UniqueUrl,
           AnnounceInv, CommittedAnnounced
  <2>3. RowType /\ HandlerType
    BY ScrapeAssumption, FlowAssumption DEF FlowInit, Nlp!Init, RowType, HandlerType, Nlp!Analysed, MadeOf, Steps
  <2>4. QED
    BY <2>1, <2>2, <2>3 DEF WholeInv, ScrapeInv
<1>2. WholeInv /\ FlowInv' /\ [FlowNext]_flowVars => WholeInv'
  BY WholeStep
<1>3. QED
  BY <1>1, <1>2, FlowInvariant, PTL DEF FlowSpec

\* Type correctness of the flow.  What its readers rely on is in it: an event at
\* hand is one that was published, a handler between its insert and its publish
\* holds an analysis of that event, one about to write to Redis has a summary, a
\* row is an analysis of its mention, and no mention has two rows.
THEOREM FlowTypes == FlowSpec => []FlowTypeOK
<1>1. WholeInv => FlowTypeOK
  <2> SUFFICES ASSUME WholeInv PROVE FlowTypeOK
    OBVIOUS
  <2>1. TypeOK
    BY DEF WholeInv, ScrapeInv, TypeInv
  <2>2. \A r, s \in results : r.mention = s.mention => r = s
    BY DEF WholeInv, FlowInv, CopyInv
  <2>3. QED
    BY <2>1, <2>2, NlpTypeParts DEF WholeInv, FlowTypeOK
<1>2. QED
  BY <1>1, WholeInvariant, PTL

\* The handlers and the cascade of a deletion do not break what the scrape promises.
THEOREM ScrapeKept == FlowSpec => [](UniqueUrl /\ CommittedAnnounced /\ LockExcludes)
<1>1. WholeInv => UniqueUrl /\ CommittedAnnounced
  BY DEF WholeInv, ScrapeInv, DedupInv, AnnounceInv
<1>2. WholeInv => LockExcludes
  <2>1. TypeInv /\ LockInv => LockExcludes
    BY DEF LockInv, LockExcludes
  <2>2. QED
    BY <2>1 DEF WholeInv, ScrapeInv
<1>3. QED
  BY <1>1, <1>2, WholeInvariant, PTL
-----------------------------------------------------------------------------
(* The flow implements SentimentFeed *)

\* A handler that neither takes a row in hand nor lets one go: what is in hand stays.
LEMMA HandStays ==
  ASSUME \A h \in Handlers : (Announcing(h)' <=> Announcing(h)) /\ (Announcing(h) => event'[h] = event[h] /\ made'[h] = made[h])
  PROVE RowsInHand' = RowsInHand
BY DEF RowsInHand, Announcing

\* One handler takes the row of its event in hand.
LEMMA HandTakes ==
  ASSUME NEW h \in Handlers, ~Announcing(h), Announcing(h)',
         \A g \in Handlers : g # h => /\ Announcing(g)' <=> Announcing(g)
                                      /\ event'[g] = event[g] /\ made'[g] = made[g]
  PROVE RowsInHand' = RowsInHand \cup {[mention |-> event'[h], result |-> made'[h]]}
BY DEF RowsInHand, Announcing

\* One handler lets its row go, which no other has in hand.
LEMMA HandLets ==
  ASSUME OnceInv, NEW h \in Handlers, Announcing(h), ~Announcing(h)',
         \A g \in Handlers : g # h => /\ Announcing(g)' <=> Announcing(g)
                                      /\ event'[g] = event[g] /\ made'[g] = made[g]
  PROVE /\ [mention |-> event[h], result |-> made[h]] \in RowsInHand
        /\ RowsInHand' = RowsInHand \ {[mention |-> event[h], result |-> made[h]]}
<1> DEFINE row(g) == [mention |-> event[g], result |-> made[g]]
<1>1. \A g \in Handlers : Announcing(g) /\ row(g) = row(h) => g = h
  BY DEF OnceInv
<1>2. RowsInHand = {row(g) : g \in {f \in Handlers : Announcing(f)}}
  BY DEF RowsInHand, Announcing
<1>3. \A g \in Handlers : Announcing(g)' <=> Announcing(g) /\ g # h
  OBVIOUS
<1>4. \A x : x \in RowsInHand' <=> \E g \in Handlers : Announcing(g)' /\ x = [mention |-> event'[g], result |-> made'[g]]
  BY DEF RowsInHand, Announcing
<1>5. \A x : x \in RowsInHand' <=> \E g \in Handlers : Announcing(g) /\ g # h /\ x = row(g)
  BY <1>3, <1>4
<1> HIDE DEF row
<1>6. \A x : x \in RowsInHand' <=> x \in RowsInHand /\ x # row(h)
  BY <1>1, <1>2, <1>5
<1>7. row(h) \in RowsInHand
  BY <1>2
<1>8. QED
  BY <1>6, <1>7 DEF row

\* The tables and the topic as SentimentFeed has them, unchanged.
feedVars == <<keywords, mentions, results, sentimentProcessed, announcedTwice>>

LEMMA FeedStutters ==
  ASSUME UNCHANGED feedVars, RowsInHand' = RowsInHand
  PROVE UNCHANGED Feed!vars
BY DEF feedVars, Feed!vars

\* A handler that was not announcing and is not now.
LEMMA HandlerStutters ==
  ASSUME LocalInv, NEW h \in Handlers, ~Announcing(h), NEW s, s \notin {"cache", "publish"},
         step' = [step EXCEPT ![h] = s], UNCHANGED feedVars,
         \A g \in Handlers : g # h => event'[g] = event[g] /\ made'[g] = made[g]
  PROVE UNCHANGED Feed!vars
<1>1. \A g \in Handlers : (Announcing(g)' <=> Announcing(g)) /\ (Announcing(g) => event'[g] = event[g] /\ made'[g] = made[g])
  BY DEF LocalInv, Announcing
<1>2. QED
  BY <1>1, HandStays, FeedStutters

\* A handler that was announcing and is not now loses its row.
LEMMA HandlerLoses ==
  ASSUME LocalInv, OnceInv, NEW h \in Handlers, Announcing(h), NEW s, s \notin {"cache", "publish"},
         step' = [step EXCEPT ![h] = s], UNCHANGED feedVars,
         \A g \in Handlers : g # h => event'[g] = event[g] /\ made'[g] = made[g]
  PROVE \E row \in RowsInHand : Feed!Lose(row)
<1>1. ~Announcing(h)' /\ \A g \in Handlers : g # h => (Announcing(g)' <=> Announcing(g))
  BY DEF LocalInv, Announcing
<1>2. /\ [mention |-> event[h], result |-> made[h]] \in RowsInHand
      /\ RowsInHand' = RowsInHand \ {[mention |-> event[h], result |-> made[h]]}
  BY <1>1, HandLets
<1>3. QED
  BY <1>2 DEF Feed!Lose, feedVars

\* What a scrape commits is new, of keywords that exist, and has urls of its own.
LEMMA ScrapeFeeds ==
  ASSUME FlowInv, FlowInv', UniqueUrl', ScrapeStep
  PROVE Feed!Store
<1>1. /\ keywords' = keywords /\ mentions \subseteq mentions'
      /\ UNCHANGED <<results, sentimentProcessed, announcedTwice, step, event, made>>
  BY ScrapeKeepsKeywords DEF FlowInv, ScrapeStep, nlpVars
<1>2. RowsInHand' = RowsInHand
  BY <1>1 DEF RowsInHand
<1>3. \A m \in mentions' \ mentions : m.keyword \in keywords
  BY <1>1 DEF FlowInv, KeywordInv
<1>4. \A m \in mentions' \ mentions : m \notin sentimentProcessed
  BY <1>3 DEF FlowInv, RowInv, Gone
<1>5. QED
  BY <1>1, <1>2, <1>3, <1>4 DEF Feed!Store, UniqueUrl

\* Only the insert of a new row takes one in hand, and the mention has none.
LEMMA InsertFeeds ==
  ASSUME FlowInv, NEW h \in Handlers, Nlp!InsertResult(h), UNCHANGED ownVars
  PROVE [Feed!Next]_(Feed!vars)
<1> USE DEF Nlp!inputVars, Nlp!announceVars, ownVars
<1>1. /\ step[h] = "insert" /\ event[h] \in mentions /\ ~Announcing(h)
      /\ UNCHANGED <<keywords, mentions, sentimentProcessed, announcedTwice, event>>
  BY DEF Nlp!InsertResult, Announcing
<1>2. CASE event[h] \in Nlp!Analysed
  <2>1. step' = [step EXCEPT ![h] = "commit"] /\ UNCHANGED <<results, made>>
    BY <1>2 DEF Nlp!InsertResult, Nlp!Goto
  <2>2. UNCHANGED Feed!vars
    BY <1>1, <2>1, HandlerStutters DEF FlowInv, feedVars
  <2>3. QED
    BY <2>2
<1>3. CASE event[h] \notin Nlp!Analysed
  <2>1. PICK r \in Nlp!Analyses(event[h]) :
          /\ results' = results \cup {[mention |-> event[h], result |-> r]}
          /\ Nlp!Continue(h, r)
    BY <1>3 DEF Nlp!InsertResult
  <2>2. PICK s \in {"cache", "publish"} : step' = [step EXCEPT ![h] = s] /\ made' = [made EXCEPT ![h] = r]
    BY <2>1 DEF Nlp!Continue, Nlp!Goto
  <2>3. /\ Announcing(h)' /\ made'[h] = r /\ event'[h] = event[h]
        /\ \A g \in Handlers : g # h => /\ Announcing(g)' <=> Announcing(g)
                                        /\ event'[g] = event[g] /\ made'[g] = made[g]
    BY <1>1, <2>2 DEF FlowInv, LocalInv, Announcing
  <2> DEFINE row == [mention |-> event[h], result |-> r]
  <2>4. RowsInHand' = RowsInHand \cup {row}
    BY <1>1, <2>3, HandTakes
  <2>5. \A q \in results : q.mention # event[h]
    BY <1>3 DEF Nlp!Analysed
  <2>6. Feed!Analyse(row) /\ row \in results'
    BY <1>1, <2>1, <2>4, <2>5 DEF Feed!Analyse
  <2>7. QED
    BY <2>6 DEF Feed!Next
<1>4. QED
  BY <1>2, <1>3

\* The publish announces the row in hand, for the first time.
LEMMA PublishFeeds ==
  ASSUME FlowInv, NEW h \in Handlers, Nlp!PublishResult(h), UNCHANGED ownVars
  PROVE \E row \in RowsInHand : Feed!Announce(row)
<1> USE DEF Nlp!inputVars, Nlp!announceVars, ownVars
<1> DEFINE row == [mention |-> event[h], result |-> made[h]]
<1>1. /\ Announcing(h) /\ step' = [step EXCEPT ![h] = "commit"]
      /\ made' = [made EXCEPT ![h] = Free] /\ event' = event
      /\ sentimentProcessed' = sentimentProcessed \cup {event[h]}
      /\ UNCHANGED <<keywords, mentions, results>>
  BY DEF Nlp!PublishResult, Nlp!Goto, Announcing
<1>2. event[h] \notin sentimentProcessed /\ announcedTwice = {} /\ announcedTwice' = {}
  BY <1>1 DEF FlowInv, OnceInv, Nlp!PublishResult
<1>3. /\ ~Announcing(h)'
      /\ \A g \in Handlers : g # h => /\ Announcing(g)' <=> Announcing(g)
                                      /\ event'[g] = event[g] /\ made'[g] = made[g]
  BY <1>1 DEF FlowInv, LocalInv, Announcing
<1>4. row \in RowsInHand /\ RowsInHand' = RowsInHand \ {row}
  BY <1>1, <1>3, HandLets DEF FlowInv
<1> DEFINE count == [m \in sentimentProcessed |-> IF m \in announcedTwice THEN 2 ELSE 1]
<1>5. count = [m \in sentimentProcessed |-> 1] /\ DOMAIN count = sentimentProcessed
  BY ONLY <1>2
<1>6. count' = [m \in sentimentProcessed \cup {event[h]} |-> 1]
  BY ONLY <1>1, <1>2
<1>7. count' = [m \in DOMAIN count \cup {event[h]} |-> IF m = event[h] THEN 1 ELSE count[m]]
  BY ONLY <1>5, <1>6
<1>8. PICK x \in RowsInHand : RowsInHand' = RowsInHand \ {x} /\ x.mention = event[h]
  BY <1>4
<1>9. Feed!Announce(x)
  BY <1>1, <1>2, <1>5, <1>7, <1>8 DEF Feed!Announce
<1>10. QED
  BY <1>8, <1>9

\* The steps that end a handling in one way or another, or begin one.
LEMMA HandlerFeeds ==
  ASSUME FlowInv, NEW h \in Handlers, HandlerStep(h) \/ HandlerFails(h)
  PROVE [Feed!Next]_(Feed!vars)
<1> USE DEF Nlp!inputVars, Nlp!announceVars, ownVars
<1>0. LocalInv /\ OnceInv /\ UNCHANGED <<keywords>>
  BY DEF FlowInv, HandlerStep, HandlerFails
<1>1. ASSUME Nlp!Goto(h, "idle") \/ Nlp!Goto(h, "insert") \/ Nlp!Goto(h, "dlt"), UNCHANGED feedVars,
             \A g \in Handlers : g # h => event'[g] = event[g] /\ made'[g] = made[g]
      PROVE  [Feed!Next]_(Feed!vars)
  <2>1. PICK s \in {"idle", "insert", "dlt"} : step' = [step EXCEPT ![h] = s]
    BY <1>1 DEF Nlp!Goto
  <2>2. CASE Announcing(h)
    BY <1>0, <1>1, <2>1, <2>2, HandlerLoses DEF Feed!Next
  <2>3. CASE ~Announcing(h)
    BY <1>0, <1>1, <2>1, <2>3, HandlerStutters
  <2>4. QED
    BY <2>2, <2>3
<1>2. ASSUME NEW e \in mentionCreated, Nlp!Deliver(h, e)
      PROVE [Feed!Next]_(Feed!vars)
  <2>1. \A g \in Handlers : g # h => event'[g] = event[g] /\ made'[g] = made[g]
    BY <1>0, <1>2 DEF Nlp!Deliver, LocalInv
  <2>2. QED
    BY <1>0, <1>1, <1>2, <2>1 DEF Nlp!Deliver, feedVars
<1>3. ASSUME Nlp!ForeignKeyFails(h) \/ Nlp!Raise(h)
      PROVE [Feed!Next]_(Feed!vars)
  <2>1. \A g \in Handlers : g # h => event'[g] = event[g] /\ made'[g] = made[g]
    BY <1>0, <1>3 DEF Nlp!ForeignKeyFails, Nlp!Raise, Nlp!Retry, LocalInv
  <2>2. QED
    BY <1>0, <1>1, <1>3, <2>1 DEF Nlp!ForeignKeyFails, Nlp!Raise, Nlp!Retry, feedVars
<1>4. ASSUME Nlp!CommitOffset(h) \/ Nlp!DeadLetter(h) \/ Nlp!Crash(h)
      PROVE [Feed!Next]_(Feed!vars)
  <2>1. \A g \in Handlers : g # h => event'[g] = event[g] /\ made'[g] = made[g]
    BY <1>0, <1>4 DEF Nlp!CommitOffset, Nlp!DeadLetter, Nlp!Crash, Nlp!Leave, LocalInv
  <2>2. QED
    BY <1>0, <1>1, <1>4, <2>1 DEF Nlp!CommitOffset, Nlp!DeadLetter, Nlp!Crash, Nlp!Leave, feedVars
<1>5. ASSUME Nlp!CacheSummary(h) \/ Nlp!CacheFails(h)
      PROVE [Feed!Next]_(Feed!vars)
  <2>1. Announcing(h) /\ step' = [step EXCEPT ![h] = "publish"] /\ UNCHANGED feedVars /\ UNCHANGED <<event, made>>
    BY <1>0, <1>5 DEF Nlp!CacheSummary, Nlp!CacheFails, Nlp!Goto, Announcing, feedVars
  <2>2. RowsInHand' = RowsInHand
    BY <1>0, <2>1, HandStays DEF LocalInv, Announcing
  <2>3. QED
    BY <2>1, <2>2, FeedStutters
<1>6. ASSUME Nlp!InsertResult(h), UNCHANGED ownVars
      PROVE [Feed!Next]_(Feed!vars)
  BY <1>6, InsertFeeds
<1>7. ASSUME Nlp!PublishResult(h), UNCHANGED ownVars
      PROVE [Feed!Next]_(Feed!vars)
  BY <1>7, PublishFeeds DEF Feed!Next
<1>8. QED
  BY <1>2, <1>3, <1>4, <1>5, <1>6, <1>7 DEF HandlerStep, Nlp!HandlerStep, HandlerFails

\* The keyword goes with its mentions and their rows; what is in hand stays in hand.
LEMMA DeleteFeeds ==
  ASSUME NEW k \in Keywords, DeleteKeywordRows(k)
  PROVE k \in keywords /\ Feed!Delete(k)
<1>1. /\ k \in keywords /\ keywords' = keywords \ {k}
      /\ mentions' = {m \in mentions : m.keyword # k}
      /\ results' = {r \in results : r.mention \in mentions'}
      /\ UNCHANGED <<sentimentProcessed, announcedTwice, step, event, made>>
  BY DEF DeleteKeywordRows, DeleteKeyword, Nlp!Cascade, Nlp!announceVars
<1>2. RowsInHand' = RowsInHand
  BY <1>1 DEF RowsInHand
<1>3. QED
  BY <1>1, <1>2 DEF Feed!Delete

\* mention-service and nlp-service together implement SentimentFeed: every
\* interleaving of scrapes, handlers, redeliveries, failures and deletions looks from
\* the tables and the topic like one of its behaviours.
THEOREM Refinement == FlowSpec => ImplementsSentimentFeed
<1>1. FlowInit => Feed!Init
  <2> SUFFICES ASSUME FlowInit PROVE Feed!Init
    OBVIOUS
  <2>1. /\ keywords = Keywords /\ mentions = {} /\ results = {} /\ sentimentProcessed = {}
        /\ \A h \in Handlers : step[h] = "idle"
    BY DEF FlowInit, Init, Nlp!Init
  <2>2. RowsInHand = {}
    BY <2>1 DEF RowsInHand
  <2>3. QED
    BY <2>1, <2>2 DEF Feed!Init
<1>2. WholeInv /\ WholeInv' /\ [FlowNext]_flowVars => [Feed!Next]_(Feed!vars)
  <2> SUFFICES ASSUME WholeInv, WholeInv', [FlowNext]_flowVars
               PROVE [Feed!Next]_(Feed!vars)
    OBVIOUS
  <2>0. FlowInv /\ FlowInv' /\ UniqueUrl'
    BY DEF WholeInv, ScrapeInv, DedupInv
  <2>1. CASE ScrapeStep
    BY <2>0, <2>1, ScrapeFeeds DEF Feed!Next
  <2>2. ASSUME NEW h \in Handlers, HandlerStep(h) \/ HandlerFails(h)
        PROVE [Feed!Next]_(Feed!vars)
    BY <2>0, <2>2, HandlerFeeds
  <2>3. CASE CacheExpires \/ UNCHANGED flowVars
    <3>1. UNCHANGED feedVars /\ UNCHANGED <<step, event, made>>
      BY <2>3 DEF CacheExpires, Nlp!CacheExpires, Nlp!inputVars, Nlp!announceVars, ownVars, flowVars, vars, nlpVars,
                  feedVars
    <3>2. RowsInHand' = RowsInHand
      BY <3>1 DEF RowsInHand
    <3>3. QED
      BY <3>1, <3>2, FeedStutters
  <2>4. ASSUME NEW k \in Keywords, DeleteKeywordRows(k)
        PROVE [Feed!Next]_(Feed!vars)
    BY <2>4, DeleteFeeds DEF Feed!Next
  <2>5. QED
    BY <2>1, <2>2, <2>3, <2>4 DEF FlowNext
<1>3. QED
  BY <1>1, <1>2, WholeInvariant, PTL DEF FlowSpec, ImplementsSentimentFeed, Feed!Spec
-----------------------------------------------------------------------------
(* analyze_text, for every text and whatever the language model says *)

\* An instance has operators of its own for those of the library.
LEMMA SameCardinality == \A S : Nlp!Analysis!Cardinality(S) = Cardinality(S)
BY Zenon DEF Nlp!Analysis!Cardinality, Cardinality

LEMMA SameOrder == \A S, ahead : Nlp!Analysis!InOrder(S, ahead) = InOrder(S, ahead)
BY SameCardinality DEF Nlp!Analysis!InOrder, InOrder

LEMMA SameExtremes == \A S : Nlp!Analysis!Min(S) = Min(S) /\ Nlp!Analysis!Max(S) = Max(S)
BY DEF Nlp!Analysis!Min, Min, Nlp!Analysis!Max, Max

LEMMA ListFacts ==
  ASSUME NEW s, Nlp!Analysis!IsList(s)
  PROVE  /\ DOMAIN s = 1..Len(s) /\ Len(s) \in Nat
         /\ \A i \in DOMAIN s : s[i] \in Nlp!Analysis!ToSet(s)
         /\ \A x \in Nlp!Analysis!ToSet(s) : \E i \in DOMAIN s : s[i] = x
         /\ IsFiniteSet(Nlp!Analysis!ToSet(s))
<1>1. DOMAIN s = 1..Len(s) /\ Len(s) \in Nat
  BY DEF Nlp!Analysis!IsList
<1>2. Nlp!Analysis!ToSet(s) = {s[i] : i \in DOMAIN s}
  BY DEF Nlp!Analysis!ToSet
<1>3. IsFiniteSet(DOMAIN s)
  BY <1>1, FS_Interval
<1>4. IsFiniteSet({s[i] : i \in DOMAIN s})
  BY <1>3, ImageFinite
<1>5. QED
  BY <1>1, <1>2, <1>4

\* An element of a list has a first place, which no other element has.
LEMMA FirstPlace ==
  ASSUME NEW s, Nlp!Analysis!IsList(s), NEW x \in Nlp!Analysis!ToSet(s)
  PROVE  /\ Nlp!Analysis!FirstAt(s, x) \in Nat
         /\ s[Nlp!Analysis!FirstAt(s, x)] = x
<1> DEFINE places == Nlp!Analysis!At(s, x)
<1>1. places = {i \in DOMAIN s : s[i] = x}
  BY DEF Nlp!Analysis!At
<1>2. Nlp!Analysis!FirstAt(s, x) = Min(places)
  BY SameExtremes DEF Nlp!Analysis!FirstAt
<1> HIDE DEF places
<1>3. places \subseteq 1..Len(s) /\ Len(s) \in Nat /\ places # {}
  BY <1>1, ListFacts
<1>4. IsFiniteSet(places) /\ places \subseteq Int
  <2>1. IsFiniteSet(1..Len(s))
    BY <1>3, FS_Interval
  <2>2. IsFiniteSet(places)
    BY ONLY <1>3, <2>1, FS_Subset
  <2>3. QED
    BY ONLY <1>3, <2>2
<1>5. Min(places) \in places
  BY <1>3, <1>4, Extremes
<1>6. QED
  BY <1>1, <1>2, <1>3, <1>5

\* First: the beginning of a list, as long as it is or up to n.
LEMMA FirstFacts ==
  ASSUME NEW S, NEW s \in Seq(S), NEW n \in Nat
  PROVE  /\ Nlp!Analysis!First(s, n) \in Seq(S)
         /\ Len(Nlp!Analysis!First(s, n)) = IF n <= Len(s) THEN n ELSE Len(s)
         /\ \A i \in 1..Len(Nlp!Analysis!First(s, n)) : Nlp!Analysis!First(s, n)[i] = s[i]
<1> DEFINE m == IF n <= Len(s) THEN n ELSE Len(s)
<1>1. m \in 0..Len(s) /\ Len(s) \in Nat
  OBVIOUS
<1>2. Min({n, Len(s)}) = m
  BY DEF Min
<1>3. Nlp!Analysis!First(s, n) = SubSeq(s, 1, m)
  BY <1>2, SameExtremes DEF Nlp!Analysis!First
<1> HIDE DEF m
<1>4. \A i \in 1..m : s[i] \in S
  BY <1>1
<1>5. /\ SubSeq(s, 1, m) \in Seq(S)
      /\ Len(SubSeq(s, 1, m)) = m
      /\ \A i \in 1..m : SubSeq(s, 1, m)[i] = s[i]
  BY <1>1, <1>4, SubSeqProperties
<1>6. QED
  BY <1>3, <1>5 DEF m

\* Before is a strict total order of the elements of a list.
LEMMA BeforeOrders ==
  ASSUME NEW s, Nlp!Analysis!IsList(s), NEW S \in SUBSET Nlp!Analysis!ToSet(s), NEW weight \in [S -> Int]
  PROVE  /\ \A x \in S : ~Nlp!Analysis!Before(s, weight, x, x)
         /\ \A x, y, z \in S : Nlp!Analysis!Before(s, weight, z, y) /\ Nlp!Analysis!Before(s, weight, y, x)
                                 => Nlp!Analysis!Before(s, weight, z, x)
         /\ \A x, y \in S : x # y => Nlp!Analysis!Before(s, weight, x, y) \/ Nlp!Analysis!Before(s, weight, y, x)
<1> DEFINE at == [x \in S |-> Nlp!Analysis!FirstAt(s, x)]
<1>1. \A x \in S : at[x] = Nlp!Analysis!FirstAt(s, x) /\ at[x] \in Int /\ weight[x] \in Int
  BY FirstPlace
<1>2. \A x, y \in S : at[x] = at[y] => x = y
  BY FirstPlace
<1>3. \A x, y \in S : Nlp!Analysis!Before(s, weight, y, x) <=> weight[y] > weight[x] \/ (weight[y] = weight[x] /\ at[y] < at[x])
  BY DEF Nlp!Analysis!Before
<1> HIDE DEF at
<1>4. \A x \in S : ~Nlp!Analysis!Before(s, weight, x, x)
  BY ONLY <1>1, <1>3
<1>5. \A x, y, z \in S : Nlp!Analysis!Before(s, weight, z, y) /\ Nlp!Analysis!Before(s, weight, y, x)
                          => Nlp!Analysis!Before(s, weight, z, x)
  BY ONLY <1>1, <1>3
<1>6. \A x, y \in S : x # y => Nlp!Analysis!Before(s, weight, x, y) \/ Nlp!Analysis!Before(s, weight, y, x)
  BY ONLY <1>1, <1>2, <1>3
<1>7. QED
  BY <1>4, <1>5, <1>6

\* The beginning of Ranked is the beginning of S in the order of Before.
LEMMA RankedFirst ==
  ASSUME NEW s, Nlp!Analysis!IsList(s), NEW S \in SUBSET Nlp!Analysis!ToSet(s), NEW weight \in [S -> Int],
         NEW limit \in Nat
  PROVE  Nlp!Analysis!ListsFirst(Nlp!Analysis!First(Nlp!Analysis!Ranked(S, s, weight), limit), S, s, weight, limit)
<1> DEFINE ahead == [x \in S |-> {y \in S : Nlp!Analysis!Before(s, weight, y, x)}]
           list == InOrder(S, ahead)
           n == Cardinality(S)
           cut == Nlp!Analysis!First(list, limit)
<1>1. Nlp!Analysis!Ranked(S, s, weight) = list
  BY SameOrder DEF Nlp!Analysis!Ranked
<1>2. IsFiniteSet(S) /\ n \in Nat
  BY ListFacts, FS_Subset, FS_CardinalityType
<1>3. \A x, y \in S : y \in ahead[x] <=> Nlp!Analysis!Before(s, weight, y, x)
  OBVIOUS
<1>4. \A x \in S : ahead[x] \in SUBSET S
  OBVIOUS
<1> HIDE DEF ahead
<1>5. \A x \in S : ahead[x] \in SUBSET S /\ x \notin ahead[x]
  BY <1>3, <1>4, BeforeOrders
<1>6. \A x \in S : \A y \in ahead[x] : ahead[y] \subseteq ahead[x]
  BY <1>3, <1>4, BeforeOrders
<1>7. \A x, y \in S : x # y => x \in ahead[y] \/ y \in ahead[x]
  BY <1>3, BeforeOrders
<1>8. /\ InOrder(S, ahead) \in [1..Cardinality(S) -> S]
      /\ \A i, j \in 1..Cardinality(S) : InOrder(S, ahead)[i] = InOrder(S, ahead)[j] => i = j
  BY <1>2, <1>5, <1>6, <1>7, InOrderLists
<1>9. \A i \in 1..Cardinality(S) : \A x \in ahead[InOrder(S, ahead)[i]] : \E j \in 1..(i - 1) : InOrder(S, ahead)[j] = x
  BY <1>2, <1>5, <1>6, <1>7, InOrderSorts
<1>10. /\ list \in Seq(S) /\ Len(list) = n
       /\ \A i \in 1..n : list[i] \in S /\ \A j \in 1..n : list[i] = list[j] => i = j
       /\ \A i \in 1..n : \A x \in ahead[list[i]] : \E j \in 1..(i - 1) : list[j] = x
  BY <1>2, <1>8, <1>9
<1> HIDE DEF list, n
<1>11. /\ cut \in Seq(S)
       /\ Len(cut) = IF limit <= n THEN limit ELSE n
       /\ \A i \in 1..Len(cut) : cut[i] = list[i]
  BY <1>10, FirstFacts
<1> HIDE DEF cut
<1>12. DOMAIN cut = 1..Len(cut) /\ Len(cut) \in Nat /\ Len(cut) <= n /\ 1..Len(cut) \subseteq 1..n
  BY <1>2, <1>11
<1>13. Nlp!Analysis!IsList(cut) /\ Nlp!Analysis!ToSet(cut) \subseteq S
  <2>1. Nlp!Analysis!ToSet(cut) = {cut[i] : i \in DOMAIN cut}
    BY DEF Nlp!Analysis!ToSet
  <2>2. Nlp!Analysis!ToSet(cut) \subseteq S
    BY ONLY <1>11, <1>12, <2>1
  <2>3. \A i \in 1..Len(cut) : cut[i] \in Nlp!Analysis!ToSet(cut)
    BY ONLY <1>12, <2>1
  <2>4. cut \in Seq(Nlp!Analysis!ToSet(cut))
    BY ONLY <1>11, <1>12, <2>3
  <2>5. QED
    BY <2>2, <2>4 DEF Nlp!Analysis!IsList
<1>14. \A i, j \in DOMAIN cut : cut[i] = cut[j] => i = j
  BY <1>10, <1>11, <1>12
<1>15. ASSUME NEW i \in DOMAIN cut, NEW x \in S, Nlp!Analysis!Before(s, weight, x, cut[i])
       PROVE  \E j \in 1..(i - 1) : cut[j] = x
  <2>1. i \in 1..Len(cut) /\ i \in 1..n /\ cut[i] = list[i] /\ list[i] \in S
    BY <1>10, <1>11, <1>12
  <2>2. x \in ahead[list[i]]
    BY <1>3, <1>15, <2>1
  <2>3. PICK j \in 1..(i - 1) : list[j] = x
    BY <1>10, <2>1, <2>2
  <2>4. j \in 1..Len(cut)
    BY <1>12, <2>1
  <2>5. QED
    BY <1>11, <2>3, <2>4
<1>16. Len(cut) = IF limit <= Nlp!Analysis!Cardinality(S) THEN limit ELSE Nlp!Analysis!Cardinality(S)
  BY <1>11, SameCardinality DEF n
<1>17. Nlp!Analysis!ListsFirst(cut, S, s, weight, limit)
  BY <1>13, <1>14, <1>15, <1>16 DEF Nlp!Analysis!ListsFirst
<1>18. QED
  BY <1>1, <1>17 DEF cut
LEMMA KeywordsLimited ==
  ASSUME NEW t, Nlp!Analysis!IsText(t), NEW gpt
  PROVE  Nlp!Analysis!KeywordsFit(t, Nlp!Analysis!AnalyzeText(t, gpt))
<1> DEFINE s == t.words
           S == Nlp!Analysis!ToSet(s) \ Stopwords
           weight == [w \in S |-> Nlp!Analysis!Cardinality(Nlp!Analysis!At(s, w))]
<1>1. Nlp!Analysis!IsList(s)
  BY DEF Nlp!Analysis!IsText
<1>2. ASSUME NEW w \in S PROVE Nlp!Analysis!Cardinality(Nlp!Analysis!At(s, w)) \in Int
  <2>1. DOMAIN s = 1..Len(s) /\ Len(s) \in Nat
    BY <1>1, ListFacts
  <2>2. Nlp!Analysis!At(s, w) = {i \in DOMAIN s : s[i] = w}
    BY DEF Nlp!Analysis!At
  <2> HIDE DEF s
  <2>3. Nlp!Analysis!At(s, w) \subseteq 1..Len(s) /\ Len(s) \in Nat
    BY ONLY <2>1, <2>2
  <2>4. IsFiniteSet(1..Len(s))
    BY ONLY <2>3, FS_Interval
  <2>5. IsFiniteSet(Nlp!Analysis!At(s, w))
    BY ONLY <2>3, <2>4, FS_Subset
  <2>6. Cardinality(Nlp!Analysis!At(s, w)) \in Nat
    BY ONLY <2>5, FS_CardinalityType
  <2>7. Nlp!Analysis!Cardinality(Nlp!Analysis!At(s, w)) = Cardinality(Nlp!Analysis!At(s, w))
    BY SameCardinality
  <2>8. QED
    BY ONLY <2>6, <2>7
<1>3. weight \in [S -> Int]
  BY ONLY <1>2
<1>4. S \in SUBSET Nlp!Analysis!ToSet(s)
  OBVIOUS
<1>5. Nlp!Analysis!AnalyzeText(t, gpt).keywords = Nlp!Analysis!First(Nlp!Analysis!Ranked(S, s, weight), 5)
  BY DEF Nlp!Analysis!AnalyzeText, Nlp!Analysis!KeywordsOf
<1>6. Nlp!Analysis!KeywordsFit(t, Nlp!Analysis!AnalyzeText(t, gpt))
        <=> Nlp!Analysis!ListsFirst(Nlp!Analysis!AnalyzeText(t, gpt).keywords, S, s, weight, 5)
  BY DEF Nlp!Analysis!KeywordsFit
<1> HIDE DEF s, S, weight
<1>7. Nlp!Analysis!ListsFirst(Nlp!Analysis!First(Nlp!Analysis!Ranked(S, s, weight), 5), S, s, weight, 5)
  BY <1>1, <1>3, <1>4, RankedFirst
<1>8. QED
  BY ONLY <1>5, <1>6, <1>7

LEMMA SeenFirst ==
  ASSUME NEW s, Nlp!Analysis!IsList(s), NEW S \in SUBSET Nlp!Analysis!ToSet(s), NEW limit \in Nat
  PROVE  Nlp!Analysis!ListsFirst(Nlp!Analysis!First(Nlp!Analysis!FirstSeen(S, s), limit), S, s, [x \in S |-> 0], limit)
<1> DEFINE weight == [x \in S |-> 0]
<1>1. weight \in [S -> Int]
  OBVIOUS
<1>2. Nlp!Analysis!FirstSeen(S, s) = Nlp!Analysis!Ranked(S, s, weight)
  BY DEF Nlp!Analysis!FirstSeen
<1> HIDE DEF weight
<1>3. Nlp!Analysis!ListsFirst(Nlp!Analysis!First(Nlp!Analysis!Ranked(S, s, weight), limit), S, s, weight, limit)
  BY <1>1, RankedFirst
<1>4. QED
  BY <1>2, <1>3 DEF weight

LEMMA EntitiesLimited ==
  ASSUME NEW t, Nlp!Analysis!IsText(t), NEW gpt
  PROVE  Nlp!Analysis!EntitiesFit(t, Nlp!Analysis!AnalyzeText(t, gpt))
<1>1. Nlp!Analysis!IsList(t.ents) /\ Nlp!Analysis!IsList(t.phrases)
  BY DEF Nlp!Analysis!IsText
<1>2. Nlp!Analysis!AnalyzeText(t, gpt).entities = Nlp!Analysis!Entities(t)
  BY DEF Nlp!Analysis!AnalyzeText
<1>3. CASE Settings.use_spacy
  <2> DEFINE wanted == {e \in Nlp!Analysis!ToSet(t.ents) : e.label \in {"ORG", "PERSON", "GPE", "PRODUCT"}}
  <2>1. Nlp!Analysis!Entities(t) = Nlp!Analysis!First(Nlp!Analysis!FirstSeen(wanted, t.ents), 12)
    BY <1>3 DEF Nlp!Analysis!Entities
  <2>2. wanted \in SUBSET Nlp!Analysis!ToSet(t.ents)
    OBVIOUS
  <2>3. \A e \in Nlp!Analysis!ToSet(t.ents) : e \in wanted <=> e.label \in {"ORG", "PERSON", "GPE", "PRODUCT"}
    OBVIOUS
  <2> HIDE DEF wanted
  <2>4. Nlp!Analysis!ListsFirst(Nlp!Analysis!First(Nlp!Analysis!FirstSeen(wanted, t.ents), 12),
                                wanted, t.ents, [x \in wanted |-> 0], 12)
    BY <1>1, <2>2, SeenFirst
  <2>5. QED
    BY <1>2, <1>3, <2>1, <2>2, <2>3, <2>4 DEF Nlp!Analysis!EntitiesFit
<1>4. CASE ~Settings.use_spacy
  <2> DEFINE wanted == Nlp!Analysis!ToSet(t.phrases) \ Ignored
  <2>1. Nlp!Analysis!Entities(t) = Nlp!Analysis!First(Nlp!Analysis!FirstSeen(wanted, t.phrases), 8)
    BY <1>4 DEF Nlp!Analysis!Entities
  <2>2. wanted \in SUBSET Nlp!Analysis!ToSet(t.phrases)
    OBVIOUS
  <2>3. \A p \in Nlp!Analysis!ToSet(t.phrases) : p \in wanted <=> p \notin Ignored
    OBVIOUS
  <2> HIDE DEF wanted
  <2>4. Nlp!Analysis!ListsFirst(Nlp!Analysis!First(Nlp!Analysis!FirstSeen(wanted, t.phrases), 8),
                                wanted, t.phrases, [x \in wanted |-> 0], 8)
    BY <1>1, <2>2, SeenFirst
  <2>5. QED
    BY <1>2, <1>4, <2>1, <2>2, <2>3, <2>4 DEF Nlp!Analysis!EntitiesFit
<1>5. QED
  BY <1>3, <1>4

LEMMA SentimentLimited ==
  ASSUME NEW t, Nlp!Analysis!IsText(t), NEW gpt
  PROVE  Nlp!Analysis!SentimentFits(t, Nlp!Analysis!AnalyzeText(t, gpt))
<1> DEFINE shares == IF Settings.use_transformers THEN t.scores ELSE t.vader
           sentiment == Nlp!Analysis!AnalyzeText(t, gpt).sentiment
           S == {shares.pos, shares.neg, shares.neu}
<1>1. sentiment = IF Settings.use_transformers THEN Nlp!Analysis!SentimentTransformer(t)
                                               ELSE Nlp!Analysis!SentimentVader(t)
  BY DEF Nlp!Analysis!AnalyzeText, Nlp!Analysis!Sentiment
<1>2. shares.pos \in Int /\ shares.neg \in Int /\ shares.neu \in Int
  BY DEF Nlp!Analysis!IsText, Nlp!Analysis!IsShares
<1>3. sentiment.confidence = Max(S)
  BY <1>1, SameExtremes DEF Nlp!Analysis!SentimentTransformer, Nlp!Analysis!SentimentVader, Nlp!Analysis!Confidence
<1>4. Settings.use_transformers =>
        sentiment.sentiment = CASE shares.pos = Max(S) -> "positive"
                                [] shares.neg = Max(S) -> "negative"
                                [] OTHER               -> "neutral"
  BY <1>1, SameExtremes DEF Nlp!Analysis!SentimentTransformer, Nlp!Analysis!Confidence
<1>5. IsFiniteSet(S) /\ S \subseteq Int /\ S # {}
  <2>1. IsFiniteSet({shares.pos}) /\ IsFiniteSet({shares.neg}) /\ IsFiniteSet({shares.neu})
    BY FS_Singleton
  <2>2. IsFiniteSet({shares.pos} \cup {shares.neg})
    BY <2>1, FS_Union
  <2>3. IsFiniteSet(({shares.pos} \cup {shares.neg}) \cup {shares.neu})
    BY <2>1, <2>2, FS_Union
  <2>4. S = ({shares.pos} \cup {shares.neg}) \cup {shares.neu}
    OBVIOUS
  <2>5. QED
    BY <1>2, <2>3, <2>4
<1>6. Max(S) \in S /\ \A x \in S : x <= Max(S)
  <2> HIDE DEF S
  <2>1. QED
    BY <1>5, Extremes
<1>7. /\ Max(S) \in {shares.pos, shares.neg, shares.neu}
      /\ shares.pos <= Max(S) /\ shares.neg <= Max(S) /\ shares.neu <= Max(S)
  BY ONLY <1>6
<1> DEFINE top == Max(S)
<1>8. Nlp!Analysis!SentimentFits(t, Nlp!Analysis!AnalyzeText(t, gpt))
        <=> /\ sentiment.confidence \in {shares.pos, shares.neg, shares.neu}
            /\ shares.pos <= sentiment.confidence
            /\ shares.neg <= sentiment.confidence
            /\ shares.neu <= sentiment.confidence
            /\ Settings.use_transformers =>
                 \/ sentiment.sentiment = "positive" /\ shares.pos = sentiment.confidence
                 \/ sentiment.sentiment = "negative" /\ shares.neg = sentiment.confidence
                 \/ sentiment.sentiment = "neutral" /\ shares.neu = sentiment.confidence
  BY DEF Nlp!Analysis!SentimentFits
<1> HIDE DEF shares, sentiment, S
<1>9. QED
  BY ONLY <1>3, <1>4, <1>7, <1>8

\* The summary a language model gives is a list of its sentences.
LEMMA KeyPointsLimited ==
  ASSUME NEW t, Nlp!Analysis!IsText(t), NEW gpt, gpt = Free \/ Nlp!Analysis!IsList(gpt)
  PROVE  Nlp!Analysis!KeyPointsFit(t, Nlp!Analysis!AnalyzeText(t, gpt))
<1> DEFINE r == Nlp!Analysis!AnalyzeText(t, gpt)
           summary == Nlp!Analysis!Summarize(t, gpt)
<1>1. /\ r.summary = summary
      /\ r.key_points = IF Nlp!Analysis!Truthy(summary) THEN Nlp!Analysis!First(summary, 3) ELSE <<>>
  <2> DEFINE points == IF Nlp!Analysis!Truthy(summary) THEN Nlp!Analysis!First(summary, 3) ELSE <<>>
  <2>1. r = [sentiment  |-> Nlp!Analysis!Sentiment(t),
             keywords   |-> Nlp!Analysis!KeywordsOf(t),
             entities   |-> Nlp!Analysis!Entities(t),
             summary    |-> summary,
             key_points |-> points]
    BY DEF Nlp!Analysis!AnalyzeText
  <2> HIDE DEF r, summary, points
  <2>2. r.summary = summary /\ r.key_points = points
    BY ONLY <2>1
  <2>3. QED
    BY <2>2 DEF points
<1>2. t.chars < Settings.summary_min_chars => summary = Free
  <2>1. t.chars \in Int /\ Settings.summary_min_chars \in Int
    BY TextAssumption DEF Nlp!Analysis!IsText
  <2>2. QED
    BY <2>1 DEF Nlp!Analysis!Summarize
<1>3. \/ summary = Free
      \/ summary = gpt /\ gpt # Free
      \/ t.sentences # <<>> /\ summary = Nlp!Analysis!First(t.sentences, 2)
  BY DEF Nlp!Analysis!Summarize
<1>4. summary = Free \/ \E S : summary \in Seq(S)
  <2>1. CASE summary = gpt /\ gpt # Free
    BY <2>1 DEF Nlp!Analysis!IsList
  <2>2. CASE t.sentences # <<>> /\ summary = Nlp!Analysis!First(t.sentences, 2)
    <3>1. t.sentences \in Seq(Nlp!Analysis!ToSet(t.sentences))
      BY DEF Nlp!Analysis!IsText, Nlp!Analysis!IsList
    <3>2. Nlp!Analysis!First(t.sentences, 2) \in Seq(Nlp!Analysis!ToSet(t.sentences))
      BY ONLY <3>1, FirstFacts
    <3>3. QED
      BY <2>2, <3>2
  <2>3. QED
    BY <1>3, <2>1, <2>2
<1>5. Nlp!Analysis!Truthy(summary) <=> summary # Free /\ summary # <<>>
  BY DEF Nlp!Analysis!Truthy
<1>6. Nlp!Analysis!KeyPointsFit(t, r)
        <=> /\ Len(r.key_points) \in IF Nlp!Analysis!Truthy(r.summary) THEN 1..3 ELSE {0}
            /\ t.chars < Settings.summary_min_chars => r.summary = Free
  BY DEF Nlp!Analysis!KeyPointsFit
<1> HIDE DEF r, summary
<1>7. ASSUME summary # Free, summary # <<>>
      PROVE  Len(Nlp!Analysis!First(summary, 3)) \in 1..3
  <2>1. PICK S : summary \in Seq(S)
    BY <1>4, <1>7
  <2>2. Len(Nlp!Analysis!First(summary, 3)) = IF 3 <= Len(summary) THEN 3 ELSE Len(summary)
    BY <2>1, FirstFacts
  <2>3. Len(summary) \in Nat /\ Len(summary) # 0
    BY <1>7, <2>1, EmptySeq
  <2>4. \A k \in Nat : k # 0 => (IF 3 <= k THEN 3 ELSE k) \in 1..3
    OBVIOUS
  <2>5. QED
    BY ONLY <2>2, <2>3, <2>4
<1>8. Len(<<>>) = 0
  OBVIOUS
<1>9. Len(r.key_points) \in IF Nlp!Analysis!Truthy(r.summary) THEN 1..3 ELSE {0}
  BY <1>1, <1>5, <1>7, <1>8
<1>10. QED
  BY <1>1, <1>2, <1>6, <1>9 DEF r

\* What analyze_text promises of every text and every answer of the language model:
\* the five most frequent words in order, the first entities of the text within the
\* limit of the model that found them, the largest share as the confidence, and key
\* points exactly when there is a summary.
THEOREM AnalysisLimits ==
  ASSUME NEW t, Nlp!Analysis!IsText(t), NEW gpt, gpt = Free \/ Nlp!Analysis!IsList(gpt)
  PROVE  Nlp!Analysis!AnalysisFits(t, Nlp!Analysis!AnalyzeText(t, gpt))
BY KeywordsLimited, EntitiesLimited, SentimentLimited, KeyPointsLimited DEF Nlp!Analysis!AnalysisFits

\* Every row of sentiment_results is within those limits for the text of its mention,
\* whichever handlers, retries and deletions came before.
RowsFit == \A r \in results : Nlp!Analysis!AnalysisFits(Texts[r.mention.url], r.result)

THEOREM RowsLimited == FlowSpec => []RowsFit
<1>1. WholeInv => RowsFit
  <2> SUFFICES ASSUME WholeInv, NEW r \in results
               PROVE  Nlp!Analysis!AnalysisFits(Texts[r.mention.url], r.result)
    BY DEF RowsFit
  <2>1. r.mention \in Mention /\ r.result \in Nlp!Analyses(r.mention)
    BY DEF WholeInv, RowType, Nlp!Analysed
  <2>2. r.mention.url \in Urls
    BY <2>1 DEF Mention
  <2>3. PICK gpt \in Summaries : r.result = Nlp!Analysis!AnalyzeText(Texts[r.mention.url], gpt)
    BY <2>1 DEF Nlp!Analyses
  <2>4. Nlp!Analysis!IsText(Texts[r.mention.url])
    BY <2>2, TextAssumption
  <2>5. gpt = Free \/ Nlp!Analysis!IsList(gpt)
    BY <2>3, TextAssumption
  <2>6. Nlp!Analysis!AnalysisFits(Texts[r.mention.url], Nlp!Analysis!AnalyzeText(Texts[r.mention.url], gpt))
    BY ONLY <2>4, <2>5, AnalysisLimits
  <2>7. QED
    BY <2>3, <2>6
<1>2. QED
  BY <1>1, WholeInvariant, PTL
=============================================================================

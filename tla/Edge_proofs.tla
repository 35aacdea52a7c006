---------------------------- MODULE Edge_proofs ----------------------------
(***************************************************************************)
(* Theorems about Edge, for every number of connections, attempts and      *)
(* requests, every plan and any number of disturbances.                    *)
(***************************************************************************)
EXTENDS Edge, SumTheorems, FiniteSetTheorems, TLAPS

\* Creations between their count of the keywords and their insert.
Creating == Keyword!Pending

\* A creation that has counted has left room for itself; one that nothing overtook
\* finds what it has checked.
CreationInv ==
  /\ create = [c \in Call |-> create[c]]
  /\ IsFiniteSet(rows)
  /\ Cardinality(rows) + Cardinality(Creating) <= MaxKeywords + Cardinality(Call) - 1
  /\ ~raced =>
       /\ Cardinality(rows) <= MaxKeywords
       /\ Creating # {} => Cardinality(rows) < MaxKeywords
       /\ \A k, l \in rows : k.text = l.text => k = l
       /\ \A c \in Call : Keyword!At(c, {"insert"}) => \A k \in rows : k.text # create[c].text

-----------------------------------------------------------------------------
\* KeywordApi counts with the same operator.
LEMMA SameCardinality == \A S : Keyword!Cardinality(S) = Cardinality(S)
BY Zenon DEF Keyword!Cardinality, Cardinality

\* There is a call, and finitely many.
LEMMA CallFinite == IsFiniteSet(Call) /\ Cardinality(Call) \in Nat /\ Cardinality(Call) >= 1
<1>1. MaxAttempts \in Nat /\ MaxAttempts >= 1
  BY EdgeAssumption
<1>2. IsFiniteSet(1..MaxAttempts) /\ 1 \in 1..MaxAttempts
  BY <1>1, FS_Interval
<1>3. IsFiniteSet(Call)
  BY <1>2, EdgeAssumption, FS_Product DEF Call
<1>4. Call # {}
  <2>1. PICK s : s \in Slot
    BY EdgeAssumption
  <2>2. <<s, 1>> \in Call
    BY <1>2, <2>1 DEF Call
  <2>3. QED
    BY <2>2
<1>5. Cardinality(Call) \in Nat /\ Cardinality(Call) # 0
  BY <1>3, <1>4, FS_CardinalityType, FS_EmptySet
<1>6. QED
  BY <1>3, <1>5

LEMMA CreatingFinite ==
  /\ Creating \subseteq Call /\ IsFiniteSet(Creating)
  /\ Cardinality(Creating) \in Nat /\ Cardinality(Creating) <= Cardinality(Call)
<1>1. Creating \subseteq Call
  BY DEF Creating, Keyword!Pending
<1>2. QED
  BY <1>1, CallFinite, FS_Subset, FS_CardinalityType

\* The same, of the next state.
LEMMA CreatingFiniteNext ==
  /\ Creating' \subseteq Call /\ IsFiniteSet(Creating')
  /\ Cardinality(Creating') \in Nat /\ Cardinality(Creating') <= Cardinality(Call)
<1>1. Creating' \subseteq Call
  BY DEF Creating, Keyword!Pending
<1>2. QED
  BY <1>1, CallFinite, FS_Subset, FS_CardinalityType

\* A call that is not, or no longer, about to insert: keywords may go.
LEMMA CallLeaves ==
  ASSUME CreationInv, NEW c, NEW r,
         create' = [create EXCEPT ![c] = r],
         r = Idle \/ r.pc \notin {"exists", "insert"},
         rows' \subseteq rows, raced' = raced
  PROVE CreationInv'
<1>1. /\ IsFiniteSet(rows) /\ IsFiniteSet(rows')
      /\ Cardinality(rows) \in Nat /\ Cardinality(rows') \in Nat
      /\ Cardinality(rows') <= Cardinality(rows)
  BY FS_Subset, FS_CardinalityType DEF CreationInv
<1>2. \A d \in Call : create'[d] = IF d = c THEN r ELSE create[d]
  BY DEF CreationInv
<1>3. Creating' \subseteq Creating
  BY <1>2 DEF Creating, Keyword!Pending, Keyword!At
<1>4. Cardinality(Creating') <= Cardinality(Creating)
  BY <1>3, CreatingFinite, FS_Subset
<1>5. \A d \in Call : Keyword!At(d, {"insert"})' =>
        Keyword!At(d, {"insert"}) /\ create'[d] = create[d]
  BY <1>2 DEF Keyword!At
<1>6. create' = [d \in Call |-> create'[d]]
  BY DEF CreationInv
<1>7. Cardinality(rows') + Cardinality(Creating') <= MaxKeywords + Cardinality(Call) - 1
  BY <1>1, <1>4, CallFinite, CreatingFinite, CreatingFiniteNext, EdgeAssumption DEF CreationInv
<1>8. ASSUME ~raced'
      PROVE /\ Cardinality(rows') <= MaxKeywords
            /\ Creating' # {} => Cardinality(rows') < MaxKeywords
            /\ \A k, l \in rows' : k.text = l.text => k = l
            /\ \A d \in Call : Keyword!At(d, {"insert"})' => \A k \in rows' : k.text # create'[d].text
  BY <1>1, <1>3, <1>5, <1>8, EdgeAssumption DEF CreationInv
<1>9. QED
  BY <1>1, <1>6, <1>7, <1>8 DEF CreationInv

LEMMA CountStep ==
  ASSUME CreationInv, NEW c \in Call, Keyword!CountKeywords(c)
  PROVE CreationInv'
<1>1. UNCHANGED <<rows, raced>>
  BY DEF Keyword!CountKeywords
<1>2. CASE Cardinality(rows) >= MaxKeywords
  <2>1. Keyword!Goto(c, "refused")
    BY <1>2, SameCardinality DEF Keyword!CountKeywords
  <2>2. QED
    BY <1>1, <2>1, CallLeaves DEF Keyword!Goto
<1>3. CASE ~(Cardinality(rows) >= MaxKeywords)
  <2>1. create' = [create EXCEPT ![c] = [pc |-> "exists", text |-> create[c].text]]
    BY <1>3, SameCardinality DEF Keyword!CountKeywords, Keyword!Goto
  <2>2. Cardinality(rows) \in Nat /\ MaxKeywords \in Nat
    BY FS_CardinalityType, EdgeAssumption DEF CreationInv
  <2>3. Cardinality(rows) + Cardinality(Creating') <= MaxKeywords + Cardinality(Call) - 1
    BY <1>3, <2>2, CallFinite, CreatingFiniteNext
  <2>4. \A d \in Call : Keyword!At(d, {"insert"})' => Keyword!At(d, {"insert"}) /\ create'[d] = create[d]
    BY <2>1 DEF Keyword!At, CreationInv
  <2>5. create' = [d \in Call |-> create'[d]]
    BY <2>1 DEF CreationInv
  <2>6. QED
    BY <1>1, <1>3, <2>2, <2>3, <2>4, <2>5 DEF CreationInv
<1>4. QED
  BY <1>2, <1>3

LEMMA CheckStep ==
  ASSUME CreationInv, NEW c \in Call, Keyword!CheckExists(c)
  PROVE CreationInv'
<1>1. UNCHANGED <<rows, raced>> /\ Keyword!At(c, {"exists"})
  BY DEF Keyword!CheckExists
<1>2. CASE Keyword!Tracked(create[c].text) # {}
  <2>1. Keyword!Goto(c, "refused")
    BY <1>2 DEF Keyword!CheckExists
  <2>2. QED
    BY <1>1, <2>1, CallLeaves DEF Keyword!Goto
<1>3. CASE Keyword!Tracked(create[c].text) = {}
  <2>1. create' = [create EXCEPT ![c] = [pc |-> "insert", text |-> create[c].text]]
    BY <1>3 DEF Keyword!CheckExists, Keyword!Goto
  <2>2. \A k \in rows : k.text # create[c].text
    BY <1>3 DEF Keyword!Tracked
  <2>3. /\ create'[c].text = create[c].text
        /\ \A d \in Call : d # c => create'[d] = create[d]
    BY <2>1 DEF CreationInv
  <2>4. Creating' \subseteq Creating
    BY <1>1, <2>3 DEF Creating, Keyword!Pending, Keyword!At
  <2>5. Cardinality(Creating') <= Cardinality(Creating)
    BY <2>4, CreatingFinite, FS_Subset
  <2>6. Cardinality(rows) + Cardinality(Creating') <= MaxKeywords + Cardinality(Call) - 1
    <3>1. Cardinality(rows) \in Nat
      BY FS_CardinalityType DEF CreationInv
    <3>2. QED
      BY <2>5, <3>1, CallFinite, CreatingFinite, CreatingFiniteNext, EdgeAssumption DEF CreationInv
  <2>7. create' = [d \in Call |-> create'[d]]
    BY <2>1 DEF CreationInv
  <2>8. ASSUME ~raced
        PROVE \A d \in Call : Keyword!At(d, {"insert"})' => \A k \in rows : k.text # create'[d].text
    BY <2>2, <2>3, <2>8 DEF CreationInv, Keyword!At
  <2>9. QED
    BY <1>1, <2>4, <2>6, <2>7, <2>8 DEF CreationInv
<1>4. QED
  BY <1>2, <1>3

LEMMA InsertStep ==
  ASSUME CreationInv, NEW c \in Call, Keyword!Insert(c)
  PROVE CreationInv'
<1>1. PICK i : rows' = rows \cup {[id |-> i, text |-> create[c].text]}
  BY DEF Keyword!Insert
<1>2. /\ Keyword!At(c, {"insert"})
      /\ raced' = (raced \/ Creating # {c})
      /\ create' = [create EXCEPT ![c] = [pc |-> "ok", text |-> create[c].text]]
  BY DEF Keyword!Insert, Keyword!Goto, Creating
<1>3. /\ IsFiniteSet(rows') /\ Cardinality(rows) \in Nat /\ Cardinality(rows') \in Nat
      /\ Cardinality(rows') <= Cardinality(rows) + 1
  <2> DEFINE row == [id |-> i, text |-> create[c].text]
  <2>1. IsFiniteSet(rows) /\ Cardinality(rows) \in Nat
    BY FS_CardinalityType DEF CreationInv
  <2>2. CASE row \in rows
    <3>1. rows' = rows
      BY <1>1, <2>2
    <3>2. QED
      BY <2>1, <3>1
  <2>3. CASE row \notin rows
    <3> HIDE DEF row
    <3>1. IsFiniteSet(rows \cup {row}) /\ Cardinality(rows \cup {row}) = Cardinality(rows) + 1
      BY <2>1, <2>3, FS_AddElement
    <3>2. rows' = rows \cup {row}
      BY <1>1 DEF row
    <3>3. QED
      BY <2>1, <3>1, <3>2
  <2>4. QED
    BY <2>2, <2>3
<1>4. c \in Creating
  BY <1>2 DEF Creating, Keyword!Pending, Keyword!At
<1>5. /\ create'[c].pc = "ok"
      /\ \A d \in Call : d # c => create'[d] = create[d]
  BY <1>2 DEF CreationInv
<1>6. Creating' \subseteq Creating \ {c}
  BY <1>5 DEF Creating, Keyword!Pending, Keyword!At
<1>7. Cardinality(Creating') <= Cardinality(Creating) - 1
  <2>1. IsFiniteSet(Creating \ {c}) /\ Cardinality(Creating \ {c}) = Cardinality(Creating) - 1
    BY <1>4, CreatingFinite, FS_RemoveElement
  <2>2. QED
    BY <1>6, <2>1, FS_Subset
<1>8. Cardinality(rows') + Cardinality(Creating') <= MaxKeywords + Cardinality(Call) - 1
  BY <1>3, <1>7, CallFinite, CreatingFinite, CreatingFiniteNext, EdgeAssumption DEF CreationInv
<1>9. create' = [d \in Call |-> create'[d]]
  BY <1>2 DEF CreationInv
<1>10. ASSUME ~raced'
       PROVE /\ Cardinality(rows') <= MaxKeywords
             /\ Creating' # {} => Cardinality(rows') < MaxKeywords
             /\ \A k, l \in rows' : k.text = l.text => k = l
             /\ \A d \in Call : Keyword!At(d, {"insert"})' => \A k \in rows' : k.text # create'[d].text
  <2>1. ~raced /\ Creating = {c}
    BY <1>2, <1>10, Zenon
  <2>2. Creating' = {}
    BY <1>6, <2>1
  <2>3. Cardinality(rows') <= MaxKeywords
    BY <1>3, <1>4, <2>1, EdgeAssumption DEF CreationInv
  <2>4. \A k, l \in rows' : k.text = l.text => k = l
    <3>1. \A k \in rows : k.text # create[c].text
      BY <1>2, <2>1 DEF CreationInv
    <3>2. \A k, l \in rows : k.text = l.text => k = l
      BY <2>1 DEF CreationInv
    <3>3. QED
      BY <1>1, <3>1, <3>2
  <2>5. \A d \in Call : ~Keyword!At(d, {"insert"})'
    BY <2>2 DEF Creating, Keyword!Pending, Keyword!At
  <2>6. QED
    BY <2>2, <2>3, <2>4, <2>5
<1>11. QED
  BY <1>3, <1>8, <1>9, <1>10 DEF CreationInv

LEMMA RemoveStep ==
  ASSUME CreationInv, NEW c \in Call, Keyword!Remove(c)
  PROVE CreationInv'
<1>1. rows' \subseteq rows /\ raced' = raced
  BY DEF Keyword!Remove
<1>2. PICK s \in {"refused", "ok"} : create' = [create EXCEPT ![c] = [pc |-> s, text |-> create[c].text]]
  BY DEF Keyword!Remove, Keyword!Goto
<1>3. QED
  BY <1>1, <1>2, CallLeaves

\* Whatever the gateway and the clients do to a call of the keyword API.
LEMMA KeywordStep ==
  ASSUME CreationInv, NEW c,
         \/ c \in Call /\ (Keyword!Step(c) \/ Keyword!Lose(c))
         \/ Keyword!Forget(c)
         \/ \E op, t : Keyword!Arrive(c, op, t)
  PROVE CreationInv'
<1>1. CASE c \in Call /\ Keyword!Step(c)
  BY <1>1, CountStep, CheckStep, InsertStep, RemoveStep DEF Keyword!Step
<1>2. CASE Keyword!Lose(c)
  <2>1. /\ create' = [create EXCEPT ![c] = [pc |-> "refused", text |-> create[c].text]]
        /\ UNCHANGED <<rows, raced>>
    BY <1>2 DEF Keyword!Lose, Keyword!Goto
  <2>2. QED
    BY <2>1, CallLeaves
<1>3. CASE Keyword!Forget(c)
  BY <1>3, CallLeaves DEF Keyword!Forget
<1>4. ASSUME NEW op, NEW t, Keyword!Arrive(c, op, t)
      PROVE CreationInv'
  <2>1. PICK s \in {"count", "remove"} : create' = [create EXCEPT ![c] = [pc |-> s, text |-> t]]
    BY <1>4 DEF Keyword!Arrive
  <2>2. UNCHANGED <<rows, raced>>
    BY <1>4 DEF Keyword!Arrive
  <2>3. QED
    BY <2>1, <2>2, CallLeaves
<1>5. QED
  BY <1>1, <1>2, <1>3, <1>4

LEMMA KeywordSame ==
  ASSUME CreationInv, UNCHANGED keywordVars
  PROVE CreationInv'
<1>1. UNCHANGED <<create, rows, raced>>
  BY DEF keywordVars
<1>2. Creating' = Creating /\ \A d \in Call : Keyword!At(d, {"insert"})' <=> Keyword!At(d, {"insert"})
  BY <1>1 DEF Creating, Keyword!Pending, Keyword!At
<1>3. QED
  BY <1>1, <1>2 DEF CreationInv

LEMMA CreationInvariant == Spec => []CreationInv
<1>1. Init => CreationInv
  <2> SUFFICES ASSUME Init
               PROVE CreationInv
    OBVIOUS
  <2>1. create = [c \in Call |-> Idle] /\ rows = {}
    BY DEF Init, Keyword!Init
  <2>2. Creating = {} /\ \A c \in Call : ~Keyword!At(c, {"insert"})
    BY <2>1 DEF Creating, Keyword!Pending, Keyword!At
  <2>3. Cardinality(rows) = 0 /\ Cardinality(Creating) = 0 /\ IsFiniteSet(rows)
    BY <2>1, <2>2, FS_EmptySet
  <2>4. MaxKeywords \in Nat
    BY EdgeAssumption
  <2>5. create = [c \in Call |-> create[c]]
    BY <2>1
  <2>6. Cardinality(rows) + Cardinality(Creating) <= MaxKeywords + Cardinality(Call) - 1
    BY <2>3, <2>4, CallFinite
  <2>7. QED
    BY <2>1, <2>2, <2>3, <2>4, <2>5, <2>6 DEF CreationInv
<1>2. CreationInv /\ [Next]_vars => CreationInv'
  <2> SUFFICES ASSUME CreationInv, [Next]_vars
               PROVE CreationInv'
    OBVIOUS
  <2>1. ASSUME NEW s \in Slot, Login(s) \/ AskAuth(s) \/ AskGateway(s) \/ Rate(s) \/ Expire(s) \/ ExpireFails(s)
        PROVE CreationInv'
    BY <2>1, KeywordSame DEF Login, AskAuth, AskGateway, Rate, Expire, ExpireFails
  <2>2. ASSUME NEW s \in Slot, Send(s)
        PROVE CreationInv'
    <3>1. CASE UNCHANGED keywordVars
      BY <3>1, KeywordSame
    <3>2. CASE Keyword!Arrive(<<s, req[s].tries + 1>>, req[s].op, req[s].text)
      BY <2>2, <3>2, KeywordStep DEF Send
    <3>3. QED
      BY <2>2, <3>1, <3>2 DEF Send
  <2>3. ASSUME NEW s \in Slot, Timeout(s)
        PROVE CreationInv'
    BY <2>3, KeywordSame DEF Timeout
  <2>4. ASSUME NEW s \in Slot, Answer(s)
        PROVE CreationInv'
    BY <2>4, KeywordSame, KeywordStep DEF Answer
  <2>5. ASSUME NEW c \in Call, Discard(c) \/ Handler(c) \/ HandlerFails(c)
        PROVE CreationInv'
    BY <2>5, KeywordSame, KeywordStep DEF Discard, Handler, HandlerFails
  <2>6. ASSUME NEW p \in 1..MaxPairs, RefreshExpires(p)
        PROVE CreationInv'
    BY <2>6, KeywordSame DEF RefreshExpires
  <2>7. CASE Tick
    BY <2>7, KeywordSame DEF Tick
  <2>8. CASE UNCHANGED vars
    BY <2>8, KeywordSame DEF vars
  <2>9. QED
    BY <2>1, <2>2, <2>3, <2>4, <2>5, <2>6, <2>7, <2>8 DEF Next
<1>3. QED
  BY <1>1, <1>2, PTL DEF Spec

\* The plan's limit on keywords and their distinct texts, for as many creations as
\* the clients and the gateway's retries can set going.
THEOREM Quota == Spec => []QuotaHeld
<1>1. CreationInv => QuotaHeld
  <2> SUFFICES ASSUME CreationInv
               PROVE QuotaHeld
    OBVIOUS
  <2>1. Cardinality(rows) \in Nat
    BY FS_CardinalityType DEF CreationInv
  <2>2. Cardinality(rows) <= MaxKeywords + Cardinality(Call) - 1
    BY <2>1, CallFinite, CreatingFinite, EdgeAssumption DEF CreationInv
  <2>3. QED
    BY <2>2, SameCardinality DEF QuotaHeld, Keyword!QuotaHeld, CreationInv
<1>2. QED
  BY <1>1, CreationInvariant, PTL

-----------------------------------------------------------------------------
(* Logout *)

\* What the argument needs of the types of auth-service and of its clients.
AuthType ==
  /\ now \in 0..MaxTime /\ issued \in 0..MaxPairs
  /\ call \in [Call -> {Idle} \cup Auth!Calls]
  /\ expires \in [1..MaxPairs -> Nat] /\ black \in [1..MaxPairs -> Nat]
  /\ loggedOut \subseteq 1..issued

Sendable == {r \in Requests : IF r.st = "wait" THEN r.tries \in 1..MaxAttempts ELSE r.tries < MaxAttempts}

\* The requests and what they present.
ClientType ==
  /\ known \subseteq 1..issued
  /\ req \in [Slot -> {Idle} \cup Sendable]

\* Where a call has got to, and the pair it presents or issues: a pair has no access
\* token before the reply that makes it, and a reply makes its own pair's.
CallInv ==
  /\ \A p \in 1..MaxPairs : p > issued => expires[p] = 0
  /\ \A c \in Call : call[c] # Idle =>
       /\ call[c].made <= issued
       /\ call[c].late => call[c].bearer \in loggedOut
       /\ call[c].pc \in {"listed", "unstore", "blacklist"} =>
            call[c].bearer \in 1..issued /\ expires[call[c].bearer] > 0
       /\ call[c].pc = "reply" => call[c].made >= 1
       /\ call[c].pc = "reply" /\ call[c].op # "login" => expires[call[c].made] = 0
  /\ \A c, d \in Call :
       /\ call[c] # Idle /\ call[c].pc = "reply"
       /\ call[d] # Idle /\ call[d].pc = "reply"
       /\ call[c].made = call[d].made
       => c = d

\* The blacklist entry of a token that was logged out stays until the last second
\* of the token, unless that has begun.
BlackInv ==
  \A p \in loggedOut :
    /\ expires[p] > 0
    /\ \/ black[p] + Second > expires[p] * Second
       \/ now + Second > expires[p] * Second

LogoutInv == AuthType /\ CallInv /\ BlackInv /\ LogoutHolds

LEMMA DivBounds ==
  ASSUME NEW a \in Int, NEW b \in Nat, b > 0
  PROVE a \div b \in Int /\ (a \div b) * b <= a /\ a < (a \div b) * b + b
OBVIOUS

LEMMA DivNat ==
  ASSUME NEW a \in Nat, NEW b \in Nat, b > 0
  PROVE a \div b \in Nat /\ a \div b <= a
OBVIOUS

LEMMA Numbers == /\ MaxAttempts \in Nat /\ MaxAttempts > 0 /\ Window \in Nat /\ Window > 0
                 /\ Second \in Nat /\ Second > 0 /\ Lifetime \in Nat /\ Lifetime > 0 /\ MaxPairs \in Nat /\ MaxTime \in Nat
                 /\ RateMax \in Nat
BY EdgeAssumption

\* A call goes on: its pc changes, what it presents and issues does not.
LEMMA GotoCall ==
  ASSUME AuthType, NEW c \in Call, call[c] # Idle, NEW x, Auth!Goto(c, x),
         x \in {"check", "rotate", "issue", "reply", "listed", "unstore", "blacklist", "save", "ok", "refused"}
  PROVE /\ call' \in [Call -> {Idle} \cup Auth!Calls]
        /\ call'[c] \in Auth!Calls /\ call'[c].pc = x
        /\ call'[c].op = call[c].op /\ call'[c].use = call[c].use /\ call'[c].bearer = call[c].bearer
        /\ call'[c].made = call[c].made /\ call'[c].late = call[c].late
        /\ \A d \in Call : d # c => call'[d] = call[d]
<1>1. call[c] \in Auth!Calls
  BY DEF AuthType
<1>2. call' = [call EXCEPT ![c].pc = x]
  BY DEF Auth!Goto
<1>3. call'[c] = [call[c] EXCEPT !.pc = x] /\ \A d \in Call : d # c => call'[d] = call[d]
  BY <1>2 DEF AuthType
<1>4. call'[c] \in Auth!Calls /\ call'[c].pc = x
      /\ call'[c].op = call[c].op /\ call'[c].use = call[c].use /\ call'[c].bearer = call[c].bearer
      /\ call'[c].made = call[c].made /\ call'[c].late = call[c].late
  BY <1>1, <1>3 DEF Auth!Calls
<1>5. call' = [d \in Call |-> call'[d]]
  BY <1>2 DEF AuthType
<1>6. call' \in [Call -> {Idle} \cup Auth!Calls]
  BY <1>3, <1>4, <1>5 DEF AuthType
<1>7. QED
  BY <1>3, <1>4, <1>6

\* A step of one call that leaves the tokens alone.
LEMMA CallMoves ==
  ASSUME LogoutInv, NEW c \in Call, call[c] # Idle, NEW x, Auth!Goto(c, x),
         x \in {"check", "rotate", "issue", "save", "ok", "refused"} \/ (x = "unstore" /\ call[c].pc = "listed")
           \/ (x = "blacklist" /\ call[c].pc = "unstore"),
         UNCHANGED <<now, issued, expires, black, loggedOut, honoured>>
  PROVE LogoutInv'
<1>1. /\ call' \in [Call -> {Idle} \cup Auth!Calls]
      /\ call'[c] \in Auth!Calls /\ call'[c].pc = x
      /\ call'[c].op = call[c].op /\ call'[c].use = call[c].use /\ call'[c].bearer = call[c].bearer
      /\ call'[c].made = call[c].made /\ call'[c].late = call[c].late
      /\ \A d \in Call : d # c => call'[d] = call[d]
  BY GotoCall DEF LogoutInv
<1>2. AuthType'
  BY <1>1 DEF LogoutInv, AuthType
<1>3. CallInv'
  BY <1>1 DEF LogoutInv, CallInv
<1>4. BlackInv' /\ LogoutHolds'
  BY DEF LogoutInv, BlackInv, LogoutHolds, Auth!LogoutHolds
<1>5. QED
  BY <1>2, <1>3, <1>4 DEF LogoutInv

\* A call begins, or is forgotten.
LEMMA CallReplaced ==
  ASSUME LogoutInv, NEW c, NEW r, call' = [call EXCEPT ![c] = r],
         r = Idle \/
           /\ r \in Auth!Calls /\ r.made = 0 /\ r.pc \notin {"unstore", "blacklist", "reply"}
           /\ r.late => r.bearer \in loggedOut
           /\ r.pc = "listed" => r.bearer \in 1..issued /\ expires[r.bearer] > 0,
         UNCHANGED <<now, issued, expires, black, loggedOut, honoured>>
  PROVE LogoutInv'
<1>1. \A d \in Call : call'[d] = IF d = c THEN r ELSE call[d]
  BY DEF LogoutInv, AuthType
<1>2. AuthType'
  BY DEF LogoutInv, AuthType
<1>3. CallInv'
  BY <1>1 DEF LogoutInv, CallInv, AuthType
<1>4. BlackInv' /\ LogoutHolds'
  BY DEF LogoutInv, BlackInv, LogoutHolds, Auth!LogoutHolds
<1>5. QED
  BY <1>2, <1>3, <1>4 DEF LogoutInv

LEMMA ArriveInv ==
  ASSUME LogoutInv, NEW c, NEW op \in {"login", "refresh", "logout", "me"},
         NEW use \in Nat, NEW bearer \in 0..issued, Auth!Arrive(c, op, use, bearer)
  PROVE LogoutInv'
<1> DEFINE late == bearer \in loggedOut
           pc == CASE op = "login" -> "issue"
                   [] op = "refresh" -> "check"
                   [] OTHER -> IF Auth!Decodes(bearer) THEN "listed" ELSE "refused"
           r == [op |-> op, use |-> use, bearer |-> bearer, made |-> 0, late |-> late, pc |-> pc]
<1>1. call' = [call EXCEPT ![c] = r] /\ UNCHANGED <<now, issued, expires, black, loggedOut, honoured>>
  BY Zenon DEF Auth!Arrive, Auth!tokenVars
<1>2. pc \in {"issue", "check", "listed", "refused"}
  OBVIOUS
<1>3. pc = "listed" => bearer \in 1..issued /\ expires[bearer] > 0
  <2>1. pc = "listed" => Auth!Decodes(bearer)
    OBVIOUS
  <2>2. Auth!Decodes(bearer) => bearer \in 1..issued /\ expires[bearer] * Second > now
    BY DEF Auth!Decodes, LogoutInv, AuthType
  <2>3. bearer \in 1..issued => expires[bearer] \in Nat
    BY Numbers DEF LogoutInv, AuthType
  <2>4. QED
    BY <2>1, <2>2, <2>3, Numbers DEF LogoutInv, AuthType
<1>4. late \in BOOLEAN /\ bearer \in Nat
  BY DEF LogoutInv, AuthType
<1>5. late => bearer \in loggedOut
  OBVIOUS
<1> HIDE DEF late, pc
<1>6. r \in Auth!Calls
  BY <1>2, <1>4 DEF Auth!Calls
<1>7. r.made = 0 /\ r.pc = pc /\ r.late = late /\ r.bearer = bearer
  OBVIOUS
<1> HIDE DEF r
<1>8. QED
  BY <1>1, <1>2, <1>3, <1>5, <1>6, <1>7, CallReplaced

LEMMA IssueInv ==
  ASSUME LogoutInv, NEW c \in Call, Auth!Issue(c)
  PROVE LogoutInv'
<1> DEFINE p == issued + 1
<1>1. /\ call[c] # Idle /\ call[c].pc = "issue" /\ issued < MaxPairs
      /\ issued' = p
      /\ expires' = IF call[c].op = "login" THEN [expires EXCEPT ![p] = Auth!NewExp] ELSE expires
      /\ call' = [call EXCEPT ![c].pc = "reply", ![c].made = p]
      /\ UNCHANGED <<now, black, loggedOut, honoured>>
  BY DEF Auth!Issue, Auth!Runs, Auth!ghostVars
<1>2. call[c] \in Auth!Calls /\ p \in 1..MaxPairs /\ p \in Nat
  BY <1>1, Numbers DEF LogoutInv, AuthType
<1>3. Auth!NewExp \in Nat
  <2>1. now \in Nat
    BY Numbers DEF LogoutInv, AuthType
  <2>2. now \div Second \in Nat
    BY <2>1, DivNat, Numbers
  <2>3. QED
    BY <2>2, Numbers DEF Auth!NewExp
<1>4. /\ call'[c] = [call[c] EXCEPT !.pc = "reply", !.made = p]
      /\ \A d \in Call : d # c => call'[d] = call[d]
      /\ call' = [d \in Call |-> call'[d]]
  BY <1>1 DEF LogoutInv, AuthType
<1>5. /\ call'[c] \in Auth!Calls /\ call'[c].pc = "reply" /\ call'[c].made = p
      /\ call'[c].op = call[c].op /\ call'[c].bearer = call[c].bearer /\ call'[c].late = call[c].late
  BY <1>2, <1>4 DEF Auth!Calls
<1>6. /\ expires' \in [1..MaxPairs -> Nat]
      /\ \A q \in 1..MaxPairs : q # p => expires'[q] = expires[q]
      /\ call[c].op # "login" => expires' = expires
  BY <1>1, <1>2, <1>3 DEF LogoutInv, AuthType
<1> HIDE DEF p
<1>7. issued' = issued + 1 /\ p = issued + 1 /\ issued \in Nat
  BY <1>1 DEF p, LogoutInv, AuthType
<1>8. AuthType'
  <2>1. call' \in [Call -> {Idle} \cup Auth!Calls]
    BY <1>4, <1>5 DEF LogoutInv, AuthType
  <2>2. issued' \in 0..MaxPairs /\ loggedOut' \subseteq 1..issued'
    BY <1>1, <1>7, Numbers DEF LogoutInv, AuthType
  <2>3. QED
    BY <1>1, <1>6, <2>1, <2>2 DEF LogoutInv, AuthType
<1>9. CallInv'
  <2>1. \A q \in 1..MaxPairs : q > issued' => expires'[q] = 0
    BY <1>6, <1>7 DEF LogoutInv, CallInv
  <2>2. ASSUME NEW d \in Call, call'[d] # Idle
        PROVE /\ call'[d].made <= issued'
              /\ call'[d].late => call'[d].bearer \in loggedOut'
              /\ call'[d].pc \in {"listed", "unstore", "blacklist"} =>
                   call'[d].bearer \in 1..issued' /\ expires'[call'[d].bearer] > 0
              /\ call'[d].pc = "reply" => call'[d].made >= 1
              /\ call'[d].pc = "reply" /\ call'[d].op # "login" => expires'[call'[d].made] = 0
    <3>1. CASE d = c
      <4>1. call[c].late => call[c].bearer \in loggedOut
        BY <1>1 DEF LogoutInv, CallInv
      <4>2. call[c].op # "login" => expires'[p] = 0
        <5>1. p \in 1..MaxPairs /\ p > issued
          BY <1>2, <1>7
        <5>2. expires[p] = 0
          BY <5>1 DEF LogoutInv, CallInv
        <5>3. QED
          BY <1>6, <5>2
      <4>3. QED
        BY <1>1, <1>5, <1>7, <3>1, <4>1, <4>2
    <3>2. CASE d # c
      <4>1. call'[d] = call[d] /\ call[d] # Idle /\ call[d] \in Auth!Calls
        BY <1>4, <2>2, <3>2 DEF LogoutInv, AuthType
      <4>2. /\ call[d].made <= issued /\ call[d].made \in Nat
            /\ call[d].late => call[d].bearer \in loggedOut
            /\ call[d].pc \in {"listed", "unstore", "blacklist"} =>
                 call[d].bearer \in 1..issued /\ expires[call[d].bearer] > 0
            /\ call[d].pc = "reply" => call[d].made >= 1
            /\ call[d].pc = "reply" /\ call[d].op # "login" => expires[call[d].made] = 0
        BY <4>1 DEF LogoutInv, CallInv, Auth!Calls
      <4>3. \A q \in 1..issued : q \in 1..MaxPairs /\ expires'[q] = expires[q] /\ q \in 1..issued'
        BY <1>1, <1>6, <1>7, Numbers
      <4>4. call'[d].made <= issued'
        BY <1>7, <4>1, <4>2
      <4>5. call'[d].pc \in {"listed", "unstore", "blacklist"} =>
              call'[d].bearer \in 1..issued' /\ expires'[call'[d].bearer] > 0
        BY <4>1, <4>2, <4>3
      <4>6. call[d].pc = "reply" => call[d].made \in 1..issued
        BY <1>7, <4>2
      <4>7. call'[d].pc = "reply" /\ call'[d].op # "login" => expires'[call'[d].made] = 0
        BY <4>1, <4>2, <4>3, <4>6
      <4>8. call'[d].late => call'[d].bearer \in loggedOut'
        BY <1>1, <4>1, <4>2
      <4>9. call'[d].pc = "reply" => call'[d].made >= 1
        BY <4>1, <4>2
      <4>10. QED
        BY <4>4, <4>5, <4>7, <4>8, <4>9
    <3>3. QED
      BY <3>1, <3>2
  <2>3. ASSUME NEW d \in Call, NEW e \in Call,
               call'[d] # Idle, call'[d].pc = "reply", call'[e] # Idle, call'[e].pc = "reply",
               call'[d].made = call'[e].made
        PROVE d = e
    <3>1. \A f \in Call : f # c /\ call'[f] # Idle => call[f] = call'[f] /\ call'[f].made <= issued
      BY <1>4 DEF LogoutInv, CallInv
    <3>2. CASE d = c \/ e = c
      BY <1>5, <1>7, <2>3, <3>1, <3>2
    <3>3. CASE d # c /\ e # c
      BY <2>3, <3>1, <3>3 DEF LogoutInv, CallInv
    <3>4. QED
      BY <3>2, <3>3
  <2>4. QED
    BY <2>1, <2>2, <2>3 DEF CallInv
<1>10. BlackInv' /\ LogoutHolds'
  <2>1. \A q \in loggedOut : q \in 1..MaxPairs /\ expires'[q] = expires[q]
    BY <1>6, <1>7, Numbers DEF LogoutInv, AuthType
  <2>2. QED
    BY <1>1, <2>1 DEF LogoutInv, BlackInv, LogoutHolds, Auth!LogoutHolds
<1>11. QED
  BY <1>8, <1>9, <1>10 DEF LogoutInv

LEMMA ReplyInv ==
  ASSUME LogoutInv, NEW c \in Call, Auth!Reply(c)
  PROVE LogoutInv'
<1>1. /\ call[c] # Idle /\ call[c].pc = "reply"
      /\ expires' = IF call[c].op = "login" THEN expires ELSE [expires EXCEPT ![call[c].made] = Auth!NewExp]
      /\ Auth!Goto(c, "ok")
      /\ UNCHANGED <<now, issued, black, loggedOut, honoured>>
  BY DEF Auth!Reply, Auth!Runs, Auth!ghostVars
<1>2. CASE call[c].op = "login"
  BY <1>1, <1>2, CallMoves
<1>3. CASE call[c].op # "login"
  <2> DEFINE p == call[c].made
  <2>1. call[c] \in Auth!Calls /\ p \in 1..issued /\ p \in 1..MaxPairs /\ expires[p] = 0
    BY <1>1, <1>3, Numbers DEF LogoutInv, AuthType, CallInv, Auth!Calls
  <2>2. Auth!NewExp \in Nat /\ Auth!NewExp > 0
    <3>1. now \in Nat
      BY Numbers DEF LogoutInv, AuthType
    <3>2. now \div Second \in Nat
      BY <3>1, DivNat, Numbers
    <3>3. QED
      BY <3>2, Numbers DEF Auth!NewExp
  <2>3. /\ expires' \in [1..MaxPairs -> Nat] /\ expires'[p] > 0
        /\ \A q \in 1..MaxPairs : q # p => expires'[q] = expires[q]
    BY <1>1, <1>3, <2>1, <2>2 DEF LogoutInv, AuthType
  <2>4. /\ call' \in [Call -> {Idle} \cup Auth!Calls]
        /\ call'[c] \in Auth!Calls /\ call'[c].pc = "ok"
        /\ call'[c].op = call[c].op /\ call'[c].use = call[c].use /\ call'[c].bearer = call[c].bearer
        /\ call'[c].made = call[c].made /\ call'[c].late = call[c].late
        /\ \A d \in Call : d # c => call'[d] = call[d]
    BY <1>1, GotoCall DEF LogoutInv
  <2>5. \A d \in Call : d # c /\ call[d] # Idle /\ call[d].pc = "reply" => call[d].made # p
    BY <1>1 DEF LogoutInv, CallInv
  <2> HIDE DEF p
  <2>6. \A q \in 1..issued : q \in 1..MaxPairs /\ (expires[q] > 0 => expires'[q] > 0)
    <3>1. \A q \in 1..issued : q \in 1..MaxPairs
      BY Numbers DEF LogoutInv, AuthType
    <3>2. QED
      BY <2>3, <3>1
  <2>7. AuthType'
    BY <1>1, <2>3, <2>4 DEF LogoutInv, AuthType
  <2>8. CallInv'
    <3>1. \A q \in 1..MaxPairs : q > issued => expires'[q] = 0
      BY <2>1, <2>3 DEF LogoutInv, CallInv, AuthType
    <3>2. ASSUME NEW d \in Call, call'[d] # Idle
          PROVE /\ call'[d].made <= issued
                /\ call'[d].late => call'[d].bearer \in loggedOut
                /\ call'[d].pc \in {"listed", "unstore", "blacklist"} =>
                     call'[d].bearer \in 1..issued /\ expires'[call'[d].bearer] > 0
                /\ call'[d].pc = "reply" => call'[d].made >= 1
                /\ call'[d].pc = "reply" /\ call'[d].op # "login" => expires'[call'[d].made] = 0
      <4>1. CASE d = c
        BY <1>1, <2>4, <4>1 DEF LogoutInv, CallInv
      <4>2. CASE d # c
        <5>1. call'[d] = call[d] /\ call[d] # Idle /\ call[d] \in Auth!Calls
          BY <2>4, <3>2, <4>2 DEF LogoutInv, AuthType
        <5>2. /\ call[d].made <= issued /\ call[d].made \in Nat
              /\ call[d].late => call[d].bearer \in loggedOut
              /\ call[d].pc \in {"listed", "unstore", "blacklist"} =>
                   call[d].bearer \in 1..issued /\ expires[call[d].bearer] > 0
              /\ call[d].pc = "reply" => call[d].made >= 1
              /\ call[d].pc = "reply" /\ call[d].op # "login" => expires[call[d].made] = 0
          BY <5>1 DEF LogoutInv, CallInv, Auth!Calls
        <5>3. call[d].pc = "reply" => call[d].made \in 1..MaxPairs /\ expires'[call[d].made] = expires[call[d].made]
          BY <2>3, <2>5, <4>2, <5>1, <5>2, Numbers DEF LogoutInv, AuthType
        <5>4. QED
          BY <2>6, <5>1, <5>2, <5>3
      <4>3. QED
        BY <4>1, <4>2
    <3>3. \A d, e \in Call :
            call'[d] # Idle /\ call'[d].pc = "reply" /\ call'[e] # Idle /\ call'[e].pc = "reply"
            /\ call'[d].made = call'[e].made => d = e
      BY <2>4 DEF LogoutInv, CallInv
    <3>4. QED
      BY <1>1, <3>1, <3>2, <3>3 DEF CallInv
  <2>9. BlackInv' /\ LogoutHolds'
    <3>1. \A q \in loggedOut : expires[q] > 0 /\ q \in 1..MaxPairs
      BY Numbers DEF LogoutInv, BlackInv, AuthType
    <3>2. \A q \in loggedOut : expires'[q] = expires[q]
      BY <2>1, <2>3, <3>1
    <3>3. QED
      BY <1>1, <3>2 DEF LogoutInv, BlackInv, LogoutHolds, Auth!LogoutHolds
  <2>10. QED
    BY <2>7, <2>8, <2>9 DEF LogoutInv
<1>4. QED
  BY <1>2, <1>3

\* The bearer of a call that began after the logout is still on the blacklist, or in
\* its last second.
LEMMA ListedInv ==
  ASSUME LogoutInv, NEW c \in Call, Auth!Listed(c)
  PROVE LogoutInv'
<1> DEFINE p == call[c].bearer
<1>1. /\ call[c] # Idle /\ call[c].pc = "listed"
      /\ UNCHANGED <<now, issued, expires, black, loggedOut>>
      /\ honoured' = IF ~Auth!Revoked(p) /\ call[c].late /\ now + Second <= expires[p] * Second
                     THEN honoured \cup {p} ELSE honoured
  BY DEF Auth!Listed, Auth!Runs, Auth!tokenVars
<1>2. PICK x \in {"refused", "unstore", "save"} : Auth!Goto(c, x)
  BY DEF Auth!Listed
<1>3. call[c].late => p \in loggedOut
  BY <1>1 DEF LogoutInv, CallInv
<1>4. ASSUME p \in loggedOut
      PROVE Auth!Revoked(p) \/ ~(now + Second <= expires[p] * Second)
  <2>1. p \in 1..MaxPairs /\ expires[p] \in Nat /\ black[p] \in Nat
    <3> HIDE DEF p
    <3>1. p \in 1..issued
      BY <1>4 DEF LogoutInv, AuthType
    <3>2. p \in 1..MaxPairs
      BY <3>1, Numbers DEF LogoutInv, AuthType
    <3>3. QED
      BY <3>2 DEF LogoutInv, AuthType
  <2>2. expires[p] * Second \in Nat
    BY <2>1, Numbers
  <2>3. black[p] + Second > expires[p] * Second \/ now + Second > expires[p] * Second
    BY <1>4 DEF LogoutInv, BlackInv
  <2>4. QED
    BY <2>1, <2>2, <2>3, Numbers DEF Auth!Revoked, LogoutInv, AuthType
<1>5. honoured' = honoured
  BY <1>1, <1>3, <1>4
<1>6. QED
  BY <1>1, <1>2, <1>5, CallMoves

LEMMA BlacklistInv ==
  ASSUME LogoutInv, NEW c \in Call, Auth!Blacklist(c)
  PROVE LogoutInv'
<1> DEFINE p == call[c].bearer
           E == expires[p] * Second
           R == Auth!Remaining(p)
<1>1. /\ call[c] # Idle /\ call[c].pc = "blacklist"
      /\ black' = IF R > 0 THEN [black EXCEPT ![p] = now + R * Second] ELSE black
      /\ loggedOut' = loggedOut \cup {p}
      /\ Auth!Goto(c, "ok")
      /\ UNCHANGED <<now, issued, expires, honoured>>
  BY DEF Auth!Blacklist, Auth!Runs
<1>2. p \in 1..issued /\ p \in 1..MaxPairs /\ expires[p] > 0 /\ expires[p] \in Nat /\ black[p] \in Nat
  BY <1>1, Numbers DEF LogoutInv, CallInv, AuthType
<1>3. E \in Nat /\ now \in Nat
  BY <1>2, Numbers DEF LogoutInv, AuthType
<1>4. R \in Int /\ R * Second <= E - now /\ E - now < R * Second + Second
  <2>1. R = (E - now) \div Second
    BY DEF Auth!Remaining
  <2> HIDE DEF E, R
  <2>2. E - now \in Int
    BY <1>3
  <2>3. QED
    BY <2>1, <2>2, DivBounds, Numbers
<1>5. R <= 0 => R * Second <= 0
  <2> HIDE DEF R
  <2>1. QED
    BY <1>4, Numbers
<1>6. R > 0 => R * Second \in Nat
  <2> HIDE DEF R
  <2>1. QED
    BY <1>4, Numbers
<1>7. call' \in [Call -> {Idle} \cup Auth!Calls]
      /\ call'[c] \in Auth!Calls /\ call'[c].pc = "ok"
      /\ call'[c].op = call[c].op /\ call'[c].use = call[c].use /\ call'[c].bearer = call[c].bearer
      /\ call'[c].made = call[c].made /\ call'[c].late = call[c].late
      /\ \A d \in Call : d # c => call'[d] = call[d]
  BY <1>1, GotoCall DEF LogoutInv
<1> HIDE DEF p, E, R
<1>8. black' \in [1..MaxPairs -> Nat] /\ \A q \in 1..MaxPairs : q # p => black'[q] = black[q]
  <2>1. black \in [1..MaxPairs -> Nat]
    BY DEF LogoutInv, AuthType
  <2>2. R > 0 => now + R * Second \in Nat
    BY <1>3, <1>6
  <2>3. QED
    BY <1>1, <1>2, <2>1, <2>2
<1>9. black'[p] + Second > E \/ now + Second > E
  <2>1. CASE R > 0
    <3>1. black'[p] = now + R * Second
      BY <1>1, <1>2, <2>1 DEF LogoutInv, AuthType
    <3>2. QED
      BY <1>3, <1>4, <1>6, <2>1, <3>1, Numbers
  <2>2. CASE ~(R > 0)
    BY <1>3, <1>4, <1>5, <2>2, Numbers
  <2>3. QED
    BY <2>1, <2>2
<1>10. AuthType'
  BY <1>1, <1>2, <1>7, <1>8 DEF LogoutInv, AuthType
<1>11. CallInv'
  BY <1>1, <1>7 DEF LogoutInv, CallInv
<1>12. BlackInv'
  <2> SUFFICES ASSUME NEW q \in loggedOut'
               PROVE /\ expires'[q] > 0
                     /\ \/ black'[q] + Second > expires'[q] * Second
                        \/ now' + Second > expires'[q] * Second
    BY DEF BlackInv
  <2>1. CASE q = p
    BY <1>1, <1>2, <1>9, <2>1 DEF E
  <2>2. CASE q # p
    <3>1. q \in loggedOut /\ q \in 1..MaxPairs
      BY <1>1, <2>2, Numbers DEF LogoutInv, AuthType
    <3>2. QED
      BY <1>1, <1>8, <2>2, <3>1 DEF LogoutInv, BlackInv
  <2>3. QED
    BY <2>1, <2>2
<1>13. LogoutHolds'
  BY <1>1 DEF LogoutInv, LogoutHolds, Auth!LogoutHolds
<1>14. QED
  BY <1>10, <1>11, <1>12, <1>13 DEF LogoutInv

\* What a call does next leaves the invariant alone.
LEMMA StepInv ==
  ASSUME LogoutInv, NEW c \in Call, Auth!Step(c)
  PROVE LogoutInv'
<1>1. CASE Auth!Check(c) \/ Auth!Rotate(c) \/ Auth!Save(c)
  <2>1. call[c] # Idle /\ UNCHANGED <<now, issued, expires, black, loggedOut, honoured>>
    BY <1>1 DEF Auth!Check, Auth!Rotate, Auth!Save, Auth!Runs, Auth!tokenVars, Auth!ghostVars
  <2>2. PICK x \in {"rotate", "refused", "issue", "ok"} : Auth!Goto(c, x)
    BY <1>1 DEF Auth!Check, Auth!Rotate, Auth!Save
  <2>3. QED
    BY <2>1, <2>2, CallMoves
<1>2. CASE Auth!Issue(c)
  BY <1>2, IssueInv
<1>3. CASE Auth!Reply(c)
  BY <1>3, ReplyInv
<1>4. CASE Auth!Listed(c)
  BY <1>4, ListedInv
<1>5. CASE Auth!Unstore(c)
  <2>1. /\ call[c] # Idle /\ call[c].pc = "unstore" /\ Auth!Goto(c, "blacklist")
        /\ UNCHANGED <<now, issued, expires, black, loggedOut, honoured>>
    BY <1>5 DEF Auth!Unstore, Auth!Runs
  <2>2. QED
    BY <2>1, CallMoves
<1>6. CASE Auth!Blacklist(c)
  BY <1>6, BlacklistInv
<1>7. QED
  BY <1>1, <1>2, <1>3, <1>4, <1>5, <1>6 DEF Auth!Step

LEMMA ForgetInv ==
  ASSUME LogoutInv, NEW c, Auth!Forget(c)
  PROVE LogoutInv'
<1>1. call' = [call EXCEPT ![c] = Idle] /\ UNCHANGED <<now, issued, expires, black, loggedOut, honoured>>
  BY DEF Auth!Forget, Auth!tokenVars, Auth!ghostVars
<1>2. QED
  BY <1>1, CallReplaced

\* A step that touches neither a call nor an access token.
LEMMA TokensRest ==
  ASSUME LogoutInv, UNCHANGED <<now, call, issued, expires, black, loggedOut, honoured>>
  PROVE LogoutInv'
BY DEF LogoutInv, AuthType, CallInv, BlackInv, LogoutHolds, Auth!LogoutHolds

LEMMA TimePasses ==
  ASSUME LogoutInv, now < MaxTime, now' = now + 1, UNCHANGED <<call, issued, expires, black, loggedOut, honoured>>
  PROVE LogoutInv'
<1>1. AuthType' /\ CallInv' /\ LogoutHolds'
  <2>1. now' \in 0..MaxTime
    BY Numbers DEF LogoutInv, AuthType
  <2>2. QED
    BY <2>1 DEF LogoutInv, AuthType, CallInv, LogoutHolds, Auth!LogoutHolds
<1>2. BlackInv'
  <2> SUFFICES ASSUME NEW p \in loggedOut
               PROVE /\ expires[p] > 0
                     /\ \/ black[p] + Second > expires[p] * Second
                        \/ now + 1 + Second > expires[p] * Second
    BY DEF BlackInv
  <2>1. p \in 1..MaxPairs
    BY Numbers DEF LogoutInv, AuthType
  <2>2. expires[p] \in Nat /\ now \in Nat
    BY <2>1 DEF LogoutInv, AuthType
  <2>3. expires[p] * Second \in Nat
    BY <2>2, Numbers
  <2>4. /\ expires[p] > 0
        /\ black[p] + Second > expires[p] * Second \/ now + Second > expires[p] * Second
    BY DEF LogoutInv, BlackInv
  <2>5. QED
    BY <2>2, <2>3, <2>4, Numbers
<1>3. QED
  BY <1>1, <1>2 DEF LogoutInv

SessionInv == LogoutInv /\ ClientType

LEMMA SessionInit == Init => SessionInv
<1> SUFFICES ASSUME Init PROVE SessionInv
  OBVIOUS
<1>1. /\ now = 0 /\ issued = 0 /\ call = [c \in Call |-> Idle]
      /\ expires = [p \in 1..MaxPairs |-> 0] /\ black = [p \in 1..MaxPairs |-> 0]
      /\ loggedOut = {} /\ honoured = {}
      /\ req = [s \in Slot |-> Idle] /\ known = {}
  BY Zenon DEF Init, Auth!Init, Auth!Pair
<1>2. AuthType
  BY <1>1, Numbers DEF AuthType
<1>3. CallInv /\ BlackInv /\ LogoutHolds
  BY <1>1 DEF CallInv, BlackInv, LogoutHolds, Auth!LogoutHolds
<1>4. ClientType
  BY <1>1 DEF ClientType
<1>5. QED
  BY <1>2, <1>3, <1>4 DEF SessionInv, LogoutInv

LEMMA ReqChanges ==
  ASSUME ClientType, NEW s \in Slot, NEW r \in {Idle} \cup Sendable, req' = [req EXCEPT ![s] = r],
         known' \subseteq 1..issued'
  PROVE ClientType'
BY DEF ClientType

\* The client sends a request of its own.
LEMMA AskInv ==
  ASSUME SessionInv, NEW s \in Slot, Login(s) \/ AskAuth(s) \/ AskGateway(s)
  PROVE SessionInv'
<1>1. known \subseteq 1..issued /\ issued \in Nat /\ 1 \in Nat /\ 0 \in 0..issued
  BY DEF SessionInv, ClientType, LogoutInv, AuthType
<1>2. \A p \in known : p \in 0..issued /\ p \in Nat
  BY <1>1
<1>3. CASE Login(s)
  <2> DEFINE r == [st |-> "wait", op |-> "login", use |-> 0, bearer |-> 0, text |-> None, window |-> None, tries |-> 1]
  <2>1. /\ Auth!Arrive(<<s, 1>>, "login", 0, 0) /\ req' = [req EXCEPT ![s] = r]
        /\ known' = known /\ issued' = issued
    BY <1>3 DEF Login, Auth!Arrive, Auth!tokenVars
  <2>2. LogoutInv'
    BY <1>1, <2>1, ArriveInv DEF SessionInv
  <2>3. r \in Sendable
    BY Numbers DEF Sendable, Requests
  <2> HIDE DEF r
  <2>4. ClientType'
    BY <1>1, <2>1, <2>3, ReqChanges DEF SessionInv
  <2>5. QED
    BY <2>2, <2>4 DEF SessionInv
<1>4. CASE AskAuth(s)
  <2>1. PICK op \in {"refresh", "logout", "me"}, bearer \in known, use \in known \cup {0} :
          /\ Auth!Arrive(<<s, 1>>, op, use, bearer)
          /\ req' = [req EXCEPT ![s] = [st |-> "wait", op |-> op, use |-> use, bearer |-> bearer,
                                        text |-> None, window |-> None, tries |-> 1]]
          /\ known' = known
    BY <1>4 DEF AskAuth
  <2>2. bearer \in 0..issued /\ bearer \in Nat /\ use \in Nat
    BY <1>2
  <2>3. LogoutInv'
    BY <2>1, <2>2, ArriveInv DEF SessionInv
  <2>4. issued' = issued
    BY <2>1 DEF Auth!Arrive, Auth!tokenVars
  <2> DEFINE r == [st |-> "wait", op |-> op, use |-> use, bearer |-> bearer,
                   text |-> None, window |-> None, tries |-> 1]
  <2>5. r \in Sendable
    BY <2>2, Numbers DEF Sendable, Requests
  <2>6. req' = [req EXCEPT ![s] = r]
    BY <2>1
  <2> HIDE DEF r
  <2>7. ClientType'
    BY <1>1, <2>1, <2>4, <2>5, <2>6, ReqChanges DEF SessionInv
  <2>8. QED
    BY <2>3, <2>7 DEF SessionInv
<1>5. CASE AskGateway(s)
  <2>1. PICK op \in {"refresh", "logout", "me", "create", "delete"}, bearer \in known, t \in Texts \cup {None} :
          /\ req' = [req EXCEPT ![s] = [st |-> "rate", op |-> op, use |-> IF op = "me" THEN 0 ELSE bearer, bearer |-> bearer,
                                        text |-> t, window |-> now \div Window, tries |-> 0]]
          /\ UNCHANGED <<authVars, known>>
    BY <1>5 DEF AskGateway
  <2> DEFINE use == IF op = "me" THEN 0 ELSE bearer
             w == now \div Window
  <2>2. w \in 0..MaxTime
    <3>1. now \in Nat /\ now <= MaxTime
      BY Numbers DEF SessionInv, LogoutInv, AuthType
    <3>2. w \in Nat /\ w <= now
      BY <3>1, DivNat, Numbers
    <3>3. QED
      BY <3>1, <3>2, Numbers
  <2>3. bearer \in Nat /\ use \in Nat
    BY <1>2
  <2> DEFINE r == [st |-> "rate", op |-> op, use |-> use, bearer |-> bearer,
                   text |-> t, window |-> w, tries |-> 0]
  <2>4. req' = [req EXCEPT ![s] = r]
    BY <2>1
  <2> HIDE DEF use, w
  <2>5. r \in Sendable
    BY <2>2, <2>3, Numbers DEF Sendable, Requests
  <2> HIDE DEF r
  <2>6. ClientType'
    BY <1>1, <2>1, <2>4, <2>5, ReqChanges DEF SessionInv, authVars
  <2>7. LogoutInv'
    BY <2>1, TokensRest DEF SessionInv, authVars
  <2>8. QED
    BY <2>6, <2>7 DEF SessionInv
<1>6. QED
  BY <1>3, <1>4, <1>5

Limits(s) == Rate(s) \/ Expire(s) \/ ExpireFails(s)

\* The rate limit lets a request go on, or ends it, and touches no session.
LEMMA LimitMoves ==
  ASSUME NEW s \in Slot, Limits(s)
  PROVE  /\ req[s] # Idle /\ req[s].st \in {"rate", "expire"}
         /\ \/ req' = [req EXCEPT ![s] = Idle]
            \/ req' = [req EXCEPT ![s] = [req[s] EXCEPT !.st = "expire"]]
            \/ req' = [req EXCEPT ![s] = [req[s] EXCEPT !.st = "send"]]
         /\ UNCHANGED <<authVars, keywordVars, known, asked>>
<1>1. CASE Rate(s)
  <2>1. CASE Counted(req[s].window) = 1
    BY <1>1, <2>1 DEF Rate, At
  <2>2. CASE Counted(req[s].window) # 1
    BY <1>1, <2>2 DEF Rate, Judge, At
  <2>3. QED
    BY <2>1, <2>2
<1>2. CASE Expire(s)
  BY <1>2 DEF Expire, Judge, At
<1>3. CASE ExpireFails(s)
  BY <1>3 DEF ExpireFails, At
<1>4. QED
  BY <1>1, <1>2, <1>3 DEF Limits

\* The gateway takes a request further.
LEMMA GatewayInv ==
  ASSUME SessionInv, NEW s \in Slot, Limits(s) \/ Send(s) \/ Timeout(s) \/ Answer(s)
  PROVE SessionInv'
<1>1. req[s] # Idle
  BY LimitMoves DEF Send, Timeout, Answer, At
<1>2. req[s] \in Sendable /\ known \subseteq 1..issued
  BY <1>1 DEF SessionInv, ClientType
<1>3. req[s].st # "wait" \/ req[s].tries < MaxAttempts => [req[s] EXCEPT !.st = "send"] \in Sendable
  BY <1>2 DEF Sendable, Requests
<1>4. CASE Limits(s)
  <2>1. UNCHANGED <<authVars, known>>
    BY <1>4, LimitMoves
  <2>2. req[s].st \in {"rate", "expire"}
    BY <1>4, LimitMoves
  <2>3. \/ req' = [req EXCEPT ![s] = Idle]
        \/ req' = [req EXCEPT ![s] = [req[s] EXCEPT !.st = "expire"]]
        \/ req' = [req EXCEPT ![s] = [req[s] EXCEPT !.st = "send"]]
    BY <1>4, LimitMoves
  <2>4. [req[s] EXCEPT !.st = "expire"] \in Sendable
    BY <1>2, <2>2 DEF Sendable, Requests
  <2>5. ClientType'
    BY <1>2, <1>3, <2>1, <2>2, <2>3, <2>4, ReqChanges DEF SessionInv, authVars
  <2>6. QED
    BY <2>1, <2>5, TokensRest DEF SessionInv, authVars
<1>5. CASE Send(s)
  <2> DEFINE r == [req[s] EXCEPT !.st = "wait", !.tries = @ + 1]
  <2>1. req' = [req EXCEPT ![s] = r] /\ known' = known
    BY <1>5 DEF Send
  <2>2. r \in Sendable
    <3>1. req[s] \in Requests /\ req[s].tries \in Nat /\ req[s].tries < MaxAttempts
      BY <1>2, <1>5 DEF Sendable, Requests, Send, At
    <3>2. req[s].tries + 1 \in 1..MaxAttempts /\ req[s].tries + 1 \in 0..MaxAttempts
      BY <3>1, Numbers
    <3>3. r \in Requests /\ r.st = "wait" /\ r.tries = req[s].tries + 1
      BY <3>1, <3>2 DEF Requests
    <3>4. QED
      BY <3>2, <3>3 DEF Sendable
  <2> HIDE DEF r
  <2>3. \/ /\ req[s].op \in {"refresh", "logout", "me"}
           /\ Auth!Arrive(<<s, req[s].tries + 1>>, req[s].op, req[s].use, 0)
        \/ UNCHANGED authVars
    BY <1>5 DEF Send
  <2>4. req[s].use \in Nat /\ 0 \in 0..issued
    BY <1>2, Numbers DEF Sendable, Requests, SessionInv, LogoutInv, AuthType
  <2>5. LogoutInv'
    BY <2>3, <2>4, ArriveInv, TokensRest DEF SessionInv, authVars
  <2>6. issued' = issued
    BY <2>3 DEF Auth!Arrive, Auth!tokenVars, authVars
  <2>7. ClientType'
    BY <1>2, <2>1, <2>2, <2>6, ReqChanges DEF SessionInv
  <2>8. QED
    BY <2>5, <2>7 DEF SessionInv
<1>6. CASE Timeout(s)
  <2>1. UNCHANGED <<now, call, issued, expires, black, loggedOut, honoured, known>>
    BY <1>6 DEF Timeout
  <2>2. \/ req' = [req EXCEPT ![s] = Idle]
        \/ req' = [req EXCEPT ![s] = [req[s] EXCEPT !.st = "send"]] /\ req[s].tries < MaxAttempts
    BY <1>6 DEF Timeout, SendAgain
  <2>3. ClientType'
    BY <1>2, <1>3, <2>1, <2>2, ReqChanges DEF SessionInv
  <2>4. QED
    BY <2>1, <2>3, TokensRest DEF SessionInv
<1>7. CASE Answer(s)
  <2> DEFINE c == Upstream(s)
  <2>1. req' = [req EXCEPT ![s] = Idle]
    BY <1>7 DEF Answer
  <2>2. CASE /\ call[c] # Idle
             /\ known' = IF call[c].pc = "ok" /\ call[c].made # 0 THEN known \cup {call[c].made} ELSE known
             /\ Auth!Forget(c)
    <3>1. c \in Call
      BY <1>2, <1>7 DEF Call, Upstream, Sendable, Answer, At
    <3>2. call[c] \in Auth!Calls /\ call[c].made \in Nat /\ call[c].made <= issued
      BY <2>2, <3>1 DEF SessionInv, LogoutInv, AuthType, CallInv, Auth!Calls
    <3> HIDE DEF c
    <3>3. known' \subseteq 1..issued
      <4>1. call[c].made # 0 => call[c].made \in 1..issued
        BY <3>2 DEF SessionInv, LogoutInv, AuthType
      <4>2. known' \subseteq known \cup {call[c].made} /\ (call[c].made = 0 => known' = known)
        BY <2>2
      <4>3. QED
        BY <1>2, <4>1, <4>2
    <3>4. issued' = issued
      BY <2>2 DEF Auth!Forget, Auth!tokenVars
    <3>5. ClientType'
      BY <2>1, <3>3, <3>4, ReqChanges DEF SessionInv
    <3>6. QED
      BY <2>2, <3>5, ForgetInv DEF SessionInv
  <2>3. CASE UNCHANGED <<authVars, known>>
    <3>1. ClientType'
      BY <1>2, <2>1, <2>3, ReqChanges DEF SessionInv, authVars
    <3>2. QED
      BY <2>3, <3>1, TokensRest DEF SessionInv, authVars
  <2>4. QED
    BY <1>7, <2>2, <2>3 DEF Answer
<1>8. QED
  BY <1>4, <1>5, <1>6, <1>7

\* The requests rest.
LEMMA ClientsRest ==
  ASSUME SessionInv, LogoutInv', UNCHANGED <<req, known>>, issued' \in Nat, issued' >= issued
  PROVE SessionInv'
<1>1. 1..issued \subseteq 1..issued'
  BY DEF SessionInv, LogoutInv, AuthType
<1>2. ClientType'
  BY <1>1 DEF SessionInv, ClientType
<1>3. QED
  BY <1>2 DEF SessionInv

LEMMA SessionStep == SessionInv /\ [Next]_vars => SessionInv'
<1> SUFFICES ASSUME SessionInv, [Next]_vars PROVE SessionInv'
  OBVIOUS
<1>1. LogoutInv /\ issued \in Nat /\ now \in Nat
  BY DEF SessionInv, LogoutInv, AuthType
<1>2. ASSUME NEW c \in Call, Discard(c) PROVE SessionInv'
  <2>1. Auth!Forget(c) \/ UNCHANGED authVars
    BY <1>2 DEF Discard
  <2>2. issued' = issued /\ UNCHANGED <<req, known>>
    BY <1>2, <2>1 DEF Discard, Auth!Forget, Auth!tokenVars, authVars, gatewayVars
  <2>3. LogoutInv'
    BY <1>1, <2>1, ForgetInv, TokensRest DEF authVars
  <2>4. QED
    BY <1>1, <2>2, <2>3, ClientsRest
<1>3. ASSUME NEW c \in Call, Handler(c) PROVE SessionInv'
  <2>1. (Auth!Step(c) \/ UNCHANGED authVars) /\ UNCHANGED <<req, known>>
    BY <1>3 DEF Handler, gatewayVars
  <2>2. issued' = issued \/ issued' = issued + 1
    BY <2>1 DEF authVars, Auth!Step, Auth!Check, Auth!Rotate, Auth!Issue, Auth!Reply, Auth!Listed, Auth!Save,
                Auth!Unstore, Auth!Blacklist, Auth!tokenVars
  <2>3. LogoutInv'
    BY <1>1, <2>1, StepInv, TokensRest DEF authVars
  <2>4. QED
    BY <1>1, <2>1, <2>2, <2>3, ClientsRest
<1>4. ASSUME NEW c \in Call, HandlerFails(c) PROVE SessionInv'
  <2>1. (Auth!Lose(c) \/ UNCHANGED authVars) /\ UNCHANGED <<req, known>>
    BY <1>4 DEF HandlerFails, gatewayVars
  <2>2. issued' = issued
    BY <2>1 DEF authVars, Auth!Lose, Auth!tokenVars
  <2>3. Auth!Lose(c) => LogoutInv'
    <3>1. Auth!Lose(c) => /\ call[c] # Idle /\ Auth!Goto(c, "refused")
                          /\ UNCHANGED <<now, issued, expires, black, loggedOut, honoured>>
      BY DEF Auth!Lose, Auth!Runs, Auth!tokenVars
    <3>2. QED
      BY <1>1, <3>1, CallMoves
  <2>4. LogoutInv'
    BY <1>1, <2>1, <2>3, TokensRest DEF authVars
  <2>5. QED
    BY <1>1, <2>1, <2>2, <2>4, ClientsRest
<1>5. ASSUME NEW p \in 1..MaxPairs, RefreshExpires(p) PROVE SessionInv'
  <2>1. UNCHANGED <<now, call, issued, expires, black, loggedOut, honoured, req, known>>
    BY <1>5 DEF RefreshExpires, Auth!RefreshExpires, gatewayVars
  <2>2. QED
    BY <1>1, <2>1, TokensRest, ClientsRest
<1>6. ASSUME Tick PROVE SessionInv'
  <2>1. now < MaxTime /\ now' = now + 1 /\ UNCHANGED <<call, issued, expires, black, loggedOut, honoured, req, known>>
    BY <1>6 DEF Tick, gatewayVars
  <2>2. QED
    BY <1>1, <2>1, TimePasses, ClientsRest
<1>7. ASSUME UNCHANGED vars PROVE SessionInv'
  <2>1. UNCHANGED <<now, call, issued, expires, black, loggedOut, honoured, req, known>>
    BY <1>7 DEF vars, authVars, gatewayVars
  <2>2. QED
    BY <1>1, <2>1, TokensRest, ClientsRest
<1>8. QED
  BY <1>2, <1>3, <1>4, <1>5, <1>6, <1>7, AskInv, GatewayInv DEF Next, Limits

\* For every number of connections, resends, losses and requests at either door: after a
\* logout of an access token, auth-service accepts it again in the last second of its
\* life at most.
THEOREM Logout == Spec => []LogoutHolds
<1>1. SessionInv => LogoutHolds
  BY DEF SessionInv, LogoutInv
<1>2. QED
  BY <1>1, SessionInit, SessionStep, PTL DEF Spec

-----------------------------------------------------------------------------
(* Types *)

\* The tokens in Redis and the sessions they belong to.
Lineage ==
  /\ store \subseteq 1..issued /\ ended \subseteq 1..issued /\ disturbed \subseteq 1..issued
  /\ root \in [1..MaxPairs -> Nat]
  /\ \A p \in 1..issued : root[p] \in 1..p /\ root[root[p]] = root[p]

\* What a call presents and makes, by where it has got to: only a refresh rotates, and
\* it presents a token; a login presents none; a pair is made at the issue.
CallOk(c) ==
  call[c] # Idle =>
    /\ call[c].use \in 0..issued /\ call[c].bearer \in 0..issued /\ call[c].made \in 0..issued
    /\ call[c].pc \in {"check", "rotate"} => call[c].op = "refresh"
    /\ call[c].pc = "issue" => call[c].op \in {"login", "refresh"}
    /\ call[c].pc = "rotate" \/ (call[c].pc = "issue" /\ call[c].op = "refresh") => call[c].use # 0
    /\ call[c].made # 0 => call[c].pc \in {"reply", "ok", "refused"}
    /\ call[c].op = "login" => call[c].use = 0

TokenInv == Lineage /\ \A c \in Call : CallOk(c)

\* What a request carries; one that waits has a handler to wait for.
RequestOk(s) ==
  req[s] # Idle =>
    /\ req[s].use \in 0..issued /\ req[s].bearer \in 0..issued
    /\ req[s].op = "refresh" => req[s].use # 0
    /\ req[s].op \in {"create", "delete"} => req[s].text \in Texts
    /\ req[s].op = "login" => req[s].st = "wait" /\ req[s].window = None
    /\ req[s].st # "wait" \/ req[s].window # None => req[s].window \in 0..now \div Window
    /\ req[s].st = "wait" => call[Upstream(s)] # Idle \/ create[Upstream(s)] # Idle

RequestInv == \A s \in Slot : RequestOk(s)

EdgeInv == SessionInv /\ TokenInv /\ RequestInv /\ Keyword!TypeOK

LEMMA SessionTypes ==
  ASSUME SessionInv
  PROVE  /\ now \in 0..MaxTime /\ issued \in Nat /\ issued <= MaxPairs /\ 1..issued \subseteq 1..MaxPairs
         /\ call \in [Call -> {Idle} \cup Auth!Calls]
         /\ known \subseteq 1..issued
         /\ req \in [Slot -> {Idle} \cup Sendable]
<1>1. issued \in 0..MaxPairs /\ now \in 0..MaxTime
  BY DEF SessionInv, LogoutInv, AuthType
<1>2. issued \in Nat /\ issued <= MaxPairs /\ 1..issued \subseteq 1..MaxPairs
  BY <1>1, Numbers
<1>3. QED
  BY <1>1, <1>2 DEF SessionInv, LogoutInv, AuthType, ClientType

LEMMA TouchesIssued ==
  ASSUME SessionInv, TokenInv, NEW c \in Call
  PROVE  Auth!Touches(c) \subseteq 1..issued
<1>1. CASE call[c] = Idle
  BY <1>1 DEF Auth!Touches
<1>2. CASE call[c] # Idle
  <2>1. call[c].use \in 0..issued /\ call[c].made \in 0..issued /\ issued \in Nat
    BY <1>2, SessionTypes DEF TokenInv, CallOk
  <2>2. {call[c].use, call[c].made} \ {0} \subseteq 1..issued
    BY <2>1
  <2>3. \A p \in 1..issued : root[p] \in 1..issued
    BY <2>1 DEF TokenInv, Lineage
  <2>4. Auth!Touches(c) = {root[p] : p \in {call[c].use, call[c].made} \ {0}}
    BY <1>2 DEF Auth!Touches
  <2>5. QED
    BY <2>2, <2>3, <2>4
<1>3. QED
  BY <1>1, <1>2

\* One call changes, the tokens lose or keep what they have.
LEMMA OneCall ==
  ASSUME SessionInv, TokenInv, NEW c, NEW r, call' = [call EXCEPT ![c] = r],
         r = Idle \/
           /\ r.use \in 0..issued /\ r.bearer \in 0..issued /\ r.made \in 0..issued
           /\ r.pc \in {"check", "rotate"} => r.op = "refresh"
           /\ r.pc = "issue" => r.op \in {"login", "refresh"}
           /\ r.pc = "rotate" \/ (r.pc = "issue" /\ r.op = "refresh") => r.use # 0
           /\ r.made # 0 => r.pc \in {"reply", "ok", "refused"}
           /\ r.op = "login" => r.use = 0,
         UNCHANGED <<issued, root>>, store' \subseteq store,
         ended' \subseteq 1..issued, disturbed' \subseteq 1..issued
  PROVE  TokenInv'
<1>1. \A d \in Call : call'[d] = IF d = c THEN r ELSE call[d]
  BY SessionTypes
<1>2. Lineage'
  BY DEF TokenInv, Lineage
<1>3. ASSUME NEW d \in Call PROVE CallOk(d)'
  <2>1. CASE d = c
    BY <1>1, <2>1 DEF CallOk
  <2>2. CASE d # c
    BY <1>1, <2>2 DEF CallOk, TokenInv
  <2>3. QED
    BY <2>1, <2>2
<1>4. QED
  BY <1>2, <1>3 DEF TokenInv

LEMMA OneCallGoes ==
  ASSUME SessionInv, TokenInv, NEW c \in Call, call[c] # Idle, NEW x, Auth!Goto(c, x),
         \/ x \in {"ok", "refused"}
         \/ x \in {"save", "unstore", "blacklist"} /\ call[c].made = 0
         \/ x = "rotate" /\ call[c].pc = "check" /\ call[c].use # 0
         \/ x = "issue" /\ call[c].pc = "rotate",
         UNCHANGED <<issued, root>>, store' \subseteq store,
         ended' \subseteq 1..issued, disturbed' \subseteq 1..issued
  PROVE  TokenInv'
<1> DEFINE r == [call[c] EXCEPT !.pc = x]
<1>1. call[c] \in Auth!Calls
  BY SessionTypes
<1>2. call' = [call EXCEPT ![c] = r]
  BY DEF Auth!Goto
<1>3. /\ r.pc = x /\ r.op = call[c].op /\ r.use = call[c].use /\ r.bearer = call[c].bearer
      /\ r.made = call[c].made
  BY <1>1 DEF Auth!Calls
<1>4. CallOk(c)
  BY DEF TokenInv
<1> HIDE DEF r
<1>5. QED
  BY <1>2, <1>3, <1>4, OneCall DEF CallOk

LEMMA ArriveToken ==
  ASSUME SessionInv, TokenInv, NEW c, NEW op \in {"login", "refresh", "logout", "me"},
         NEW use \in 0..issued, NEW bearer \in 0..issued, op = "login" => use = 0,
         op = "refresh" => use # 0, Auth!Arrive(c, op, use, bearer)
  PROVE  TokenInv'
<1> DEFINE pc == CASE op = "login" -> "issue"
                   [] op = "refresh" -> "check"
                   [] OTHER -> IF Auth!Decodes(bearer) THEN "listed" ELSE "refused"
           r == [op |-> op, use |-> use, bearer |-> bearer, made |-> 0, late |-> bearer \in loggedOut, pc |-> pc]
<1>1. call' = [call EXCEPT ![c] = r] /\ UNCHANGED <<issued, root, store, ended>>
  BY Zenon DEF Auth!Arrive, Auth!tokenVars
<1>2. /\ pc \in {"issue", "check", "listed", "refused"}
      /\ pc = "issue" <=> op = "login"
      /\ pc = "check" <=> op = "refresh"
  OBVIOUS
<1>3. disturbed' \subseteq 1..issued
  <2>1. disturbed' \subseteq disturbed \cup {root[p] : p \in {use} \ {0}}
    BY DEF Auth!Arrive
  <2>2. use # 0 => use \in 1..issued /\ root[use] \in 1..issued
    BY SessionTypes DEF TokenInv, Lineage
  <2>3. QED
    BY <2>1, <2>2 DEF TokenInv, Lineage
<1>4. issued \in Nat
  BY SessionTypes
<1>5. r.op = op /\ r.use = use /\ r.bearer = bearer /\ r.made = 0 /\ r.pc = pc
  OBVIOUS
<1> HIDE DEF pc, r
<1>6. ended' \subseteq 1..issued /\ store' \subseteq store
  BY <1>1 DEF TokenInv, Lineage
<1>7. 0 \in 0..issued
  BY <1>4
<1>8. QED
  BY <1>1, <1>2, <1>3, <1>5, <1>6, <1>7, OneCall

LEMMA IssueToken ==
  ASSUME SessionInv, TokenInv, NEW c \in Call, Auth!Issue(c)
  PROVE  TokenInv'
<1> DEFINE p == issued + 1
           r == [call[c] EXCEPT !.pc = "reply", !.made = p]
           f == IF call[c].op = "login" THEN p ELSE root[call[c].use]
<1>1. /\ call[c] # Idle /\ call[c].pc = "issue" /\ issued < MaxPairs
      /\ issued' = p /\ store' = store \cup {p}
      /\ root' = [root EXCEPT ![p] = f]
      /\ call' = [call EXCEPT ![c] = r]
      /\ UNCHANGED <<ended, disturbed>>
  BY DEF Auth!Issue, Auth!Runs, Auth!ghostVars
<1>2. call[c] \in Auth!Calls /\ issued \in Nat /\ p \in 1..MaxPairs /\ CallOk(c)
  BY <1>1, SessionTypes, Numbers DEF TokenInv
<1>3. /\ r.pc = "reply" /\ r.made = p /\ r.op = call[c].op /\ r.use = call[c].use /\ r.bearer = call[c].bearer
      /\ r.use \in 0..issued /\ r.bearer \in 0..issued
  BY <1>1, <1>2 DEF Auth!Calls, CallOk
<1>4. call[c].op = "login" \/ call[c].use \in 1..issued
  BY <1>1, <1>2 DEF CallOk
<1>5. f = p \/ (f \in 1..issued /\ root[f] = f)
  <2>1. CASE call[c].op = "login"
    BY <2>1
  <2>2. CASE call[c].op # "login"
    <3>1. call[c].use \in 1..issued
      BY <1>4, <2>2
    <3>2. root[call[c].use] \in 1..call[c].use /\ root[root[call[c].use]] = root[call[c].use]
      BY <3>1 DEF TokenInv, Lineage
    <3>3. f = root[call[c].use]
      BY <2>2
    <3> HIDE DEF f
    <3>4. f \in 1..issued
      BY <1>2, <3>1, <3>2, <3>3
    <3>5. QED
      BY <3>2, <3>3, <3>4
  <2>3. QED
    BY <2>1, <2>2
<1>6. \A d \in Call : call'[d] = IF d = c THEN r ELSE call[d]
  BY <1>1, SessionTypes
<1>7. /\ root' \in [1..MaxPairs -> Nat] /\ root'[p] = f
      /\ \A q \in 1..MaxPairs : q # p => root'[q] = root[q]
  BY <1>1, <1>2, <1>5 DEF TokenInv, Lineage
<1> HIDE DEF r, f
<1>8. \A q \in 1..issued : q \in 1..MaxPairs /\ q # p
  BY <1>2, SessionTypes
<1>9. Lineage'
  <2>1. 1..issued' = 1..issued \cup {p} /\ p \in 1..p
    BY <1>1, <1>2
  <2>2. \A q \in 1..issued : root'[q] \in 1..q /\ root'[root'[q]] = root'[q]
    <3>1. ASSUME NEW q \in 1..issued PROVE root'[q] \in 1..q /\ root'[root'[q]] = root'[q]
      <4>1. root[q] \in 1..q /\ root[root[q]] = root[q]
        BY DEF TokenInv, Lineage
      <4>2. root[q] \in 1..issued
        BY <1>2, <4>1
      <4>3. root'[q] = root[q] /\ root'[root[q]] = root[root[q]]
        BY <1>7, <1>8, <4>2
      <4>4. QED
        BY <4>1, <4>3
    <3>2. QED
      BY <3>1
  <2>3. root'[p] \in 1..p /\ root'[root'[p]] = root'[p]
    <3>1. CASE f = p
      BY <1>2, <1>7, <3>1
    <3>2. CASE f \in 1..issued /\ root[f] = f
      BY <1>2, <1>7, <1>8, <3>2
    <3>3. QED
      BY <1>5, <3>1, <3>2
  <2>4. QED
    BY <1>1, <1>7, <2>1, <2>2, <2>3 DEF TokenInv, Lineage
<1>10. ASSUME NEW d \in Call PROVE CallOk(d)'
  <2>0. \A q \in 0..issued : q \in 0..issued'
    BY <1>1, <1>2
  <2>1. CASE d = c
    <3>1. p \in 0..issued'
      BY <1>1, <1>2
    <3>2. call[c].op = "login" => call[c].use = 0
      BY <1>1, <1>2 DEF CallOk
    <3>3. call'[d] = r
      BY <1>6, <2>1
    <3>4. QED
      BY <1>3, <2>0, <3>1, <3>2, <3>3 DEF CallOk
  <2>2. CASE d # c
    <3>1. call'[d] = call[d] /\ CallOk(d)
      BY <1>6, <2>2 DEF TokenInv
    <3>2. QED
      BY <2>0, <3>1 DEF CallOk
  <2>3. QED
    BY <2>1, <2>2
<1>11. QED
  BY <1>9, <1>10 DEF TokenInv

LEMMA StepToken ==
  ASSUME SessionInv, TokenInv, NEW c \in Call, Auth!Step(c) \/ Auth!Lose(c)
  PROVE  TokenInv'
<1>1. ended \subseteq 1..issued /\ disturbed \subseteq 1..issued /\ CallOk(c)
  BY DEF TokenInv, Lineage
<1>2. CASE Auth!Check(c)
  <2>1. /\ call[c] # Idle /\ call[c].pc = "check"
        /\ UNCHANGED <<issued, root, store, ended, disturbed>>
    BY <1>2 DEF Auth!Check, Auth!Runs, Auth!tokenVars, Auth!ghostVars
  <2>2. CASE call[c].use \in store
    <3>1. Auth!Goto(c, "rotate")
      BY <1>2, <2>2 DEF Auth!Check
    <3>2. call[c].use # 0
      BY <2>2 DEF TokenInv, Lineage
    <3>3. QED
      BY <1>1, <2>1, <3>1, <3>2, OneCallGoes
  <2>3. CASE call[c].use \notin store
    <3>1. Auth!Goto(c, "refused")
      BY <1>2, <2>3 DEF Auth!Check
    <3>2. QED
      BY <1>1, <2>1, <3>1, OneCallGoes
  <2>4. QED
    BY <2>2, <2>3
<1>3. CASE Auth!Rotate(c)
  <2>1. /\ call[c] # Idle /\ call[c].pc = "rotate" /\ Auth!Goto(c, "issue") /\ store' \subseteq store
        /\ UNCHANGED <<issued, root, ended, disturbed>>
    BY <1>3 DEF Auth!Rotate, Auth!Runs, Auth!ghostVars
  <2>2. QED
    BY <1>1, <2>1, OneCallGoes
<1>4. CASE Auth!Issue(c)
  BY <1>4, IssueToken
<1>5. CASE Auth!Reply(c) \/ Auth!Save(c) \/ Auth!Blacklist(c)
  <2>1. /\ call[c] # Idle /\ Auth!Goto(c, "ok")
        /\ UNCHANGED <<issued, root, store, ended, disturbed>>
    BY <1>5 DEF Auth!Reply, Auth!Save, Auth!Blacklist, Auth!Runs, Auth!tokenVars, Auth!ghostVars
  <2>2. QED
    BY <1>1, <2>1, OneCallGoes
<1>6. CASE Auth!Listed(c)
  <2>1. /\ call[c] # Idle /\ call[c].pc = "listed"
        /\ UNCHANGED <<issued, root, store, ended, disturbed>>
    BY <1>6 DEF Auth!Listed, Auth!Runs, Auth!tokenVars
  <2>2. PICK x \in {"refused", "unstore", "save"} : Auth!Goto(c, x)
    BY <1>6 DEF Auth!Listed
  <2>3. call[c].made = 0
    BY <1>1, <2>1 DEF CallOk
  <2>4. QED
    BY <1>1, <2>1, <2>2, <2>3, OneCallGoes
<1>7. CASE Auth!Unstore(c)
  <2>1. /\ call[c] # Idle /\ call[c].pc = "unstore" /\ Auth!Goto(c, "blacklist") /\ store' \subseteq store
        /\ UNCHANGED <<issued, root, disturbed>>
        /\ ended' = IF call[c].use \in store THEN ended \cup {root[call[c].use]} ELSE ended
    BY <1>7 DEF Auth!Unstore, Auth!Runs
  <2>2. call[c].made = 0
    BY <1>1, <2>1 DEF CallOk
  <2>3. \A p \in store : root[p] \in 1..issued
    BY SessionTypes DEF TokenInv, Lineage
  <2>4. ended' \subseteq 1..issued
    BY <1>1, <2>1, <2>3
  <2>5. QED
    BY <1>1, <2>1, <2>2, <2>4, OneCallGoes
<1>8. CASE Auth!Lose(c)
  <2>1. /\ call[c] # Idle /\ Auth!Goto(c, "refused") /\ UNCHANGED <<issued, root, store, ended>>
        /\ disturbed' = disturbed \cup Auth!Touches(c)
    BY <1>8 DEF Auth!Lose, Auth!Runs, Auth!tokenVars
  <2>2. disturbed' \subseteq 1..issued
    BY <1>1, <2>1, TouchesIssued
  <2>3. QED
    BY <1>1, <2>1, <2>2, OneCallGoes
<1>9. QED
  BY <1>2, <1>3, <1>4, <1>5, <1>6, <1>7, <1>8 DEF Auth!Step

\* No call changes.
LEMMA TokenRests ==
  ASSUME SessionInv, TokenInv, UNCHANGED <<call, issued, root, ended>>, store' \subseteq store,
         disturbed' \subseteq 1..issued
  PROVE  TokenInv'
<1>1. Lineage'
  BY DEF TokenInv, Lineage
<1>2. \A c \in Call : CallOk(c)'
  BY DEF TokenInv, CallOk
<1>3. QED
  BY <1>1, <1>2 DEF TokenInv

LEMMA ForgetToken ==
  ASSUME SessionInv, TokenInv, NEW c, Auth!Forget(c)
  PROVE  TokenInv'
<1>1. call' = [call EXCEPT ![c] = Idle] /\ UNCHANGED <<issued, root, store, ended, disturbed>>
  BY DEF Auth!Forget, Auth!tokenVars, Auth!ghostVars
<1>2. ended \subseteq 1..issued /\ disturbed \subseteq 1..issued
  BY DEF TokenInv, Lineage
<1>3. QED
  BY <1>1, <1>2, OneCall

\* The keyword endpoints.
LEMMA CreationGoes ==
  ASSUME Keyword!TypeOK, NEW c, NEW r, create' = [create EXCEPT ![c] = r], r \in {Idle} \cup Keyword!Creations,
         rows' \subseteq rows, raced' = raced
  PROVE  Keyword!TypeOK'
BY DEF Keyword!TypeOK

LEMMA KeywordTypes ==
  ASSUME Keyword!TypeOK, NEW c \in Call, Keyword!Step(c) \/ Keyword!Lose(c)
  PROVE  Keyword!TypeOK' /\ create[c] # Idle /\ create'[c] # Idle /\ \A d \in Call : d # c => create'[d] = create[d]
<1>1. create[c] # Idle
  BY DEF Keyword!Step, Keyword!CountKeywords, Keyword!CheckExists, Keyword!Insert, Keyword!Remove, Keyword!Lose, Keyword!At
<1>2. create \in [Call -> {Idle} \cup Keyword!Creations] /\ create[c] \in Keyword!Creations
  BY <1>1 DEF Keyword!TypeOK
<1>3. PICK x \in {"refused", "exists", "insert", "ok"} :
        create' = [create EXCEPT ![c] = [pc |-> x, text |-> create[c].text]]
  BY DEF Keyword!Step, Keyword!CountKeywords, Keyword!CheckExists, Keyword!Insert, Keyword!Remove, Keyword!Lose, Keyword!Goto
<1> DEFINE r == [pc |-> x, text |-> create[c].text]
<1>4. r \in Keyword!Creations
  BY <1>2 DEF Keyword!Creations
<1>5. create' = [create EXCEPT ![c] = r]
  BY <1>3
<1> HIDE DEF r
<1>6. create'[c] # Idle /\ \A d \in Call : d # c => create'[d] = create[d]
  BY <1>2, <1>4, <1>5, IdleAssumption
<1>7. CASE rows' \subseteq rows /\ raced' = raced
  BY <1>1, <1>4, <1>5, <1>6, <1>7, CreationGoes
<1>8. CASE Keyword!Insert(c)
  <2> DEFINE fresh == Ids \ {k.id : k \in rows}
             i == CHOOSE j \in fresh : TRUE
             row == [id |-> i, text |-> create[c].text]
  <2>1. fresh # {} /\ rows' = rows \cup {row} /\ raced' = (raced \/ Keyword!Pending # {c})
    BY <1>8 DEF Keyword!Insert
  <2>2. i \in fresh
    BY <2>1
  <2> HIDE DEF i
  <2>3. i \in Ids /\ \A k \in rows : k.id # i
    BY <2>2
  <2>4. row \in [id : Ids, text : Texts] /\ row.id = i
    BY <1>2, <2>3 DEF Keyword!Creations
  <2> HIDE DEF row, fresh
  <2>5. rows' \subseteq [id : Ids, text : Texts] /\ \A k, l \in rows' : k.id = l.id => k = l
    BY <2>1, <2>3, <2>4 DEF Keyword!TypeOK
  <2>6. raced' \in BOOLEAN
    BY <2>1
  <2>7. create' \in [Call -> {Idle} \cup Keyword!Creations]
    BY <1>2, <1>4, <1>5
  <2>8. QED
    BY <1>1, <1>6, <2>5, <2>6, <2>7 DEF Keyword!TypeOK
<1>9. QED
  BY <1>7, <1>8 DEF Keyword!Step, Keyword!CountKeywords, Keyword!CheckExists, Keyword!Remove, Keyword!Lose

LEMMA KeywordRests == ASSUME Keyword!TypeOK, UNCHANGED keywordVars PROVE Keyword!TypeOK'
BY DEF Keyword!TypeOK, keywordVars

\* A handler that goes on does not vanish, nor does another.
LEMMA NoneVanishes ==
  ASSUME SessionInv, NEW c \in Call, Auth!Step(c) \/ Auth!Lose(c)
  PROVE  call[c] # Idle /\ call'[c] # Idle /\ \A d \in Call : d # c => call'[d] = call[d]
<1>1. call[c] # Idle
  BY DEF Auth!Step, Auth!Check, Auth!Rotate, Auth!Issue, Auth!Reply, Auth!Listed, Auth!Save, Auth!Unstore,
         Auth!Blacklist, Auth!Lose, Auth!Runs
<1>2. CASE Auth!Issue(c)
  <2> DEFINE r == [call[c] EXCEPT !.pc = "reply", !.made = issued + 1]
  <2>1. call' = [call EXCEPT ![c] = r]
    BY <1>2 DEF Auth!Issue
  <2>2. call[c] \in Auth!Calls /\ issued + 1 \in Nat
    BY <1>1, SessionTypes
  <2>3. r \in Auth!Calls
    BY <2>2 DEF Auth!Calls
  <2> HIDE DEF r
  <2>4. QED
    BY <1>1, <2>1, <2>3, SessionTypes, IdleAssumption
<1>3. CASE ~Auth!Issue(c)
  <2>1. PICK x \in {"refused", "rotate", "issue", "ok", "unstore", "save", "blacklist"} : Auth!Goto(c, x)
    BY <1>3 DEF Auth!Step, Auth!Check, Auth!Rotate, Auth!Reply, Auth!Listed, Auth!Save, Auth!Unstore,
         Auth!Blacklist, Auth!Lose
  <2>2. call'[c] \in Auth!Calls /\ \A d \in Call : d # c => call'[d] = call[d]
    BY <1>1, <2>1, GotoCall DEF SessionInv, LogoutInv
  <2>3. QED
    BY <1>1, <2>2, IdleAssumption
<1>4. QED
  BY <1>2, <1>3

-----------------------------------------------------------------------------
\* A request that waits, waits for a call.
LEMMA UpstreamCall ==
  ASSUME SessionInv, NEW s \in Slot, req[s] # Idle, req[s].st = "wait"
  PROVE  Upstream(s) \in Call /\ Upstream(s)[1] = s
<1>1. req[s] \in Sendable
  BY SessionTypes
<1>2. req[s].tries \in 1..MaxAttempts
  BY <1>1 DEF Sendable
<1>3. QED
  BY <1>2 DEF Upstream, Call

\* The requests rest; what one waits for does not vanish.
LEMMA RequestsRest ==
  ASSUME EdgeInv, req' = req, issued' \in Nat, issued' >= issued, now' = now,
         \A s \in Slot : req[s] # Idle /\ req[s].st = "wait" =>
           /\ call[Upstream(s)] # Idle => call'[Upstream(s)] # Idle
           /\ create[Upstream(s)] # Idle => create'[Upstream(s)] # Idle
  PROVE  RequestInv'
<1> SUFFICES ASSUME NEW s \in Slot PROVE RequestOk(s)'
  BY DEF RequestInv
<1>1. RequestOk(s)
  BY DEF EdgeInv, RequestInv
<1>2. 0..issued \subseteq 0..issued'
  BY SessionTypes DEF EdgeInv
<1>3. Upstream(s)' = Upstream(s)
  BY DEF Upstream
<1>4. QED
  BY <1>1, <1>2, <1>3 DEF RequestOk

\* One request changes, and calls of its slot only.
LEMMA OneRequest ==
  ASSUME EdgeInv, NEW s \in Slot, NEW r, req' = [req EXCEPT ![s] = r], UNCHANGED <<issued, now>>,
         \A c \in Call : c[1] # s => call'[c] = call[c] /\ create'[c] = create[c],
         r = Idle \/
           /\ r.use \in 0..issued /\ r.bearer \in 0..issued
           /\ r.op = "refresh" => r.use # 0
           /\ r.op \in {"create", "delete"} => r.text \in Texts
           /\ r.op = "login" => r.st = "wait" /\ r.window = None
           /\ r.st # "wait" \/ r.window # None => r.window \in 0..now \div Window
           /\ r.st = "wait" => call'[<<s, r.tries>>] # Idle \/ create'[<<s, r.tries>>] # Idle
  PROVE  RequestInv'
<1> SUFFICES ASSUME NEW t \in Slot PROVE RequestOk(t)'
  BY DEF RequestInv
<1>0. SessionInv
  BY DEF EdgeInv
<1>1. req'[t] = IF t = s THEN r ELSE req[t]
  BY <1>0, SessionTypes
<1>2. CASE t = s
  <2>1. req'[t] = r /\ Upstream(t)' = <<s, r.tries>>
    BY <1>1, <1>2 DEF Upstream
  <2>2. QED
    BY <2>1 DEF RequestOk
<1>3. CASE t # s
  <2>1. req'[t] = req[t] /\ Upstream(t)' = Upstream(t) /\ RequestOk(t)
    BY <1>1, <1>3 DEF Upstream, EdgeInv, RequestInv
  <2>2. req[t] # Idle /\ req[t].st = "wait" =>
          call'[Upstream(t)] = call[Upstream(t)] /\ create'[Upstream(t)] = create[Upstream(t)]
    BY <1>0, <1>3, UpstreamCall
  <2>3. QED
    BY <2>1, <2>2 DEF RequestOk
<1>4. QED
  BY <1>2, <1>3

-----------------------------------------------------------------------------
LEMMA EdgeInit == Init => EdgeInv
<1> SUFFICES ASSUME Init PROVE EdgeInv
  OBVIOUS
<1>1. /\ issued = 0 /\ call = [c \in Call |-> Idle] /\ store = {} /\ ended = {} /\ disturbed = {}
      /\ root = [p \in 1..MaxPairs |-> 0]
      /\ create = [c \in Call |-> Idle] /\ rows = {} /\ raced = FALSE
      /\ req = [s \in Slot |-> Idle]
  BY Zenon DEF Init, Auth!Init, Auth!Pair, Keyword!Init
<1>2. TokenInv
  BY <1>1 DEF TokenInv, Lineage, CallOk
<1>3. RequestInv /\ Keyword!TypeOK
  BY <1>1 DEF RequestInv, RequestOk, Keyword!TypeOK
<1>4. QED
  BY <1>2, <1>3, SessionInit DEF EdgeInv

LEMMA AskEdge ==
  ASSUME EdgeInv, NEW s \in Slot, Login(s) \/ AskAuth(s) \/ AskGateway(s)
  PROVE  TokenInv' /\ RequestInv' /\ Keyword!TypeOK'
<1>0. /\ SessionInv /\ TokenInv /\ Keyword!TypeOK
      /\ issued \in Nat /\ 0 \in 0..issued /\ known \subseteq 1..issued
      /\ call \in [Call -> {Idle} \cup Auth!Calls]
  BY SessionTypes DEF EdgeInv
<1>1. UNCHANGED keywordVars => Keyword!TypeOK' /\ create' = create
  BY <1>0, KeywordRests DEF keywordVars
<1>2. <<s, 1>> \in Call
  BY Numbers DEF Call
<1>3. ASSUME NEW op \in {"login", "refresh", "logout", "me"}, NEW use \in 0..issued, NEW bearer \in 0..issued,
             op = "login" => use = 0, op = "refresh" => use # 0,
             Auth!Arrive(<<s, 1>>, op, use, bearer), UNCHANGED keywordVars,
             req' = [req EXCEPT ![s] = [st |-> "wait", op |-> op, use |-> use, bearer |-> bearer,
                                        text |-> None, window |-> None, tries |-> 1]]
      PROVE  TokenInv' /\ RequestInv' /\ Keyword!TypeOK'
  <2> DEFINE c == <<s, 1>>
             r == [st |-> "wait", op |-> op, use |-> use, bearer |-> bearer, text |-> None, window |-> None, tries |-> 1]
             pc == CASE op = "login" -> "issue"
                     [] op = "refresh" -> "check"
                     [] OTHER -> IF Auth!Decodes(bearer) THEN "listed" ELSE "refused"
             v == [op |-> op, use |-> use, bearer |-> bearer, made |-> 0, late |-> bearer \in loggedOut, pc |-> pc]
  <2>1. TokenInv'
    BY <1>0, <1>3, ArriveToken
  <2>2. UNCHANGED <<issued, now>> /\ call' = [call EXCEPT ![c] = v]
    BY <1>3, Zenon DEF Auth!Arrive, Auth!tokenVars
  <2>3. v \in Auth!Calls
    <3>1. pc \in {"issue", "check", "listed", "refused"} /\ (bearer \in loggedOut) \in BOOLEAN
      OBVIOUS
    <3> HIDE DEF pc
    <3>2. QED
      BY <1>0, <3>1 DEF Auth!Calls
  <2> HIDE DEF v
  <2>4. call'[c] # Idle /\ \A d \in Call : d # c => call'[d] = call[d]
    BY <1>0, <1>2, <2>2, <2>3, IdleAssumption
  <2>5. r.use = use /\ r.bearer = bearer /\ r.op = op /\ r.st = "wait" /\ r.window = None /\ r.tries = 1
    OBVIOUS
  <2>6. op \notin {"create", "delete"}
    OBVIOUS
  <2>7. req' = [req EXCEPT ![s] = r]
    BY <1>3
  <2> HIDE DEF r
  <2>8. \A d \in Call : d[1] # s => call'[d] = call[d] /\ create'[d] = create[d]
    BY <1>1, <1>3, <2>4
  <2>9. RequestInv'
    <3>1. call'[<<s, r.tries>>] # Idle
      BY <2>4, <2>5
    <3>2. r.op = "refresh" => r.use # 0
      BY <1>3, <2>5
    <3>3. UNCHANGED <<issued, now>>
      BY <2>2
    <3>4. r.use \in 0..issued /\ r.bearer \in 0..issued /\ r.op \notin {"create", "delete"}
      BY <2>5, <2>6
    <3> HIDE DEF c
    <3>5. QED
      BY <2>5, <2>7, <2>8, <3>1, <3>2, <3>3, <3>4, OneRequest
  <2>10. QED
    BY <1>1, <1>3, <2>1, <2>9
<1>4. CASE Login(s)
  <2>1. /\ Auth!Arrive(<<s, 1>>, "login", 0, 0) /\ UNCHANGED keywordVars
        /\ req' = [req EXCEPT ![s] = [st |-> "wait", op |-> "login", use |-> 0, bearer |-> 0,
                                      text |-> None, window |-> None, tries |-> 1]]
    BY <1>4 DEF Login
  <2>2. QED
    BY <1>0, <1>3, <2>1
<1>5. CASE AskAuth(s)
  <2>1. PICK op \in {"refresh", "logout", "me"}, bearer \in known, use \in known \cup {0} :
          /\ op = "refresh" => use = bearer
          /\ Auth!Arrive(<<s, 1>>, op, use, bearer) /\ UNCHANGED keywordVars
          /\ req' = [req EXCEPT ![s] = [st |-> "wait", op |-> op, use |-> use, bearer |-> bearer,
                                        text |-> None, window |-> None, tries |-> 1]]
    BY <1>5 DEF AskAuth
  <2>2. bearer \in 0..issued /\ use \in 0..issued /\ bearer # 0
    BY <1>0
  <2>3. /\ op \in {"login", "refresh", "logout", "me"} /\ op # "login"
        /\ op = "refresh" => use # 0
    BY <2>1, <2>2
  <2>4. QED
    BY ONLY <1>3, <2>1, <2>2, <2>3
<1>6. CASE AskGateway(s)
  <2>1. PICK op \in {"refresh", "logout", "me", "create", "delete"}, bearer \in known, t \in Texts \cup {None} :
          /\ Free(s) /\ Auth!Decodes(bearer)
          /\ t = None <=> op \notin {"create", "delete"}
          /\ req' = [req EXCEPT ![s] = [st |-> "rate", op |-> op, use |-> IF op = "me" THEN 0 ELSE bearer, bearer |-> bearer,
                                        text |-> t, window |-> now \div Window, tries |-> 0]]
          /\ asked' = asked + 1
          /\ UNCHANGED <<authVars, keywordVars, hits, passed, known, faults>>
    BY ONLY <1>6 DEF AskGateway
  <2> DEFINE use == IF op = "me" THEN 0 ELSE bearer
             r == [st |-> "rate", op |-> op, use |-> use, bearer |-> bearer,
                   text |-> t, window |-> now \div Window, tries |-> 0]
  <2>2. bearer \in 0..issued /\ use \in 0..issued /\ (op = "refresh" => use # 0)
    BY <1>0
  <2>3. now \div Window \in 0..now \div Window
    <3>1. now \in Nat
      BY <1>0, SessionTypes, Numbers
    <3>2. now \div Window \in Nat
      BY <3>1, DivNat, Numbers
    <3>3. QED
      BY <3>2
  <2>4. req' = [req EXCEPT ![s] = r]
    BY <2>1
  <2> HIDE DEF use
  <2>5. r.use = use /\ r.bearer = bearer /\ r.op = op /\ r.st = "rate" /\ r.window = now \div Window /\ r.text = t
    OBVIOUS
  <2>6. op # "login" /\ (op \in {"create", "delete"} => t \in Texts)
    BY <2>1
  <2> HIDE DEF r
  <2>7. UNCHANGED <<issued, now, call, create, root, ended, store, disturbed>>
    BY <2>1 DEF authVars, keywordVars
  <2>8. RequestInv'
    BY <2>2, <2>3, <2>4, <2>5, <2>6, <2>7, OneRequest
  <2>9. disturbed' \subseteq 1..issued
    BY <1>0, <2>7 DEF TokenInv, Lineage
  <2>10. TokenInv'
    BY <1>0, <2>7, <2>9, TokenRests
  <2>11. QED
    BY <1>1, <2>1, <2>8, <2>10
<1>7. QED
  BY <1>4, <1>5, <1>6

LEMMA GatewayEdge ==
  ASSUME EdgeInv, NEW s \in Slot, Limits(s) \/ Send(s) \/ Timeout(s) \/ Answer(s)
  PROVE  TokenInv' /\ RequestInv' /\ Keyword!TypeOK'
<1>0. /\ SessionInv /\ TokenInv /\ Keyword!TypeOK
      /\ issued \in Nat /\ 0 \in 0..issued
      /\ call \in [Call -> {Idle} \cup Auth!Calls]
      /\ create \in [Call -> {Idle} \cup Keyword!Creations]
      /\ disturbed \subseteq 1..issued /\ ended \subseteq 1..issued
  BY SessionTypes DEF EdgeInv, Keyword!TypeOK, TokenInv, Lineage
<1>1. UNCHANGED keywordVars => Keyword!TypeOK' /\ create' = create
  BY <1>0, KeywordRests DEF keywordVars
<1>2. UNCHANGED authVars => TokenInv' /\ UNCHANGED <<issued, now, call>>
  BY <1>0, TokenRests DEF authVars
<1>3. req[s] # Idle /\ req[s] \in Requests /\ req[s] \in Sendable /\ RequestOk(s)
  BY <1>0, LimitMoves, SessionTypes DEF Send, Timeout, Answer, At, EdgeInv, RequestInv, Sendable
<1> DEFINE again == [req[s] EXCEPT !.st = "send"]
<1>4. /\ again.st = "send" /\ again.op = req[s].op /\ again.use = req[s].use /\ again.bearer = req[s].bearer
      /\ again.text = req[s].text /\ again.window = req[s].window
  BY <1>3 DEF Requests
<1>5. CASE Limits(s)
  <2> DEFINE first == [req[s] EXCEPT !.st = "expire"]
  <2>1. UNCHANGED <<authVars, keywordVars>> /\ req[s].st \in {"rate", "expire"}
    BY <1>5, LimitMoves
  <2>2. \/ req' = [req EXCEPT ![s] = Idle] \/ req' = [req EXCEPT ![s] = first]
        \/ req' = [req EXCEPT ![s] = again]
    BY <1>5, LimitMoves
  <2>3. /\ first.st = "expire" /\ first.op = req[s].op /\ first.use = req[s].use /\ first.bearer = req[s].bearer
        /\ first.text = req[s].text /\ first.window = req[s].window
    BY <1>3 DEF Requests
  <2> HIDE DEF again, first
  <2>4. CASE req' = [req EXCEPT ![s] = first]
    BY <1>1, <1>2, <1>3, <2>1, <2>3, <2>4, OneRequest DEF RequestOk
  <2>5. CASE req' = [req EXCEPT ![s] = Idle] \/ req' = [req EXCEPT ![s] = again]
    BY <1>1, <1>2, <1>3, <1>4, <2>1, <2>5, OneRequest DEF RequestOk
  <2>6. QED
    BY <1>1, <1>2, <2>1, <2>2, <2>4, <2>5
<1>6. CASE Send(s)
  <2> DEFINE c == <<s, req[s].tries + 1>>
             r == [req[s] EXCEPT !.st = "wait", !.tries = @ + 1]
  <2>1. req[s].st = "send" /\ req' = [req EXCEPT ![s] = r]
    BY <1>6 DEF Send, At
  <2>2. /\ r.st = "wait" /\ r.op = req[s].op /\ r.use = req[s].use /\ r.bearer = req[s].bearer
        /\ r.text = req[s].text /\ r.window = req[s].window /\ r.tries = req[s].tries + 1
    BY <1>3 DEF Requests
  <2>3. c \in Call
    <3>1. req[s].tries \in 0..MaxAttempts /\ req[s].tries < MaxAttempts
      BY <1>3, <2>1 DEF Sendable, Requests
    <3>2. req[s].tries + 1 \in 1..MaxAttempts
      BY <3>1, Numbers
    <3>3. QED
      BY <3>2 DEF Call
  <2>4. c[1] = s /\ c = <<s, r.tries>>
    BY <2>2
  <2> HIDE DEF r, c
  <2>5. ASSUME /\ TokenInv' /\ Keyword!TypeOK' /\ UNCHANGED <<issued, now>>
               /\ call'[c] # Idle \/ create'[c] # Idle
               /\ \A d \in Call : d # c => call'[d] = call[d] /\ create'[d] = create[d]
        PROVE  TokenInv' /\ RequestInv' /\ Keyword!TypeOK'
    <3>1. r.op # "login"
      BY <1>3, <2>1, <2>2 DEF RequestOk
    <3>2. /\ r.use \in 0..issued /\ r.bearer \in 0..issued
          /\ r.op = "refresh" => r.use # 0
          /\ r.op \in {"create", "delete"} => r.text \in Texts
          /\ r.window # None => r.window \in 0..now \div Window
      BY ONLY <1>3, <2>2 DEF RequestOk
    <3>3. r.window \in 0..now \div Window
      BY ONLY <1>3, <2>1, <2>2 DEF RequestOk
    <3>4. call'[<<s, r.tries>>] # Idle \/ create'[<<s, r.tries>>] # Idle
      BY ONLY <2>4, <2>5
    <3>5. \A d \in Call : d[1] # s => call'[d] = call[d] /\ create'[d] = create[d]
      BY ONLY <2>4, <2>5
    <3>6. RequestInv'
      BY ONLY EdgeInv, s \in Slot, <2>1, <2>5, <3>1, <3>2, <3>3, <3>4, <3>5, OneRequest
    <3>7. QED
      BY <2>5, <3>6
  <2>6. CASE req[s].op \in {"refresh", "logout", "me"} /\ Auth!Arrive(c, req[s].op, req[s].use, 0) /\ UNCHANGED keywordVars
    <3>0. PICK op \in {"refresh", "logout", "me"}, use \in 0..issued :
            Auth!Arrive(c, op, use, 0) /\ op = req[s].op /\ use = req[s].use
      BY <1>3, <2>6 DEF RequestOk
    <3>1. op = "refresh" => use # 0
      BY <1>3, <3>0 DEF RequestOk
    <3>2. TokenInv'
      BY <1>0, <3>0, <3>1, ArriveToken
    <3> DEFINE pc == CASE op = "login" -> "issue"
                       [] op = "refresh" -> "check"
                       [] OTHER -> IF Auth!Decodes(0) THEN "listed" ELSE "refused"
               v == [op |-> op, use |-> use, bearer |-> 0, made |-> 0, late |-> 0 \in loggedOut, pc |-> pc]
    <3>3. UNCHANGED <<issued, now>> /\ call' = [call EXCEPT ![c] = v]
      BY <3>0, Zenon DEF Auth!Arrive, Auth!tokenVars
    <3>4. v \in Auth!Calls
      <4>1. pc \in {"issue", "check", "listed", "refused"} /\ (0 \in loggedOut) \in BOOLEAN
        OBVIOUS
      <4> HIDE DEF pc
      <4>2. QED
        BY <1>0, <4>1 DEF Auth!Calls
    <3> HIDE DEF v
    <3>5. call'[c] # Idle /\ \A d \in Call : d # c => call'[d] = call[d]
      BY <1>0, <2>3, <3>3, <3>4, IdleAssumption
    <3>6. QED
      BY <1>1, <2>5, <2>6, <3>2, <3>3, <3>5
  <2>7. CASE req[s].op \in {"create", "delete"} /\ Keyword!Arrive(c, req[s].op, req[s].text) /\ UNCHANGED authVars
    <3>1. PICK x \in {"count", "remove"} : create' = [create EXCEPT ![c] = [pc |-> x, text |-> req[s].text]]
      BY <2>7 DEF Keyword!Arrive
    <3>2. UNCHANGED <<rows, raced>> /\ req[s].text \in Texts
      BY <1>3, <2>7 DEF Keyword!Arrive, RequestOk
    <3> DEFINE v == [pc |-> x, text |-> req[s].text]
    <3>3. v \in Keyword!Creations
      BY <3>2 DEF Keyword!Creations
    <3>4. create' = [create EXCEPT ![c] = v]
      BY <3>1
    <3> HIDE DEF v
    <3>5. Keyword!TypeOK'
      BY <1>0, <3>2, <3>3, <3>4, CreationGoes
    <3>6. create'[c] # Idle /\ \A d \in Call : d # c => create'[d] = create[d]
      BY <1>0, <2>3, <3>3, <3>4, IdleAssumption
    <3>7. QED
      BY <1>2, <2>5, <2>7, <3>5, <3>6
  <2>8. QED
    BY <1>6, <2>6, <2>7 DEF Send, c
<1>7. CASE Timeout(s)
  <2>1. /\ UNCHANGED <<now, call, store, issued, root, ended>> /\ UNCHANGED keywordVars
        /\ req[s].st = "wait" /\ req[s].window # None
        /\ disturbed' = disturbed \cup Auth!Touches(Upstream(s))
    BY <1>7 DEF Timeout, At
  <2>2. req' = [req EXCEPT ![s] = Idle] \/ req' = [req EXCEPT ![s] = again]
    BY <1>7 DEF Timeout, SendAgain
  <2> HIDE DEF again
  <2>3. Auth!Touches(Upstream(s)) \subseteq 1..issued
    BY <1>0, <1>3, <2>1, UpstreamCall, TouchesIssued
  <2>4. TokenInv'
    BY <1>0, <2>1, <2>3, TokenRests
  <2>5. RequestInv'
    BY <1>1, <1>3, <1>4, <2>1, <2>2, OneRequest DEF RequestOk
  <2>6. QED
    BY <1>1, <2>1, <2>4, <2>5
<1>8. CASE Answer(s)
  <2> DEFINE c == Upstream(s)
  <2>1. req' = [req EXCEPT ![s] = Idle] /\ c \in Call /\ c[1] = s
    BY <1>0, <1>3, <1>8, UpstreamCall DEF Answer, At
  <2>2. CASE Auth!Forget(c) /\ UNCHANGED keywordVars
    <3>1. TokenInv'
      BY <1>0, <2>2, ForgetToken
    <3>2. UNCHANGED <<issued, now>> /\ call' = [call EXCEPT ![c] = Idle]
      BY <2>2 DEF Auth!Forget, Auth!tokenVars
    <3> HIDE DEF c
    <3>3. \A d \in Call : d # c => call'[d] = call[d]
      BY <1>0, <3>2
    <3>4. RequestInv'
      BY <1>1, <2>1, <2>2, <3>2, <3>3, OneRequest
    <3>5. QED
      BY <1>1, <2>2, <3>1, <3>4
  <2>3. CASE Keyword!Forget(c) /\ UNCHANGED authVars
    <3>1. create' = [create EXCEPT ![c] = Idle] /\ UNCHANGED <<rows, raced>>
      BY <2>3 DEF Keyword!Forget
    <3> HIDE DEF c
    <3>2. Keyword!TypeOK'
      BY <1>0, <3>1, CreationGoes
    <3>3. \A d \in Call : d # c => create'[d] = create[d]
      BY <1>0, <3>1
    <3>4. RequestInv'
      BY <1>2, <2>1, <2>3, <3>3, OneRequest
    <3>5. QED
      BY <1>2, <2>3, <3>2, <3>4
  <2>4. QED
    BY <1>8, <2>2, <2>3 DEF Answer
<1>9. QED
  BY <1>5, <1>6, <1>7, <1>8

LEMMA HandlerEdge ==
  ASSUME EdgeInv, NEW c \in Call, Discard(c) \/ Handler(c) \/ HandlerFails(c)
  PROVE  TokenInv' /\ RequestInv' /\ Keyword!TypeOK'
<1>0. /\ SessionInv /\ TokenInv /\ Keyword!TypeOK /\ issued \in Nat
      /\ call \in [Call -> {Idle} \cup Auth!Calls]
      /\ create \in [Call -> {Idle} \cup Keyword!Creations]
  BY SessionTypes DEF EdgeInv, Keyword!TypeOK
<1>1. UNCHANGED keywordVars => Keyword!TypeOK' /\ create' = create
  BY <1>0, KeywordRests DEF keywordVars
<1>2. UNCHANGED authVars => TokenInv' /\ UNCHANGED <<issued, now, call>>
  <2>1. disturbed \subseteq 1..issued
    BY <1>0 DEF TokenInv, Lineage
  <2>2. QED
    BY <1>0, <2>1, TokenRests DEF authVars
<1>3. req' = req
  BY DEF Discard, Handler, HandlerFails, gatewayVars
<1>4. CASE Discard(c)
  <2>1. \A s \in Slot : req[s] # Idle /\ req[s].st = "wait" => Upstream(s) \in Call /\ Upstream(s) # c
    <3>1. ASSUME NEW s \in Slot, req[s] # Idle, req[s].st = "wait" PROVE Upstream(s) \in Call /\ Upstream(s) # c
      <4>1. Upstream(s) \in Call /\ Upstream(s)[1] = s
        BY <1>0, <3>1, UpstreamCall
      <4>2. ~(At(c[1], "wait") /\ c = Upstream(c[1]))
        BY <1>4 DEF Discard
      <4>3. QED
        BY <3>1, <4>1, <4>2 DEF At
    <3>2. QED
      BY <3>1
  <2>2. CASE Auth!Forget(c) /\ UNCHANGED keywordVars
    <3>1. TokenInv'
      BY <1>0, <2>2, ForgetToken
    <3>2. UNCHANGED <<issued, now>> /\ call' = [call EXCEPT ![c] = Idle]
      BY <2>2 DEF Auth!Forget, Auth!tokenVars
    <3>3. \A d \in Call : d # c => call'[d] = call[d]
      BY <1>0, <3>2
    <3>4. RequestInv'
      BY <1>0, <1>1, <1>3, <2>1, <2>2, <3>2, <3>3, RequestsRest
    <3>5. QED
      BY <1>1, <2>2, <3>1, <3>4
  <2>3. CASE Keyword!Forget(c) /\ UNCHANGED authVars
    <3>1. create' = [create EXCEPT ![c] = Idle] /\ UNCHANGED <<rows, raced>>
      BY <2>3 DEF Keyword!Forget
    <3>2. Keyword!TypeOK'
      BY <1>0, <3>1, CreationGoes
    <3>3. \A d \in Call : d # c => create'[d] = create[d]
      BY <1>0, <3>1
    <3>4. RequestInv'
      BY <1>0, <1>2, <1>3, <2>1, <2>3, <3>3, RequestsRest
    <3>5. QED
      BY <1>2, <2>3, <3>2, <3>4
  <2>4. QED
    BY <1>4, <2>2, <2>3 DEF Discard
<1>5. CASE (Auth!Step(c) \/ Auth!Lose(c)) /\ UNCHANGED keywordVars
  <2>1. TokenInv'
    BY <1>0, <1>5, StepToken
  <2>2. issued' = issued \/ issued' = issued + 1
    BY <1>5 DEF Auth!Step, Auth!Check, Auth!Rotate, Auth!Issue, Auth!Reply, Auth!Listed, Auth!Save,
                Auth!Unstore, Auth!Blacklist, Auth!Lose, Auth!tokenVars
  <2>3. now' = now
    BY <1>5 DEF Auth!Step, Auth!Check, Auth!Rotate, Auth!Issue, Auth!Reply, Auth!Listed, Auth!Save,
                Auth!Unstore, Auth!Blacklist, Auth!Lose
  <2>4. call[c] # Idle /\ call'[c] # Idle /\ \A d \in Call : d # c => call'[d] = call[d]
    BY <1>0, <1>5, NoneVanishes
  <2>5. \A s \in Slot : req[s] # Idle /\ req[s].st = "wait" => Upstream(s) \in Call
    BY <1>0, UpstreamCall
  <2>6. RequestInv'
    BY <1>0, <1>1, <1>3, <1>5, <2>2, <2>3, <2>4, <2>5, RequestsRest
  <2>7. QED
    BY <1>1, <1>5, <2>1, <2>6
<1>6. CASE (Keyword!Step(c) \/ Keyword!Lose(c)) /\ UNCHANGED authVars
  <2>1. Keyword!TypeOK' /\ create[c] # Idle /\ create'[c] # Idle /\ \A d \in Call : d # c => create'[d] = create[d]
    BY <1>0, <1>6, KeywordTypes
  <2>2. \A s \in Slot : req[s] # Idle /\ req[s].st = "wait" => Upstream(s) \in Call
    BY <1>0, UpstreamCall
  <2>3. RequestInv'
    BY <1>0, <1>2, <1>3, <1>6, <2>1, <2>2, RequestsRest
  <2>4. QED
    BY <1>2, <1>6, <2>1, <2>3
<1>7. QED
  BY <1>4, <1>5, <1>6 DEF Handler, HandlerFails

LEMMA RestEdge ==
  ASSUME EdgeInv, (\E p \in 1..MaxPairs : RefreshExpires(p)) \/ Tick \/ UNCHANGED vars
  PROVE  TokenInv' /\ RequestInv' /\ Keyword!TypeOK'
<1>0. SessionInv /\ TokenInv /\ Keyword!TypeOK /\ issued \in Nat /\ now \in Nat
  BY SessionTypes, Numbers DEF EdgeInv
<1>1. UNCHANGED <<call, create, issued, root, ended, req>> /\ UNCHANGED keywordVars
  BY DEF RefreshExpires, Auth!RefreshExpires, Tick, vars, authVars, keywordVars, gatewayVars
<1>2. now' = now \/ now' = now + 1
  BY DEF RefreshExpires, Auth!RefreshExpires, Tick, vars, authVars
<1>3. store' \subseteq store /\ disturbed' \subseteq 1..issued
  <2>1. ASSUME NEW p \in 1..MaxPairs, Auth!RefreshExpires(p)
        PROVE  store' \subseteq store /\ disturbed' \subseteq 1..issued
    <3>1. p \in store /\ store' \subseteq store /\ disturbed' = disturbed \cup {root[p]}
      BY <2>1 DEF Auth!RefreshExpires
    <3>2. p \in 1..issued /\ root[p] \in 1..p
      BY <1>0, <3>1 DEF TokenInv, Lineage
    <3>3. root[p] \in 1..issued
      BY <1>0, <3>2
    <3>4. QED
      BY <1>0, <3>1, <3>3 DEF TokenInv, Lineage
  <2>2. CASE UNCHANGED <<store, disturbed>>
    BY <1>0, <2>2 DEF TokenInv, Lineage
  <2>3. QED
    BY <2>1, <2>2 DEF RefreshExpires, Tick, vars, authVars
<1>4. TokenInv'
  BY <1>0, <1>1, <1>3, TokenRests
<1>5. RequestInv'
  <2>1. \A s \in Slot : RequestOk(s)
    BY DEF EdgeInv, RequestInv
  <2>2. now \div Window <= now' \div Window /\ now \div Window \in Nat /\ now' \div Window \in Nat
    <3>1. Window \in Nat \ {0}
      BY EdgeAssumption
    <3>2. \A a \in Nat : a \div Window <= (a + 1) \div Window /\ a \div Window \in Nat
      BY <3>1
    <3>3. QED
      BY <1>0, <1>2, <3>2
  <2>3. \A s \in Slot : Upstream(s)' = Upstream(s)
    BY <1>1 DEF Upstream
  <2>4. 0..now \div Window \subseteq 0..now' \div Window
    BY <2>2
  <2>5. QED
    BY <1>1, <2>1, <2>3, <2>4 DEF RequestInv, RequestOk
<1>6. Keyword!TypeOK'
  BY <1>0, <1>1, KeywordRests
<1>7. QED
  BY <1>4, <1>5, <1>6

LEMMA EdgeStep == EdgeInv /\ [Next]_vars => EdgeInv'
<1> SUFFICES ASSUME EdgeInv, [Next]_vars PROVE EdgeInv'
  OBVIOUS
<1>1. SessionInv'
  BY SessionStep DEF EdgeInv
<1>2. TokenInv' /\ RequestInv' /\ Keyword!TypeOK'
  BY AskEdge, GatewayEdge, HandlerEdge, RestEdge DEF Next, Limits
<1>3. QED
  BY <1>1, <1>2 DEF EdgeInv

-----------------------------------------------------------------------------
(* The rate limit *)

Ticks(w) == {t \in 0..MaxTime : t \div Window = w}

\* The counter of the window of the clock has counted what was let through in it, and
\* its key outlives the window; the windows to come are untouched.
WindowInv ==
  \A w \in 0..MaxTime :
    /\ Passed(Ticks(w)) <= RateMax
    /\ w = now \div Window => /\ Passed(Ticks(w)) <= hits[w].n
                              /\ hits[w].n = 0 \/ hits[w].until >= (w + 1) * Window
    /\ w > now \div Window => hits[w].n = 0 /\ Passed(Ticks(w)) = 0

CounterType ==
  /\ hits \in [0..MaxTime -> [n : Nat, until : Nat]]
  /\ passed \in [0..MaxTime -> Nat]
  /\ asked \in Nat /\ faults \in Nat

RateInv == CounterType /\ WindowInv

LEMMA WindowOf ==
  ASSUME NEW a \in Nat
  PROVE  (a \div Window) * Window <= a /\ a < (a \div Window + 1) * Window
<1>1. Window \in Nat /\ Window > 0
  BY Numbers
<1>2. a = Window * (a \div Window) + (a % Window) /\ a % Window \in 0..(Window - 1) /\ a \div Window \in Nat
  BY <1>1
<1>3. PICK q \in Nat, r \in 0..(Window - 1) : a = Window * q + r /\ q = a \div Window
  BY <1>2
<1>4. q * Window = Window * q /\ (q + 1) * Window = Window * q + Window /\ Window * q \in Nat
  BY <1>1, <1>3
<1>5. q * Window <= a /\ a < (q + 1) * Window
  BY <1>1, <1>3, <1>4
<1>6. QED
  BY <1>3, <1>5

LEMMA DivIs ==
  ASSUME NEW a \in Nat, NEW q \in Nat, q * Window <= a, a < (q + 1) * Window
  PROVE  a \div Window = q
<1>1. Window \in Nat /\ Window > 0
  BY Numbers
<1>2. a = q * Window + (a - q * Window) /\ a - q * Window \in 0..(Window - 1)
  <2>1. (q + 1) * Window = q * Window + Window /\ q * Window \in Nat
    BY <1>1
  <2>2. QED
    BY <1>1, <2>1
<1>3. QED
  BY <1>1, <1>2

LEMMA TicksFinite == ASSUME NEW w PROVE IsFiniteSet(Ticks(w)) /\ Ticks(w) \subseteq 0..MaxTime
<1>1. IsFiniteSet(0..MaxTime)
  BY Numbers, FS_Interval
<1>2. Ticks(w) \subseteq 0..MaxTime
  BY DEF Ticks
<1>3. QED
  BY <1>1, <1>2, FS_Subset

LEMMA PassedNat ==
  ASSUME passed \in [0..MaxTime -> Nat], NEW w
  PROVE  Passed(Ticks(w)) \in Nat
BY TicksFinite, SumNat DEF Passed

LEMMA NowWindow ==
  ASSUME now \in 0..MaxTime
  PROVE  now \div Window \in 0..MaxTime
<1>1. now \in Nat /\ now <= MaxTime /\ Window \in Nat /\ Window > 0 /\ MaxTime \in Nat
  BY Numbers
<1>2. now \div Window \in Nat /\ now \div Window <= now
  BY <1>1, DivNat
<1>3. QED
  BY <1>1, <1>2

LEMMA RateInit == Init => RateInv
<1> SUFFICES ASSUME Init PROVE RateInv
  OBVIOUS
<1>1. /\ hits = [w \in 0..MaxTime |-> [n |-> 0, until |-> 0]] /\ passed = [t \in 0..MaxTime |-> 0]
      /\ asked = 0 /\ faults = 0
  BY DEF Init
<1>2. CounterType
  BY <1>1 DEF CounterType
<1>3. ASSUME NEW w \in 0..MaxTime PROVE Passed(Ticks(w)) = 0 /\ hits[w].n = 0
  <2>1. \A t \in Ticks(w) : passed[t] = 0
    BY <1>1, TicksFinite
  <2>2. QED
    BY <1>1, <2>1, TicksFinite, SumZero DEF Passed
<1>4. QED
  BY <1>2, <1>3, Numbers DEF RateInv, WindowInv

\* rate_limit: a request counts in the window it was asked in, which may have gone.
LEMMA RateCounts ==
  ASSUME EdgeInv, RateInv, NEW s \in Slot, Rate(s)
  PROVE  RateInv'
<1> DEFINE w == req[s].window
           n == Counted(w)
           W == now \div Window
           h == [n |-> n, until |-> IF n = 1 THEN Never ELSE hits[w].until]
<1>1. now \in 0..MaxTime /\ now \in Nat /\ MaxTime \in Nat /\ Window \in Nat /\ Window > 0 /\ RateMax \in Nat
  BY SessionTypes, Numbers DEF EdgeInv
<1>2. w \in 0..W /\ W \in 0..MaxTime /\ w \in 0..MaxTime
  <2>1. RequestOk(s)
    BY DEF EdgeInv, RequestInv
  <2>2. w \in 0..W
    BY <2>1 DEF Rate, At, RequestOk
  <2>3. QED
    BY <1>1, <2>2, NowWindow
<1>3. /\ hits' = [hits EXCEPT ![w] = h]
      /\ passed' = IF n <= RateMax /\ W = w THEN [passed EXCEPT ![now] = @ + 1] ELSE passed
      /\ UNCHANGED <<now, asked, faults>>
  <2>1. n \in Nat
    BY <1>2 DEF Counted, RateInv, CounterType
  <2>2. QED
    BY <1>1, <2>1 DEF Rate, authVars
<1>4. hits[w].n \in Nat /\ hits[w].until \in Nat /\ n \in Nat /\ h \in [n : Nat, until : Nat]
      /\ passed \in [0..MaxTime -> Nat]
  <2>1. hits[w] \in [n : Nat, until : Nat] /\ passed \in [0..MaxTime -> Nat]
    BY <1>2 DEF RateInv, CounterType
  <2>2. hits[w].n \in Nat /\ hits[w].until \in Nat
    BY <2>1
  <2>3. n \in Nat /\ Never \in Nat
    BY <1>1, <2>2 DEF Counted, Never
  <2> HIDE DEF w, n
  <2>4. QED
    BY <1>1, <2>1, <2>2, <2>3
<1>5. h.n = n /\ h.until = IF n = 1 THEN Never ELSE hits[w].until
  OBVIOUS
<1>b. Never \in Nat /\ Never >= now + Window
  BY <1>1 DEF Never
<1>6. n = IF hits[w].until > now THEN hits[w].n + 1 ELSE 1
  BY DEF Counted
<1> HIDE DEF w, n, W, h
<1>7. CounterType'
  <2>1. passed[now] + 1 \in Nat
    BY <1>1, <1>4
  <2>2. passed' \in [0..MaxTime -> Nat]
    BY <1>3, <1>4, <2>1
  <2>3. hits' \in [0..MaxTime -> [n : Nat, until : Nat]]
    BY <1>3, <1>4 DEF RateInv, CounterType
  <2>4. QED
    BY <1>3, <2>2, <2>3 DEF RateInv, CounterType
<1>8. \A v \in 0..MaxTime : v # w => hits'[v] = hits[v]
  BY <1>3 DEF RateInv, CounterType
<1>9. hits'[w] = h
  BY <1>2, <1>3 DEF RateInv, CounterType
<1>10. \A v \in 0..MaxTime :
         /\ Passed(Ticks(v)) <= RateMax
         /\ v = W => Passed(Ticks(v)) <= hits[v].n /\ (hits[v].n = 0 \/ hits[v].until >= (v + 1) * Window)
         /\ v > W => hits[v].n = 0 /\ Passed(Ticks(v)) = 0
  BY DEF RateInv, WindowInv, W
<1>a. ASSUME w = W PROVE (w + 1) * Window > now /\ now + Window >= (w + 1) * Window /\ (w + 1) * Window \in Nat
  <2>1. (W * Window <= now /\ now < (W + 1) * Window)
    BY <1>1, WindowOf DEF W
  <2>2. W \in Nat /\ W * Window \in Nat /\ (W + 1) * Window = W * Window + Window
    BY <1>1, <1>2
  <2>3. QED
    BY <1>1, <1>a, <2>1, <2>2
<1>11. WindowInv'
  <2> SUFFICES ASSUME NEW v \in 0..MaxTime
               PROVE  /\ Passed(Ticks(v))' <= RateMax
                      /\ v = W => /\ Passed(Ticks(v))' <= hits'[v].n
                                  /\ hits'[v].n = 0 \/ hits'[v].until >= (v + 1) * Window
                      /\ v > W => hits'[v].n = 0 /\ Passed(Ticks(v))' = 0
    BY <1>3 DEF WindowInv, W, Ticks
  <2>0. Passed(Ticks(v)) \in Nat /\ Ticks(v)' = Ticks(v)
    BY <1>4, PassedNat DEF Ticks
  <2>1. CASE passed' = passed
    <3>1. Passed(Ticks(v))' = Passed(Ticks(v))
      BY <2>0, <2>1 DEF Passed
    <3>2. CASE v # w
      BY <1>8, <1>10, <3>1, <3>2
    <3>3. CASE v = w /\ w # W
      <4>1. ~(v = W) /\ ~(v > W)
        BY <1>2, <3>3
      <4>2. QED
        BY <1>10, <3>1, <4>1
    <3>4. CASE v = w /\ w = W
      <4>1. /\ Passed(Ticks(w)) <= RateMax /\ Passed(Ticks(w)) <= hits[w].n
            /\ hits[w].n = 0 \/ hits[w].until >= (w + 1) * Window
        BY <1>2, <1>10, <3>4
      <4> DEFINE end == (w + 1) * Window
      <4>2. end > now /\ now + Window >= end /\ end \in Nat
        BY <3>4, <1>a
      <4>3. hits[w].n = 0 \/ hits[w].until >= end
        BY <4>1
      <4> HIDE DEF end
      <4>4. h.n >= hits[w].n /\ h.until >= end
        <5>1. /\ hits[w].n \in Nat /\ hits[w].until \in Nat /\ now \in Nat /\ Window \in Nat
              /\ Never \in Nat /\ Never >= end
          BY ONLY <1>1, <1>4, <1>b, <4>2
        <5>2. CASE hits[w].until > now
          BY ONLY <1>5, <1>6, <4>3, <5>1, <5>2
        <5>3. CASE ~(hits[w].until > now)
          <6>1. n = 1 /\ hits[w].n = 0
            BY ONLY <1>6, <4>2, <4>3, <5>1, <5>3
          <6>2. QED
            BY ONLY <1>5, <5>1, <6>1
        <5>4. QED
          BY <5>2, <5>3
      <4>5. h.until >= (w + 1) * Window
        BY ONLY <4>4 DEF end
      <4>6. Passed(Ticks(v)) = Passed(Ticks(w)) /\ ~(v > W) /\ hits'[v] = h
        BY <1>2, <1>9, <3>4
      <4>7. Passed(Ticks(w)) \in Nat
        BY ONLY <2>0, <4>6
      <4>8. Passed(Ticks(w)) <= h.n
        BY ONLY <1>1, <1>4, <1>5, <4>1, <4>4, <4>7
      <4>9. QED
        BY ONLY <3>1, <3>4, <4>1, <4>5, <4>6, <4>8
    <3>5. QED
      BY <3>2, <3>3, <3>4
  <2>2. CASE passed' # passed
    <3>1. n <= RateMax /\ W = w /\ passed' = [passed EXCEPT ![now] = @ + 1]
      BY <1>3, <2>2
    <3>2. /\ Passed(Ticks(w)) <= RateMax /\ Passed(Ticks(w)) <= hits[w].n
          /\ hits[w].n = 0 \/ hits[w].until >= (w + 1) * Window
      BY <1>2, <1>10, <3>1
    <3> DEFINE end == (w + 1) * Window
    <3>3. end > now /\ now + Window >= end /\ end \in Nat
      BY <3>1, <1>a
    <3>a. hits[w].n = 0 \/ hits[w].until >= end
      BY <3>2
    <3> HIDE DEF end
    <3>4. n = hits[w].n + 1 /\ h.until >= end
      BY <1>1, <1>4, <1>5, <1>6, <1>b, <3>a, <3>3
    <3>5. passed'[now] = passed[now] + 1 /\ \A t \in 0..MaxTime : t # now => passed'[t] = passed[t]
      BY <1>1, <1>4, <3>1
    <3>6. CASE v = w
      <4> DEFINE T == Ticks(w)
      <4>1. now \in T /\ IsFiniteSet(T) /\ IsFiniteSet(T \ {now}) /\ T \subseteq 0..MaxTime
        BY <1>1, <3>1, TicksFinite, FS_Subset DEF Ticks, W
      <4>2. (\A t \in T : passed[t] \in Int) /\ (\A t \in T : passed'[t] \in Int)
        BY <1>4, <1>7, <4>1 DEF CounterType
      <4>a. v = w /\ Passed(Ticks(v)) = SumFunctionOnSet(passed, T) /\ Passed(Ticks(v))' = SumFunctionOnSet(passed', T)
        BY <2>0, <3>6 DEF Passed
      <4> HIDE DEF T
      <4>3. SumFunctionOnSet(passed, T) = passed[now] + SumFunctionOnSet(passed, T \ {now})
        <5>1. IsFiniteSet(T) /\ \A t \in T : passed[t] \in Int
          BY ONLY <4>1, <4>2
        <5>2. \A t \in T : SumFunctionOnSet(passed, T) = passed[t] + SumFunctionOnSet(passed, T \ {t})
          BY ONLY <5>1, SumRemove, ZenonT(40)
        <5>3. QED
          BY ONLY <4>1, <5>2
      <4>4. SumFunctionOnSet(passed', T) = passed'[now] + SumFunctionOnSet(passed', T \ {now})
        <5>1. IsFiniteSet(T) /\ \A t \in T : passed'[t] \in Int
          BY ONLY <4>1, <4>2
        <5>2. \A t \in T : SumFunctionOnSet(passed', T) = passed'[t] + SumFunctionOnSet(passed', T \ {t})
          BY ONLY <5>1, SumRemove, ZenonT(40)
        <5>3. QED
          BY ONLY <4>1, <5>2
      <4>5. SumFunctionOnSet(passed, T \ {now}) = SumFunctionOnSet(passed', T \ {now})
        <5>1. \A t \in T \ {now} : passed[t] \in Int /\ passed[t] = passed'[t]
          BY <3>5, <4>1, <4>2
        <5>2. QED
          BY <4>1, <5>1, SumSame
      <4>6. SumFunctionOnSet(passed, T \ {now}) \in Int /\ passed[now] \in Int
        BY <4>1, <4>2, SumInt
      <4>b. passed'[now] = passed[now] + 1
        BY <3>5
      <4>7. SumFunctionOnSet(passed', T) = SumFunctionOnSet(passed, T) + 1
        BY <4>3, <4>4, <4>5, <4>6, <4>b
      <4>8. Passed(Ticks(v))' = Passed(Ticks(v)) + 1
        BY <4>7, <4>a
      <4>9. /\ Passed(Ticks(v)) <= hits[w].n /\ hits'[v].n = n /\ hits'[v].until = h.until /\ n <= RateMax
            /\ n = hits[w].n + 1
        BY <1>5, <1>9, <3>1, <3>2, <3>4, <3>6
      <4>10. Passed(Ticks(v))' <= n /\ Passed(Ticks(v))' <= RateMax
        <5>1. /\ Passed(Ticks(v)) \in Nat /\ hits[w].n \in Nat /\ RateMax \in Nat
              /\ Passed(Ticks(v)) <= hits[w].n /\ n = hits[w].n + 1 /\ n <= RateMax
          BY ONLY <1>1, <1>4, <2>0, <4>9
        <5> HIDE DEF Passed, Ticks
        <5>2. QED
          BY ONLY <4>8, <5>1
      <4>11. hits'[v].until >= (v + 1) * Window
        BY <3>4, <3>6, <4>9 DEF end
      <4>12. ~(v > W)
        BY <1>2, <3>1, <3>6
      <4>13. QED
        BY <4>9, <4>10, <4>11, <4>12
    <3>7. CASE v # w
      <4>1. \A t \in Ticks(v) : passed[t] \in Int /\ passed[t] = passed'[t]
        BY <1>4, <3>1, <3>5, <3>7, TicksFinite DEF Ticks, W
      <4>2. Passed(Ticks(v))' = Passed(Ticks(v))
        BY <2>0, <4>1, TicksFinite, SumSame DEF Passed
      <4>3. QED
        BY <1>8, <1>10, <3>7, <4>2 DEF W
    <3>8. QED
      BY <3>6, <3>7
  <2>3. QED
    BY <2>1, <2>2
<1>12. QED
  BY <1>7, <1>11 DEF RateInv

\* rate_limit: the key of the window of the clock, given its end, outlives the window.
LEMMA ExpireRests ==
  ASSUME EdgeInv, RateInv, NEW s \in Slot, Expire(s)
  PROVE  RateInv'
<1> DEFINE w == req[s].window
           W == now \div Window
<1>1. now \in 0..MaxTime /\ now \in Nat /\ MaxTime \in Nat /\ Window \in Nat /\ Window > 0
  BY SessionTypes, Numbers DEF EdgeInv
<1>2. w \in 0..MaxTime /\ W \in Nat
  <2>1. RequestOk(s)
    BY DEF EdgeInv, RequestInv
  <2>2. w \in 0..W
    BY <2>1 DEF Expire, At, RequestOk
  <2>3. QED
    BY <1>1, <2>2, NowWindow
<1>3. /\ hits' = [hits EXCEPT ![w].until = now + Window]
      /\ UNCHANGED <<now, passed, asked, faults>>
  BY DEF Expire, authVars
<1>4. hits \in [0..MaxTime -> [n : Nat, until : Nat]] /\ now + Window \in Nat
  BY <1>1 DEF RateInv, CounterType
<1> HIDE DEF w, W
<1>5. hits' \in [0..MaxTime -> [n : Nat, until : Nat]]
  BY <1>2, <1>3, <1>4
<1>6. CounterType'
  BY <1>3, <1>5 DEF RateInv, CounterType
<1>7. \A v \in 0..MaxTime : hits'[v].n = hits[v].n /\ hits'[v].until = IF v = w THEN now + Window ELSE hits[v].until
  BY <1>2, <1>3, <1>4
<1>8. now + Window >= (W + 1) * Window
  <2>1. W * Window <= now
    BY <1>1, WindowOf DEF W
  <2>2. W * Window \in Nat /\ (W + 1) * Window = W * Window + Window
    BY <1>1, <1>2
  <2>3. QED
    BY <1>1, <2>1, <2>2
<1>9. WindowInv'
  <2> SUFFICES ASSUME NEW v \in 0..MaxTime
               PROVE  /\ Passed(Ticks(v)) <= RateMax
                      /\ v = W => /\ Passed(Ticks(v)) <= hits'[v].n
                                  /\ hits'[v].n = 0 \/ hits'[v].until >= (v + 1) * Window
                      /\ v > W => hits'[v].n = 0 /\ Passed(Ticks(v)) = 0
    BY <1>3 DEF WindowInv, W, Ticks, Passed
  <2>1. /\ Passed(Ticks(v)) <= RateMax
        /\ v = W => Passed(Ticks(v)) <= hits[v].n /\ (hits[v].n = 0 \/ hits[v].until >= (v + 1) * Window)
        /\ v > W => hits[v].n = 0 /\ Passed(Ticks(v)) = 0
    BY DEF RateInv, WindowInv, W
  <2>2. hits'[v].n = hits[v].n
    BY <1>7
  <2>3. v = W => hits'[v].n = 0 \/ hits'[v].until >= (v + 1) * Window
    BY <1>7, <1>8, <2>1
  <2>4. QED
    BY ONLY <2>1, <2>2, <2>3
<1>10. QED
  BY <1>6, <1>9 DEF RateInv

\* Nothing else counts; the clock opens a window that nothing was counted in.
LEMMA RateRests ==
  ASSUME EdgeInv, RateInv, UNCHANGED <<hits, passed>>, asked' \in Nat, faults' \in Nat,
         now' = now \/ (now' = now + 1 /\ now < MaxTime)
  PROVE  RateInv'
<1>1. now \in Nat /\ now \in 0..MaxTime /\ MaxTime \in Nat /\ Window \in Nat /\ Window > 0
  BY SessionTypes, Numbers DEF EdgeInv
<1>2. CounterType'
  BY DEF RateInv, CounterType
<1>3. \A v : Passed(Ticks(v))' = Passed(Ticks(v))
  BY DEF Passed, Ticks
<1>4. now \div Window \in Nat /\ now' \div Window \in Nat
      /\ (now' \div Window = now \div Window \/ now' \div Window = now \div Window + 1)
  <2>1. now \div Window \in Nat
    BY <1>1, DivNat
  <2>2. CASE now' = now
    BY <2>1, <2>2
  <2>3. CASE now' = now + 1
    <3> DEFINE q == now \div Window
    <3>1. q * Window <= now /\ now < (q + 1) * Window
      BY <1>1, WindowOf
    <3>2. q \in Nat
      BY <2>1
    <3> HIDE DEF q
    <3>3. q * Window \in Nat /\ (q + 1) * Window = q * Window + Window /\ ((q + 1) + 1) * Window = q * Window + 2 * Window
      BY <1>1, <3>2
    <3>4. CASE now + 1 < (q + 1) * Window
      <4>1. (now + 1) \div Window = q
        BY <1>1, <3>1, <3>2, <3>3, <3>4, DivIs
      <4>2. QED
        BY <2>1, <2>3, <4>1 DEF q
    <3>5. CASE ~(now + 1 < (q + 1) * Window)
      <4>1. (q + 1) * Window <= now + 1 /\ now + 1 < ((q + 1) + 1) * Window /\ now + 1 \in Nat /\ q + 1 \in Nat
        BY <1>1, <3>1, <3>2, <3>3, <3>5
      <4>2. (now + 1) \div Window = q + 1
        BY <4>1, DivIs
      <4>3. QED
        BY <2>1, <2>3, <4>2 DEF q
    <3>6. QED
      BY <3>4, <3>5
  <2>4. QED
    BY <2>2, <2>3
<1>5. WindowInv'
  <2> SUFFICES ASSUME NEW v \in 0..MaxTime
               PROVE  /\ Passed(Ticks(v)) <= RateMax
                      /\ v = now' \div Window => /\ Passed(Ticks(v)) <= hits[v].n
                                                 /\ hits[v].n = 0 \/ hits[v].until >= (v + 1) * Window
                      /\ v > now' \div Window => hits[v].n = 0 /\ Passed(Ticks(v)) = 0
    BY <1>3 DEF WindowInv
  <2>1. WindowInv!(v)
    BY DEF RateInv, WindowInv
  <2>2. Passed(Ticks(v)) \in Nat
    BY PassedNat DEF RateInv, CounterType
  <2>3. QED
    BY <1>1, <1>4, <2>1, <2>2
<1>6. QED
  BY <1>2, <1>5 DEF RateInv

LEMMA CallKeepsTime ==
  ASSUME NEW c, Auth!Step(c) \/ Auth!Lose(c) \/ Auth!Forget(c)
  PROVE  now' = now
BY DEF Auth!Step, Auth!Check, Auth!Rotate, Auth!Issue, Auth!Reply, Auth!Listed, Auth!Save,
       Auth!Unstore, Auth!Blacklist, Auth!Lose, Auth!Forget

LEMMA RateStep == EdgeInv /\ RateInv /\ [Next]_vars => RateInv'
<1> SUFFICES ASSUME EdgeInv, RateInv, [Next]_vars PROVE RateInv'
  OBVIOUS
<1>1. asked \in Nat /\ faults \in Nat /\ asked + 1 \in Nat /\ faults + 1 \in Nat
  BY DEF RateInv, CounterType
<1>2. ASSUME NEW s \in Slot, Login(s) \/ AskAuth(s) \/ AskGateway(s) PROVE RateInv'
  <2>1. UNCHANGED <<hits, passed, now, faults>> /\ asked' = asked + 1
    BY <1>2 DEF Login, AskAuth, AskGateway, Auth!Arrive, authVars
  <2>2. QED
    BY <1>1, <2>1, RateRests
<1>3. ASSUME NEW s \in Slot, Rate(s) PROVE RateInv'
  BY <1>3, RateCounts
<1>a. ASSUME NEW s \in Slot, Expire(s) PROVE RateInv'
  BY <1>a, ExpireRests
<1>b. ASSUME NEW s \in Slot, ExpireFails(s) PROVE RateInv'
  <2>1. UNCHANGED <<hits, passed, asked, now>> /\ faults' = faults + 1
    BY <1>b DEF ExpireFails, Disturbed, authVars
  <2>2. QED
    BY <1>1, <2>1, RateRests
<1>4. ASSUME NEW s \in Slot, Send(s) PROVE RateInv'
  <2>1. UNCHANGED <<hits, passed, asked, faults, now>>
    BY <1>4 DEF Send, Auth!Arrive, authVars
  <2>2. QED
    BY <1>1, <2>1, RateRests
<1>5. ASSUME NEW s \in Slot, Timeout(s) PROVE RateInv'
  <2>1. UNCHANGED <<hits, passed, asked, now>> /\ faults' = faults + 1
    BY <1>5 DEF Timeout, Disturbed
  <2>2. QED
    BY <1>1, <2>1, RateRests
<1>6. ASSUME NEW s \in Slot, Answer(s) PROVE RateInv'
  <2>1. UNCHANGED <<hits, passed, asked, faults, now>>
    BY <1>6 DEF Answer, Auth!Forget, authVars
  <2>2. QED
    BY <1>1, <2>1, RateRests
<1>7. ASSUME NEW c \in Call, Discard(c) \/ Handler(c) PROVE RateInv'
  <2>1. UNCHANGED <<hits, passed, asked, faults, now>>
    BY <1>7, CallKeepsTime DEF Discard, Handler, gatewayVars, authVars
  <2>2. QED
    BY <1>1, <2>1, RateRests
<1>8. ASSUME NEW c \in Call, HandlerFails(c) PROVE RateInv'
  <2>1. UNCHANGED <<hits, passed, asked, now>> /\ faults' = faults + 1
    BY <1>8, CallKeepsTime DEF HandlerFails, Disturbed, gatewayVars, authVars
  <2>2. QED
    BY <1>1, <2>1, RateRests
<1>9. ASSUME NEW p \in 1..MaxPairs, RefreshExpires(p) PROVE RateInv'
  <2>1. UNCHANGED <<hits, passed, asked, now>> /\ faults' = faults + 1
    BY <1>9 DEF RefreshExpires, Auth!RefreshExpires, Disturbed, gatewayVars
  <2>2. QED
    BY <1>1, <2>1, RateRests
<1>10. CASE Tick
  BY <1>1, <1>10, RateRests DEF Tick, gatewayVars
<1>11. CASE UNCHANGED vars
  BY <1>1, <1>11, RateRests DEF vars, authVars, gatewayVars
<1>12. QED
  BY <1>2, <1>3, <1>a, <1>b, <1>4, <1>5, <1>6, <1>7, <1>8, <1>9, <1>10, <1>11 DEF Next

LEMMA EdgeInvariant == Spec => [](EdgeInv /\ RateInv)
<1>1. Init => EdgeInv /\ RateInv
  BY EdgeInit, RateInit
<1>2. (EdgeInv /\ RateInv) /\ [Next]_vars => (EdgeInv /\ RateInv)'
  BY EdgeStep, RateStep
<1>3. QED
  BY <1>1, <1>2, PTL DEF Spec

\* A minute lies in two windows of the clock.
LEMMA TwoWindows ==
  ASSUME NEW t \in 0..MaxTime - Window
  PROVE  \E q : /\ q \in 0..MaxTime /\ q + 1 \in 0..MaxTime
                /\ t..t + Window - 1 \subseteq Ticks(q) \cup Ticks(q + 1)
<1> DEFINE q == t \div Window
<1>1. t \in Nat /\ t + Window <= MaxTime /\ Window \in Nat /\ Window > 0 /\ MaxTime \in Nat
  BY Numbers
<1>2. q \in Nat /\ q <= t /\ q * Window <= t /\ t < (q + 1) * Window
  BY <1>1, DivNat, WindowOf
<1> HIDE DEF q
<1>3. q * Window \in Nat /\ (q + 1) * Window = q * Window + Window /\ ((q + 1) + 1) * Window = q * Window + 2 * Window
  BY <1>1, <1>2
<1>4. ASSUME NEW u \in t..t + Window - 1
      PROVE  u \in Ticks(q) \cup Ticks(q + 1)
  <2>1. u \in Nat /\ u \in 0..MaxTime /\ t <= u /\ u < t + Window
    BY <1>1
  <2>2. CASE u < (q + 1) * Window
    <3>1. u \div Window = q
      BY <1>1, <1>2, <1>3, <2>1, <2>2, DivIs
    <3>2. QED
      BY <2>1, <3>1 DEF Ticks
  <2>3. CASE ~(u < (q + 1) * Window)
    <3>1. (q + 1) * Window <= u /\ u < ((q + 1) + 1) * Window /\ q + 1 \in Nat
      BY <1>1, <1>2, <1>3, <2>1, <2>3
    <3>2. u \div Window = q + 1
      BY <2>1, <3>1, DivIs
    <3>3. QED
      BY <2>1, <3>2 DEF Ticks
  <2>4. QED
    BY <2>2, <2>3
<1>5. q \in 0..MaxTime /\ q + 1 \in 0..MaxTime
  BY <1>1, <1>2
<1>6. QED
  BY <1>4, <1>5

LEMMA RateBounded == RateInv => RateBound
<1> SUFFICES ASSUME RateInv PROVE RateBound
  OBVIOUS
<1>1. \A w \in 0..MaxTime : Passed(Ticks(w)) <= RateMax
  BY DEF RateInv, WindowInv
<1>2. passed \in [0..MaxTime -> Nat] /\ MaxTime \in Nat /\ Window \in Nat /\ Window > 0 /\ RateMax \in Nat
  BY Numbers DEF RateInv, CounterType
<1>3. ASSUME NEW w \in 0..MaxTime \div Window
      PROVE  Passed({t \in 0..MaxTime : t \div Window = w}) <= RateMax
  <2>1. MaxTime \div Window \in Nat /\ MaxTime \div Window <= MaxTime
    BY <1>2, DivNat
  <2>2. w \in 0..MaxTime
    BY <1>2, <2>1
  <2>3. QED
    BY <1>1, <2>2 DEF Ticks
<1>4. ASSUME NEW t \in 0..MaxTime - Window
      PROVE  Passed(t..t + Window - 1) <= 2 * RateMax
  <2>1. PICK q : /\ q \in 0..MaxTime /\ q + 1 \in 0..MaxTime
                 /\ t..t + Window - 1 \subseteq Ticks(q) \cup Ticks(q + 1)
    BY TwoWindows
  <2> DEFINE A == Ticks(q)
             B == Ticks(q + 1)
             T == t..t + Window - 1
  <2>2. IsFiniteSet(A) /\ IsFiniteSet(B) /\ A \subseteq 0..MaxTime /\ B \subseteq 0..MaxTime
    BY TicksFinite
  <2>3. A \cap B = {}
    BY <2>1 DEF Ticks
  <2>4. T \subseteq A \cup B
    BY <2>1
  <2>5. Passed(A) = SumFunctionOnSet(passed, A) /\ Passed(B) = SumFunctionOnSet(passed, B)
        /\ Passed(T) = SumFunctionOnSet(passed, T)
    BY DEF Passed
  <2>6. Passed(A) <= RateMax /\ Passed(B) <= RateMax
    BY <1>1, <2>1
  <2> HIDE DEF A, B, T
  <2>7. IsFiniteSet(A \cup B) /\ IsFiniteSet(T)
    BY <2>2, <2>4, FS_Union, FS_Subset
  <2>8. \A x \in A \cup B : passed[x] \in Nat /\ passed[x] \in Int
    BY <1>2, <2>2
  <2>9. SumFunctionOnSet(passed, A \cup B) = SumFunctionOnSet(passed, A) + SumFunctionOnSet(passed, B)
    BY <2>2, <2>3, <2>8, SumUnion
  <2>10. SumFunctionOnSet(passed, T) <= SumFunctionOnSet(passed, A \cup B)
    BY <2>4, <2>7, <2>8, SumSubset
  <2>11. SumFunctionOnSet(passed, T) \in Nat /\ SumFunctionOnSet(passed, A) \in Nat /\ SumFunctionOnSet(passed, B) \in Nat
    BY <2>2, <2>4, <2>7, <2>8, SumNat
  <2>12. Passed(T) <= 2 * RateMax
    BY <1>2, <2>5, <2>6, <2>9, <2>10, <2>11
  <2>13. QED
    BY <2>12 DEF T
<1>5. QED
  BY <1>3, <1>4 DEF RateBound

\* "Per-user sliding-window rate limiting" as the code has it, for every maximum, every
\* window and any number of connections: however requests meet the edge of a window, the
\* EXPIRE of its first one and the end of its key, the counter lets through no more than
\* the maximum in a window of the clock and no more than twice that in any stretch as
\* long as a window.
THEOREM Limited == Spec => []RateBound
BY EdgeInvariant, RateBounded, PTL

-----------------------------------------------------------------------------
\* The types of the edge hold, for every value of the constants: a pair that a call, a
\* request or the client names has been issued, a session is its own root, and a request
\* that waits has a handler to wait for.
THEOREM TypeCorrect == Spec => []TypeOK
<1>1. EdgeInv /\ RateInv => TypeOK
  <2> SUFFICES ASSUME EdgeInv, RateInv PROVE TypeOK
    OBVIOUS
  <2>1. SessionInv /\ TokenInv /\ RequestInv /\ Keyword!TypeOK
    BY DEF EdgeInv
  <2>2. /\ now \in 0..MaxTime /\ issued \in 0..MaxPairs
        /\ call \in [Call -> {Idle} \cup Auth!Calls]
        /\ expires \in [1..MaxPairs -> Nat] /\ black \in [1..MaxPairs -> Nat]
        /\ loggedOut \subseteq 1..issued /\ honoured = {}
    BY <2>1 DEF SessionInv, LogoutInv, AuthType, LogoutHolds, Auth!LogoutHolds
  <2>3. /\ store \subseteq 1..issued /\ ended \subseteq 1..issued /\ disturbed \subseteq 1..issued
        /\ root \in [1..MaxPairs -> Nat]
        /\ \A p \in 1..issued : root[p] \in 1..p /\ root[root[p]] = root[p]
    BY <2>1 DEF TokenInv, Lineage
  <2>4. \A c \in Call : call[c] # Idle => {call[c].use, call[c].bearer, call[c].made} \subseteq 0..issued
    BY <2>1 DEF TokenInv, CallOk
  <2>5. now \in Nat /\ {store, ended, loggedOut, honoured, disturbed} \subseteq SUBSET (1..issued)
    BY <2>2, <2>3, Numbers
  <2>6. {expires, root, black} \subseteq [Auth!Pair -> Nat]
    BY <2>2, <2>3 DEF Auth!Pair
  <2>7. Auth!TypeOK
    BY <2>2, <2>3, <2>4, <2>5, <2>6 DEF Auth!TypeOK
  <2>8. req \in [Slot -> {Idle} \cup Requests] /\ known \subseteq 1..issued
    BY <2>1 DEF SessionInv, ClientType, Sendable
  <2>9. \A s \in Slot : req[s] # Idle =>
          /\ req[s].use \in 0..issued /\ req[s].bearer \in 0..issued
          /\ req[s].st = "wait" => call[Upstream(s)] # Idle \/ create[Upstream(s)] # Idle
    BY <2>1 DEF RequestInv, RequestOk
  <2>10. QED
    BY <2>1, <2>7, <2>8, <2>9 DEF TypeOK, RateInv, CounterType
<1>2. QED
  BY <1>1, EdgeInvariant, PTL

-----------------------------------------------------------------------------
(* Routes: which handler runs for which request *)

\* The attempts a request has not made have left nothing behind; a handler is of
\* auth-service or of mention-service; the gateway passes no login on.
RouteOk(s) ==
  req[s] # Idle =>
    /\ \A k \in 1..MaxAttempts : k > req[s].tries => call[<<s, k>>] = Idle /\ create[<<s, k>>] = Idle
    /\ req[s].st = "wait" /\ req[s].window # None /\ call[Upstream(s)] # Idle => call[Upstream(s)].op # "login"

RouteInv ==
  /\ \A s \in Slot : RouteOk(s)
  /\ \A c \in Call : call[c] = Idle \/ create[c] = Idle

\* Handlers go on, none begins.
NoneBegins ==
  /\ \A d \in Call : call[d] = Idle => call'[d] = Idle
  /\ \A d \in Call : create[d] = Idle => create'[d] = Idle
  /\ \A d \in Call : call'[d] # Idle => call'[d].op = call[d].op

LEMMA RouteRests ==
  ASSUME EdgeInv, RouteInv, NoneBegins, req' = req
  PROVE  RouteInv'
<1>1. ASSUME NEW s \in Slot, req[s] # Idle PROVE RouteOk(s)'
  <2>1. RouteOk(s) /\ Upstream(s)' = Upstream(s)
    BY DEF RouteInv, Upstream
  <2>2. \A k \in 1..MaxAttempts : <<s, k>> \in Call
    BY DEF Call
  <2>3. req[s].st = "wait" => Upstream(s) \in Call
    BY <1>1, UpstreamCall DEF EdgeInv
  <2>4. QED
    BY <1>1, <2>1, <2>2, <2>3 DEF RouteOk, NoneBegins
<1>2. \A s \in Slot : RouteOk(s)'
  BY <1>1 DEF RouteOk
<1>3. QED
  BY <1>2 DEF RouteInv, NoneBegins

\* One request changes.
LEMMA RouteMoves ==
  ASSUME EdgeInv, RouteInv, NoneBegins, NEW s \in Slot, NEW r, req' = [req EXCEPT ![s] = r],
         r = Idle \/
           /\ r.st # "wait" \/ r.window = None
           /\ \A k \in 1..MaxAttempts : k > r.tries => call[<<s, k>>] = Idle /\ create[<<s, k>>] = Idle
  PROVE  RouteInv'
<1>1. req'[s] = r /\ \A t \in Slot : t # s => req'[t] = req[t]
  BY SessionTypes DEF EdgeInv
<1>2. \A t \in Slot : \A k \in 1..MaxAttempts : <<t, k>> \in Call
  BY DEF Call
<1>3. ASSUME NEW t \in Slot, t # s, req[t] # Idle PROVE RouteOk(t)'
  <2>1. RouteOk(t) /\ Upstream(t)' = Upstream(t) /\ req'[t] = req[t]
    BY <1>1, <1>3 DEF RouteInv, Upstream
  <2>2. req[t].st = "wait" => Upstream(t) \in Call
    BY <1>3, UpstreamCall DEF EdgeInv
  <2>3. QED
    BY <1>2, <1>3, <2>1, <2>2 DEF RouteOk, NoneBegins
<1>4. RouteOk(s)'
  BY <1>1, <1>2 DEF RouteOk, NoneBegins
<1>5. \A t \in Slot : RouteOk(t)'
  BY <1>1, <1>3, <1>4 DEF RouteOk
<1>6. QED
  BY <1>5 DEF RouteInv, NoneBegins

\* A request is sent to its next attempt.
LEMMA RouteSends ==
  ASSUME EdgeInv, RouteInv, NEW s \in Slot, NEW r, req' = [req EXCEPT ![s] = r],
         NEW c \in Call, c = <<s, r.tries>>, r.tries \in 1..MaxAttempts,
         \A k \in 1..MaxAttempts : k >= r.tries => call[<<s, k>>] = Idle /\ create[<<s, k>>] = Idle,
         \A d \in Call : d # c => call'[d] = call[d] /\ create'[d] = create[d],
         call'[c] = Idle \/ create'[c] = Idle,
         r.window # None /\ call'[c] # Idle => call'[c].op # "login"
  PROVE  RouteInv'
<1>1. req'[s] = r /\ \A t \in Slot : t # s => req'[t] = req[t]
  BY SessionTypes DEF EdgeInv
<1>2. \A t \in Slot : \A k \in 1..MaxAttempts : <<t, k>> \in Call /\ (t # s => <<t, k>> # c)
  BY DEF Call
<1>3. ASSUME NEW t \in Slot, t # s, req[t] # Idle PROVE RouteOk(t)'
  <2>1. RouteOk(t) /\ Upstream(t)' = Upstream(t) /\ req'[t] = req[t]
    BY <1>1, <1>3 DEF RouteInv, Upstream
  <2>2. req[t].st = "wait" => Upstream(t) \in Call /\ Upstream(t) # c
    BY <1>3, UpstreamCall DEF EdgeInv
  <2>3. QED
    BY <1>2, <1>3, <2>1, <2>2 DEF RouteOk
<1>4. RouteOk(s)'
  <2>1. Upstream(s)' = c
    BY <1>1 DEF Upstream
  <2>2. MaxAttempts \in Nat
    BY Numbers
  <2>3. \A k \in 1..MaxAttempts : k > r.tries => k >= r.tries /\ <<s, k>> # c
    BY <2>2
  <2>4. QED
    BY <1>1, <1>2, <2>1, <2>3 DEF RouteOk
<1>5. \A t \in Slot : RouteOk(t)'
  BY <1>1, <1>3, <1>4 DEF RouteOk
<1>6. QED
  BY <1>5 DEF RouteInv

\* What a handler's step leaves of its call.
LEMMA StepKeeps ==
  ASSUME SessionInv, NEW c \in Call, Auth!Step(c) \/ Auth!Lose(c)
  PROVE  call'[c].op = call[c].op /\ call'[c].use = call[c].use
<1>1. CASE Auth!Issue(c)
  <2> DEFINE r == [call[c] EXCEPT !.pc = "reply", !.made = issued + 1]
  <2>1. call' = [call EXCEPT ![c] = r] /\ call[c] # Idle
    BY <1>1 DEF Auth!Issue, Auth!Runs
  <2>2. call[c] \in Auth!Calls
    BY <2>1, SessionTypes
  <2>3. r.op = call[c].op /\ r.use = call[c].use
    BY <2>2 DEF Auth!Calls
  <2> HIDE DEF r
  <2>4. QED
    BY <2>1, <2>3, SessionTypes
<1>2. CASE ~Auth!Issue(c)
  <2>1. call[c] # Idle
    BY NoneVanishes
  <2>2. PICK x \in {"refused", "rotate", "issue", "ok", "unstore", "save", "blacklist"} : Auth!Goto(c, x)
    BY <1>2 DEF Auth!Step, Auth!Check, Auth!Rotate, Auth!Reply, Auth!Listed, Auth!Save, Auth!Unstore,
                Auth!Blacklist, Auth!Lose
  <2>3. QED
    BY <2>1, <2>2, GotoCall DEF SessionInv, LogoutInv
<1>3. QED
  BY <1>1, <1>2

LEMMA RouteInit == Init => RouteInv
<1> SUFFICES ASSUME Init PROVE RouteInv
  OBVIOUS
<1>1. /\ call = [c \in Call |-> Idle] /\ create = [c \in Call |-> Idle] /\ req = [s \in Slot |-> Idle]
  BY DEF Init, Auth!Init, Keyword!Init
<1>2. QED
  BY <1>1 DEF RouteInv, RouteOk

LEMMA RouteStep == EdgeInv /\ RouteInv /\ [Next]_vars => RouteInv'
<1> SUFFICES ASSUME EdgeInv, RouteInv, [Next]_vars PROVE RouteInv'
  OBVIOUS
<1>0. /\ SessionInv /\ Keyword!TypeOK
      /\ call \in [Call -> {Idle} \cup Auth!Calls]
      /\ create \in [Call -> {Idle} \cup Keyword!Creations]
      /\ MaxAttempts \in Nat /\ MaxAttempts > 0
  BY SessionTypes, Numbers DEF EdgeInv, Keyword!TypeOK
<1>1. UNCHANGED <<call, create>> => NoneBegins
  BY DEF NoneBegins
<1>2. ASSUME NEW c, (Auth!Forget(c) /\ UNCHANGED keywordVars) \/ (Keyword!Forget(c) /\ UNCHANGED authVars)
      PROVE  NoneBegins
  <2>1. \/ call' = [call EXCEPT ![c] = Idle] /\ create' = create
        \/ create' = [create EXCEPT ![c] = Idle] /\ call' = call
    BY <1>2 DEF Auth!Forget, Keyword!Forget, authVars, keywordVars
  <2>2. QED
    BY <1>0, <2>1 DEF NoneBegins
<1>3. ASSUME NEW s \in Slot, Login(s) \/ AskAuth(s) PROVE RouteInv'
  <2> DEFINE c == <<s, 1>>
  <2>1. PICK op, use, bearer : Auth!Arrive(c, op, use, bearer) /\ op \in {"login", "refresh", "logout", "me"}
    BY <1>3 DEF Login, AskAuth
  <2>a. PICK o, b, u :
          req' = [req EXCEPT ![s] = [st |-> "wait", op |-> o, use |-> u, bearer |-> b,
                                     text |-> None, window |-> None, tries |-> 1]]
    <3>1. CASE Login(s)
      BY <3>1, Zenon DEF Login
    <3>2. CASE AskAuth(s)
      BY <3>2, Zenon DEF AskAuth
    <3>3. QED
      BY <1>3, <3>1, <3>2
  <2>2. PICK r : req' = [req EXCEPT ![s] = r] /\ r.tries = 1 /\ r.window = None
    <3> DEFINE r == [st |-> "wait", op |-> o, use |-> u, bearer |-> b, text |-> None, window |-> None, tries |-> 1]
    <3>1. req' = [req EXCEPT ![s] = r] /\ r.tries = 1 /\ r.window = None
      BY <2>a
    <3> HIDE DEF r
    <3>2. QED
      BY <3>1
  <2>3. \A k \in 1..MaxAttempts : call[<<s, k>>] = Idle /\ create[<<s, k>>] = Idle
    BY <1>3 DEF Login, AskAuth, Free
  <2>4. c \in Call /\ 1 \in 1..MaxAttempts
    BY <1>0 DEF Call
  <2>5. create' = create
    BY <1>3 DEF Login, AskAuth, keywordVars
  <2>6. \A d \in Call : d # c => call'[d] = call[d]
    BY <1>0, <2>1, <2>4 DEF Auth!Arrive
  <2>7. create'[c] = Idle
    BY <2>3, <2>4, <2>5
  <2> HIDE DEF c
  <2>8. QED
    BY <1>0, <2>2, <2>3, <2>4, <2>5, <2>6, <2>7, RouteSends DEF c
<1>4. ASSUME NEW s \in Slot, AskGateway(s) PROVE RouteInv'
  <2>1. PICK op, bearer, t :
          req' = [req EXCEPT ![s] = [st |-> "rate", op |-> op, use |-> IF op = "me" THEN 0 ELSE bearer, bearer |-> bearer,
                                     text |-> t, window |-> now \div Window, tries |-> 0]]
    BY <1>4 DEF AskGateway
  <2>2. \A k \in 1..MaxAttempts : call[<<s, k>>] = Idle /\ create[<<s, k>>] = Idle
    BY <1>4 DEF AskGateway, Free
  <2>3. UNCHANGED <<call, create>>
    BY <1>4 DEF AskGateway, authVars, keywordVars
  <2>4. QED
    BY <1>1, <2>1, <2>2, <2>3, RouteMoves
<1>5. ASSUME NEW s \in Slot, Limits(s) \/ Timeout(s) PROVE RouteInv'
  <2>1. req[s] # Idle /\ req[s] \in Requests /\ RouteOk(s)
    BY <1>5, LimitMoves, SessionTypes DEF EdgeInv, Timeout, At, Sendable, RouteInv
  <2>2. req' = [req EXCEPT ![s] = Idle] \/ \E x \in {"expire", "send"} : req' = [req EXCEPT ![s] = [req[s] EXCEPT !.st = x]]
    BY <1>5, LimitMoves DEF Timeout, SendAgain
  <2>3. UNCHANGED <<call, create>>
    BY <1>5, LimitMoves DEF Timeout, authVars, keywordVars
  <2>a. PICK x \in {"expire", "send"} :
          req' = [req EXCEPT ![s] = Idle] \/ req' = [req EXCEPT ![s] = [req[s] EXCEPT !.st = x]]
    BY <2>2
  <2> DEFINE r == [req[s] EXCEPT !.st = x]
  <2>4. r.st # "wait" /\ r.tries = req[s].tries
    BY <2>1 DEF Requests
  <2>5. req' = [req EXCEPT ![s] = Idle] \/ req' = [req EXCEPT ![s] = r]
    BY <2>a
  <2> HIDE DEF r
  <2>6. QED
    BY <1>1, <2>1, <2>3, <2>4, <2>5, RouteMoves DEF RouteOk
<1>6. ASSUME NEW s \in Slot, Send(s) PROVE RouteInv'
  <2> DEFINE c == <<s, req[s].tries + 1>>
             r == [req[s] EXCEPT !.st = "wait", !.tries = @ + 1]
  <2>1. req[s] # Idle /\ req[s].st = "send" /\ req' = [req EXCEPT ![s] = r] /\ RouteOk(s)
    BY <1>6 DEF Send, At, RouteInv
  <2>2. req[s] \in Requests /\ req[s].tries \in Nat /\ req[s].tries < MaxAttempts
    BY <1>0, <2>1, SessionTypes DEF EdgeInv, Sendable, Requests
  <2>3. r.tries = req[s].tries + 1 /\ r.tries \in 1..MaxAttempts
    BY <1>0, <2>2 DEF Requests
  <2>4. c \in Call /\ c = <<s, r.tries>>
    BY <2>3 DEF Call
  <2>5. \/ /\ req[s].op \in {"refresh", "logout", "me"}
           /\ Auth!Arrive(c, req[s].op, req[s].use, 0)
           /\ create' = create
        \/ /\ call' = call
           /\ Keyword!Arrive(c, req[s].op, req[s].text)
    BY <1>6 DEF Send, authVars, keywordVars
  <2> HIDE DEF r, c
  <2>6. \A k \in 1..MaxAttempts : k >= r.tries => call[<<s, k>>] = Idle /\ create[<<s, k>>] = Idle
    BY <1>0, <2>1, <2>2, <2>3 DEF RouteOk
  <2>7. call[c] = Idle /\ create[c] = Idle
    BY <2>3, <2>4, <2>6
  <2>8. CASE Keyword!Arrive(c, req[s].op, req[s].text) /\ call' = call
    <3>1. \A d \in Call : d # c => create'[d] = create[d]
      BY <1>0, <2>8 DEF Keyword!Arrive
    <3>2. QED
      BY <2>1, <2>3, <2>4, <2>6, <2>7, <2>8, <3>1, RouteSends
  <2>9. CASE req[s].op \in {"refresh", "logout", "me"} /\ Auth!Arrive(c, req[s].op, req[s].use, 0) /\ create' = create
    <3> DEFINE x == [op |-> req[s].op, use |-> req[s].use, bearer |-> 0, made |-> 0, late |-> 0 \in loggedOut,
                     pc |-> CASE req[s].op = "login" -> "issue"
                              [] req[s].op = "refresh" -> "check"
                              [] OTHER -> IF Auth!Decodes(0) THEN "listed" ELSE "refused"]
    <3>1. call' = [call EXCEPT ![c] = x] /\ x.op = req[s].op
      BY <2>9, Zenon DEF Auth!Arrive
    <3> HIDE DEF x
    <3>2. (\A d \in Call : d # c => call'[d] = call[d]) /\ call'[c].op = req[s].op
      BY <1>0, <2>4, <3>1
    <3>3. QED
      BY <2>1, <2>3, <2>4, <2>6, <2>7, <2>9, <3>2, RouteSends
  <2>10. QED
    BY <2>5, <2>8, <2>9
<1>7. ASSUME NEW s \in Slot, Answer(s) PROVE RouteInv'
  <2>1. NoneBegins
    <3>1. \/ Auth!Forget(Upstream(s)) /\ UNCHANGED keywordVars
          \/ Keyword!Forget(Upstream(s)) /\ UNCHANGED authVars
      BY <1>7 DEF Answer
    <3>2. QED
      BY <1>2, <3>1
  <2>2. req' = [req EXCEPT ![s] = Idle]
    BY <1>7 DEF Answer
  <2>3. QED
    BY <2>1, <2>2, RouteMoves
<1>8. ASSUME NEW c \in Call, Discard(c) PROVE RouteInv'
  <2>1. \/ Auth!Forget(c) /\ UNCHANGED keywordVars
        \/ Keyword!Forget(c) /\ UNCHANGED authVars
    BY <1>8 DEF Discard
  <2>2. NoneBegins
    BY <1>2, <2>1
  <2>3. req' = req
    BY <1>8 DEF Discard, gatewayVars
  <2>4. QED
    BY <2>2, <2>3, RouteRests
<1>9. ASSUME NEW c \in Call, Handler(c) \/ HandlerFails(c) PROVE RouteInv'
  <2>1. req' = req
    BY <1>9 DEF Handler, HandlerFails, gatewayVars
  <2>2. CASE (Auth!Step(c) \/ Auth!Lose(c)) /\ UNCHANGED keywordVars
    <3>1. call[c] # Idle /\ \A d \in Call : d # c => call'[d] = call[d]
      BY <1>0, <2>2, NoneVanishes
    <3>2. call'[c].op = call[c].op /\ create' = create
      BY <1>0, <2>2, StepKeeps DEF keywordVars
    <3>3. NoneBegins
      BY <3>1, <3>2 DEF NoneBegins
    <3>4. QED
      BY <2>1, <3>3, RouteRests
  <2>3. CASE (Keyword!Step(c) \/ Keyword!Lose(c)) /\ UNCHANGED authVars
    <3>1. create[c] # Idle /\ \A d \in Call : d # c => create'[d] = create[d]
      BY <1>0, <2>3, KeywordTypes
    <3>2. NoneBegins
      BY <2>3, <3>1 DEF NoneBegins, authVars
    <3>3. QED
      BY <2>1, <3>2, RouteRests
  <2>4. QED
    BY <1>9, <2>2, <2>3 DEF Handler, HandlerFails
<1>10. CASE (\E p \in 1..MaxPairs : RefreshExpires(p)) \/ Tick \/ UNCHANGED vars
  <2>1. UNCHANGED <<call, create, req>>
    BY <1>10 DEF RefreshExpires, Auth!RefreshExpires, Tick, vars, authVars, keywordVars, gatewayVars
  <2>2. QED
    BY <1>1, <2>1, RouteRests
<1>11. QED
  BY <1>3, <1>4, <1>5, <1>6, <1>7, <1>8, <1>9, <1>10 DEF Next, Limits

-----------------------------------------------------------------------------
(* Sessions nothing disturbed *)

\* A request waits for what c answers.
Watched(c) == At(c[1], "wait") /\ c = Upstream(c[1])

\* A refresh that has deleted the token it was given and not yet stored the next.
Issuing(c) == call[c].pc = "issue" /\ call[c].op = "refresh"

\* One call at most works on the session; Redis holds its one token but between the two
\* halves of a refresh; a call that is to rotate a token finds it; the token is the
\* client's or on its way.
SessionOk(s) ==
  /\ \A c, d \in Call : Auth!Works(c, s) /\ Auth!Works(d, s) => c = d
  /\ s \in ended => Auth!Live(s) = {}
  /\ s \notin ended =>
       \/ \E p \in store : Auth!Live(s) = {p}
       \/ Auth!Live(s) = {} /\ \E c \in Call : Auth!Works(c, s) /\ Issuing(c)
  /\ \A c \in Call : Auth!Works(c, s) =>
       /\ call[c].pc = "rotate" => call[c].use \in store
       /\ Issuing(c) => Auth!Live(s) = {} /\ s \notin ended
  /\ \A p \in Auth!Live(s) : p \in known \/ \E c \in Call : call[c] # Idle /\ call[c].made = p

\* A call that lost its answer, or that nobody waits for, has disturbed its session.
CallKept(c) ==
  call[c] # Idle =>
    /\ call[c].pc = "refused" /\ call[c].made # 0 => root[call[c].made] \in disturbed
    /\ ~Watched(c) => call[c].op # "login" /\ Auth!Touches(c) \subseteq disturbed

Undisturbed(s) == s \in 1..issued /\ s \notin disturbed /\ root[s] = s

KeptInv == (\A s : Undisturbed(s) => SessionOk(s)) /\ \A c \in Call : CallKept(c)

KeepInv == EdgeInv /\ RouteInv /\ KeptInv

LEMMA TouchesOf ==
  \A c, s : s \in Auth!Touches(c) <=>
              call[c] # Idle /\ \/ call[c].use # 0 /\ s = root[call[c].use]
                                \/ call[c].made # 0 /\ s = root[call[c].made]
BY DEF Auth!Touches

LEMMA TouchesNext ==
  \A c, s : s \in (Auth!Touches(c))' <=>
              call'[c] # Idle /\ \/ call'[c].use # 0 /\ s = root'[call'[c].use]
                                 \/ call'[c].made # 0 /\ s = root'[call'[c].made]
BY DEF Auth!Touches

\* Before it makes a pair, a call works on the session of the token it presents.
LEMMA WorksOn ==
  ASSUME EdgeInv, NEW c \in Call, NEW s, Auth!Works(c, s), call[c].pc \notin {"reply"}
  PROVE  call[c].use # 0 /\ call[c].use \in 1..issued /\ s = root[call[c].use] /\ call[c].made = 0
<1>1. call[c] # Idle /\ call[c].pc \notin {"ok", "refused"} /\ s \in Auth!Touches(c) /\ CallOk(c)
  BY DEF Auth!Works, Auth!Runs, EdgeInv, TokenInv
<1>2. call[c].made = 0 /\ call[c].use \in 0..issued /\ issued \in Nat
  BY <1>1, SessionTypes DEF CallOk, EdgeInv
<1>3. QED
  BY <1>1, <1>2, TouchesOf

\* A session the step leaves alone, but for one call that does not issue its token.
LEMMA SessionApart ==
  ASSUME EdgeInv, NEW s, SessionOk(s), NEW c,
         \A d \in Call : d # c => call'[d] = call[d],
         \A q \in 1..issued : root'[q] = root[q],
         (Auth!Live(s))' = Auth!Live(s), s \in ended' <=> s \in ended, known \subseteq known',
         c \in Call => /\ Auth!Works(c, s) => ~Issuing(c)
                       /\ (Auth!Works(c, s))' => /\ Auth!Works(c, s) \/ \A d \in Call : ~Auth!Works(d, s)
                                                 /\ ~(Issuing(c))'
                                                 /\ call'[c].pc = "rotate" => call'[c].use \in store',
         \A p \in Auth!Live(s) : call[c] # Idle /\ call[c].made = p =>
           p \in known' \/ (call'[c] # Idle /\ call'[c].made = p)
  PROVE  (SessionOk(s))'
<1>1. ASSUME NEW d \in Call, d # c
      PROVE  /\ (Auth!Works(d, s))' <=> Auth!Works(d, s)
             /\ call[d] # Idle => (Issuing(d))' = Issuing(d)
  <2>1. call'[d] = call[d] /\ CallOk(d)
    BY <1>1 DEF EdgeInv, TokenInv
  <2>2. call[d] # Idle => call[d].use \in 0..issued /\ call[d].made \in 0..issued /\ issued \in Nat
    BY <2>1, SessionTypes DEF CallOk, EdgeInv
  <2>3. s \in (Auth!Touches(d))' <=> s \in Auth!Touches(d)
    <3>1. call[d] # Idle /\ call[d].use # 0 => root'[call[d].use] = root[call[d].use]
      BY <2>2
    <3>2. call[d] # Idle /\ call[d].made # 0 => root'[call[d].made] = root[call[d].made]
      BY <2>2
    <3>3. QED
      BY <2>1, <3>1, <3>2, TouchesOf, TouchesNext
  <2>4. QED
    BY <2>1, <2>3 DEF Auth!Works, Auth!Runs, Issuing
<1>2. \A d \in Call : Auth!Works(d, s) => call[d] # Idle
  BY DEF Auth!Works, Auth!Runs
<1>3. \A d, e \in Call : (Auth!Works(d, s))' /\ (Auth!Works(e, s))' => d = e
  BY <1>1 DEF SessionOk
<1>4. s \in ended' => (Auth!Live(s))' = {}
  BY DEF SessionOk
<1>5. s \notin ended' =>
       \/ \E p \in store' : (Auth!Live(s))' = {p}
       \/ (Auth!Live(s))' = {} /\ \E d \in Call : (Auth!Works(d, s))' /\ (Issuing(d))'
  <2>1. \A p : p \in (Auth!Live(s))' => p \in store'
    BY DEF Auth!Live
  <2>2. CASE s \in ended
    BY <2>2
  <2>3. CASE \E p \in store : Auth!Live(s) = {p}
    BY <2>1, <2>3
  <2>4. CASE Auth!Live(s) = {} /\ \E d \in Call : Auth!Works(d, s) /\ Issuing(d)
    <3>1. PICK d \in Call : Auth!Works(d, s) /\ Issuing(d)
      BY <2>4
    <3>2. d # c
      BY <3>1
    <3>3. (Auth!Works(d, s))' /\ (Issuing(d))'
      BY <1>1, <1>2, <3>1, <3>2
    <3>4. QED
      BY <2>4, <3>3
  <2>5. QED
    BY <2>2, <2>3, <2>4 DEF SessionOk
<1>6. ASSUME NEW d \in Call, (Auth!Works(d, s))'
      PROVE  /\ call'[d].pc = "rotate" => call'[d].use \in store'
             /\ (Issuing(d))' => (Auth!Live(s))' = {} /\ s \notin ended'
  <2>1. CASE d = c
    BY <1>6, <2>1
  <2>2. CASE d # c
    <3>1. Auth!Works(d, s) /\ call'[d] = call[d] /\ ((Issuing(d))' = Issuing(d))
      BY <1>1, <1>2, <1>6, <2>2
    <3>2. Issuing(d) => Auth!Live(s) = {} /\ s \notin ended
      BY <3>1 DEF SessionOk
    <3>3. ASSUME call[d].pc = "rotate" PROVE call[d].use \in store'
      <4>1. call[d].use \in store /\ root[call[d].use] = s
        BY <3>1, <3>3, WorksOn DEF SessionOk
      <4>2. call[d].use \in (Auth!Live(s))'
        BY <4>1 DEF Auth!Live
      <4>3. QED
        BY <4>2 DEF Auth!Live
    <3>4. QED
      BY <3>1, <3>2, <3>3
  <2>3. QED
    BY <2>1, <2>2
<1>7. ASSUME NEW p \in Auth!Live(s)
      PROVE  p \in known' \/ \E d \in Call : call'[d] # Idle /\ call'[d].made = p
  <2>1. CASE p \in known
    BY <2>1
  <2>2. CASE \E d \in Call : call[d] # Idle /\ call[d].made = p
    BY <2>2
  <2>3. QED
    BY <2>1, <2>2 DEF SessionOk
<1>8. QED
  BY <1>3, <1>4, <1>5, <1>6, <1>7 DEF SessionOk

\* A call that rests: what it touches stays, and it stays accounted for.
LEMMA TouchSame ==
  ASSUME EdgeInv, NEW d \in Call, call'[d] = call[d], \A q \in 1..issued : root'[q] = root[q]
  PROVE  (Auth!Touches(d))' = Auth!Touches(d)
<1>1. call[d] # Idle => call[d].use \in 0..issued /\ call[d].made \in 0..issued /\ issued \in Nat
  BY SessionTypes DEF CallOk, EdgeInv, TokenInv
<1>2. call[d] # Idle /\ call[d].use # 0 => root'[call[d].use] = root[call[d].use]
  BY <1>1
<1>3. call[d] # Idle /\ call[d].made # 0 => root'[call[d].made] = root[call[d].made]
  BY <1>1
<1>4. \A s : s \in (Auth!Touches(d))' <=> s \in Auth!Touches(d)
  BY <1>2, <1>3, TouchesOf, TouchesNext
<1>5. QED
  <2>1. CASE call[d] = Idle
    BY <2>1 DEF Auth!Touches
  <2>2. CASE call[d] # Idle
    BY <1>1, <1>2, <1>3, <2>2 DEF Auth!Touches
  <2>3. QED
    BY <2>1, <2>2

LEMMA CallStays ==
  ASSUME EdgeInv, NEW d \in Call, CallKept(d), call'[d] = call[d], \A q \in 1..issued : root'[q] = root[q],
         disturbed \subseteq disturbed', call[d] # Idle /\ Watched(d) => (Watched(d))'
  PROVE  (CallKept(d))'
<1>1. (Auth!Touches(d))' = Auth!Touches(d)
  BY TouchSame
<1>2. call[d] # Idle /\ call[d].made # 0 => root'[call[d].made] = root[call[d].made]
  <2>1. call[d] # Idle => call[d].made \in 0..issued /\ issued \in Nat
    BY SessionTypes DEF CallOk, EdgeInv, TokenInv
  <2>2. QED
    BY <2>1
<1>3. QED
  BY <1>1, <1>2 DEF CallKept

LEMMA WatchedSame ==
  ASSUME req' = req
  PROVE  \A d : (Watched(d))' <=> Watched(d)
BY DEF Watched, At, Upstream

\* A call goes on to x; what it names stays.
LEMMA GoesOn ==
  ASSUME EdgeInv, NEW c \in Call, call[c] # Idle,
         NEW x \in {"rotate", "issue", "reply", "listed", "unstore", "blacklist", "save", "ok", "refused"},
         Auth!Goto(c, x), root' = root
  PROVE  /\ call'[c] # Idle /\ call'[c].pc = x
         /\ call'[c].op = call[c].op /\ call'[c].use = call[c].use /\ call'[c].made = call[c].made
         /\ \A d \in Call : d # c => call'[d] = call[d]
         /\ \A s : s \in (Auth!Touches(c))' <=> s \in Auth!Touches(c)
<1>1. AuthType
  BY DEF EdgeInv, SessionInv, LogoutInv
<1>2. /\ call'[c] \in Auth!Calls /\ call'[c].pc = x
      /\ call'[c].op = call[c].op /\ call'[c].use = call[c].use /\ call'[c].made = call[c].made
      /\ \A d \in Call : d # c => call'[d] = call[d]
  BY <1>1, GotoCall
<1>3. call'[c] # Idle
  BY <1>2, IdleAssumption
<1>4. QED
  BY <1>2, <1>3, TouchesOf, TouchesNext

LEMMA GoesKept ==
  ASSUME EdgeInv, NEW c \in Call, call[c] # Idle,
         NEW x \in {"rotate", "issue", "reply", "listed", "unstore", "blacklist", "save", "ok", "refused"},
         Auth!Goto(c, x), UNCHANGED <<root, req>>, disturbed \subseteq disturbed', \A d \in Call : CallKept(d),
         x = "refused" => call[c].made = 0 \/ Auth!Touches(c) \subseteq disturbed'
  PROVE  \A d \in Call : (CallKept(d))'
<1>1. ASSUME NEW d \in Call, d # c PROVE (CallKept(d))'
  <2>1. call'[d] = call[d]
    BY <1>1, GoesOn
  <2>2. QED
    BY <2>1, CallStays, WatchedSame
<1>2. (CallKept(c))'
  <2>1. /\ call'[c].pc = x /\ call'[c].op = call[c].op /\ call'[c].made = call[c].made
        /\ \A s : s \in (Auth!Touches(c))' <=> s \in Auth!Touches(c)
    BY GoesOn
  <2>2. x = "refused" /\ call[c].made # 0 => root[call[c].made] \in disturbed'
    BY TouchesOf
  <2>3. QED
    BY <2>1, <2>2, WatchedSame DEF CallKept
<1>3. QED
  BY <1>1, <1>2

LEMMA GoesApart ==
  ASSUME EdgeInv, NEW s, SessionOk(s), NEW c \in Call, Auth!Runs(c),
         NEW x \in {"rotate", "issue", "reply", "listed", "unstore", "blacklist", "save", "ok", "refused"},
         Auth!Goto(c, x), UNCHANGED <<root, known>>,
         (Auth!Live(s))' = Auth!Live(s), s \in ended' <=> s \in ended,
         Auth!Works(c, s) => ~Issuing(c) /\ x # "issue" /\ (x = "rotate" => call[c].use \in store')
  PROVE  (SessionOk(s))'
<1>0. call[c] # Idle
  BY DEF Auth!Runs
<1>1. /\ call'[c] # Idle /\ call'[c].pc = x
      /\ call'[c].op = call[c].op /\ call'[c].use = call[c].use /\ call'[c].made = call[c].made
      /\ \A d \in Call : d # c => call'[d] = call[d]
      /\ s \in (Auth!Touches(c))' <=> s \in Auth!Touches(c)
  BY <1>0, GoesOn
<1>2. (Auth!Works(c, s))' => Auth!Works(c, s)
  BY <1>1 DEF Auth!Works
<1>3. \A q \in 1..issued : root'[q] = root[q]
  OBVIOUS
<1>4. (Issuing(c))' => x = "issue"
  BY <1>1 DEF Issuing
<1>5. QED
  BY <1>1, <1>2, <1>3, <1>4, SessionApart

\* The tokens of another session than that of a token that goes.
LEMMA LiveApart ==
  ASSUME NEW s, NEW p, root[p] # s, store' = store \ {p}, root' = root
  PROVE  (Auth!Live(s))' = Auth!Live(s)
BY DEF Auth!Live

LEMMA LiveSame ==
  ASSUME NEW s, store' = store, root' = root
  PROVE  (Auth!Live(s))' = Auth!Live(s)
BY DEF Auth!Live

\* refresh deletes the token it was given.
LEMMA RotateKept ==
  ASSUME KeepInv, NEW c \in Call, Auth!Rotate(c), UNCHANGED <<known, req>>
  PROVE  KeptInv'
<1> DEFINE u == call[c].use
<1>1. /\ Auth!Runs(c) /\ call[c] # Idle /\ call[c].pc = "rotate" /\ store' = store \ {u} /\ Auth!Goto(c, "issue")
      /\ UNCHANGED <<issued, root, ended, disturbed>>
  BY DEF Auth!Rotate, Auth!Runs, Auth!ghostVars
<1>2. EdgeInv /\ \A d \in Call : CallKept(d)
  BY DEF KeepInv, KeptInv
<1>3. \A d \in Call : (CallKept(d))'
  BY <1>1, <1>2, GoesKept
<1>4. u # 0 /\ call[c].made = 0 /\ call[c].op = "refresh"
  BY <1>1, <1>2 DEF EdgeInv, TokenInv, CallOk
<1>5. ASSUME NEW s, (Undisturbed(s))' PROVE (SessionOk(s))'
  <2>1. Undisturbed(s) /\ SessionOk(s)
    BY <1>1, <1>5 DEF Undisturbed, KeepInv, KeptInv
  <2>2. CASE root[u] # s
    <3>1. (Auth!Live(s))' = Auth!Live(s)
      BY <1>1, <2>2, LiveApart
    <3>2. ~Auth!Works(c, s)
      BY <1>1, <1>2, <2>2, WorksOn
    <3>3. QED
      BY <1>1, <1>2, <2>1, <3>1, <3>2, GoesApart
  <2>3. CASE root[u] = s
    <3>1. Auth!Works(c, s)
      BY <1>1, <1>4, <2>3, TouchesOf DEF Auth!Works
    <3>2. u \in Auth!Live(s)
      BY <1>1, <2>1, <2>3, <3>1 DEF SessionOk, Auth!Live
    <3>3. s \notin ended /\ Auth!Live(s) = {u}
      BY <2>1, <3>2 DEF SessionOk
    <3>4. (Auth!Live(s))' = {}
      BY <1>1, <3>3 DEF Auth!Live
    <3>5. /\ call'[c] # Idle /\ call'[c].pc = "issue" /\ call'[c].op = "refresh"
          /\ \A d \in Call : d # c => call'[d] = call[d]
          /\ s \in (Auth!Touches(c))' <=> s \in Auth!Touches(c)
      BY <1>1, <1>2, <1>4, GoesOn
    <3>6. (Auth!Works(c, s))' /\ (Issuing(c))'
      BY <3>1, <3>5 DEF Auth!Works, Auth!Runs, Issuing
    <3>7. \A d \in Call : (Auth!Works(d, s))' => d = c
      <4>1. ASSUME NEW d \in Call, d # c, (Auth!Works(d, s))' PROVE FALSE
        <5>1. call'[d] = call[d] /\ (Auth!Touches(d))' = Auth!Touches(d)
          BY <1>1, <1>2, <3>5, <4>1, TouchSame
        <5>2. Auth!Works(d, s)
          BY <4>1, <5>1 DEF Auth!Works, Auth!Runs
        <5>3. QED
          BY <2>1, <3>1, <4>1, <5>2 DEF SessionOk
      <4>2. QED
        BY <4>1
    <3>8. QED
      BY <1>1, <3>3, <3>4, <3>5, <3>6, <3>7 DEF SessionOk
  <2>4. QED
    BY <2>2, <2>3
<1>6. QED
  BY <1>3, <1>5 DEF KeptInv

\* logout deletes the token of its body.
LEMMA UnstoreKept ==
  ASSUME KeepInv, NEW c \in Call, Auth!Unstore(c), UNCHANGED <<known, req>>
  PROVE  KeptInv'
<1> DEFINE u == call[c].use
<1>1. /\ Auth!Runs(c) /\ call[c] # Idle /\ call[c].pc = "unstore" /\ store' = store \ {u} /\ Auth!Goto(c, "blacklist")
      /\ ended' = IF u \in store THEN ended \cup {root[u]} ELSE ended
      /\ UNCHANGED <<issued, root, disturbed>>
  BY DEF Auth!Unstore, Auth!Runs
<1>2. EdgeInv /\ \A d \in Call : CallKept(d)
  BY DEF KeepInv, KeptInv
<1>3. \A d \in Call : (CallKept(d))'
  BY <1>1, <1>2, GoesKept
<1>4. call[c].made = 0 /\ ~Issuing(c) /\ 0 \notin store
  BY <1>1, <1>2 DEF EdgeInv, TokenInv, CallOk, Issuing, Lineage
<1>5. ASSUME NEW s, (Undisturbed(s))' PROVE (SessionOk(s))'
  <2>1. Undisturbed(s) /\ SessionOk(s)
    BY <1>1, <1>5 DEF Undisturbed, KeepInv, KeptInv
  <2>2. CASE root[u] # s \/ u \notin store
    <3>1. (Auth!Live(s))' = Auth!Live(s)
      BY <1>1, <2>2 DEF Auth!Live
    <3>2. s \in ended' <=> s \in ended
      BY <1>1, <2>2
    <3>3. QED
      BY <1>1, <1>2, <1>4, <2>1, <3>1, <3>2, GoesApart
  <2>3. CASE root[u] = s /\ u \in store
    <3>1. Auth!Works(c, s)
      BY <1>1, <1>4, <2>3, TouchesOf DEF Auth!Works
    <3>2. u \in Auth!Live(s)
      BY <2>3 DEF Auth!Live
    <3>3. Auth!Live(s) = {u}
      BY <2>1, <3>2 DEF SessionOk
    <3>4. (Auth!Live(s))' = {} /\ s \in ended'
      BY <1>1, <2>3, <3>3 DEF Auth!Live
    <3>5. /\ call'[c] # Idle /\ call'[c].pc = "blacklist"
          /\ \A d \in Call : d # c => call'[d] = call[d]
      BY <1>1, <1>2, GoesOn
    <3>7. \A d \in Call : (Auth!Works(d, s))' => d = c
      <4>1. ASSUME NEW d \in Call, d # c, (Auth!Works(d, s))' PROVE FALSE
        <5>1. call'[d] = call[d] /\ (Auth!Touches(d))' = Auth!Touches(d)
          BY <1>1, <1>2, <3>5, <4>1, TouchSame
        <5>2. Auth!Works(d, s)
          BY <4>1, <5>1 DEF Auth!Works, Auth!Runs
        <5>3. QED
          BY <2>1, <3>1, <4>1, <5>2 DEF SessionOk
      <4>2. QED
        BY <4>1
    <3>8. ~(Issuing(c))' /\ call'[c].pc # "rotate"
      BY <3>5 DEF Issuing
    <3>9. QED
      BY <3>4, <3>7, <3>8 DEF SessionOk
  <2>4. QED
    BY <2>2, <2>3
<1>6. QED
  BY <1>3, <1>5 DEF KeptInv

\* Steps that touch no token.
LEMMA QuietKept ==
  ASSUME KeepInv, NEW c \in Call, UNCHANGED <<known, req>>,
         Auth!Check(c) \/ Auth!Reply(c) \/ Auth!Listed(c) \/ Auth!Save(c) \/ Auth!Blacklist(c)
  PROVE  KeptInv'
<1>1. /\ Auth!Runs(c) /\ call[c] # Idle /\ call[c].pc \in {"check", "reply", "listed", "save", "blacklist"}
      /\ UNCHANGED <<issued, root, store, ended, disturbed>>
  BY DEF Auth!Check, Auth!Reply, Auth!Listed, Auth!Save, Auth!Blacklist, Auth!Runs, Auth!tokenVars, Auth!ghostVars
<1>2. EdgeInv /\ \A d \in Call : CallKept(d)
  BY DEF KeepInv, KeptInv
<1>3. PICK x \in {"rotate", "refused", "ok", "unstore", "save"} :
        /\ Auth!Goto(c, x)
        /\ x = "refused" => call[c].pc \in {"check", "listed"}
        /\ x = "rotate" => call[c].use \in store
  BY DEF Auth!Check, Auth!Reply, Auth!Listed, Auth!Save, Auth!Blacklist
<1>4. x = "refused" => call[c].made = 0
  BY <1>1, <1>2, <1>3 DEF EdgeInv, TokenInv, CallOk
<1>5. \A d \in Call : (CallKept(d))'
  BY <1>1, <1>2, <1>3, <1>4, GoesKept
<1>6. ASSUME NEW s, (Undisturbed(s))' PROVE (SessionOk(s))'
  <2>1. SessionOk(s)
    BY <1>1, <1>6 DEF Undisturbed, KeepInv, KeptInv
  <2>2. (Auth!Live(s))' = Auth!Live(s) /\ ~Issuing(c)
    BY <1>1, LiveSame DEF Issuing
  <2>3. QED
    BY <1>1, <1>2, <1>3, <2>1, <2>2, GoesApart
<1>7. QED
  BY <1>5, <1>6 DEF KeptInv

\* A lost call has disturbed what it worked on.
LEMMA LoseKept ==
  ASSUME KeepInv, NEW c \in Call, UNCHANGED <<known, req>>, Auth!Lose(c)
  PROVE  KeptInv'
<1>1. /\ Auth!Runs(c) /\ call[c] # Idle /\ Auth!Goto(c, "refused")
      /\ UNCHANGED <<issued, root, store, ended>> /\ disturbed' = disturbed \cup Auth!Touches(c)
  BY DEF Auth!Lose, Auth!Runs, Auth!tokenVars
<1>2. EdgeInv /\ \A d \in Call : CallKept(d)
  BY DEF KeepInv, KeptInv
<1>3. \A d \in Call : (CallKept(d))'
  BY <1>1, <1>2, GoesKept
<1>4. ASSUME NEW s, (Undisturbed(s))' PROVE (SessionOk(s))'
  <2>1. SessionOk(s) /\ ~Auth!Works(c, s)
    BY <1>1, <1>4 DEF Undisturbed, KeepInv, KeptInv, Auth!Works
  <2>2. (Auth!Live(s))' = Auth!Live(s)
    BY <1>1, LiveSame
  <2>3. QED
    BY <1>1, <1>2, <2>1, <2>2, GoesApart
<1>5. QED
  BY <1>3, <1>4 DEF KeptInv

\* The pair a call makes is its session's one token.
LEMMA IssueKept ==
  ASSUME KeepInv, NEW c \in Call, Auth!Issue(c), UNCHANGED <<known, req>>
  PROVE  KeptInv'
<1> DEFINE p == issued + 1
           u == call[c].use
           r == [call[c] EXCEPT !.pc = "reply", !.made = p]
           f == IF call[c].op = "login" THEN p ELSE root[u]
<1>1. /\ Auth!Runs(c) /\ call[c] # Idle /\ call[c].pc = "issue" /\ issued < MaxPairs
      /\ issued' = p /\ store' = store \cup {p}
      /\ root' = [root EXCEPT ![p] = f]
      /\ call' = [call EXCEPT ![c] = r]
      /\ UNCHANGED <<ended, disturbed>>
  BY DEF Auth!Issue, Auth!Runs, Auth!ghostVars
<1>2. EdgeInv /\ \A d \in Call : CallKept(d)
  BY DEF KeepInv, KeptInv
<1>3. /\ call[c] \in Auth!Calls /\ issued \in Nat /\ p \in 1..MaxPairs /\ CallOk(c) /\ Lineage
      /\ call \in [Call -> {Idle} \cup Auth!Calls]
  BY <1>1, <1>2, SessionTypes, Numbers DEF TokenInv, EdgeInv
<1>4. /\ r.pc = "reply" /\ r.made = p /\ r.op = call[c].op /\ r.use = u /\ r \in Auth!Calls
      /\ u \in 0..issued /\ call[c].made = 0
      /\ call[c].op = "login" => u = 0
      /\ call[c].op # "login" => call[c].op = "refresh" /\ u \in 1..issued
  <2>1. p \in Nat
    BY <1>3
  <2>2. r.pc = "reply" /\ r.made = p /\ r.op = call[c].op /\ r.use = u /\ r \in Auth!Calls
    BY <1>3, <2>1 DEF Auth!Calls
  <2>3. /\ u \in 0..issued /\ call[c].made = 0
        /\ call[c].op = "login" => u = 0
        /\ call[c].op # "login" => call[c].op = "refresh" /\ u # 0
    BY <1>1, <1>3 DEF CallOk
  <2> HIDE DEF r, p
  <2>4. QED
    BY <1>3, <2>2, <2>3
<1>5. call[c].op # "login" => root[u] \in 1..issued
  <2>1. \A q \in 1..issued : root[q] \in 1..q
    BY <1>3 DEF Lineage
  <2> HIDE DEF r, p, f
  <2>2. \A q \in 1..issued : root[q] \in 1..issued
    BY <1>3, <2>1
  <2>3. QED
    BY <1>4, <2>2
<1>6. /\ root'[p] = f
      /\ \A q \in 1..issued : root'[q] = root[q] /\ q # p
      /\ store \subseteq 1..issued /\ ended \subseteq 1..issued
  <2>1. \A q \in 1..issued : q \in 1..MaxPairs /\ q # p
    BY <1>2, <1>3, SessionTypes DEF EdgeInv
  <2>2. QED
    BY <1>1, <1>3, <2>1 DEF Lineage
<1>7. f = p \/ (f \in 1..issued /\ call[c].op = "refresh" /\ f = root[u] /\ u # 0)
  BY <1>4, <1>5
<1>8. f = p => call[c].op = "login"
  BY <1>3, <1>5
<1> HIDE DEF r, f
<1>9. /\ call'[c] = r /\ call'[c] # Idle
      /\ \A d \in Call : d # c => call'[d] = call[d]
  BY <1>1, <1>3, <1>4, IdleAssumption
<1>10. \A s : s \in (Auth!Touches(c))' <=> s = f
  <2>1. p # 0
    BY <1>3
  <2>2. u # 0 => root'[u] = f
    <3>1. ASSUME u # 0 PROVE root'[u] = f
      <4>1. call[c].op = "refresh" /\ u \in 1..issued
        BY <1>4, <3>1
      <4>2. f = root[u]
        BY <1>7, <1>8, <4>1
      <4>3. QED
        BY <1>6, <4>1, <4>2
    <3>2. QED
      BY <3>1
  <2>3. QED
    BY <1>4, <1>6, <1>9, <2>1, <2>2, TouchesNext
<1>11. \A s : Auth!Works(c, s) => s = f
  <2>1. ASSUME NEW s, Auth!Works(c, s) PROVE s = f
    <3>1. u # 0 /\ s = root[u]
      BY <1>1, <1>2, <2>1, WorksOn
    <3>2. call[c].op = "refresh"
      BY <1>4, <3>1
    <3>3. QED
      BY <1>7, <1>8, <3>1, <3>2
  <2>2. QED
    BY <2>1
<1>12. ASSUME NEW d \in Call PROVE (CallKept(d))'
  <2>1. CASE d = c
    <3>1. call'[c].pc = "reply" /\ call'[c].op = call[c].op
      BY <1>4, <1>9
    <3>2. ASSUME ~(Watched(c))' PROVE call'[c].op # "login" /\ (Auth!Touches(c))' \subseteq disturbed'
      <4>1. call[c].op # "login" /\ Auth!Touches(c) \subseteq disturbed
        BY <1>1, <1>2, <3>2, WatchedSame DEF CallKept
      <4>2. f \in Auth!Touches(c)
        BY <1>1, <1>7, <1>8, <4>1, TouchesOf
      <4>3. QED
        BY <1>1, <1>10, <3>1, <4>1, <4>2
    <3>3. QED
      BY <2>1, <3>1, <3>2 DEF CallKept
  <2>2. CASE d # c
    BY <1>1, <1>2, <1>6, <1>9, <2>2, CallStays, WatchedSame
  <2>3. QED
    BY <2>1, <2>2
<1>13. ASSUME NEW s, (Undisturbed(s))' PROVE (SessionOk(s))'
  <2>1. s \in 1..issued \/ s = p
    BY <1>1, <1>3, <1>13 DEF Undisturbed
  <2>2. s \in 1..issued => Undisturbed(s) /\ SessionOk(s)
    BY <1>1, <1>6, <1>13 DEF Undisturbed, KeepInv, KeptInv
  <2>3. s = p => f = s
    BY <1>6, <1>13 DEF Undisturbed
  <2>4. CASE f # s
    <3>1. s \in 1..issued /\ SessionOk(s)
      BY <2>1, <2>2, <2>3, <2>4
    <3>2. (Auth!Live(s))' = Auth!Live(s)
      BY <1>1, <1>6, <2>4 DEF Auth!Live
    <3>3. ~Auth!Works(c, s) /\ ~(Auth!Works(c, s))'
      BY <1>10, <1>11, <2>4 DEF Auth!Works
    <3>4. \A q \in Auth!Live(s) : call[c].made # q
      <4>1. 0 \notin store
        BY <1>6
      <4>2. QED
        BY <1>4, <4>1 DEF Auth!Live
    <3>5. QED
      BY <1>1, <1>2, <1>6, <1>9, <3>1, <3>2, <3>3, <3>4, SessionApart
  <2>5. CASE f = s
    <3>1. /\ (Auth!Live(s))' = {p} /\ s \notin ended
          /\ \A d \in Call : d # c => ~Auth!Works(d, s)
      <4>1. CASE s \in 1..issued
        <5>1. call[c].op = "refresh" /\ s = root[u] /\ u # 0
          BY <1>3, <1>7, <2>5, <4>1
        <5>2. Auth!Works(c, s) /\ Issuing(c)
          BY <1>1, <5>1, TouchesOf DEF Auth!Works, Issuing
        <5>3. Auth!Live(s) = {} /\ s \notin ended /\ \A d \in Call : Auth!Works(d, s) => c = d
          BY <2>2, <4>1, <5>2 DEF SessionOk
        <5>4. (Auth!Live(s))' = {p}
          BY <1>1, <1>6, <2>5, <5>3 DEF Auth!Live
        <5>5. QED
          BY <5>3, <5>4
      <4>2. CASE s = p
        <5>1. \A d \in Call : ~Auth!Works(d, s)
          <6>1. \A d \in Call : Auth!Touches(d) \subseteq 1..issued
            BY <1>2, TouchesIssued DEF EdgeInv
          <6>2. s \notin 1..issued
            BY <1>3, <4>2
          <6>3. QED
            BY <6>1, <6>2 DEF Auth!Works
        <5>2. \A q \in store : root'[q] # s
          <6>1. \A q \in 1..issued : root[q] \in 1..q
            BY <1>3 DEF Lineage
          <6>2. \A q \in 1..issued : root[q] # s
            BY <1>3, <4>2, <6>1
          <6>3. QED
            BY <1>6, <6>2
        <5>3. (Auth!Live(s))' = {p}
          BY <1>1, <1>6, <2>5, <5>2 DEF Auth!Live
        <5>4. s \notin ended
          BY <1>6, <4>2
        <5>5. QED
          BY <5>1, <5>3, <5>4
      <4>3. QED
        BY <2>1, <4>1, <4>2
    <3>2. \A d \in Call : d # c => ~(Auth!Works(d, s))'
      <4>1. ASSUME NEW d \in Call, d # c, (Auth!Works(d, s))' PROVE FALSE
        <5>1. call'[d] = call[d] /\ (Auth!Touches(d))' = Auth!Touches(d)
          BY <1>2, <1>6, <1>9, <4>1, TouchSame
        <5>2. Auth!Works(d, s)
          BY <4>1, <5>1 DEF Auth!Works, Auth!Runs
        <5>3. QED
          BY <3>1, <4>1, <5>2
      <4>2. QED
        BY <4>1
    <3>3. call'[c].pc = "reply" /\ call'[c].made = p /\ ~(Issuing(c))' /\ s \notin ended' /\ p \in store'
      BY <1>1, <1>4, <1>9, <3>1 DEF Issuing
    <3>4. QED
      BY <1>9, <3>1, <3>2, <3>3 DEF SessionOk
  <2>6. QED
    BY <2>4, <2>5
<1>14. QED
  BY <1>12, <1>13 DEF KeptInv

\* A call arrives: when another works on its session, it has disturbed it.
LEMMA ArriveKept ==
  ASSUME KeepInv, NEW c \in Call, NEW op \in {"login", "refresh", "logout", "me"}, NEW use \in 0..issued, NEW bearer,
         Auth!Arrive(c, op, use, bearer), known' = known, (Watched(c))',
         \A d \in Call : d # c /\ Watched(d) => (Watched(d))'
  PROVE  KeptInv'
<1> DEFINE pc == CASE op = "login" -> "issue"
                   [] op = "refresh" -> "check"
                   [] OTHER -> IF Auth!Decodes(bearer) THEN "listed" ELSE "refused"
           r == [op |-> op, use |-> use, bearer |-> bearer, made |-> 0, late |-> bearer \in loggedOut, pc |-> pc]
<1>1. /\ call[c] = Idle /\ call' = [call EXCEPT ![c] = r]
      /\ UNCHANGED <<issued, root, store, ended>>
      /\ disturbed' = disturbed \cup {s \in {root[p] : p \in {use} \ {0}} : \E d \in Call : Auth!Works(d, s)}
  BY Zenon DEF Auth!Arrive, Auth!tokenVars
<1>2. /\ r.pc = pc /\ r.op = op /\ r.use = use /\ r.made = 0
      /\ pc \in {"issue", "check", "listed", "refused"} /\ (pc = "issue" => op = "login")
  OBVIOUS
<1> HIDE DEF r, pc
<1>3. EdgeInv /\ (\A d \in Call : CallKept(d)) /\ call \in [Call -> {Idle} \cup Auth!Calls]
  BY SessionTypes DEF KeepInv, KeptInv, EdgeInv
<1>4. call'[c] = r /\ \A d \in Call : d # c => call'[d] = call[d]
  BY <1>1, <1>3
<1>5. ASSUME NEW d \in Call PROVE (CallKept(d))'
  <2>1. CASE d = c
    BY <1>2, <1>4, <2>1 DEF CallKept
  <2>2. CASE d # c
    BY <1>1, <1>3, <1>4, <2>2, CallStays
  <2>3. QED
    BY <2>1, <2>2
<1>6. ASSUME NEW s, (Undisturbed(s))' PROVE (SessionOk(s))'
  <2>1. SessionOk(s)
    BY <1>1, <1>6 DEF Undisturbed, KeepInv, KeptInv
  <2>2. (Auth!Live(s))' = Auth!Live(s)
    BY <1>1, LiveSame
  <2>3. ~Auth!Works(c, s)
    BY <1>1 DEF Auth!Works, Auth!Runs
  <2>4. ~(Issuing(c))' /\ call'[c].pc # "rotate"
    BY <1>2, <1>4 DEF Issuing
  <2>5. ASSUME (Auth!Works(c, s))' PROVE \A d \in Call : ~Auth!Works(d, s)
    <3>1. use # 0 /\ s = root'[use]
      BY <1>2, <1>4, <2>5, TouchesNext DEF Auth!Works
    <3>2. s \notin disturbed'
      BY <1>6 DEF Undisturbed
    <3>3. QED
      BY <1>1, <3>1, <3>2
  <2>6. \A q \in 1..issued : root'[q] = root[q]
    BY <1>1
  <2>7. QED
    BY <1>1, <1>3, <1>4, <2>1, <2>2, <2>3, <2>4, <2>5, <2>6, SessionApart
<1>7. QED
  BY <1>5, <1>6 DEF KeptInv

\* No call and no token of the session changes.
LEMMA SessionRests ==
  ASSUME EdgeInv, NEW s, SessionOk(s), UNCHANGED <<call, root, known>>,
         (Auth!Live(s))' = Auth!Live(s), s \in ended' <=> s \in ended
  PROVE  (SessionOk(s))'
<1>1. \A d : (Auth!Works(d, s))' <=> Auth!Works(d, s)
  BY DEF Auth!Works, Auth!Runs, Auth!Touches
<1>2. \A d : (Issuing(d))' <=> Issuing(d)
  BY DEF Issuing
<1>3. \A p \in Auth!Live(s) : p \in store'
  <2>1. \A p \in (Auth!Live(s))' : p \in store'
    BY DEF Auth!Live
  <2>2. QED
    BY <2>1
<1>4. ASSUME NEW d \in Call, Auth!Works(d, s), call[d].pc = "rotate" PROVE call[d].use \in store'
  <2>1. call[d].use \in store /\ root[call[d].use] = s
    BY <1>4, WorksOn DEF SessionOk
  <2>2. QED
    BY <1>3, <2>1 DEF Auth!Live
<1>5. s \notin ended' =>
       \/ \E p \in store' : (Auth!Live(s))' = {p}
       \/ (Auth!Live(s))' = {} /\ \E d \in Call : (Auth!Works(d, s))' /\ (Issuing(d))'
  BY <1>1, <1>2, <1>3 DEF SessionOk
<1>6. QED
  BY <1>1, <1>2, <1>4, <1>5 DEF SessionOk

LEMMA SessionsRest ==
  ASSUME KeepInv, UNCHANGED <<call, issued, root, known, store, ended>>, disturbed \subseteq disturbed'
  PROVE  \A s : (Undisturbed(s))' => (SessionOk(s))'
<1>1. ASSUME NEW s, (Undisturbed(s))' PROVE (SessionOk(s))'
  <2>1. SessionOk(s)
    BY <1>1 DEF Undisturbed, KeepInv, KeptInv
  <2>2. (Auth!Live(s))' = Auth!Live(s)
    BY LiveSame
  <2>3. QED
    BY <2>1, <2>2, SessionRests DEF KeepInv
<1>2. QED
  BY <1>1

\* What a request of one connection does to what another waits for.
LEMMA WatchedElsewhere ==
  ASSUME EdgeInv, NEW s \in Slot, NEW r, req' = [req EXCEPT ![s] = r], NEW d \in Call, d[1] # s
  PROVE  (Watched(d))' <=> Watched(d)
<1>1. d[1] \in Slot
  BY DEF Call
<1>2. req'[d[1]] = req[d[1]]
  BY <1>1, SessionTypes DEF EdgeInv
<1>3. QED
  BY <1>2 DEF Watched, At, Upstream

\* A request that does not wait, or whose answer has come, changes: no call rests on it.
LEMMA ReqKept ==
  ASSUME KeepInv, NEW s \in Slot, NEW r, req' = [req EXCEPT ![s] = r],
         UNCHANGED <<call, issued, root, known, store, ended>>, disturbed \subseteq disturbed',
         At(s, "wait") => \/ call[Upstream(s)] = Idle
                          \/ /\ call[Upstream(s)].op # "login"
                             /\ Auth!Touches(Upstream(s)) \subseteq disturbed'
  PROVE  KeptInv'
<1>1. EdgeInv /\ \A d \in Call : CallKept(d)
  BY DEF KeepInv, KeptInv
<1>2. ASSUME NEW d \in Call PROVE (CallKept(d))'
  <2>1. CASE d[1] # s \/ ~Watched(d) \/ call[d] = Idle
    <3>1. call[d] # Idle /\ Watched(d) => (Watched(d))'
      BY <1>1, <2>1, WatchedElsewhere
    <3>2. QED
      BY <1>1, <3>1, CallStays
  <2>2. CASE d[1] = s /\ Watched(d) /\ call[d] # Idle
    <3>1. call[d].op # "login" /\ Auth!Touches(d) \subseteq disturbed'
      BY <2>2 DEF Watched
    <3>2. (Auth!Touches(d))' = Auth!Touches(d)
      BY <1>1, TouchSame
    <3>3. call[d].pc = "refused" /\ call[d].made # 0 => root[call[d].made] \in disturbed'
      BY <1>1, <2>2 DEF CallKept
    <3>4. QED
      BY <3>1, <3>2, <3>3 DEF CallKept
  <2>3. QED
    BY <2>1, <2>2
<1>3. QED
  BY <1>2, SessionsRest DEF KeptInv

\* A call is forgotten, its pair known to the client or its session disturbed.
LEMMA ForgetKept ==
  ASSUME KeepInv, NEW c \in Call, call[c] # Idle, call[c].pc \in {"ok", "refused"}, Auth!Forget(c),
         known \subseteq known',
         \/ call[c].pc = "ok" /\ (call[c].made # 0 => call[c].made \in known')
         \/ call[c].pc = "refused"
         \/ ~Watched(c),
         \A d \in Call : d # c /\ Watched(d) => (Watched(d))'
  PROVE  KeptInv'
<1>1. EdgeInv /\ (\A d \in Call : CallKept(d)) /\ call \in [Call -> {Idle} \cup Auth!Calls] /\ CallOk(c) /\ Lineage
  BY SessionTypes DEF KeepInv, KeptInv, EdgeInv, TokenInv
<1>2. call' = [call EXCEPT ![c] = Idle] /\ UNCHANGED <<issued, root, store, ended, disturbed>>
  BY DEF Auth!Forget, Auth!tokenVars, Auth!ghostVars
<1>3. call'[c] = Idle /\ \A d \in Call : d # c => call'[d] = call[d]
  BY <1>1, <1>2
<1>4. ASSUME NEW d \in Call PROVE (CallKept(d))'
  <2>1. CASE d = c
    BY <1>3, <2>1 DEF CallKept
  <2>2. CASE d # c
    BY <1>1, <1>2, <1>3, <2>2, CallStays
  <2>3. QED
    BY <2>1, <2>2
<1>5. ASSUME NEW s, (Undisturbed(s))' PROVE (SessionOk(s))'
  <2>1. SessionOk(s) /\ s \notin disturbed
    BY <1>2, <1>5 DEF Undisturbed, KeepInv, KeptInv
  <2>2. (Auth!Live(s))' = Auth!Live(s)
    BY <1>2, LiveSame
  <2>3. ~Auth!Works(c, s) /\ ~(Auth!Works(c, s))'
    BY <1>3 DEF Auth!Works, Auth!Runs
  <2>4. ASSUME NEW p \in Auth!Live(s), call[c].made = p PROVE p \in known'
    <3>1. root[p] = s /\ p # 0
      BY <1>1, SessionTypes DEF Auth!Live, Lineage, EdgeInv
    <3>2. ~(call[c].pc = "refused")
      BY <1>1, <2>1, <2>4, <3>1 DEF CallKept
    <3>3. ~(~Watched(c))
      BY <1>1, <2>1, <2>4, <3>1, TouchesOf DEF CallKept
    <3>4. QED
      BY <2>4, <3>1, <3>2, <3>3
  <2>5. \A q \in 1..issued : root'[q] = root[q]
    BY <1>2
  <2>6. QED
    BY <1>1, <1>2, <1>3, <2>1, <2>2, <2>3, <2>4, <2>5, SessionApart
<1>6. QED
  BY <1>4, <1>5 DEF KeptInv

LEMMA AskKept ==
  ASSUME KeepInv, NEW s \in Slot, Login(s) \/ AskAuth(s)
  PROVE  KeptInv'
<1> DEFINE c == <<s, 1>>
<1>1. /\ EdgeInv /\ req[s] = Idle /\ known' = known /\ known \subseteq 1..issued /\ issued \in Nat
      /\ req \in [Slot -> {Idle} \cup Sendable]
  BY SessionTypes DEF KeepInv, EdgeInv, Login, AskAuth, Free
<1>2. PICK op \in {"login", "refresh", "logout", "me"}, use \in 0..issued, bearer \in 0..issued : Auth!Arrive(c, op, use, bearer)
  <2>1. CASE Login(s)
    BY <1>1, <2>1 DEF Login
  <2>2. CASE AskAuth(s)
    <3>1. PICK op \in {"refresh", "logout", "me"}, bearer \in known, use \in known \cup {0} : Auth!Arrive(c, op, use, bearer)
      BY <2>2 DEF AskAuth
    <3>2. use \in 0..issued /\ bearer \in 0..issued
      BY <1>1
    <3>3. QED
      BY <3>1, <3>2
  <2>3. QED
    BY <2>1, <2>2
<1>3. PICK r : req' = [req EXCEPT ![s] = r] /\ r # Idle /\ r.st = "wait" /\ r.tries = 1
  <2>1. PICK o, b, u :
          req' = [req EXCEPT ![s] = [st |-> "wait", op |-> o, use |-> u, bearer |-> b,
                                     text |-> None, window |-> None, tries |-> 1]]
          /\ o \in {"login", "refresh", "logout", "me"} /\ b \in Nat /\ u \in Nat
    <3>1. \A q \in known : q \in Nat
      BY <1>1
    <3>2. CASE Login(s)
      BY <3>2 DEF Login
    <3>3. CASE AskAuth(s)
      <4>1. PICK o \in {"refresh", "logout", "me"}, b \in known, u \in known \cup {0} :
              req' = [req EXCEPT ![s] = [st |-> "wait", op |-> o, use |-> u, bearer |-> b,
                                         text |-> None, window |-> None, tries |-> 1]]
        BY <3>3, Zenon DEF AskAuth
      <4>2. b \in Nat /\ u \in Nat /\ o \in {"login", "refresh", "logout", "me"}
        BY <3>1
      <4>3. QED
        BY <4>1, <4>2
    <3>4. QED
      BY <3>2, <3>3
  <2> DEFINE r == [st |-> "wait", op |-> o, use |-> u, bearer |-> b, text |-> None, window |-> None, tries |-> 1]
  <2>2. r \in Requests
    BY <2>1, Numbers DEF Requests
  <2>3. req' = [req EXCEPT ![s] = r] /\ r.st = "wait" /\ r.tries = 1
    BY <2>1
  <2> HIDE DEF r
  <2>4. r # Idle
    BY <2>2, IdleAssumption
  <2>5. QED
    BY <2>3, <2>4
<1>4. c \in Call /\ c[1] = s
  BY Numbers DEF Call
<1>5. (Watched(c))'
  BY <1>1, <1>3, <1>4 DEF Watched, At, Upstream
<1>6. \A d \in Call : d # c /\ Watched(d) => (Watched(d))'
  <2>1. ASSUME NEW d \in Call, Watched(d) PROVE d[1] # s
    BY <1>1, <2>1 DEF Watched, At
  <2>2. QED
    BY <1>1, <1>3, <2>1, WatchedElsewhere
<1> HIDE DEF c
<1>7. QED
  BY <1>1, <1>2, <1>4, <1>5, <1>6, ArriveKept

LEMMA SendKept ==
  ASSUME KeepInv, NEW s \in Slot, Send(s)
  PROVE  KeptInv'
<1> DEFINE r == [req[s] EXCEPT !.st = "wait", !.tries = @ + 1]
<1>1. /\ EdgeInv /\ req[s] # Idle /\ req[s].st = "send" /\ known' = known
      /\ req \in [Slot -> {Idle} \cup Sendable] /\ RequestOk(s)
      /\ req' = [req EXCEPT ![s] = r]
  BY SessionTypes DEF KeepInv, EdgeInv, Send, At, RequestInv
<1>2. req[s] \in Requests /\ req[s].tries \in Nat /\ req[s].tries < MaxAttempts
  BY <1>1, Numbers DEF Sendable, Requests
<1>3. r.st = "wait" /\ r.tries = req[s].tries + 1 /\ r \in Requests
  <2>1. req[s].tries + 1 \in 0..MaxAttempts
    BY <1>2, Numbers
  <2>2. QED
    BY <1>2, <2>1 DEF Requests
<1>4. PICK c \in Call : c = <<s, req[s].tries + 1>> /\ c[1] = s
  <2>1. req[s].tries + 1 \in 1..MaxAttempts
    BY <1>2, Numbers
  <2>2. <<s, req[s].tries + 1>> \in Call
    BY <2>1 DEF Call
  <2>3. QED
    BY <2>2
<1>5. \/ /\ req[s].op \in {"refresh", "logout", "me"}
         /\ Auth!Arrive(c, req[s].op, req[s].use, 0)
      \/ UNCHANGED authVars
  BY <1>1, <1>4 DEF Send
<1>6. ~At(s, "wait")
  BY <1>1 DEF At
<1>7. req'[s] = r /\ r # Idle /\ c = <<s, r.tries>>
  BY <1>1, <1>3, <1>4, IdleAssumption
<1> HIDE DEF r
<1>8. CASE UNCHANGED authVars
  BY <1>1, <1>6, <1>8, ReqKept DEF authVars
<1>9. CASE req[s].op \in {"refresh", "logout", "me"} /\ Auth!Arrive(c, req[s].op, req[s].use, 0)
  <2>1. req[s].use \in 0..issued
    BY <1>1 DEF RequestOk
  <2>2. (Watched(c))'
    BY <1>3, <1>4, <1>7 DEF Watched, At, Upstream
  <2>3. \A d \in Call : d # c /\ Watched(d) => (Watched(d))'
    <3>1. ASSUME NEW d \in Call, Watched(d) PROVE d[1] # s
      BY <1>6, <3>1 DEF Watched
    <3>2. QED
      BY <1>1, <3>1, WatchedElsewhere
  <2>4. PICK op \in {"login", "refresh", "logout", "me"}, use \in 0..issued :
          op = req[s].op /\ use = req[s].use
    BY <1>9, <2>1
  <2>5. Auth!Arrive(c, op, use, 0)
    BY <1>9, <2>4
  <2>6. QED
    BY <1>1, <1>4, <2>2, <2>3, <2>5, ArriveKept
<1>10. QED
  BY <1>5, <1>8, <1>9

LEMMA AnswerKept ==
  ASSUME KeepInv, NEW s \in Slot, Answer(s)
  PROVE  KeptInv'
<1> DEFINE c == Upstream(s)
<1>1. /\ EdgeInv /\ RouteInv /\ req[s] # Idle /\ req[s].st = "wait" /\ req' = [req EXCEPT ![s] = Idle]
  BY DEF KeepInv, Answer, At
<1>2. c \in Call /\ c[1] = s
  BY <1>1, UpstreamCall DEF EdgeInv
<1>3. CASE /\ call[c] # Idle /\ call[c].pc \in {"ok", "refused"}
           /\ known' = IF call[c].pc = "ok" /\ call[c].made # 0 THEN known \cup {call[c].made} ELSE known
           /\ Auth!Forget(c)
  <2>1. \A d \in Call : d # c /\ Watched(d) => (Watched(d))'
    <3>1. ASSUME NEW d \in Call, d # c, Watched(d) PROVE d[1] # s
      BY <3>1 DEF Watched
    <3>2. QED
      BY <1>1, <3>1, WatchedElsewhere
  <2>2. /\ known \subseteq known'
        /\ \/ call[c].pc = "ok" /\ (call[c].made # 0 => call[c].made \in known')
           \/ call[c].pc = "refused"
    BY <1>3
  <2> HIDE DEF c
  <2>3. QED
    BY <1>2, <1>3, <2>1, <2>2, ForgetKept
<1>4. CASE create[c] # Idle /\ UNCHANGED <<authVars, known>>
  <2>1. call[c] = Idle
    BY <1>1, <1>2, <1>4 DEF RouteInv
  <2>2. UNCHANGED <<call, issued, root, known, store, ended>> /\ disturbed \subseteq disturbed'
    BY <1>4 DEF authVars
  <2>3. QED
    BY <1>1, <2>1, <2>2, ReqKept
<1>5. QED
  BY <1>3, <1>4 DEF Answer

LEMMA KeptStep == KeepInv /\ [Next]_vars => KeptInv'
<1> SUFFICES ASSUME KeepInv, [Next]_vars PROVE KeptInv'
  OBVIOUS
<1>0. EdgeInv /\ RouteInv /\ \A d \in Call : CallKept(d)
  BY DEF KeepInv, KeptInv
<1>1. ASSUME NEW s \in Slot, AskGateway(s) PROVE KeptInv'
  <2>1. PICK r : req' = [req EXCEPT ![s] = r]
    BY <1>1 DEF AskGateway
  <2>2. ~At(s, "wait")
    BY <1>1 DEF AskGateway, Free, At
  <2>3. UNCHANGED <<call, issued, root, known, store, ended, disturbed>>
    BY <1>1 DEF AskGateway, authVars
  <2>4. QED
    BY <2>1, <2>2, <2>3, ReqKept
<1>2. ASSUME NEW s \in Slot, Limits(s) PROVE KeptInv'
  <2>1. PICK r : req' = [req EXCEPT ![s] = r]
    BY <1>2, LimitMoves
  <2>2. ~At(s, "wait")
    BY <1>2, LimitMoves DEF At
  <2>3. UNCHANGED <<call, issued, root, known, store, ended, disturbed>>
    BY <1>2, LimitMoves DEF authVars
  <2>4. QED
    BY <2>1, <2>2, <2>3, ReqKept
<1>3. ASSUME NEW s \in Slot, Timeout(s) PROVE KeptInv'
  <2>1. PICK r : req' = [req EXCEPT ![s] = r]
    BY <1>3 DEF Timeout, SendAgain
  <2>2. /\ UNCHANGED <<call, issued, root, known, store, ended>>
        /\ disturbed' = disturbed \cup Auth!Touches(Upstream(s))
        /\ req[s] # Idle /\ req[s].st = "wait" /\ req[s].window # None
    BY <1>3 DEF Timeout, At
  <2>3. call[Upstream(s)] # Idle => call[Upstream(s)].op # "login"
    BY <1>0, <2>2 DEF RouteInv, RouteOk
  <2>4. QED
    BY <2>1, <2>2, <2>3, ReqKept
<1>4. ASSUME NEW c \in Call, Discard(c) PROVE KeptInv'
  <2>1. ~Watched(c) /\ UNCHANGED <<req, known>>
    BY <1>4 DEF Discard, Watched, gatewayVars
  <2>2. CASE call[c] # Idle /\ call[c].pc \in {"ok", "refused"} /\ Auth!Forget(c)
    BY <2>1, <2>2, ForgetKept, WatchedSame
  <2>3. CASE UNCHANGED authVars
    <3>1. UNCHANGED <<call, issued, root, known, store, ended, disturbed>>
      BY <2>1, <2>3 DEF authVars
    <3>2. \A d \in Call : (CallKept(d))'
      BY <1>0, <2>1, <3>1, CallStays, WatchedSame
    <3>3. QED
      BY <3>1, <3>2, SessionsRest DEF KeptInv
  <2>4. QED
    BY <1>4, <2>2, <2>3 DEF Discard
<1>5. ASSUME NEW c \in Call, Handler(c) \/ HandlerFails(c) PROVE KeptInv'
  <2>1. UNCHANGED <<req, known>>
    BY <1>5 DEF Handler, HandlerFails, gatewayVars
  <2>2. CASE Auth!Step(c) \/ Auth!Lose(c)
    BY <2>1, <2>2, RotateKept, UnstoreKept, QuietKept, LoseKept, IssueKept DEF Auth!Step
  <2>3. CASE UNCHANGED authVars
    <3>1. UNCHANGED <<call, issued, root, known, store, ended, disturbed>>
      BY <2>1, <2>3 DEF authVars
    <3>2. \A d \in Call : (CallKept(d))'
      BY <1>0, <2>1, <3>1, CallStays, WatchedSame
    <3>3. QED
      BY <3>1, <3>2, SessionsRest DEF KeptInv
  <2>4. QED
    BY <1>5, <2>2, <2>3 DEF Handler, HandlerFails
<1>6. ASSUME NEW p \in 1..MaxPairs, RefreshExpires(p) PROVE KeptInv'
  <2>1. /\ UNCHANGED <<req, known, call, issued, root, ended>>
        /\ store' = store \ {p} /\ disturbed' = disturbed \cup {root[p]}
    BY <1>6 DEF RefreshExpires, Auth!RefreshExpires, gatewayVars
  <2>2. \A d \in Call : (CallKept(d))'
    BY <1>0, <2>1, CallStays, WatchedSame
  <2>3. ASSUME NEW s, (Undisturbed(s))' PROVE (SessionOk(s))'
    <3>1. SessionOk(s) /\ root[p] # s
      BY <2>1, <2>3 DEF Undisturbed, KeepInv, KeptInv
    <3>2. (Auth!Live(s))' = Auth!Live(s)
      BY <2>1, <3>1, LiveApart
    <3>3. QED
      BY <1>0, <2>1, <3>1, <3>2, SessionRests
  <2>4. QED
    BY <2>2, <2>3 DEF KeptInv
<1>7. CASE Tick \/ UNCHANGED vars
  <2>1. UNCHANGED <<req, call, issued, root, known, store, ended, disturbed>>
    BY <1>7 DEF Tick, vars, authVars, gatewayVars
  <2>2. \A d \in Call : (CallKept(d))'
    BY <1>0, <2>1, CallStays, WatchedSame
  <2>3. QED
    BY <2>1, <2>2, SessionsRest DEF KeptInv
<1>8. QED
  BY <1>1, <1>2, <1>3, <1>4, <1>5, <1>6, <1>7, AskKept, SendKept, AnswerKept DEF Next, Limits

LEMMA KeepInvariant == Spec => []KeepInv
<1>1. Init => KeptInv
  <2> SUFFICES ASSUME Init PROVE KeptInv
    OBVIOUS
  <2>1. issued = 0 /\ call = [c \in Call |-> Idle]
    BY DEF Init, Auth!Init
  <2>2. \A s : ~Undisturbed(s)
    BY <2>1 DEF Undisturbed
  <2>3. \A c \in Call : CallKept(c)
    BY <2>1 DEF CallKept
  <2>4. QED
    BY <2>2, <2>3 DEF KeptInv
<1>2. Init => KeepInv
  BY <1>1, EdgeInit, RouteInit DEF KeepInv
<1>3. KeepInv /\ [Next]_vars => KeepInv'
  BY EdgeStep, RouteStep, KeptStep DEF KeepInv
<1>4. QED
  BY <1>2, <1>3, PTL DEF Spec

\* "rotates the refresh token (old becomes invalid)", "logout deletes it", for any number
\* of connections, resends, losses and pairs: a session none of whose calls overlapped
\* another, was lost or was sent again has, when none runs, one token in Redis, which the
\* client holds, and none once it was ended.
THEOREM Kept == Spec => []SessionKept
<1>1. KeepInv => SessionKept
  <2> SUFFICES ASSUME KeepInv, NEW s \in known \ disturbed, root[s] = s, ~Busy(s)
               PROVE  /\ Cardinality(Auth!Live(s)) = IF s \in ended THEN 0 ELSE 1
                      /\ Auth!Live(s) \subseteq known
    BY DEF SessionKept
  <2>1. EdgeInv /\ known \subseteq 1..issued
    BY SessionTypes DEF KeepInv, EdgeInv
  <2>2. SessionOk(s)
    BY <2>1 DEF KeepInv, KeptInv, Undisturbed
  <2>3. \A c \in Call : s \notin Auth!Touches(c)
    BY DEF Busy
  <2>4. \A c \in Call : ~Auth!Works(c, s)
    BY <2>3 DEF Auth!Works
  <2>5. IF s \in ended THEN Auth!Live(s) = {} ELSE \E p \in store : Auth!Live(s) = {p}
    BY <2>2, <2>4 DEF SessionOk
  <2>6. Cardinality(Auth!Live(s)) = IF s \in ended THEN 0 ELSE 1
    BY <2>5, FS_EmptySet, FS_Singleton
  <2>7. ASSUME NEW p \in Auth!Live(s) PROVE p \in known
    <3>1. root[p] = s /\ p # 0
      BY <2>1, SessionTypes DEF Auth!Live, EdgeInv, TokenInv, Lineage
    <3>2. \A c \in Call : call[c] # Idle => call[c].made # p
      BY <2>3, <3>1, TouchesOf
    <3>3. QED
      BY <2>2, <3>2 DEF SessionOk
  <2>8. QED
    BY <2>6, <2>7
<1>2. QED
  BY <1>1, KeepInvariant, PTL
=============================================================================

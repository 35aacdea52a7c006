------------------------ MODULE LiveDashboard_proofs ------------------------
(***************************************************************************)
(* Theorems about LiveDashboard, for every set of sockets, every backoff   *)
(* and any number of changes and disturbances.                             *)
(***************************************************************************)
EXTENDS LiveDashboard, FiniteSetTheorems, TLAPS

\* A browser that has seen its connection open is being served, and a handler has
\* asked Redis for its channel unless its forward task has died.
ServedInv ==
  \A i \in Sockets :
    /\ sock[i] = "open" => srv[i] # "upgrade"
    /\ srv[i] \in {"subscribed", "serving"} => subs[i] # "none" \/ i \in deaf

\* Without an orphan no connection but the hook's own is in use, and a page that is
\* gone has left nothing behind.
HookInv ==
  /\ ~mounted => timer = 0 /\ ~dirty
  /\ ~orphaned => \A j \in Sockets :
       sock[j] \in {"connecting", "open"} => mounted /\ j = wsRef

-----------------------------------------------------------------------------
\* A power of two is a natural number: it counts the subsets of 1..n.
LEMMA PowerType == ASSUME NEW n \in Nat PROVE 2 ^ n \in Nat
<1>1. IsFiniteSet(1..n) /\ Cardinality(1..n) = n
  BY FS_Interval
<1>2. IsFiniteSet(SUBSET (1..n)) /\ Cardinality(SUBSET (1..n)) = 2 ^ n
  BY <1>1, FS_SUBSET
<1>3. QED
  BY <1>2, FS_CardinalityType

\* The delay is at most maxBackoffMs.
LEMMA BackoffType == ASSUME NEW n \in Nat PROVE Backoff(n) \in 0..MaxBackoff
<1> DEFINE p == 2 ^ n
           S == {MaxBackoff, p}
<1>1. p \in Nat /\ MaxBackoff \in Nat
  BY PowerType, LiveAssumption
<1> HIDE DEF p
<1>2. \E x \in S : \A y \in S : x <= y
  BY <1>1
<1>3. Min(S) \in S /\ \A y \in S : Min(S) <= y
  BY <1>2 DEF Min
<1>4. QED
  BY <1>1, <1>3 DEF Backoff, p

\* The first connection is one of the sockets.
LEMMA FirstSocket == Min(Sockets) \in Sockets
  BY LiveAssumption DEF Min

LEMMA DisturbedType ==
  ASSUME faults \in 0..MaxFaults, Disturbed
  PROVE faults' \in 0..MaxFaults
  BY LiveAssumption DEF Disturbed

\* The flags of the hook, which no other variable has a say in.
FlagType ==
  /\ mounted \in BOOLEAN /\ closedRef \in BOOLEAN
  /\ connected \in BOOLEAN /\ dirty \in BOOLEAN /\ orphaned \in BOOLEAN
  /\ closedRef = ~mounted

LEMMA FlagTypeInvariant == Spec => []FlagType
<1>1. Init => FlagType
  BY Zenon DEF Init, FlagType
<1>2. FlagType /\ [Next]_vars => FlagType'
  <2> SUFFICES ASSUME FlagType, [Next]_vars
               PROVE FlagType'
    OBVIOUS
  <2> USE DEF hookVars, serverVars, pageVars, feedVars, serverRest
  <2>1. CASE Render
    BY <2>1, Zenon DEF Render, FlagType
  <2>2. CASE Reconnect
    BY <2>2, Zenon DEF Reconnect, SetConnected, FlagType
  <2>3. CASE Unmount
    BY <2>3, Zenon DEF Unmount, FlagType
  <2>4. ASSUME NEW i \in Sockets, Opened(i)
        PROVE FlagType'
    BY <2>4, Zenon DEF Opened, SetConnected, FlagType
  <2>5. ASSUME NEW i \in Sockets, CloseEvent(i)
        PROVE FlagType'
    BY <2>5, Zenon DEF CloseEvent, SetConnected, FlagType
  <2>6. ASSUME NEW i \in Sockets,
               \/ Message(i) \/ Subscribe(i) \/ Taken(i) \/ Refuse(i) \/ Accept(i)
               \/ Disconnect(i) \/ ForwardDies(i) \/ Drop(i)
        PROVE FlagType'
    <3>1. UNCHANGED hookVars
      BY <2>6, Zenon DEF Message, Subscribe, Taken, Refuse, Accept, Disconnect, ForwardDies, Drop
    <3>2. QED
      BY <3>1, Zenon DEF FlagType
  <2>7. CASE FetchShown
    BY <2>7, Zenon DEF FetchShown, FlagType
  <2>8. CASE Poll \/ FetchAnswered \/ FetchFails \/ Update \/ Bridge \/ BridgeFails \/ UNCHANGED vars
    <3>1. UNCHANGED hookVars
      BY <2>8, Zenon DEF Poll, FetchAnswered, FetchFails, Update, Bridge, BridgeFails, vars
    <3>2. QED
      BY <3>1, Zenon DEF FlagType
  <2>9. QED
    BY <2>1, <2>2, <2>3, <2>4, <2>5, <2>6, <2>7, <2>8 DEF Next
<1>3. QED
  BY <1>1, <1>2, PTL DEF Spec

\* The sockets and the handlers keep their types.
SocketType ==
  /\ wsRef \in Sockets
  /\ sock \in [Sockets -> {"none", "connecting", "open", "closing"}]
  /\ srv \in [Sockets -> {"none", "upgrade", "subscribed", "serving"}]
  /\ subs \in [Sockets -> {"none", "sent", "taken"}] /\ deaf \subseteq Sockets
  /\ buffer \in [Sockets -> Nat]

NumberType ==
  /\ timer \in 0..MaxBackoff /\ attempt \in Nat
  /\ fetch \in [st : {"idle", "sent", "answered"}, value : 0..MaxData]
  /\ shown \in 0..data /\ data \in 0..MaxData /\ events \in 0..MaxData
  /\ fetch.value <= data /\ events <= data
  /\ faults \in 0..MaxFaults

LEMMA ClosedType ==
  ASSUME SocketType, NEW i \in Sockets
  PROVE /\ Closed(sock, i) \in [Sockets -> {"none", "connecting", "open", "closing"}]
        /\ Closed(sock, i)[i] \notin {"connecting", "open"}
        /\ \A j \in Sockets : j # i => Closed(sock, i)[j] = sock[j]
        /\ \A j \in Sockets : Closed(sock, i)[j] \in {sock[j], "closing"}
  BY DEF Closed, SocketType

\* connect() takes a socket nobody uses.
LEMMA ConnectType ==
  ASSUME SocketType, NEW s \in [Sockets -> {"none", "connecting", "open", "closing"}], Connect(s)
  PROVE /\ wsRef' \in Unused
        /\ sock' = [s EXCEPT ![wsRef'] = "connecting"]
        /\ srv' = [srv EXCEPT ![wsRef'] = "upgrade"]
        /\ sock' \in [Sockets -> {"none", "connecting", "open", "closing"}]
        /\ srv' \in [Sockets -> {"none", "upgrade", "subscribed", "serving"}]
        /\ wsRef' \in Sockets
  BY DEF Connect, Unused, SocketType

LEMMA ReleaseType ==
  ASSUME SocketType, NEW i \in Sockets, Release(i)
  PROVE /\ srv' \in [Sockets -> {"none", "upgrade", "subscribed", "serving"}]
        /\ subs' \in [Sockets -> {"none", "sent", "taken"}] /\ deaf' \subseteq Sockets /\ buffer' \in [Sockets -> Nat]
  BY DEF Release, SocketType

LEMMA SocketTypeInvariant == Spec => []SocketType
<1>1. Init => SocketType
  BY FirstSocket DEF Init, SocketType
<1>2. SocketType /\ [Next]_vars => SocketType'
  <2> SUFFICES ASSUME SocketType, [Next]_vars
               PROVE SocketType'
    OBVIOUS
  <2> USE DEF hookVars, serverVars, pageVars, feedVars, serverRest
  <2>1. CASE Render
    <3>1. Closed(sock, wsRef) \in [Sockets -> {"none", "connecting", "open", "closing"}]
      BY ClosedType DEF SocketType
    <3>2. Connect(Closed(sock, wsRef))
      BY <2>1 DEF Render
    <3>3. QED
      BY <2>1, <3>1, <3>2, ConnectType DEF Render, SocketType
  <2>2. CASE Reconnect
    <3>1. sock \in [Sockets -> {"none", "connecting", "open", "closing"}] /\ Connect(sock)
      BY <2>2 DEF Reconnect, SocketType
    <3>2. QED
      BY <2>2, <3>1, ConnectType DEF Reconnect, SetConnected, SocketType
  <2>3. CASE Unmount
    BY <2>3, ClosedType DEF Unmount, SocketType
  <2>4. ASSUME NEW i \in Sockets, Opened(i) \/ CloseEvent(i)
        PROVE SocketType'
    <3>1. /\ sock' \in [Sockets -> {"none", "connecting", "open", "closing"}]
          /\ UNCHANGED <<wsRef, srv, subs, deaf, buffer>>
      BY <2>4 DEF Opened, CloseEvent, SocketType
    <3>2. QED
      BY <3>1 DEF SocketType
  <2>5. ASSUME NEW i \in Sockets, Message(i) \/ Subscribe(i) \/ Taken(i) \/ Accept(i) \/ ForwardDies(i)
        PROVE SocketType'
    <3>1. CASE Message(i)
      <4>1. buffer' \in [Sockets -> Nat] /\ UNCHANGED <<wsRef, sock, srv, subs, deaf>>
        BY <3>1 DEF Message, SocketType
      <4>2. QED
        BY <4>1 DEF SocketType
    <3>2. CASE Subscribe(i) \/ Taken(i) \/ Accept(i)
      BY <3>2 DEF Subscribe, Taken, Accept, SocketType
    <3>3. CASE ForwardDies(i)
      BY <3>3 DEF ForwardDies, SocketType
    <3>4. QED
      BY <2>5, <3>1, <3>2, <3>3
  <2>6. ASSUME NEW i \in Sockets, Refuse(i) \/ Disconnect(i) \/ Drop(i)
        PROVE SocketType'
    <3>1. CASE Refuse(i)
      BY <3>1, ClosedType DEF Refuse, SocketType
    <3>2. CASE Disconnect(i)
      BY <3>2, ReleaseType DEF Disconnect, SocketType
    <3>3. CASE Drop(i)
      BY <3>3, ReleaseType, ClosedType DEF Drop, SocketType
    <3>4. QED
      BY <2>6, <3>1, <3>2, <3>3
  <2>7. CASE Bridge
    BY <2>7 DEF Bridge, SocketType
  <2>8. CASE FetchShown
    BY <2>8 DEF FetchShown, SocketType
  <2>9. CASE Poll \/ FetchAnswered \/ FetchFails \/ Update \/ BridgeFails \/ UNCHANGED vars
    <3>1. UNCHANGED <<wsRef, sock, srv, subs, deaf, buffer>>
      BY <2>9 DEF Poll, FetchAnswered, FetchFails, Update, BridgeFails, vars
    <3>2. QED
      BY <3>1 DEF SocketType
  <2>10. QED
    BY <2>1, <2>2, <2>3, <2>4, <2>5, <2>6, <2>7, <2>8, <2>9 DEF Next
<1>3. QED
  BY <1>1, <1>2, PTL DEF Spec

\* The delay, the query and the counters keep their types.
LEMMA NumberTypeInvariant == Spec => []NumberType
<1>1. Init => NumberType
  BY LiveAssumption DEF Init, NumberType
<1>2. SocketType /\ NumberType /\ [Next]_vars => NumberType'
  <2> SUFFICES ASSUME SocketType, NumberType, [Next]_vars
               PROVE NumberType'
    OBVIOUS
  <2> USE LiveAssumption DEF hookVars, serverVars, pageVars, feedVars, serverRest
  <2>1. CASE Render \/ Reconnect \/ Unmount
    <3>1. timer' = 0 /\ UNCHANGED <<attempt, fetch, shown, data, events, faults>>
      BY <2>1 DEF Render, Reconnect, Unmount
    <3>2. QED
      BY <3>1 DEF NumberType
  <2>2. ASSUME NEW i \in Sockets, Opened(i)
        PROVE NumberType'
    BY <2>2 DEF Opened, NumberType
  <2>3. ASSUME NEW i \in Sockets, CloseEvent(i)
        PROVE NumberType'
    <3>1. timer' \in 0..MaxBackoff /\ attempt' \in Nat
      BY <2>3, BackoffType DEF CloseEvent, NumberType
    <3>2. QED
      BY <2>3, <3>1 DEF CloseEvent, NumberType
  <2>4. ASSUME NEW i \in Sockets, Message(i) \/ Subscribe(i) \/ Taken(i) \/ Refuse(i) \/ Accept(i) \/ Disconnect(i)
        PROVE NumberType'
    BY <2>4 DEF Message, Subscribe, Taken, Refuse, Accept, Disconnect, NumberType
  <2>5. ASSUME NEW i \in Sockets, ForwardDies(i) \/ Drop(i)
        PROVE NumberType'
    BY <2>5, DisturbedType DEF ForwardDies, Drop, NumberType
  <2>6. CASE Poll \/ FetchAnswered \/ FetchShown
    BY <2>6 DEF Poll, FetchAnswered, FetchShown, NumberType
  <2>7. CASE FetchFails \/ BridgeFails
    BY <2>7, DisturbedType DEF FetchFails, BridgeFails, NumberType
  <2>8. CASE Update \/ Bridge
    <3>1. CASE Update
      BY <3>1 DEF Update, NumberType
    <3>2. CASE Bridge
      <4>1. events > 0 /\ events' = events - 1 /\ UNCHANGED <<timer, attempt, fetch, shown, data, faults>>
        BY <3>2 DEF Bridge
      <4>2. QED
        BY <4>1 DEF NumberType
    <3>3. QED
      BY <2>8, <3>1, <3>2
  <2>9. CASE UNCHANGED vars
    BY <2>9 DEF vars, NumberType
  <2>10. QED
    BY <2>1, <2>2, <2>3, <2>4, <2>5, <2>6, <2>7, <2>8, <2>9 DEF Next
<1>3. QED
  BY <1>1, <1>2, SocketTypeInvariant, PTL DEF Spec

\* Every variable of the dashboard keeps its type: the reconnect delay stays within
\* maxBackoffMs, and the page never shows figures that were not there yet.
THEOREM TypeCorrect == Spec => []TypeOK
<1>1. FlagType /\ SocketType /\ NumberType => TypeOK
  <2> SUFFICES ASSUME FlagType, SocketType, NumberType
               PROVE TypeOK
    OBVIOUS
  <2>1. {mounted, closedRef, connected, dirty, orphaned} \subseteq BOOLEAN /\ closedRef = ~mounted
    BY Zenon DEF FlagType
  <2>2. QED
    BY <2>1, Zenon DEF SocketType, NumberType, TypeOK
<1>2. QED
  BY <1>1, FlagTypeInvariant, SocketTypeInvariant, NumberTypeInvariant, PTL

-----------------------------------------------------------------------------
\* A step of the server that closes no more than connections adds none.
LEMMA AliveShrinks ==
  ASSUME HookInv, UNCHANGED hookVars,
         \A j \in Sockets : sock'[j] \in {sock[j], "closing"}
  PROVE HookInv'
BY DEF HookInv, hookVars

\* The hook has at most one connection while the page is shown and none after it,
\* and leaves neither a reconnect timer nor a render behind, as long as no late
\* close event's timer has replaced a connection still in use.
THEOREM AtMostOne == Spec => []OneConnection
<1>1. Init => HookInv
  BY DEF Init, HookInv
<1>2. FlagType /\ SocketType /\ NumberType /\ HookInv /\ [Next]_vars => HookInv'
  <2> SUFFICES ASSUME FlagType, SocketType, NumberType, HookInv, [Next]_vars
               PROVE HookInv'
    OBVIOUS
  <2> USE DEF serverVars, pageVars, feedVars, serverRest
  <2>1. CASE Render
    <3>1. Closed(sock, wsRef) \in [Sockets -> {"none", "connecting", "open", "closing"}]
      BY ClosedType DEF SocketType
    <3>2. /\ sock' = [Closed(sock, wsRef) EXCEPT ![wsRef'] = "connecting"]
          /\ wsRef' \in Sockets
      BY <2>1, <3>1, ConnectType DEF Render
    <3>3. mounted
      BY <2>1 DEF Render, HookInv
    <3>4. /\ timer' = 0 /\ UNCHANGED <<mounted, orphaned>>
      BY <2>1 DEF Render
    <3>5. ASSUME NEW j \in Sockets, ~orphaned, j # wsRef'
          PROVE sock'[j] \notin {"connecting", "open"}
      <4>1. sock'[j] = Closed(sock, wsRef)[j]
        BY <3>1, <3>2, <3>5
      <4>2. CASE j = wsRef
        BY <4>1, <4>2, ClosedType DEF SocketType
      <4>3. CASE j # wsRef
        <5>1. sock[j] \notin {"connecting", "open"}
          BY <3>5, <4>3 DEF HookInv
        <5>2. Closed(sock, wsRef)[j] = sock[j]
          BY <4>3, ClosedType DEF SocketType
        <5>3. QED
          BY <4>1, <5>1, <5>2
      <4>4. QED
        BY <4>2, <4>3
    <3>6. QED
      BY <3>3, <3>4, <3>5 DEF HookInv
  <2>2. CASE Reconnect
    <3>1. /\ sock' = [sock EXCEPT ![wsRef'] = "connecting"]
          /\ wsRef' \in Sockets
      <4>1. sock \in [Sockets -> {"none", "connecting", "open", "closing"}] /\ Connect(sock)
        BY <2>2 DEF Reconnect, SocketType
      <4>2. QED
        BY <4>1, ConnectType
    <3>2. mounted /\ timer' = 0 /\ mounted' = mounted
      BY <2>2 DEF Reconnect, HookInv, NumberType
    <3>3. orphaned' = (orphaned \/ wsRef \in Alive)
      BY <2>2 DEF Reconnect
    <3>4. ~orphaned' => ~orphaned /\ wsRef \notin Alive
      BY <3>3, Zenon
    <3>5. ASSUME NEW j \in Sockets, ~orphaned', j # wsRef'
          PROVE sock'[j] \notin {"connecting", "open"}
      <4>1. sock'[j] = sock[j]
        BY <3>1, <3>5 DEF SocketType
      <4>2. j = wsRef => sock[j] \notin {"connecting", "open"}
        BY <3>4, <3>5 DEF Alive
      <4>3. j # wsRef => sock[j] \notin {"connecting", "open"}
        BY <3>4, <3>5 DEF HookInv
      <4>4. QED
        BY <4>1, <4>2, <4>3
    <3>6. QED
      BY <3>2, <3>5 DEF HookInv
  <2>3. CASE Unmount
    <3>1. /\ timer' = 0 /\ dirty' = FALSE /\ UNCHANGED orphaned
          /\ sock' = Closed(sock, wsRef)
      BY <2>3 DEF Unmount
    <3>2. ASSUME NEW j \in Sockets, ~orphaned
          PROVE sock'[j] \notin {"connecting", "open"}
      <4>1. CASE j = wsRef
        BY <3>1, <4>1, ClosedType DEF SocketType
      <4>2. CASE j # wsRef
        <5>1. sock[j] \notin {"connecting", "open"}
          BY <3>2, <4>2 DEF HookInv
        <5>2. sock'[j] = sock[j]
          BY <3>1, <4>2, ClosedType DEF SocketType
        <5>3. QED
          BY <5>1, <5>2
      <4>3. QED
        BY <4>1, <4>2
    <3>3. QED
      BY <3>1, <3>2 DEF HookInv
  <2>4. ASSUME NEW i \in Sockets, Opened(i)
        PROVE HookInv'
    <3>1. /\ sock[i] = "connecting" /\ sock' = [sock EXCEPT ![i] = "open"]
          /\ UNCHANGED <<mounted, wsRef, timer, orphaned>>
      BY <2>4 DEF Opened
    <3>2. ~mounted => ~dirty'
      BY <2>4, Zenon DEF Opened, SetConnected
    <3>3. QED
      BY <3>1, <3>2 DEF HookInv, SocketType
  <2>5. ASSUME NEW i \in Sockets, CloseEvent(i)
        PROVE HookInv'
    <3>1. /\ sock' = [sock EXCEPT ![i] = "none"]
          /\ UNCHANGED <<mounted, wsRef, orphaned>>
      BY <2>5 DEF CloseEvent
    <3>2. ~mounted => ~dirty'
      BY <2>5, Zenon DEF CloseEvent, SetConnected
    <3>3. ~mounted => closedRef
      BY Zenon DEF FlagType
    <3>4. ~mounted => timer' = 0
      BY <2>5, <3>3 DEF CloseEvent
    <3>5. QED
      BY <3>1, <3>2, <3>4 DEF HookInv, SocketType
  <2>6. ASSUME NEW i \in Sockets,
               \/ Message(i) \/ Subscribe(i) \/ Taken(i) \/ Refuse(i) \/ Accept(i)
               \/ Disconnect(i) \/ ForwardDies(i) \/ Drop(i)
        PROVE HookInv'
    <3>1. UNCHANGED hookVars
      BY <2>6, Zenon DEF Message, Subscribe, Taken, Refuse, Accept, Disconnect, ForwardDies, Drop
    <3>2. sock' \in {sock, Closed(sock, i)}
      BY <2>6, Zenon DEF Message, Subscribe, Taken, Refuse, Accept, Disconnect, ForwardDies, Drop
    <3>3. \A j \in Sockets : sock'[j] \in {sock[j], "closing"}
      BY <3>2, ClosedType
    <3>4. QED
      BY <3>1, <3>3, AliveShrinks
  <2>7. CASE FetchShown
    <3>1. UNCHANGED <<mounted, wsRef, timer, orphaned, sock>>
      BY <2>7 DEF FetchShown
    <3>2. ~mounted => ~dirty'
      BY <2>7, Zenon DEF FetchShown
    <3>3. QED
      BY <3>1, <3>2 DEF HookInv
  <2>8. CASE Poll \/ FetchAnswered \/ FetchFails \/ Update \/ Bridge \/ BridgeFails \/ UNCHANGED vars
    <3>1. UNCHANGED hookVars /\ UNCHANGED sock
      BY <2>8, Zenon DEF Poll, FetchAnswered, FetchFails, Update, Bridge, BridgeFails, vars
    <3>2. QED
      BY <3>1, AliveShrinks
  <2>9. QED
    BY <2>1, <2>2, <2>3, <2>4, <2>5, <2>6, <2>7, <2>8 DEF Next
<1>3. SocketType /\ HookInv => OneConnection
  BY DEF SocketType, HookInv, OneConnection, Alive
<1>4. QED
  BY <1>1, <1>2, <1>3, FlagTypeInvariant, SocketTypeInvariant, NumberTypeInvariant, PTL DEF Spec

-----------------------------------------------------------------------------
\* "subscribe BEFORE accept so no early messages are missed", for any number of
\* connections, drops and reconnects: the handler asks for its channel before it
\* accepts, and gives the subscription up only with the connection or when its forward
\* task dies.
THEOREM Subscribed == Spec => []SubscribeFirst
<1>1. Init => ServedInv
  BY FirstSocket DEF Init, ServedInv
<1>2. SocketType /\ ServedInv /\ [Next]_vars => ServedInv'
  <2> SUFFICES ASSUME SocketType, ServedInv, [Next]_vars
               PROVE ServedInv'
    OBVIOUS
  <2> USE DEF hookVars, serverVars, pageVars, feedVars, serverRest
  <2>1. CASE Render
    <3>1. Closed(sock, wsRef) \in [Sockets -> {"none", "connecting", "open", "closing"}]
      BY ClosedType DEF SocketType
    <3>2. /\ sock' = [Closed(sock, wsRef) EXCEPT ![wsRef'] = "connecting"]
          /\ srv' = [srv EXCEPT ![wsRef'] = "upgrade"]
          /\ wsRef' \in Sockets /\ UNCHANGED <<subs, deaf>>
      BY <2>1, <3>1, ConnectType DEF Render
    <3>3. \A j \in Sockets : Closed(sock, wsRef)[j] \in {sock[j], "closing"}
      BY ClosedType DEF SocketType
    <3>4. QED
      BY <3>1, <3>2, <3>3 DEF ServedInv, SocketType
  <2>2. CASE Reconnect
    <3>1. sock \in [Sockets -> {"none", "connecting", "open", "closing"}] /\ Connect(sock)
      BY <2>2 DEF Reconnect, SocketType
    <3>2. /\ sock' = [sock EXCEPT ![wsRef'] = "connecting"]
          /\ srv' = [srv EXCEPT ![wsRef'] = "upgrade"]
          /\ wsRef' \in Sockets /\ UNCHANGED <<subs, deaf>>
      BY <2>2, <3>1, ConnectType DEF Reconnect
    <3>3. QED
      BY <3>2 DEF ServedInv, SocketType
  <2>3. CASE Unmount
    <3>1. sock' = Closed(sock, wsRef) /\ UNCHANGED <<srv, subs, deaf>>
      BY <2>3 DEF Unmount
    <3>2. \A j \in Sockets : sock'[j] \in {sock[j], "closing"}
      BY <3>1, ClosedType DEF SocketType
    <3>3. QED
      BY <3>1, <3>2 DEF ServedInv
  <2>4. ASSUME NEW i \in Sockets, Opened(i) \/ CloseEvent(i)
        PROVE ServedInv'
    <3>1. /\ UNCHANGED <<srv, subs, deaf>>
          /\ \A j \in Sockets : sock'[j] = "open" => sock[j] = "open" \/ srv[j] = "serving"
      BY <2>4 DEF Opened, CloseEvent, SocketType
    <3>2. QED
      BY <3>1 DEF ServedInv
  <2>5. ASSUME NEW i \in Sockets, Message(i)
        PROVE ServedInv'
    BY <2>5 DEF Message, ServedInv
  <2>6. ASSUME NEW i \in Sockets, Subscribe(i) \/ Taken(i) \/ Accept(i)
        PROVE ServedInv'
    BY <2>6 DEF Subscribe, Taken, Accept, ServedInv, SocketType
  <2>7. ASSUME NEW i \in Sockets, ForwardDies(i)
        PROVE ServedInv'
    BY <2>7 DEF ForwardDies, ServedInv, SocketType
  <2>8. ASSUME NEW i \in Sockets, Refuse(i)
        PROVE ServedInv'
    <3>1. /\ srv' = [srv EXCEPT ![i] = "none"] /\ UNCHANGED <<subs, deaf>>
          /\ \A j \in Sockets : sock'[j] \in {sock[j], "closing"}
      BY <2>8, ClosedType DEF Refuse
    <3>2. QED
      BY <3>1 DEF ServedInv, SocketType
  <2>9. ASSUME NEW i \in Sockets, Disconnect(i) \/ Drop(i)
        PROVE ServedInv'
    <3>1. /\ Release(i)
          /\ sock' \in {sock, Closed(sock, i)}
      BY <2>9 DEF Disconnect, Drop
    <3>2. \A j \in Sockets : sock'[j] \in {sock[j], "closing"}
      BY <3>1, ClosedType
    <3>3. QED
      BY <3>1, <3>2 DEF Release, ServedInv, SocketType
  <2>10. CASE Poll \/ FetchAnswered \/ FetchFails \/ FetchShown \/ Update \/ Bridge \/ BridgeFails \/ UNCHANGED vars
    <3>1. UNCHANGED <<sock, srv, subs, deaf>>
      BY <2>10 DEF Poll, FetchAnswered, FetchFails, FetchShown, Update, Bridge, BridgeFails, vars
    <3>2. QED
      BY <3>1 DEF ServedInv
  <2>11. QED
    BY <2>1, <2>2, <2>3, <2>4, <2>5, <2>6, <2>7, <2>8, <2>9, <2>10 DEF Next
<1>3. SocketType /\ ServedInv => SubscribeFirst
  BY DEF SocketType, ServedInv, SubscribeFirst
<1>4. QED
  BY <1>1, <1>2, <1>3, SocketTypeInvariant, PTL DEF Spec
=============================================================================

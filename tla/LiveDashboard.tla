--------------------------- MODULE LiveDashboard ---------------------------
(***************************************************************************)
(* The dashboard page and what keeps it up to date: useWebSocket and the   *)
(* 30 s polling in the browser, the WebSocket handler and the Kafka bridge *)
(* of notification-service, Redis pub/sub between them.                    *)
(* useDashboardSocket passes new callbacks at every render, so that every  *)
(* render of the page changes `connect`, and the effect closes the socket  *)
(* and opens another.  A close event comes later than the call of close(). *)
(***************************************************************************)
EXTENDS Integers, FiniteSetsExt

CONSTANTS
  MaxBackoff,  \* maxBackoffMs, in seconds
  Sockets,     \* bound: connections that exist at one time; numbers
  MaxData,     \* bound: changes of the figures
  MaxFaults    \* bound: disturbances

ASSUME LiveAssumption ==
  /\ Sockets \subseteq Nat /\ \E i \in Sockets : \A j \in Sockets : i <= j
  /\ {MaxBackoff, MaxData, MaxFaults} \subseteq Nat /\ MaxBackoff > 0

VARIABLES
  mounted,    \* the page is shown
  closedRef,
  wsRef,
  timer,      \* delay of the pending reconnect, in seconds; 0 without one
  attempt,    \* attemptRef, as far as it changes the delay
  connected,  \* React state
  dirty,      \* a render is due
  sock,       \* sock[i]: the browser's view of connection i
  srv,        \* srv[i]: the handler of connection i
  subs,       \* subs[i]: the Redis subscription handler i listens to: none, sent or taken
  deaf,       \* handlers whose forward task has died
  buffer,     \* buffer[i]: messages on their way to connection i
  orphaned,   \* a reconnect timer has replaced a connection that was not closed
  data,       \* the figures of the analytics API, as a version
  events,     \* analytics-updated events not bridged yet
  fetch,      \* the overview query: [st, value]
  shown,      \* the version on the page
  faults

hookVars == <<mounted, closedRef, wsRef, timer, attempt, connected, dirty, orphaned>>
serverVars == <<srv, subs, deaf, buffer>>
pageVars == <<fetch, shown>>
feedVars == <<data, events>>
vars == <<hookVars, sock, serverVars, pageVars, feedVars, faults>>

Alive == {i \in Sockets : sock[i] \in {"connecting", "open"}}
Unused == {i \in Sockets : sock[i] = "none" /\ srv[i] = "none"}

TypeOK ==
  /\ {mounted, closedRef, connected, dirty, orphaned} \subseteq BOOLEAN
  /\ closedRef = ~mounted
  /\ wsRef \in Sockets /\ timer \in 0..MaxBackoff /\ attempt \in Nat
  /\ sock \in [Sockets -> {"none", "connecting", "open", "closing"}]
  /\ srv \in [Sockets -> {"none", "upgrade", "subscribed", "serving"}]
  /\ subs \in [Sockets -> {"none", "sent", "taken"}]
  /\ deaf \subseteq Sockets
  /\ buffer \in [Sockets -> Nat]
  /\ fetch \in [st : {"idle", "sent", "answered"}, value : 0..MaxData]
  /\ shown \in 0..data /\ data \in 0..MaxData /\ events \in 0..MaxData

\* The effect of the first render has run.
Init ==
  /\ mounted = TRUE /\ closedRef = FALSE
  /\ wsRef = Min(Sockets)
  /\ timer = 0 /\ attempt = 0 /\ connected = FALSE /\ dirty = FALSE
  /\ sock = [i \in Sockets |-> IF i = wsRef THEN "connecting" ELSE "none"]
  /\ srv = [i \in Sockets |-> IF i = wsRef THEN "upgrade" ELSE "none"]
  /\ subs = [i \in Sockets |-> "none"] /\ deaf = {} /\ buffer = [i \in Sockets |-> 0]
  /\ orphaned = FALSE
  /\ data = 0 /\ events = 0
  /\ fetch = [st |-> "sent", value |-> 0] /\ shown = 0
  /\ faults = 0

Disturbed == faults < MaxFaults /\ faults' = faults + 1

-----------------------------------------------------------------------------
(* The hook *)

\* setConnected: a state that changes makes a render due while the page is there.
SetConnected(b) == connected' = b /\ dirty' = (mounted /\ (dirty \/ connected # b))

Closed(s, i) == IF s[i] \in {"connecting", "open"} THEN [s EXCEPT ![i] = "closing"] ELSE s

\* connect(), after the sockets have become s.
Connect(s) == \E j \in Unused :
  /\ j = Min(Unused)
  /\ wsRef' = j
  /\ sock' = [s EXCEPT ![j] = "connecting"]
  /\ srv' = [srv EXCEPT ![j] = "upgrade"]

\* Variant for mutation: the cleanup of the effect leaves the socket open.
RenderKeepsSocket ==
  /\ dirty
  /\ timer' = 0
  /\ Connect(sock)
  /\ connected' = FALSE /\ dirty' = connected
  /\ UNCHANGED <<mounted, closedRef, attempt, orphaned, subs, deaf, buffer, pageVars, feedVars, faults>>

\* A render: the cleanup of the old effect, then the new effect, whose connect
\* reports "connecting".
Render ==
  /\ dirty
  /\ timer' = 0
  /\ Connect(Closed(sock, wsRef))
  /\ connected' = FALSE /\ dirty' = connected
  /\ UNCHANGED <<mounted, closedRef, attempt, orphaned, subs, deaf, buffer, pageVars, feedVars, faults>>

Unmount ==
  /\ mounted
  /\ mounted' = FALSE /\ closedRef' = TRUE /\ dirty' = FALSE
  /\ timer' = 0
  /\ sock' = Closed(sock, wsRef)
  /\ UNCHANGED <<wsRef, attempt, connected, orphaned, serverVars, pageVars, feedVars, faults>>

Opened(i) ==
  /\ sock[i] = "connecting" /\ srv[i] = "serving"
  /\ sock' = [sock EXCEPT ![i] = "open"]
  /\ attempt' = 0
  /\ SetConnected(TRUE)
  /\ UNCHANGED <<mounted, closedRef, wsRef, timer, orphaned, serverVars, pageVars, feedVars, faults>>

\* Variant for mutation: the delay is not capped.
BackoffUncapped(n) == 2 ^ n

\* 1s, 2s, 4s, ... the maximum; the jitter is left out.
Backoff(n) == Min({MaxBackoff, 2 ^ n})

\* onclose, of whichever socket: the timers and the flags are those of the hook.
CloseEvent(i) ==
  /\ sock[i] = "closing"
  /\ sock' = [sock EXCEPT ![i] = "none"]
  /\ SetConnected(FALSE)
  /\ timer' = IF closedRef THEN 0 ELSE Backoff(attempt)
  /\ attempt' = IF closedRef \/ 2 ^ attempt > MaxBackoff THEN attempt ELSE attempt + 1
  /\ UNCHANGED <<mounted, closedRef, wsRef, orphaned, serverVars, pageVars, feedVars, faults>>

\* The reconnect timer does not ask what wsRef holds.
Reconnect ==
  /\ timer > 0
  /\ timer' = 0
  /\ Connect(sock)
  /\ orphaned' = (orphaned \/ wsRef \in Alive)
  /\ SetConnected(FALSE)
  /\ UNCHANGED <<mounted, closedRef, attempt, subs, deaf, buffer, pageVars, feedVars, faults>>

-----------------------------------------------------------------------------
(* The page *)

\* invalidateQueries starts the query again, in place of one under way.
Message(i) ==
  /\ sock[i] = "open" /\ buffer[i] > 0
  /\ buffer' = [buffer EXCEPT ![i] = @ - 1]
  /\ fetch' = IF mounted THEN [fetch EXCEPT !.st = "sent"] ELSE fetch
  /\ UNCHANGED <<hookVars, sock, srv, subs, deaf, shown, feedVars, faults>>

\* Variant for mutation: the query runs when its message comes, and at no other time.
PollNever == FALSE /\ UNCHANGED vars

\* refetchInterval
Poll ==
  /\ mounted /\ fetch.st = "idle"
  /\ fetch' = [fetch EXCEPT !.st = "sent"]
  /\ UNCHANGED <<hookVars, sock, serverVars, shown, feedVars, faults>>

\* The API answers, or the request fails for good.
FetchAnswered ==
  /\ fetch.st = "sent"
  /\ fetch' = [st |-> "answered", value |-> data]
  /\ UNCHANGED <<hookVars, sock, serverVars, shown, feedVars, faults>>

FetchFails ==
  /\ fetch.st = "sent" /\ Disturbed
  /\ fetch' = [fetch EXCEPT !.st = "idle"]
  /\ UNCHANGED <<hookVars, sock, serverVars, shown, feedVars>>

\* The answer reaches the query cache; new figures make a render due.
FetchShown ==
  /\ fetch.st = "answered"
  /\ fetch' = [st |-> "idle", value |-> 0]
  /\ shown' = fetch.value
  /\ dirty' = (mounted /\ (dirty \/ fetch.value # shown))
  /\ UNCHANGED <<mounted, closedRef, wsRef, timer, attempt, connected, orphaned, sock, serverVars, feedVars, faults>>

-----------------------------------------------------------------------------
(* notification-service *)

serverRest == <<hookVars, pageVars, feedVars>>

\* Variant for mutation: the handshake is accepted first.
SubscribeLate(i) ==
  /\ srv[i] = "upgrade" /\ sock[i] = "connecting"
  /\ srv' = [srv EXCEPT ![i] = "serving"]
  /\ UNCHANGED <<serverRest, sock, subs, deaf, buffer, faults>>

\* "subscribe BEFORE accept so no early messages are missed": pubsub.subscribe sends
\* SUBSCRIBE and does not wait for its confirmation.
Subscribe(i) ==
  /\ srv[i] = "upgrade"
  /\ srv' = [srv EXCEPT ![i] = "subscribed"]
  /\ subs' = [subs EXCEPT ![i] = "sent"]
  /\ UNCHANGED <<serverRest, sock, deaf, buffer, faults>>

\* Redis takes the SUBSCRIBE.
Taken(i) ==
  /\ subs[i] = "sent"
  /\ subs' = [subs EXCEPT ![i] = "taken"]
  /\ UNCHANGED <<serverRest, sock, srv, deaf, buffer, faults>>

\* The token has run out, or the service is down: the connection is closed.
Refuse(i) ==
  /\ srv[i] = "upgrade"
  /\ srv' = [srv EXCEPT ![i] = "none"]
  /\ sock' = Closed(sock, i)
  /\ UNCHANGED <<serverRest, subs, deaf, buffer, faults>>

Release(i) ==
  /\ srv' = [srv EXCEPT ![i] = "none"]
  /\ subs' = [subs EXCEPT ![i] = "none"]
  /\ deaf' = deaf \ {i}
  /\ buffer' = [buffer EXCEPT ![i] = 0]

Accept(i) ==
  /\ srv[i] = "subscribed" /\ i \in Alive
  /\ srv' = [srv EXCEPT ![i] = "serving"]
  /\ UNCHANGED <<serverRest, sock, subs, deaf, buffer, faults>>

\* The browser has gone: receive_text raises WebSocketDisconnect and the finally
\* clause unsubscribes; or accept raises, which stands before the try, and nobody
\* gives the subscription back to Redis or listens to it any more.
Disconnect(i) ==
  /\ srv[i] \in {"subscribed", "serving"} /\ i \notin Alive
  /\ Release(i)
  /\ UNCHANGED <<serverRest, sock, faults>>

\* listen or send_text raises: the forward task ends, the handler goes on
\* answering pings.
ForwardDies(i) ==
  /\ srv[i] = "serving" /\ i \notin deaf
  /\ Disturbed
  /\ deaf' = deaf \cup {i}
  /\ subs' = [subs EXCEPT ![i] = "none"]
  /\ buffer' = [buffer EXCEPT ![i] = 0]
  /\ UNCHANGED <<serverRest, sock, srv>>

\* The service or the network goes away.
Drop(i) ==
  /\ srv[i] # "none" /\ Disturbed
  /\ Release(i)
  /\ sock' = Closed(sock, i)
  /\ UNCHANGED <<serverRest>>

-----------------------------------------------------------------------------
(* The feed *)

\* analytics-service drops its cache and publishes analytics-updated.
Update ==
  /\ data < MaxData
  /\ data' = data + 1 /\ events' = events + 1
  /\ UNCHANGED <<hookVars, sock, serverVars, pageVars, faults>>

\* Redis delivers to those whose SUBSCRIBE it has taken.
Bridge ==
  /\ events > 0
  /\ events' = events - 1
  /\ buffer' = [i \in Sockets |-> IF subs[i] = "taken" THEN buffer[i] + 1 ELSE buffer[i]]
  /\ UNCHANGED <<hookVars, sock, srv, subs, deaf, pageVars, data, faults>>

\* The publish fails until the event is dead-lettered.
BridgeFails ==
  /\ events > 0 /\ Disturbed
  /\ events' = events - 1
  /\ UNCHANGED <<hookVars, sock, serverVars, pageVars, data>>

-----------------------------------------------------------------------------
Next ==
  \/ Render \/ Unmount \/ Reconnect
  \/ Poll \/ FetchAnswered \/ FetchFails \/ FetchShown
  \/ Update \/ Bridge \/ BridgeFails
  \/ \E i \in Sockets :
       \/ Opened(i) \/ CloseEvent(i) \/ Message(i)
       \/ Subscribe(i) \/ Taken(i) \/ Refuse(i) \/ Accept(i) \/ Disconnect(i)
       \/ ForwardDies(i) \/ Drop(i)

Spec == Init /\ [][Next]_vars

\* The interval timer of the query and its requests; nothing is asked of the socket.
FairSpec == Spec /\ WF_vars(Poll) /\ WF_vars(FetchAnswered) /\ WF_vars(FetchShown)

-----------------------------------------------------------------------------
\* While the page is shown the hook has at most one connection, after it none, and
\* it leaves no reconnect timer behind, unless the close event of an earlier socket
\* came late and its timer replaced a connection that was still in use.
OneConnection ==
  /\ ~mounted => timer = 0 /\ ~dirty
  /\ ~orphaned => Alive \subseteq IF mounted THEN {wsRef} ELSE {}

\* "subscribe BEFORE accept so no early messages are missed": a connection the browser
\* sees open has asked Redis for its channel, unless it breaks or its forward task has
\* died.  Asked is not subscribed: what is published before Redis takes the SUBSCRIBE is
\* missed even so, and only that.
SubscribeFirst ==
  \A i \in Sockets : sock[i] = "open" /\ srv[i] # "none" /\ i \notin deaf => subs[i] # "none"

\* Whatever the socket does, reconnecting for ever, deaf or leaked, the page shows
\* every change of the figures in the end.
DashboardFresh == \A n \in 1..MaxData : (data >= n) ~> (shown >= n \/ ~mounted)
=============================================================================

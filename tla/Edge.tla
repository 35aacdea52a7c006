-------------------------------- MODULE Edge --------------------------------
(***************************************************************************)
(* The way in: clients of one user, api-gateway, auth-service and the      *)
(* keyword endpoints of mention-service.  The gateway checks the bearer,   *)
(* counts the request against the user's window, and sends it up to        *)
(* MaxAttempts times; a send that timed out goes on running upstream.      *)
(* Clients also reach auth-service at its own port, the only way to get a  *)
(* first token: the gateway asks for one on every path.                    *)
(***************************************************************************)
EXTENDS Integers, FiniteSetsExt, Functions

CONSTANTS
  Slot,         \* connections of clients
  MaxAttempts,  \* _MAX_ATTEMPTS
  RateMax,      \* rate_limit_max
  Window,       \* WINDOW_SECONDS, in ticks
  Lifetime, Second, Ids, Texts, MaxKeywords, Idle, None,
  MaxPairs, MaxRequests, MaxTime, MaxFaults  \* bounds

ASSUME EdgeAssumption ==
  /\ {MaxAttempts, Window, Lifetime, Second} \subseteq Nat \ {0}
  /\ {RateMax, MaxKeywords, MaxPairs, MaxRequests, MaxTime, MaxFaults} \subseteq Nat
  /\ IsFiniteSet(Slot) /\ Slot # {}

Call == Slot \X (1..MaxAttempts)

VARIABLES
  now, call, store, issued, expires, root, black, ended, loggedOut, honoured, disturbed,
  create, rows, raced,
  req,     \* req[s]: Idle, or [st, op, use, bearer, text, window, tries]
  hits,    \* hits[w]: [n, until] of the key of window w
  passed,  \* passed[t]: requests counted at time t, in their own window, as within the maximum
  known,   \* pairs a client holds
  asked, faults

Auth == INSTANCE AuthSessions
Keyword == INSTANCE KeywordApi

authVars == <<now, call, store, issued, expires, root, black, ended, loggedOut, honoured, disturbed>>
keywordVars == <<create, rows, raced>>
gatewayVars == <<req, hits, passed>>
vars == <<authVars, keywordVars, gatewayVars, known, asked, faults>>

Upstream(s) == <<s, req[s].tries>>
At(s, st) == req[s] # Idle /\ req[s].st = st

Requests == [st : {"rate", "expire", "send", "wait"}, op : {"login", "refresh", "logout", "me", "create", "delete"},
             use : Nat, bearer : Nat, text : Texts \cup {None}, window : 0..MaxTime \cup {None}, tries : 0..MaxAttempts]

\* Idle stands for no call, creation or request.
ASSUME IdleAssumption == Idle \notin Auth!Calls /\ Idle \notin Keyword!Creations /\ Idle \notin Requests

TypeOK ==
  /\ Auth!TypeOK /\ Keyword!TypeOK
  /\ req \in [Slot -> {Idle} \cup Requests]
  /\ \A s \in Slot : req[s] # Idle =>
       /\ req[s].use \in 0..issued /\ req[s].bearer \in 0..issued
       /\ req[s].st = "wait" => call[Upstream(s)] # Idle \/ create[Upstream(s)] # Idle
  /\ hits \in [0..MaxTime -> [n : Nat, until : Nat]]
  /\ passed \in [0..MaxTime -> Nat]
  /\ known \subseteq 1..issued
  /\ {asked, faults} \subseteq Nat

Init ==
  /\ Auth!Init /\ Keyword!Init
  /\ req = [s \in Slot |-> Idle]
  /\ hits = [w \in 0..MaxTime |-> [n |-> 0, until |-> 0]]
  /\ passed = [t \in 0..MaxTime |-> 0]
  /\ known = {} /\ asked = 0 /\ faults = 0

Disturbed == faults < MaxFaults /\ faults' = faults + 1

-----------------------------------------------------------------------------
(* Clients *)

\* A slot is free when nothing of its last request runs any more.
Free(s) ==
  /\ req[s] = Idle /\ asked < MaxRequests
  /\ \A k \in 1..MaxAttempts : call[<<s, k>>] = Idle /\ create[<<s, k>>] = Idle

Login(s) ==
  /\ Free(s) /\ issued = 0 /\ \A c \in Call : call[c] = Idle
  /\ Auth!Arrive(<<s, 1>>, "login", 0, 0)
  /\ req' = [req EXCEPT ![s] = [st |-> "wait", op |-> "login", use |-> 0, bearer |-> 0,
                                text |-> None, window |-> None, tries |-> 1]]
  /\ asked' = asked + 1
  /\ UNCHANGED <<keywordVars, hits, passed, known, faults>>

\* A request to auth-service's own port carries its Authorization header.
AskAuth(s) == \E op \in {"refresh", "logout", "me"}, bearer \in known, use \in known \cup {0} :
  /\ Free(s)
  /\ use = 0 <=> op = "me"
  /\ op = "refresh" => use = bearer
  /\ Auth!Arrive(<<s, 1>>, op, use, bearer)
  /\ req' = [req EXCEPT ![s] = [st |-> "wait", op |-> op, use |-> use, bearer |-> bearer,
                                text |-> None, window |-> None, tries |-> 1]]
  /\ asked' = asked + 1
  /\ UNCHANGED <<keywordVars, hits, passed, known, faults>>

\* The gateway's get_current_user and the first lines of rate_limit; a token that
\* has run out is refused there.  The blacklist is not looked at.
AskGateway(s) == \E op \in {"refresh", "logout", "me", "create", "delete"}, bearer \in known, t \in Texts \cup {None} :
  /\ Free(s) /\ Auth!Decodes(bearer)
  /\ (t = None) <=> (op \notin {"create", "delete"})
  /\ req' = [req EXCEPT ![s] = [st |-> "rate", op |-> op, use |-> IF op = "me" THEN 0 ELSE bearer, bearer |-> bearer,
                                text |-> t, window |-> now \div Window, tries |-> 0]]
  /\ asked' = asked + 1
  /\ UNCHANGED <<authVars, keywordVars, hits, passed, known, faults>>

-----------------------------------------------------------------------------
(* The gateway *)

\* INCR of the window's key, which has run out or not.
Counted(w) == IF hits[w].until > now THEN hits[w].n + 1 ELSE 1

\* A key without an expiry: the clock never reaches its end.
Never == MaxTime + Window

\* 429 above the maximum.
Judge(s, n) == req' = [req EXCEPT ![s] = IF n > RateMax THEN Idle ELSE [@ EXCEPT !.st = "send"]]

\* rate_limit, INCR: the first hit has its EXPIRE before it; the key has none until then.
Rate(s) ==
  LET w == req[s].window
      n == Counted(w)
  IN
  /\ At(s, "rate")
  /\ hits' = [hits EXCEPT ![w] = [n |-> n, until |-> IF n = 1 THEN Never ELSE @.until]]
  /\ passed' = IF n <= RateMax /\ now \div Window = w THEN [passed EXCEPT ![now] = @ + 1] ELSE passed
  /\ IF n = 1 THEN req' = [req EXCEPT ![s].st = "expire"] ELSE Judge(s, n)
  /\ UNCHANGED <<authVars, keywordVars, known, asked, faults>>

\* Variant for mutation: the key lives half a window.
ExpireShort(s) ==
  /\ At(s, "expire")
  /\ hits' = [hits EXCEPT ![req[s].window].until = now + Window \div 2]
  /\ Judge(s, 1)
  /\ UNCHANGED <<authVars, keywordVars, passed, known, asked, faults>>

\* rate_limit, EXPIRE.
Expire(s) ==
  /\ At(s, "expire")
  /\ hits' = [hits EXCEPT ![req[s].window].until = now + Window]
  /\ Judge(s, 1)
  /\ UNCHANGED <<authVars, keywordVars, passed, known, asked, faults>>

\* EXPIRE fails: a 500, and the key stays as INCR left it.
ExpireFails(s) ==
  /\ At(s, "expire")
  /\ Disturbed
  /\ req' = [req EXCEPT ![s] = Idle]
  /\ UNCHANGED <<authVars, keywordVars, hits, passed, known, asked>>

\* client.send: the Authorization header stays behind, so that auth-service
\* refuses logout and me.
Send(s) ==
  LET c == <<s, req[s].tries + 1>>
  IN
  /\ At(s, "send")
  /\ req' = [req EXCEPT ![s].st = "wait", ![s].tries = @ + 1]
  /\ \/ /\ req[s].op \in {"refresh", "logout", "me"}
        /\ Auth!Arrive(c, req[s].op, req[s].use, 0)
        /\ UNCHANGED keywordVars
     \/ /\ req[s].op \in {"create", "delete"}
        /\ Keyword!Arrive(c, req[s].op, req[s].text)
        /\ UNCHANGED authVars
  /\ UNCHANGED <<hits, passed, known, asked, faults>>

\* What a gateway request does after a send that failed: the next, or 503.
SendAgain(s) == req' = [req EXCEPT ![s] = IF @.tries < MaxAttempts THEN [@ EXCEPT !.st = "send"] ELSE Idle]

\* ReadTimeout: the handler goes on, its answer is lost.
Timeout(s) ==
  /\ At(s, "wait") /\ req[s].window # None
  /\ Disturbed
  /\ SendAgain(s)
  /\ disturbed' = disturbed \cup Auth!Touches(Upstream(s))
  /\ UNCHANGED <<now, call, store, issued, expires, root, black, ended, loggedOut, honoured,
                 keywordVars, hits, passed, known, asked>>

\* The answer of the send the gateway, or the client itself, waits for.
Answer(s) ==
  LET c == Upstream(s)
  IN
  /\ At(s, "wait")
  /\ \/ /\ call[c] # Idle /\ call[c].pc \in {"ok", "refused"}
        /\ known' = IF call[c].pc = "ok" /\ call[c].made # 0 THEN known \cup {call[c].made} ELSE known
        /\ Auth!Forget(c)
        /\ UNCHANGED keywordVars
     \/ /\ create[c] # Idle /\ create[c].pc \in {"ok", "refused"}
        /\ Keyword!Forget(c)
        /\ UNCHANGED <<authVars, known>>
  /\ req' = [req EXCEPT ![s] = Idle]
  /\ UNCHANGED <<hits, passed, asked, faults>>

\* Variant for mutation: an answer can be dropped while its request waits for it.
DiscardWatched(c) ==
  /\ \/ /\ call[c] # Idle /\ call[c].pc \in {"ok", "refused"}
        /\ Auth!Forget(c) /\ UNCHANGED keywordVars
     \/ /\ create[c] # Idle /\ create[c].pc \in {"ok", "refused"}
        /\ Keyword!Forget(c) /\ UNCHANGED authVars
  /\ UNCHANGED <<gatewayVars, known, asked, faults>>

\* A handler nobody waits for any more has ended.
Discard(c) ==
  /\ ~(At(c[1], "wait") /\ c = Upstream(c[1]))
  /\ \/ /\ call[c] # Idle /\ call[c].pc \in {"ok", "refused"}
        /\ Auth!Forget(c) /\ UNCHANGED keywordVars
     \/ /\ create[c] # Idle /\ create[c].pc \in {"ok", "refused"}
        /\ Keyword!Forget(c) /\ UNCHANGED authVars
  /\ UNCHANGED <<gatewayVars, known, asked, faults>>

-----------------------------------------------------------------------------
Handler(c) ==
  /\ \/ Auth!Step(c) /\ UNCHANGED keywordVars
     \/ Keyword!Step(c) /\ UNCHANGED authVars
  /\ UNCHANGED <<gatewayVars, known, asked, faults>>

HandlerFails(c) ==
  /\ Disturbed
  /\ \/ Auth!Lose(c) /\ UNCHANGED keywordVars
     \/ Keyword!Lose(c) /\ UNCHANGED authVars
  /\ UNCHANGED <<gatewayVars, known, asked>>

RefreshExpires(p) ==
  /\ Disturbed
  /\ Auth!RefreshExpires(p)
  /\ UNCHANGED <<keywordVars, gatewayVars, known, asked>>

Tick ==
  /\ now < MaxTime
  /\ now' = now + 1
  /\ UNCHANGED <<call, store, issued, expires, root, black, ended, loggedOut, honoured, disturbed,
                 keywordVars, gatewayVars, known, asked, faults>>

Next ==
  \/ \E s \in Slot : \/ Login(s) \/ AskAuth(s) \/ AskGateway(s)
                     \/ Rate(s) \/ Expire(s) \/ ExpireFails(s)
                     \/ Send(s) \/ Timeout(s) \/ Answer(s)
  \/ \E c \in Call : Discard(c) \/ Handler(c) \/ HandlerFails(c)
  \/ \E p \in 1..MaxPairs : RefreshExpires(p)
  \/ Tick

Spec == Init /\ [][Next]_vars

-----------------------------------------------------------------------------
\* The plan's limit on keywords and their distinct texts hold at the gateway too,
\* where one POST /keywords may run as MaxAttempts creations: creations that do not
\* overlap never pass it, those that do pass it by less than there are of them.
QuotaHeld == Keyword!QuotaHeld

\* A logout, at either door, lasts: the access token it blacklisted is not accepted
\* again, but for the last second of its life, by whatever handlers run beside it.
LogoutHolds == Auth!LogoutHolds

Passed(ticks) == SumFunctionOnSet(passed, ticks)

\* "Per-user sliding-window rate limiting" (rate_limit.py:1) is a counter per window of
\* the clock: it lets through at most the maximum in each, but a minute lies in two of
\* them and can see twice the maximum, which a window that slid would not allow.  More
\* than that it never lets through, however requests interleave with the edge of the
\* window, with the EXPIRE of its first one and with the end of its key.  (A request
\* that is counted after its window has gone is in no window.)
RateBound ==
  /\ \A w \in 0..MaxTime \div Window : Passed({t \in 0..MaxTime : t \div Window = w}) <= RateMax
  /\ \A t \in 0..MaxTime - Window : Passed(t..t + Window - 1) <= 2 * RateMax

\* A request of the session is under way.
Busy(s) == \E c \in Call : s \in Auth!Touches(c)

\* "rotates the refresh token (old becomes invalid)", "logout deletes it": when no
\* call overlapped another, was lost or sent again, a session has exactly one
\* token in Redis, the client holds it, and a session that was ended has none.
SessionKept ==
  \A s \in known \ disturbed : root[s] = s /\ ~Busy(s) =>
    /\ Cardinality(Auth!Live(s)) = IF s \in ended THEN 0 ELSE 1
    /\ Auth!Live(s) \subseteq known
=============================================================================

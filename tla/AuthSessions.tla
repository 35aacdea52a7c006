---------------------------- MODULE AuthSessions ----------------------------
(***************************************************************************)
(* auth-service: login, refresh, logout and the bearer check of the other  *)
(* endpoints, on the refresh tokens and the blacklist in Redis.  A login   *)
(* or a refresh issues a pair: an access token and a refresh token with    *)
(* one number.  Handlers run concurrently; each step ends at an await.     *)
(***************************************************************************)
EXTENDS Integers, FiniteSets

CONSTANTS
  Call,      \* handler executions
  Idle,      \* the record of a call that does not run
  Lifetime,  \* of an access token, in seconds
  Second,    \* ticks in a second
  MaxPairs   \* bound: pairs issued in a behaviour

VARIABLES
  now,        \* the clock, in ticks
  call,       \* call[c]: Idle, or [pc, op, use, bearer, made, late]
  store,      \* pairs whose refresh token is in Redis
  issued,     \* number of pairs issued
  expires,    \* expires[p]: exp of the access token, in seconds; 0 before it is made
  root,       \* root[p]: the pair of the login that p descends from
  black,      \* black[p]: when the blacklist entry of p runs out
  ended,      \* sessions whose live token a logout deleted
  loggedOut,  \* pairs whose access token a logout has blacklisted
  honoured,   \* pairs accepted after that with a second or more to live
  disturbed   \* sessions with overlapping, lost or resent calls

Pair == 1..MaxPairs
tokenVars == <<store, issued, expires, root, black>>
ghostVars == <<ended, loggedOut, honoured, disturbed>>

\* The refresh tokens of a session that Redis holds.
Live(s) == {p \in store : root[p] = s}

Runs(c) == call[c] # Idle /\ call[c].pc \notin {"ok", "refused"}
\* The sessions whose tokens c presents or issues.
Touches(c) == IF call[c] = Idle THEN {} ELSE {root[p] : p \in {call[c].use, call[c].made} \ {0}}
Works(c, s) == Runs(c) /\ s \in Touches(c)

Calls == [op : {"login", "refresh", "logout", "me"},
          pc : {"check", "rotate", "issue", "reply", "listed", "unstore", "blacklist", "save", "ok", "refused"},
          use : Nat, bearer : Nat, made : Nat, late : BOOLEAN]

TypeOK ==
  /\ now \in Nat
  /\ call \in [Call -> {Idle} \cup Calls]
  /\ \A c \in Call : call[c] # Idle => {call[c].use, call[c].bearer, call[c].made} \subseteq 0..issued
  /\ issued \in 0..MaxPairs
  /\ {store, ended, loggedOut, honoured, disturbed} \subseteq SUBSET (1..issued)
  /\ {expires, root, black} \subseteq [Pair -> Nat]
  /\ \A p \in 1..issued : root[p] \in 1..p /\ root[root[p]] = root[p]

Init ==
  /\ now = 0
  /\ call = [c \in Call |-> Idle]
  /\ store = {} /\ issued = 0
  /\ expires = [p \in Pair |-> 0] /\ root = expires /\ black = expires
  /\ ended = {} /\ loggedOut = {} /\ honoured = {} /\ disturbed = {}

Goto(c, pc) == call' = [call EXCEPT ![c].pc = pc]

-----------------------------------------------------------------------------
(* A request arrives. *)

\* jwt.decode: a token that was issued and has not run out; 0 is no token.
Decodes(p) == p # 0 /\ expires[p] * Second > now

\* exp is cut to whole seconds.
NewExp == now \div Second + Lifetime

\* `bearer` is the Authorization header that reaches the service.  It is decoded
\* before the first await.
Arrive(c, op, use, bearer) ==
  /\ call[c] = Idle
  /\ call' = [call EXCEPT ![c] =
       [op |-> op, use |-> use, bearer |-> bearer, made |-> 0, late |-> bearer \in loggedOut,
        pc |-> CASE op = "login" -> "issue"
                 [] op = "refresh" -> "check"
                 [] OTHER -> IF Decodes(bearer) THEN "listed" ELSE "refused"]]
  /\ disturbed' = disturbed \cup {s \in {root[p] : p \in {use} \ {0}} : \E d \in Call : Works(d, s)}
  /\ UNCHANGED <<now, tokenVars, ended, loggedOut, honoured>>

-----------------------------------------------------------------------------
(* refresh *)

\* refresh reads who the presented token belongs to.
Check(c) ==
  /\ Runs(c) /\ call[c].pc = "check"
  /\ Goto(c, IF call[c].use \in store THEN "rotate" ELSE "refused")
  /\ UNCHANGED <<now, tokenVars, ghostVars>>

\* Variant for mutation: the presented token stays valid.
RotateKeeps(c) ==
  /\ Runs(c) /\ call[c].pc = "rotate"
  /\ Goto(c, "issue")
  /\ UNCHANGED <<now, tokenVars, ghostVars>>

\* "invalidate the presented token": it may be gone already.
Rotate(c) ==
  /\ Runs(c) /\ call[c].pc = "rotate"
  /\ store' = store \ {call[c].use}
  /\ Goto(c, "issue")
  /\ UNCHANGED <<now, issued, expires, root, black, ghostVars>>

\* store_refresh_token; login has made its access token before, refresh makes it after.
\* Its HSET and EXPIRE are two calls but one step: in between, the token, which nobody
\* has been told yet, differs only in having no expiry, and refresh tokens do not run
\* out in the time looked at.
Issue(c) ==
  LET p == issued + 1
      login == call[c].op = "login"
  IN
  /\ Runs(c) /\ call[c].pc = "issue" /\ issued < MaxPairs
  /\ issued' = p
  /\ store' = store \cup {p}
  /\ root' = [root EXCEPT ![p] = IF login THEN p ELSE root[call[c].use]]
  /\ expires' = IF login THEN [expires EXCEPT ![p] = NewExp] ELSE expires
  /\ call' = [call EXCEPT ![c].pc = "reply", ![c].made = p]
  /\ UNCHANGED <<now, black, ghostVars>>

\* login commits last_login_at and answers; refresh creates the access token and answers.
Reply(c) ==
  /\ Runs(c) /\ call[c].pc = "reply"
  /\ expires' = IF call[c].op = "login" THEN expires ELSE [expires EXCEPT ![call[c].made] = NewExp]
  /\ Goto(c, "ok")
  /\ UNCHANGED <<now, store, issued, root, black, ghostVars>>

-----------------------------------------------------------------------------
(* The bearer check of the endpoints that ask for one; logout. *)

Revoked(p) == black[p] > now

\* is_blacklisted, for a token that was decoded.
Listed(c) ==
  LET p == call[c].bearer
  IN
  /\ Runs(c) /\ call[c].pc = "listed"
  /\ Goto(c, IF Revoked(p) THEN "refused" ELSE IF call[c].op = "logout" THEN "unstore" ELSE "save")
  /\ honoured' = IF ~Revoked(p) /\ call[c].late /\ now + Second <= expires[p] * Second
                 THEN honoured \cup {p} ELSE honoured
  /\ UNCHANGED <<now, tokenVars, ended, loggedOut, disturbed>>

\* get_me, and any endpoint like it, answers once the bearer is accepted; the tokens
\* stay as they are.
Save(c) ==
  /\ Runs(c) /\ call[c].pc = "save"
  /\ Goto(c, "ok")
  /\ UNCHANGED <<now, tokenVars, ghostVars>>

\* logout deletes the refresh token of its body, whichever session that is of.
Unstore(c) ==
  LET p == call[c].use
  IN
  /\ Runs(c) /\ call[c].pc = "unstore"
  /\ store' = store \ {p}
  /\ ended' = IF p \in store THEN ended \cup {root[p]} ELSE ended
  /\ Goto(c, "blacklist")
  /\ UNCHANGED <<now, issued, expires, root, black, loggedOut, honoured, disturbed>>

\* int(exp - now): the TTL of the blacklist entry.
Remaining(p) == (expires[p] * Second - now) \div Second

\* Variant for mutation: the entry is written with the TTL in minutes.
BlacklistShort(c) ==
  LET p == call[c].bearer
  IN
  /\ Runs(c) /\ call[c].pc = "blacklist"
  /\ black' = [black EXCEPT ![p] = now + Remaining(p) \div 60]
  /\ loggedOut' = loggedOut \cup {p}
  /\ Goto(c, "ok")
  /\ UNCHANGED <<now, store, issued, expires, root, ended, honoured, disturbed>>

\* blacklist_jti writes nothing when less than a second is left.
Blacklist(c) ==
  LET p == call[c].bearer
  IN
  /\ Runs(c) /\ call[c].pc = "blacklist"
  /\ black' = IF Remaining(p) > 0 THEN [black EXCEPT ![p] = now + Remaining(p) * Second] ELSE black
  /\ loggedOut' = loggedOut \cup {p}
  /\ Goto(c, "ok")
  /\ UNCHANGED <<now, store, issued, expires, root, ended, honoured, disturbed>>

Step(c) == Check(c) \/ Rotate(c) \/ Issue(c) \/ Reply(c) \/ Listed(c) \/ Save(c) \/ Unstore(c) \/ Blacklist(c)

-----------------------------------------------------------------------------
(* The environment *)

\* The process dies, or Redis or the database raises: the call goes no further.
Lose(c) ==
  /\ Runs(c)
  /\ Goto(c, "refused")
  /\ disturbed' = disturbed \cup Touches(c)
  /\ UNCHANGED <<now, tokenVars, ended, loggedOut, honoured>>

\* The TTL of a refresh token: days, against calls of milliseconds.
RefreshExpires(p) ==
  /\ p \in store /\ \A c \in Call : ~Works(c, root[p])
  /\ store' = store \ {p}
  /\ disturbed' = disturbed \cup {root[p]}
  /\ UNCHANGED <<now, call, issued, expires, root, black, ended, loggedOut, honoured>>

Forget(c) ==
  /\ call' = [call EXCEPT ![c] = Idle]
  /\ UNCHANGED <<now, tokenVars, ghostVars>>

-----------------------------------------------------------------------------
\* "logout -> access blacklisted (401)": after a logout auth-service accepts the
\* access token again at most in the last second before it runs out, which the
\* TTL in whole seconds leaves open.
LogoutHolds == honoured = {}
=============================================================================

----------------------------- MODULE WebSession -----------------------------
(***************************************************************************)
(* The session of one browser: the tabs of the web client share the token  *)
(* pair in localStorage, and each tab shares one refresh among its calls   *)
(* (api-client.ts, token-storage.ts, auth-context.tsx).                    *)
(*                                                                         *)
(* Code between two awaits runs as one step: so do the continuations of    *)
(* all calls that await one promise.  Of the API only what the client can  *)
(* tell is kept: which refresh tokens AuthService replaced or revoked.     *)
(***************************************************************************)
EXTENDS Integers, FiniteSets

CONSTANTS Tabs,
          MaxCalls,     \* bound: calls of the tabs, numbered as they begin
          MaxPairs      \* bound: token pairs the API hands out

ASSUME TabsAssumption == Tabs # {}
ASSUME MaxCallsAssumption == MaxCalls \in Nat
ASSUME MaxPairsAssumption == MaxPairs \in Nat \ {0}

VARIABLES
  stored,    \* the pair in localStorage, 0 when there is none
  issued,    \* the refresh tokens of the API, by pair: pairs are numbered from 1
  stale,     \* pairs whose access token the API no longer accepts
  call,      \* each apiFetch, with the pair it read when it began
  renewal,   \* the refreshPromise of each tab
  \* History.
  loggedOut,    \* sessions the user has logged out of
  interrupted,  \* a renewal was dropped by a reload, or crossed a logout
  straggled     \* a renewal ended while others still held what it replaced

vars == <<stored, issued, stale, call, renewal, loggedOut, interrupted, straggled>>

-----------------------------------------------------------------------------
Calls == 1 .. MaxCalls
Pairs == 1 .. MaxPairs
NoPair == 0

\* A session is named by its first pair.
Row == [session: Pairs, state: {"live", "replaced", "revoked"}]

Kinds == {"request", "login", "logout"}
Open == {"sent", "waiting", "resent", "revoked"}

Call == [phase: {"idle", "done"} \cup Open, kind: Kinds, tab: Tabs,
         pair: Pairs \cup {NoPair}]
NoCall == [phase |-> "idle", kind |-> "request", tab |-> CHOOSE t \in Tabs : TRUE,
           pair |-> NoPair]
Ended == [NoCall EXCEPT !.phase = "done"]

\* asked: not yet read by the API; checked: found good, not yet replaced;
\* answered: on its way back, with the new pair or none.
Renewal == [phase: {"none", "asked", "checked", "answered"},
            pair: Pairs \cup {NoPair}, result: Pairs \cup {NoPair}]
NoRenewal == [phase |-> "none", pair |-> NoPair, result |-> NoPair]

Known == DOMAIN issued
Fresh == Cardinality(Known) + 1
Renewing(t) == renewal[t].phase # "none"
OpenCalls == {c \in Calls : call[c].phase \in Open}
WaitingIn(t) == {c \in Calls : call[c].tab = t /\ call[c].phase = "waiting"}
LoggingOut == \E c \in Calls : call[c].kind = "logout" /\ call[c].phase \in Open

Begins(c, t, kind) ==
  /\ call[c].phase = "idle"
  /\ \A b \in 1 .. c - 1 : call[b].phase # "idle"
  /\ call' = [call EXCEPT ![c] = [phase |-> "sent", kind |-> kind, tab |-> t,
                                  pair |-> stored]]

Ends(c) == call' = [call EXCEPT ![c] = Ended]

-----------------------------------------------------------------------------
(* Calls *)

\* apiFetch reads the tokens, then fetches.
Request(c, t) ==
  /\ Begins(c, t, "request")
  /\ UNCHANGED <<stored, issued, stale, renewal, loggedOut, interrupted, straggled>>

Login(c, t) ==
  /\ Begins(c, t, "login")
  /\ UNCHANGED <<stored, issued, stale, renewal, loggedOut, interrupted, straggled>>

\* Any answer but a 401, or none at all: the call ends, and with it a login
\* that was refused without tokens.
Answered(c) ==
  /\ call[c].kind # "logout"
  /\ call[c].phase \in {"sent", "resent"}
  /\ Ends(c)
  /\ UNCHANGED <<stored, issued, stale, renewal, loggedOut, interrupted, straggled>>

LoggedIn(c) ==
  /\ call[c].kind = "login"
  /\ call[c].phase \in {"sent", "resent"}
  /\ Fresh \in Pairs
  /\ issued' = [p \in Known \cup {Fresh} |->
                  IF p = Fresh THEN [session |-> p, state |-> "live"] ELSE issued[p]]
  /\ stored' = Fresh
  /\ Ends(c)
  /\ UNCHANGED <<stale, renewal, loggedOut, interrupted, straggled>>

\* Mutant: every call makes a refresh of its own.
OwnRenewal(t, p) ==
  [renewal EXCEPT ![t] = [phase |-> "asked", pair |-> p, result |-> NoPair]]

\* refreshTokens: the promise there is, or a new one.
SharedRenewal(t, p) ==
  IF Renewing(t) THEN renewal
  ELSE [renewal EXCEPT ![t] = [phase |-> "asked", pair |-> p, result |-> NoPair]]

\* A 401 to a call that carried tokens: the access token is stale, or the
\* password of a login is wrong.
Unauthorized(c) ==
  LET t == call[c].tab
      p == call[c].pair
  IN  /\ call[c].phase = "sent" /\ call[c].kind # "logout"
      /\ p # NoPair
      /\ p \in stale \/ call[c].kind = "login"
      /\ call' = [call EXCEPT ![c].phase = "waiting"]
      /\ renewal' = SharedRenewal(t, p)
      /\ interrupted' = (interrupted \/ LoggingOut)
      /\ straggled' = (straggled \/ \E u \in Tabs \ {t} : renewal[u].pair = p)
      /\ UNCHANGED <<stored, issued, stale, loggedOut>>

\* A 401 to the retry: forceLogout.
UnauthorizedAgain(c) ==
  /\ call[c].phase = "resent"
  /\ call[c].pair # NoPair
  /\ call[c].pair \in stale \/ call[c].kind = "login"
  /\ stored' = NoPair
  /\ Ends(c)
  /\ UNCHANGED <<issued, stale, renewal, loggedOut, interrupted, straggled>>

-----------------------------------------------------------------------------
(* Refresh *)

\* AuthService.refresh reads the row of the token.
Check(t) ==
  LET p == renewal[t].pair
  IN  /\ renewal[t].phase = "asked"
      /\ renewal' = [renewal EXCEPT ![t].phase =
                       IF issued[p].state = "live" THEN "checked" ELSE "answered"]
      /\ UNCHANGED <<stored, issued, stale, call, loggedOut, interrupted, straggled>>

\* It replaces the token by a new one of the same session.
Rotate(t) ==
  LET p == renewal[t].pair
  IN  /\ renewal[t].phase = "checked"
      /\ Fresh \in Pairs
      /\ issued' = [q \in Known \cup {Fresh} |->
                      CASE q = Fresh -> [session |-> issued[p].session, state |-> "live"]
                        [] q = p /\ issued[p].state = "live" ->
                             [issued[p] EXCEPT !.state = "replaced"]
                        [] OTHER -> issued[q]]
      /\ renewal' = [renewal EXCEPT ![t].phase = "answered", ![t].result = Fresh]
      /\ UNCHANGED <<stored, stale, call, loggedOut, interrupted, straggled>>

\* Calls that have read the pair and will not learn of its replacement.
Stragglers(t) ==
  {c \in OpenCalls : call[c].pair = renewal[t].pair /\ c \notin WaitingIn(t)}

\* The calls that wait for the promise of a tab go on with what is stored now.
Resumed(t) ==
  [c \in Calls |-> IF c \in WaitingIn(t)
                   THEN [call[c] EXCEPT !.phase = "resent", !.pair = stored']
                   ELSE call[c]]

\* Mutant: a refusal is not passed on to the calls that wait.
FailedSilently(t) == call

Failed(t) == [c \in Calls |-> IF c \in WaitingIn(t) THEN Ended ELSE call[c]]

\* Mutant: the refresh token that was presented is kept.
KeepsPresented(t) == renewal[t].pair

Kept(t) == renewal[t].result

\* doRefresh stores the new pair; every call that waited retries with it.
Renewed(t) ==
  /\ renewal[t].phase = "answered" /\ renewal[t].result # NoPair
  /\ stored' = Kept(t)
  /\ call' = Resumed(t)
  /\ renewal' = [renewal EXCEPT ![t] = NoRenewal]
  /\ straggled' = (straggled \/ Stragglers(t) # {})
  /\ UNCHANGED <<issued, stale, loggedOut, interrupted>>

\* The refresh is refused, now or by an expired token, or lost on its way:
\* every call that waited forces a logout.
NotRenewed(t) ==
  /\ Renewing(t)
  /\ stored' = NoPair
  /\ call' = Failed(t)
  /\ renewal' = [renewal EXCEPT ![t] = NoRenewal]
  /\ straggled' = (straggled \/ Stragglers(t) # {})
  /\ UNCHANGED <<issued, stale, loggedOut, interrupted>>

-----------------------------------------------------------------------------
(* Logout, and what happens to a browser *)

Logout(c, t) ==
  /\ stored # NoPair
  /\ Begins(c, t, "logout")
  /\ interrupted' = (interrupted \/ \E u \in Tabs : Renewing(u))
  /\ UNCHANGED <<stored, issued, stale, renewal, loggedOut, straggled>>

\* AuthService.logout revokes what is live of the session.
RevokeSession(c) ==
  LET s == issued[call[c].pair].session
  IN  /\ call[c].kind = "logout" /\ call[c].phase = "sent"
      /\ issued' = [p \in Known |->
                      IF issued[p].session = s /\ issued[p].state = "live"
                      THEN [issued[p] EXCEPT !.state = "revoked"] ELSE issued[p]]
      /\ call' = [call EXCEPT ![c].phase = "revoked"]
      /\ UNCHANGED <<stored, stale, renewal, loggedOut, interrupted, straggled>>

\* Mutant: the API is told, and the tokens are kept.
ForgetNothing(c) == stored

Forget(c) == NoPair

\* Whether the API was reached or not, the client drops its tokens.
LoggedOut(c) ==
  /\ call[c].kind = "logout" /\ call[c].phase \in {"sent", "revoked"}
  /\ stored' = Forget(c)
  /\ loggedOut' = loggedOut \cup {issued[call[c].pair].session}
  /\ interrupted' = (interrupted \/ call[c].phase = "sent")
  /\ Ends(c)
  /\ UNCHANGED <<issued, stale, renewal, straggled>>

\* A tab is reloaded or closed: its calls and its promise are gone.
Reload(t) ==
  LET lost == {c \in OpenCalls : call[c].tab = t}
  IN  /\ lost # {}
      /\ call' = [c \in Calls |-> IF c \in lost THEN Ended ELSE call[c]]
      /\ renewal' = [renewal EXCEPT ![t] = NoRenewal]
      /\ interrupted' = \/ interrupted \/ Renewing(t)
                        \/ \E c \in lost : call[c].kind = "logout"
      /\ straggled' = (straggled \/ Renewing(t))
      /\ UNCHANGED <<stored, issued, stale, loggedOut>>

\* An access token that is in the browser expires, or the permissions it
\* carries change.
Expire(p) ==
  /\ p \in Known \ stale
  /\ p = stored \/ \E c \in Calls : p = call[c].pair
  /\ stale' = stale \cup {p}
  /\ UNCHANGED <<stored, issued, call, renewal, loggedOut, interrupted, straggled>>

-----------------------------------------------------------------------------

\* A browser whose user has logged in.
Init ==
  /\ stored = 1
  /\ issued = [p \in {1} |-> [session |-> p, state |-> "live"]]
  /\ stale = {}
  /\ call = [c \in Calls |-> NoCall]
  /\ renewal = [t \in Tabs |-> NoRenewal]
  /\ loggedOut = {} /\ interrupted = FALSE /\ straggled = FALSE

Begin(c) == \E t \in Tabs : Request(c, t) \/ Login(c, t) \/ Logout(c, t)

Reply(c) == \/ Answered(c) \/ LoggedIn(c) \/ LoggedOut(c)
            \/ Unauthorized(c) \/ UnauthorizedAgain(c)

Settle(t) == Renewed(t) \/ NotRenewed(t)

Next ==
  \/ \E c \in Calls : Begin(c) \/ Reply(c) \/ RevokeSession(c)
  \/ \E t \in Tabs : Check(t) \/ Rotate(t) \/ Settle(t) \/ Reload(t)
  \/ \E p \in Pairs : Expire(p)

Spec == Init /\ [][Next]_vars

\* A fetch settles: the browser answers it, if only with an error.
FairSpec ==
  /\ Spec
  /\ \A c \in Calls : WF_vars(Reply(c))
  /\ \A t \in Tabs : WF_vars(Settle(t))

-----------------------------------------------------------------------------
(* Properties *)

\* Every variable keeps its type; a call waits only for a promise of its tab.
TypeOK ==
  /\ Known \subseteq Pairs /\ issued \in [Known -> Row] /\ stale \subseteq Known
  /\ stored \in Known \cup {NoPair}
  /\ call \in [Calls -> Call] /\ renewal \in [Tabs -> Renewal]
  /\ loggedOut \subseteq Pairs
  /\ interrupted \in BOOLEAN /\ straggled \in BOOLEAN
  /\ \A t \in Tabs : WaitingIn(t) # {} => Renewing(t)

\* "elas precisam compartilhar UMA única chamada de refresh": no refresh presents
\* a token that one has replaced, as long as every call that held it waited.
PresentsNothingReplaced ==
  ~straggled =>
    \A t \in Tabs : renewal[t].phase = "asked" =>
                      issued[renewal[t].pair].state # "replaced"

\* When nothing is in flight, what the browser keeps is good for a refresh: the
\* rotation of the API and the storage of all tabs end up in step.  (With the types,
\* and with PresentsNothingReplaced.)
KeepsALiveToken ==
  /\ TypeOK /\ PresentsNothingReplaced
  /\ ~interrupted /\ OpenCalls = {} /\ stored # NoPair =>
       issued[stored].state = "live"

\* A session the user has logged out of does not come back, in any tab.
LogoutIsFinal ==
  ~interrupted /\ stored # NoPair => issued[stored].session \notin loggedOut

\* Every call ends: nobody waits for a promise that is never settled, and no
\* retry is retried for ever.
EveryCallEnds ==
  \A c \in Calls : call[c].phase \in Open ~> call[c].phase = "done"
=============================================================================

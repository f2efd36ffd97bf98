-------------------------- MODULE WebSessionProofs --------------------------
(***************************************************************************)
(* Proofs about the session of a browser: that the tabs end up with a good *)
(* token, and that a logout is final, for any number of tabs and calls.    *)
(*                                                                         *)
(* The two hold by what a step knows of the promises in flight: a new pair *)
(* is nobody's until its renewal settles (Secret), no renewal runs while a *)
(* logout does (LogoutInv), and whoever holds a replaced pair shares the   *)
(* promise that replaced it (RefreshInv).                                  *)
(*                                                                         *)
(* And about its pages: that what a page shows includes every act of its   *)
(* own the user was told the success of, for any number of acts that       *)
(* overlap.  That rests on a fact of the pages (PagesServe) and on what    *)
(* the answer or the fetch that is on its way has seen (CacheInvariant).   *)
(***************************************************************************)
EXTENDS WebSession, PageCache, FiniteSetTheorems, TLAPS

-----------------------------------------------------------------------------
(* The inductive invariant *)

\* The pairs are numbered as they are handed out, and whatever is held is known;
\* a promise is there exactly while calls wait for it.
Shape ==
  /\ TypeOK
  /\ \E n \in Nat : Known = 1 .. n
  /\ loggedOut \subseteq Known
  /\ \A p \in Known : issued[p].session \in Known
  /\ \A c \in Calls :
       /\ call[c].pair \in Known \cup {NoPair}
       /\ call[c].phase \in {"idle", "done"} => call[c].pair = NoPair
       /\ call[c].kind = "logout" /\ call[c].phase \in Open => call[c].pair \in Known
       /\ call[c].phase = "revoked" => call[c].kind = "logout"
  /\ \A t \in Tabs :
       /\ renewal[t].result \in Known \cup {NoPair}
       /\ renewal[t].phase # "answered" => renewal[t].result = NoPair
       /\ IF Renewing(t) THEN renewal[t].pair \in Known /\ WaitingIn(t) # {}
          ELSE renewal[t].pair = NoPair

\* A new pair that is on its way back is known to its promise alone.
Secret ==
  \A t \in Tabs :
    LET new == renewal[t].result
    IN  new # NoPair =>
          /\ issued[new].state # "replaced"
          /\ new # stored
          /\ \A c \in Calls : call[c].pair # new
          /\ \A u \in Tabs : renewal[u].pair # new /\ (u # t => renewal[u].result # new)

Live(p) == issued[p].state = "live"
LoggedOutOf(p) == issued[p].session \in loggedOut

\* What a revoked session leaves, and how far what is stored may be from good.
LogoutInv ==
  /\ LoggingOut => \A t \in Tabs : ~Renewing(t)
  /\ \A p \in Known : Live(p) => ~LoggedOutOf(p)
  /\ \A c \in Calls : call[c].phase = "revoked" =>
       \A p \in Known : issued[p].session = issued[call[c].pair].session => ~Live(p)
  /\ \A t \in Tabs :
       /\ renewal[t].phase = "checked" => ~LoggedOutOf(renewal[t].pair)
       /\ renewal[t].result # NoPair => Live(renewal[t].result)
  /\ stored # NoPair =>
       /\ ~LoggedOutOf(stored)
       /\ \/ Live(stored)
          \/ \E t \in Tabs : renewal[t].result # NoPair
          \/ \E c \in Calls : call[c].phase = "revoked"

Replaced(p) == p # NoPair /\ issued[p].state = "replaced"
Promised(p) == \E u \in Tabs : renewal[u].pair = p

\* A pair that has been replaced and may still be presented is that of a promise,
\* and of one promise.
RefreshInv ==
  /\ \A c \in Calls : call[c].phase = "sent" /\ Replaced(call[c].pair) => Promised(call[c].pair)
  /\ Replaced(stored) => Promised(stored)
  /\ \A t, u \in Tabs :
       t # u /\ Renewing(t) /\ Renewing(u) => renewal[t].pair # renewal[u].pair
  /\ \A t \in Tabs : renewal[t].phase = "asked" => ~Replaced(renewal[t].pair)

IInv ==
  /\ Shape /\ Secret
  /\ ~interrupted => LogoutInv
  /\ ~straggled => RefreshInv

-----------------------------------------------------------------------------
(* What the types say *)

LEMMA Constants == NoPair \notin Pairs /\ Calls \subseteq Nat /\ Pairs \subseteq Nat
BY MaxCallsAssumption, MaxPairsAssumption DEF NoPair, Pairs, Calls

\* The next number has not been handed out.
LEMMA FreshIsNew ==
  ASSUME Shape
  PROVE  /\ Fresh \notin Known /\ Fresh # NoPair
         /\ Fresh \in Pairs => \E n \in Nat : Known \cup {Fresh} = 1 .. n
<1>1. PICK n \in Nat : Known = 1 .. n
  BY DEF Shape
<1>2. Fresh = n + 1
  <2>1. Cardinality(1 .. n) = n
    BY FS_Interval
  <2>. QED BY <1>1, <2>1 DEF Fresh
<1>3. Known \cup {Fresh} = 1 .. (n + 1)
  BY <1>1, <1>2
<1>. QED BY <1>1, <1>2, <1>3 DEF NoPair

\* A call and a promise are records of their fields.
LEMMA Fields ==
  ASSUME Shape
  PROVE  /\ \A c \in Calls : call[c] \in Call
         /\ \A t \in Tabs : renewal[t] \in Renewal
         /\ \A p \in Known : issued[p] \in Row /\ p # NoPair
BY Constants DEF Shape, TypeOK, Known

\* What is left of a call that has ended.
LEMMA EndedIsCall ==
  ASSUME Shape, NEW c \in Calls
  PROVE  /\ Ended \in Call /\ Ended.phase = "done" /\ Ended.pair = NoPair
         /\ Ended.kind = "request"
<1>1. call[c].tab \in Tabs
  BY Fields DEF Call
<1>2. (CHOOSE t \in Tabs : TRUE) \in Tabs
  BY <1>1
<1>. QED BY <1>2 DEF Ended, NoCall, Call, Kinds

-----------------------------------------------------------------------------
(* Calls that begin and end *)

\* A call that begins carries what is stored; nothing else changes.
LEMMA BeginsKeeps ==
  ASSUME IInv, NEW c \in Calls, NEW t \in Tabs, NEW kind \in Kinds, Begins(c, t, kind),
         kind = "logout" => stored # NoPair,
         UNCHANGED <<stored, issued, stale, renewal, loggedOut, straggled>>,
         interrupted' \in BOOLEAN, interrupted => interrupted',
         kind = "logout" /\ (\E u \in Tabs : Renewing(u)) => interrupted'
  PROVE  IInv'
<1>1. /\ call[c].phase = "idle"
      /\ call' = [call EXCEPT ![c] = [phase |-> "sent", kind |-> kind, tab |-> t,
                                      pair |-> stored]]
  BY DEF Begins
<1>2. Shape /\ Secret
  BY DEF IInv
<1>3. /\ call'[c] = [phase |-> "sent", kind |-> kind, tab |-> t, pair |-> stored]
      /\ \A b \in Calls \ {c} : call'[b] = call[b]
      /\ call'[c] \in Call /\ call' \in [Calls -> Call]
  BY <1>1, <1>2 DEF Shape, TypeOK, Call, Open
<1>4. Shape'
  <2>1. \A u \in Tabs : WaitingIn(u)' = WaitingIn(u)
    BY <1>1, <1>3 DEF WaitingIn
  <2>2. TypeOK'
    BY <1>2, <1>3, <2>1 DEF Shape, TypeOK, Known, Renewing
  <2>. QED BY <1>2, <1>3, <2>1, <2>2 DEF Shape, Known, Renewing, TypeOK, Open
<1>5. Secret'
  BY <1>2, <1>3 DEF Secret
<1>6. ASSUME ~interrupted'
      PROVE  LogoutInv'
  <2>1. LogoutInv
    BY <1>6 DEF IInv
  <2>2. LoggingOut' => (LoggingOut \/ kind = "logout")
    BY <1>3 DEF LoggingOut
  <2>3. \A b \in Calls : call'[b].phase = "revoked" <=> call[b].phase = "revoked"
    BY <1>1, <1>3
  <2>. QED BY <1>3, <1>6, <2>1, <2>2, <2>3 DEF LogoutInv, Live, LoggedOutOf, Renewing, Known
<1>7. ASSUME ~straggled'
      PROVE  RefreshInv'
  BY <1>3, <1>7 DEF IInv, RefreshInv, Replaced, Promised, Renewing
<1>. QED BY <1>4, <1>5, <1>6, <1>7 DEF IInv

\* A call that waits for nothing ends: the tokens may be dropped with it.
LEMMA EndsKeeps ==
  ASSUME IInv, NEW c \in Calls, call[c].phase \in {"sent", "resent"}, Ends(c),
         stored' \in {stored, NoPair},
         UNCHANGED <<issued, stale, renewal, loggedOut, interrupted, straggled>>
  PROVE  IInv'
<1>1. Shape /\ Secret
  BY DEF IInv
<1>2. /\ call'[c] = Ended /\ Ended.phase = "done" /\ Ended.pair = NoPair
      /\ Ended.kind = "request"
      /\ \A b \in Calls \ {c} : call'[b] = call[b]
  BY <1>1, EndedIsCall DEF Ends, Shape, TypeOK
<1>3. Shape'
  <2>1. \A u \in Tabs : WaitingIn(u)' = WaitingIn(u)
    BY <1>2 DEF WaitingIn
  <2>2. call' \in [Calls -> Call]
    BY <1>1, EndedIsCall DEF Ends, Shape, TypeOK
  <2>3. TypeOK'
    BY <1>1, <2>1, <2>2 DEF Shape, TypeOK, Known, Renewing
  <2>. QED BY <1>1, <1>2, <2>1, <2>3 DEF Shape, Known, Renewing, Open
<1>4. Secret'
  BY <1>1, <1>2, Fields DEF Secret, Shape
<1>5. ASSUME ~interrupted'
      PROVE  LogoutInv'
  <2>1. LogoutInv
    BY <1>5 DEF IInv
  <2>2. LoggingOut' => LoggingOut
    BY <1>2 DEF LoggingOut, Open
  <2>3. \A b \in Calls : call'[b].phase = "revoked" => call[b] = call'[b]
    BY <1>2
  <2>4. \A b \in Calls : call[b].phase = "revoked" => call'[b] = call[b]
    BY <1>2
  <2>. QED BY <2>1, <2>2, <2>3, <2>4 DEF LogoutInv, Live, LoggedOutOf, Renewing, Known
<1>6. ASSUME ~straggled'
      PROVE  RefreshInv'
  BY <1>2, <1>6 DEF IInv, RefreshInv, Replaced, Promised, Renewing
<1>. QED BY <1>3, <1>4, <1>5, <1>6 DEF IInv

-----------------------------------------------------------------------------
(* Login *)

LEMMA LoggedInKeeps ==
  ASSUME IInv, NEW c \in Calls, LoggedIn(c)
  PROVE  IInv'
<1>1. Shape /\ Secret
  BY DEF IInv
<1>2. /\ call'[c] = Ended /\ Ended.phase = "done" /\ Ended.pair = NoPair
      /\ Ended.kind = "request"
      /\ \A b \in Calls \ {c} : call'[b] = call[b]
      /\ call[c].phase \in {"sent", "resent"} /\ call[c].kind = "login"
  BY <1>1, EndedIsCall DEF LoggedIn, Ends, Shape, TypeOK
<1>3. /\ Fresh \in Pairs /\ Fresh \notin Known /\ Fresh # NoPair
      /\ \E n \in Nat : Known \cup {Fresh} = 1 .. n
  BY <1>1, FreshIsNew DEF LoggedIn
<1>. DEFINE new == Fresh
<1>4. /\ Known' = Known \cup {new} /\ stored' = new
      /\ issued'[new] = [session |-> new, state |-> "live"]
      /\ \A p \in Known : issued'[p] = issued[p]
      /\ issued' = [p \in Known \cup {new} |-> issued'[p]]
      /\ UNCHANGED <<stale, renewal, loggedOut, interrupted, straggled>>
  BY <1>3 DEF LoggedIn, Known
<1>. HIDE DEF new
<1>5. Shape'
  <2>1. \A u \in Tabs : WaitingIn(u)' = WaitingIn(u)
    BY <1>2 DEF WaitingIn
  <2>2. call' \in [Calls -> Call]
    BY <1>1, EndedIsCall DEF LoggedIn, Ends, Shape, TypeOK
  <2>3. issued' \in [Known' -> Row]
    BY <1>1, <1>3, <1>4, Fields DEF new, Row
  <2>4. TypeOK'
    BY <1>1, <1>3, <1>4, <2>1, <2>2, <2>3 DEF new, Shape, TypeOK, Renewing
  <2>. QED BY <1>1, <1>2, <1>3, <1>4, <2>1, <2>4 DEF new, Shape, Renewing, Open
<1>6. Secret'
  BY <1>1, <1>2, <1>3, <1>4 DEF new, Secret, Shape
<1>7. ASSUME ~interrupted'
      PROVE  LogoutInv'
  <2>1. LogoutInv
    BY <1>4, <1>7 DEF IInv
  <2>2. LoggingOut' => LoggingOut
    BY <1>2 DEF LoggingOut, Open
  <2>3. \A b \in Calls : call'[b].phase = "revoked" =>
           call[b] = call'[b] /\ call[b].pair \in Known
    BY <1>1, <1>2 DEF Shape, Open
  <2>4. new \notin loggedOut /\ new \notin Known /\ new # NoPair
    BY <1>1, <1>3 DEF new, Shape
  <2>5. \A p \in Known : issued[p].session \in Known
    BY <1>1 DEF Shape
  <2>6. \A t \in Tabs : /\ renewal[t].phase = "checked" => renewal[t].pair \in Known
                        /\ renewal[t].result \in Known \cup {NoPair}
    BY <1>1 DEF Shape, Renewing
  <2>7. \A p \in Known' : Live(p)' => ~LoggedOutOf(p)'
    BY <1>4, <2>1, <2>4, <2>5 DEF LogoutInv, Live, LoggedOutOf
  <2>8. ASSUME NEW b \in Calls, call'[b].phase = "revoked", NEW p \in Known',
               issued'[p].session = issued'[call'[b].pair].session
        PROVE  ~Live(p)'
    BY <1>4, <2>1, <2>3, <2>4, <2>5, <2>8 DEF LogoutInv, Live
  <2>9. ASSUME NEW t \in Tabs
        PROVE  /\ renewal[t].phase = "checked" => issued'[renewal[t].pair].session \notin loggedOut
               /\ renewal[t].result # NoPair => issued'[renewal[t].result].state = "live"
    <3>1. /\ renewal[t].phase = "checked" => issued[renewal[t].pair].session \notin loggedOut
          /\ renewal[t].result # NoPair => issued[renewal[t].result].state = "live"
      BY <2>1 DEF LogoutInv, Live, LoggedOutOf
    <3>2. /\ renewal[t].phase = "checked" =>
               issued'[renewal[t].pair] = issued[renewal[t].pair]
          /\ renewal[t].result # NoPair =>
               issued'[renewal[t].result] = issued[renewal[t].result]
      BY <1>4, <2>6
    <3>. QED BY <3>1, <3>2
  <2>10. issued'[new].session \notin loggedOut /\ issued'[new].state = "live"
    BY <1>4, <2>4
  <2>11. (LoggingOut => \A t \in Tabs : ~Renewing(t))'
    BY <1>4, <2>1, <2>2 DEF LogoutInv, Renewing
  <2>. QED BY <1>4, <2>7, <2>8, <2>9, <2>10, <2>11 DEF LogoutInv, Live, LoggedOutOf
<1>8. ASSUME ~straggled'
      PROVE  RefreshInv'
  <2>1. RefreshInv
    BY <1>4, <1>8 DEF IInv
  <2>2. \A b \in Calls : call[b].pair \in Known \cup {NoPair}
    BY <1>1 DEF Shape
  <2>3. \A t \in Tabs : renewal[t].pair \in Known \cup {NoPair}
    BY <1>1 DEF Shape
  <2>. QED BY <1>2, <1>3, <1>4, <2>1, <2>2, <2>3
           DEF RefreshInv, Replaced, Promised, Renewing
<1>. QED BY <1>5, <1>6, <1>7, <1>8 DEF IInv

-----------------------------------------------------------------------------
(* A refresh *)

\* A call that is refused waits for the promise of its tab, or for a new one.
LEMMA UnauthorizedKeeps ==
  ASSUME IInv, NEW c \in Calls, Unauthorized(c)
  PROVE  IInv'
<1>1. Shape /\ Secret
  BY DEF IInv
<1>2. PICK t \in Tabs, p \in Known \cup {NoPair} : t = call[c].tab /\ p = call[c].pair
  BY <1>1, Fields DEF Shape, Call
<1>3. /\ call[c].phase = "sent" /\ call[c].kind # "logout" /\ p \in Known /\ p # NoPair
      /\ call' = [call EXCEPT ![c].phase = "waiting"]
      /\ renewal' = SharedRenewal(t, p)
      /\ interrupted' = (interrupted \/ LoggingOut)
      /\ straggled' = (straggled \/ \E u \in Tabs \ {t} : renewal[u].pair = p)
      /\ UNCHANGED <<stored, issued, stale, loggedOut>> /\ Known' = Known
  BY <1>2 DEF Unauthorized, Known
<1>4. /\ call'[c] = [call[c] EXCEPT !.phase = "waiting"]
      /\ call'[c] \in Call /\ call' \in [Calls -> Call]
      /\ call'[c].phase = "waiting" /\ call'[c].kind = call[c].kind
      /\ call'[c].tab = t /\ call'[c].pair = p
      /\ \A b \in Calls \ {c} : call'[b] = call[b]
  BY <1>2, <1>1, <1>3, Fields DEF Shape, TypeOK, Call, Open
<1>5. /\ \A u \in Tabs \ {t} : renewal'[u] = renewal[u]
      /\ Renewing(t) => renewal'[t] = renewal[t]
      /\ ~Renewing(t) => renewal'[t] = [phase |-> "asked", pair |-> p, result |-> NoPair]
      /\ renewal' \in [Tabs -> Renewal]
  BY <1>1, <1>3 DEF SharedRenewal, Shape, TypeOK, Renewal
<1>6. /\ c \in WaitingIn(t)' /\ Renewing(t)'
      /\ \A u \in Tabs : WaitingIn(u) \subseteq WaitingIn(u)'
      /\ \A u \in Tabs \ {t} : WaitingIn(u)' = WaitingIn(u) /\ Renewing(u)' = Renewing(u)
  BY <1>3, <1>4, <1>5 DEF WaitingIn, Renewing
<1>7. Shape'
  <2>1. TypeOK'
    <3>1. interrupted' \in BOOLEAN /\ straggled' \in BOOLEAN
      BY <1>1, <1>3 DEF LoggingOut, Shape, TypeOK
    <3>2. \A u \in Tabs : WaitingIn(u)' # {} => Renewing(u)'
      BY <1>1, <1>6 DEF Shape, TypeOK
    <3>. QED BY <1>1, <1>3, <1>4, <1>5, <3>1, <3>2 DEF Shape, TypeOK
  <2>2. \A b \in Calls :
          /\ call'[b].pair \in Known \cup {NoPair}
          /\ call'[b].phase \in {"idle", "done"} => call'[b].pair = NoPair
          /\ call'[b].kind = "logout" /\ call'[b].phase \in Open => call'[b].pair \in Known
          /\ call'[b].phase = "revoked" => call'[b].kind = "logout"
    BY <1>1, <1>3, <1>4 DEF Shape
  <2>3. \A u \in Tabs :
          /\ renewal'[u].result \in Known \cup {NoPair}
          /\ renewal'[u].phase # "answered" => renewal'[u].result = NoPair
          /\ IF Renewing(u)' THEN renewal'[u].pair \in Known /\ WaitingIn(u)' # {}
             ELSE renewal'[u].pair = NoPair
    <3>1. ASSUME NEW u \in Tabs \ {t}
          PROVE  /\ renewal'[u] = renewal[u] /\ Renewing(u)' = Renewing(u)
                 /\ WaitingIn(u)' = WaitingIn(u)
      BY <1>5, <1>6
    <3>2. CASE Renewing(t)
      BY <1>1, <1>5, <1>6, <3>1, <3>2 DEF Shape
    <3>3. CASE ~Renewing(t)
      BY <1>1, <1>3, <1>5, <1>6, <3>1, <3>3 DEF Shape
    <3>. QED BY <3>2, <3>3
  <2>. QED BY <1>1, <1>3, <2>1, <2>2, <2>3 DEF Shape
<1>8. Secret'
  BY <1>1, <1>3, <1>4, <1>5 DEF Secret
<1>9. ASSUME ~interrupted'
      PROVE  LogoutInv'
  <2>1. LogoutInv /\ ~LoggingOut
    BY <1>3, <1>9 DEF IInv
  <2>2. ~LoggingOut'
    BY <1>3, <1>4, <2>1 DEF LoggingOut, Open
  <2>3. \A b \in Calls : /\ call'[b].phase = "revoked" => call'[b] = call[b]
                         /\ call[b].phase = "revoked" => call'[b] = call[b]
    BY <1>3, <1>4
  <2>4. ASSUME NEW u \in Tabs
        PROVE  \/ renewal'[u] = renewal[u]
               \/ /\ renewal'[u].phase = "asked"
                  /\ renewal'[u].result = NoPair /\ renewal[u].result = NoPair
    <3>1. ~Renewing(u) => renewal[u].result = NoPair
      BY <1>1 DEF Shape, Renewing
    <3>2. CASE u = t /\ ~Renewing(t)
      BY <1>5, <3>1, <3>2
    <3>. QED BY <1>5, <3>2
  <2>. QED BY <1>3, <2>1, <2>2, <2>3, <2>4 DEF LogoutInv, Live, LoggedOutOf
<1>10. ASSUME ~straggled'
      PROVE  RefreshInv'
  <2>1. RefreshInv /\ \A u \in Tabs \ {t} : renewal[u].pair # p
    BY <1>3, <1>10 DEF IInv
  <2>2. ~Renewing(t) => renewal[t].pair = NoPair /\ ~Replaced(p)
    BY <1>2, <1>1, <1>3, <2>1 DEF Shape, RefreshInv, Promised
  <2>3. \A q : Replaced(q) /\ Promised(q) => Promised(q)'
    BY <1>3, <1>5, <2>2 DEF Promised, Replaced
  <2>4. \A q : Replaced(q)' = Replaced(q)
    BY <1>3 DEF Replaced
  <2>. QED BY <1>3, <1>4, <1>5, <1>6, <2>1, <2>2, <2>3, <2>4 DEF RefreshInv
<1>. QED BY <1>7, <1>8, <1>9, <1>10 DEF IInv

LEMMA CheckKeeps ==
  ASSUME IInv, NEW t \in Tabs, Check(t)
  PROVE  IInv'
<1>1. Shape /\ Secret
  BY DEF IInv
<1>2. /\ renewal[t].phase = "asked" /\ renewal[t].pair \in Known
      /\ renewal' = [renewal EXCEPT ![t].phase =
                       IF Live(renewal[t].pair) THEN "checked" ELSE "answered"]
      /\ UNCHANGED <<stored, issued, stale, call, loggedOut, interrupted, straggled>>
      /\ Known' = Known
  BY <1>1 DEF Check, Live, Shape, Renewing, Known
<1>3. /\ \A u \in Tabs : /\ renewal'[u].pair = renewal[u].pair
                         /\ renewal'[u].result = renewal[u].result
                         /\ Renewing(u)' = Renewing(u)
      /\ \A u \in Tabs \ {t} : renewal'[u] = renewal[u]
      /\ renewal'[t].phase = IF Live(renewal[t].pair) THEN "checked" ELSE "answered"
      /\ renewal' \in [Tabs -> Renewal]
  BY <1>1, <1>2, Fields DEF Shape, TypeOK, Renewing, Renewal
<1>4. \A u \in Tabs : WaitingIn(u)' = WaitingIn(u)
  BY <1>2 DEF WaitingIn
<1>5. Shape'
  <2>1. TypeOK'
    BY <1>1, <1>2, <1>3, <1>4 DEF Shape, TypeOK
  <2>. QED BY <1>1, <1>2, <1>3, <1>4, <2>1 DEF Shape
<1>6. Secret'
  BY <1>1, <1>2, <1>3 DEF Secret
<1>7. ASSUME ~interrupted'
      PROVE  LogoutInv'
  <2>1. LogoutInv
    BY <1>2, <1>7 DEF IInv
  <2>2. LoggingOut' = LoggingOut
    BY <1>2 DEF LoggingOut
  <2>. QED BY <1>2, <1>3, <2>1, <2>2 DEF LogoutInv, Live, LoggedOutOf
<1>8. ASSUME ~straggled'
      PROVE  RefreshInv'
  <2>1. RefreshInv
    BY <1>2, <1>8 DEF IInv
  <2>. QED BY <1>2, <1>3, <2>1 DEF RefreshInv, Replaced, Promised
<1>. QED BY <1>5, <1>6, <1>7, <1>8 DEF IInv

\* The new pair is good, and its promise alone knows of it.
LEMMA RotateKeeps ==
  ASSUME IInv, NEW t \in Tabs, Rotate(t)
  PROVE  IInv'
<1>1. Shape /\ Secret
  BY DEF IInv
<1>2. PICK p \in Known : p = renewal[t].pair
  BY <1>1 DEF Rotate, Shape, Renewing
<1>3. PICK new \in Pairs : new = Fresh
  BY DEF Rotate
<1>4. /\ new \notin Known /\ new # NoPair /\ p # NoPair
      /\ \E n \in Nat : Known \cup {new} = 1 .. n
  BY <1>1, <1>3, FreshIsNew, Fields
<1>5. /\ renewal[t].phase = "checked"
      /\ Known' = Known \cup {new}
      /\ issued'[new] = [session |-> issued[p].session, state |-> "live"]
      /\ \A q \in Known : issued'[q] = IF q = p /\ Live(p)
                                      THEN [issued[p] EXCEPT !.state = "replaced"]
                                      ELSE issued[q]
      /\ issued' = [q \in Known \cup {new} |-> issued'[q]]
      /\ renewal' = [renewal EXCEPT ![t].phase = "answered", ![t].result = new]
      /\ UNCHANGED <<stored, stale, call, loggedOut, interrupted, straggled>>
  BY <1>2, <1>3, <1>4 DEF Rotate, Known, Live
<1>6. /\ \A q \in Known : /\ issued'[q] \in Row /\ issued'[q].session = issued[q].session
                          /\ Live(q)' => Live(q)
                          /\ q # p => issued'[q] = issued[q]
                          /\ issued'[q].state = "replaced" =>
                               q = p \/ issued[q].state = "replaced"
      /\ issued'[new] \in Row /\ issued'[new].session = issued[p].session
      /\ issued'[new].state = "live"
      /\ issued[p].session \in Known
  BY <1>1, <1>4, <1>5, Fields DEF Live, Row, Shape
<1>7. /\ \A u \in Tabs : renewal'[u].pair = renewal[u].pair /\ Renewing(u)' = Renewing(u)
      /\ \A u \in Tabs \ {t} : renewal'[u] = renewal[u]
      /\ renewal'[t].phase = "answered" /\ renewal'[t].result = new
      /\ renewal' \in [Tabs -> Renewal]
  <2>1. /\ renewal'[t] = [renewal[t] EXCEPT !.phase = "answered", !.result = new]
        /\ \A u \in Tabs \ {t} : renewal'[u] = renewal[u]
        /\ DOMAIN renewal' = Tabs /\ renewal' = [u \in Tabs |-> renewal'[u]]
    BY <1>1, <1>5 DEF Shape, TypeOK
  <2>2. /\ renewal'[t].phase = "answered" /\ renewal'[t].result = new
        /\ renewal'[t].pair = renewal[t].pair /\ renewal'[t] \in Renewal
    BY <1>1, <2>1, Fields DEF Renewal
  <2>3. \A u \in Tabs : renewal'[u] \in Renewal
    BY <1>1, <2>1, <2>2, Fields
  <2>. QED BY <1>5, <2>1, <2>2, <2>3 DEF Renewing
<1>8. \A u \in Tabs : WaitingIn(u)' = WaitingIn(u)
  BY <1>5 DEF WaitingIn
<1>9. Shape'
  <2>1. issued' \in [Known' -> Row]
    BY <1>5, <1>6
  <2>2. TypeOK'
    BY <1>1, <1>5, <1>7, <1>8, <2>1 DEF Shape, TypeOK
  <2>3. \A q \in Known' : issued'[q].session \in Known'
    BY <1>1, <1>5, <1>6 DEF Shape
  <2>. QED BY <1>1, <1>4, <1>5, <1>7, <1>8, <2>2, <2>3 DEF Shape
<1>10. Secret'
  <2>1. ASSUME NEW u \in Tabs, NEW r, r = renewal'[u].result, r # NoPair
        PROVE  /\ issued'[r].state # "replaced"
               /\ r # stored
               /\ \A c \in Calls : call[c].pair # r
               /\ \A v \in Tabs : renewal'[v].pair # r /\ (v # u => renewal'[v].result # r)
    <3>1. CASE u = t
      BY <1>1, <1>4, <1>5, <1>6, <1>7, <2>1, <3>1 DEF Shape, TypeOK, Renewing
    <3>2. CASE u # t
      <4>1. r \in Known /\ r = renewal[u].result /\ r # p
        BY <1>1, <1>2, <1>7, <2>1, <3>2 DEF Shape, Secret
      <4>. QED BY <1>1, <1>4, <1>6, <1>7, <2>1, <3>2, <4>1 DEF Secret
    <3>. QED BY <3>1, <3>2
  <2>. QED BY <1>5, <2>1 DEF Secret
<1>11. ASSUME ~interrupted'
       PROVE  LogoutInv'
  <2>1. LogoutInv
    BY <1>5, <1>11 DEF IInv
  <2>2. ~LoggingOut /\ ~LoggingOut'
    BY <1>5, <2>1 DEF LogoutInv, LoggingOut, Renewing
  <2>3. \A c \in Calls : call[c].phase # "revoked"
    BY <1>1, <2>2 DEF Shape, LoggingOut, Open
  <2>4. ~LoggedOutOf(p) /\ \A q \in Known : LoggedOutOf(q)' = LoggedOutOf(q)
    BY <1>2, <1>5, <1>6, <2>1 DEF LogoutInv, LoggedOutOf
  <2>5. ~LoggedOutOf(new)' /\ Live(new)'
    BY <1>5, <1>6, <2>4 DEF LoggedOutOf, Live
  <2>6. \A q \in Known' : Live(q)' => ~LoggedOutOf(q)'
    BY <1>5, <1>6, <2>1, <2>4, <2>5 DEF LogoutInv
  <2>7. ASSUME NEW u \in Tabs
        PROVE  /\ renewal'[u].phase = "checked" =>
                     renewal'[u].pair \in Known /\ ~LoggedOutOf(renewal[u].pair)
               /\ renewal'[u].result # NoPair => issued'[renewal'[u].result].state = "live"
    <3>1. CASE u = t
      BY <1>6, <1>7, <3>1
    <3>2. CASE u # t
      <4>1. /\ renewal[u].result # NoPair =>
                  renewal[u].result # p /\ renewal[u].result \in Known /\ Live(renewal[u].result)
            /\ renewal[u].phase = "checked" =>
                  renewal[u].pair \in Known /\ ~LoggedOutOf(renewal[u].pair)
        BY <1>1, <1>2, <2>1 DEF Shape, Secret, LogoutInv, Renewing
      <4>. QED BY <1>6, <1>7, <3>2, <4>1 DEF Live
    <3>. QED BY <3>1, <3>2
  <2>8. \A u \in Tabs : renewal'[u].phase = "checked" =>
           issued'[renewal'[u].pair].session \notin loggedOut
    BY <1>6, <1>7, <2>7 DEF LoggedOutOf
  <2>9. stored # NoPair => stored \in Known /\ ~LoggedOutOf(stored)
    BY <1>1, <2>1 DEF Shape, TypeOK, LogoutInv
  <2>10. stored # NoPair => issued'[stored].session \notin loggedOut
    BY <1>6, <2>9 DEF LoggedOutOf
  <2>. QED BY <1>4, <1>5, <1>7, <2>2, <2>3, <2>6, <2>7, <2>8, <2>10 DEF LogoutInv, Live, LoggedOutOf
<1>12. ASSUME ~straggled'
       PROVE  RefreshInv'
  <2>1. RefreshInv
    BY <1>5, <1>12 DEF IInv
  <2>2. \A q \in Known : Replaced(q)' => Replaced(q) \/ q = p
    BY <1>6 DEF Replaced
  <2>3. Promised(p) /\ \A q : Promised(q) <=> Promised(q)'
    BY <1>2, <1>7 DEF Promised
  <2>4. \A c \in Calls : call[c].pair \in Known \/ call[c].pair = NoPair
    BY <1>1 DEF Shape
  <2>5. \A c \in Calls : call[c].phase = "sent" /\ Replaced(call[c].pair)' => Promised(call[c].pair)'
    BY <1>5, <2>1, <2>2, <2>3, <2>4 DEF RefreshInv, Replaced
  <2>6. Replaced(stored)' => Promised(stored)'
    BY <1>1, <1>5, <2>1, <2>2, <2>3 DEF RefreshInv, Replaced, Shape, TypeOK
  <2>7. ASSUME NEW u \in Tabs, renewal'[u].phase = "asked"
        PROVE  issued'[renewal'[u].pair].state # "replaced"
    <3>1. u # t /\ renewal[u].phase = "asked" /\ renewal[u].pair \in Known
      BY <1>1, <1>7, <2>7 DEF Shape, Renewing
    <3>2. renewal[u].pair # p /\ renewal[u].pair # NoPair
      BY <1>1, <1>2, <1>5, <2>1, <3>1, Fields DEF RefreshInv, Renewing
    <3>. QED BY <1>6, <1>7, <2>1, <3>1, <3>2 DEF RefreshInv, Replaced
  <2>. QED BY <1>5, <1>7, <2>1, <2>5, <2>6, <2>7 DEF RefreshInv, Replaced, Promised
<1>. QED BY <1>9, <1>10, <1>11, <1>12 DEF IInv

\* The promise of a tab settles: its calls go on with what is stored now, or end.
LEMMA SettleKeeps ==
  ASSUME IInv, NEW t \in Tabs, Renewing(t),
         stored' \in {NoPair, renewal[t].result},
         call' \in [Calls -> Call],
         \A c \in Calls : c \notin WaitingIn(t) => call'[c] = call[c],
         \A c \in WaitingIn(t) :
           \/ call'[c] = Ended
           \/ /\ call'[c].phase = "resent" /\ call'[c].kind = call[c].kind
              /\ call'[c].pair = stored' /\ stored' # NoPair,
         renewal' = [renewal EXCEPT ![t] = NoRenewal],
         straggled' = (straggled \/ Stragglers(t) # {}),
         UNCHANGED <<issued, stale, loggedOut, interrupted>>
  PROVE  IInv'
<1>1. Shape /\ Secret
  BY DEF IInv
<1>2. PICK new \in Known \cup {NoPair} : new = renewal[t].result
  BY <1>1 DEF Shape
<1>3. PICK held \in Known \cup {NoPair} : held = stored'
  BY <1>1, <1>2 DEF NoPair
<1>4. /\ Known' = Known /\ held \in {NoPair, new}
      /\ \A u \in Tabs \ {t} : renewal'[u] = renewal[u]
      /\ renewal'[t] = NoRenewal /\ renewal' \in [Tabs -> Renewal]
      /\ NoRenewal.phase = "none" /\ NoRenewal.pair = NoPair /\ NoRenewal.result = NoPair
  BY <1>1, <1>2, <1>3 DEF Known, Shape, TypeOK, NoRenewal, Renewal
<1>5. /\ \A c \in Calls :
           \/ call'[c] = call[c] /\ c \notin WaitingIn(t)
           \/ /\ call'[c].phase = "done" /\ call'[c].kind = "request"
              /\ call'[c].pair = NoPair
           \/ /\ call'[c].phase = "resent" /\ call'[c].kind = call[c].kind
              /\ call'[c].pair = held /\ held # NoPair /\ call[c].phase = "waiting"
  BY <1>1, <1>3, EndedIsCall DEF WaitingIn
<1>6. /\ WaitingIn(t)' = {}
      /\ \A u \in Tabs \ {t} : WaitingIn(u)' = WaitingIn(u)
  BY <1>1, EndedIsCall DEF WaitingIn
<1>7. Shape'
  <2>1. \A u \in Tabs : WaitingIn(u)' # {} => Renewing(u)'
    BY <1>1, <1>4, <1>6 DEF Shape, TypeOK, Renewing
  <2>2. TypeOK'
    BY <1>1, <1>3, <1>4, <2>1, Constants DEF Shape, TypeOK
  <2>3. \A c \in Calls :
          /\ call'[c].pair \in Known \cup {NoPair}
          /\ call'[c].phase \in {"idle", "done"} => call'[c].pair = NoPair
          /\ call'[c].kind = "logout" /\ call'[c].phase \in Open => call'[c].pair \in Known
          /\ call'[c].phase = "revoked" => call'[c].kind = "logout"
    BY <1>1, <1>5 DEF Shape
  <2>4. \A u \in Tabs :
          /\ renewal'[u].result \in Known \cup {NoPair}
          /\ renewal'[u].phase # "answered" => renewal'[u].result = NoPair
          /\ IF Renewing(u)' THEN renewal'[u].pair \in Known /\ WaitingIn(u)' # {}
             ELSE renewal'[u].pair = NoPair
    BY <1>1, <1>4, <1>6 DEF Shape, Renewing
  <2>. QED BY <1>1, <1>4, <2>2, <2>3, <2>4 DEF Shape
<1>8. Secret'
  <2>1. ASSUME NEW u \in Tabs, NEW r, r = renewal'[u].result, r # NoPair
        PROVE  /\ issued[r].state # "replaced"
               /\ r # held
               /\ \A c \in Calls : call'[c].pair # r
               /\ \A v \in Tabs : renewal'[v].pair # r /\ (v # u => renewal'[v].result # r)
    <3>1. u # t /\ r = renewal[u].result
      BY <1>4, <2>1
    <3>2. r # new
      BY <1>1, <1>2, <2>1, <3>1 DEF Secret
    <3>. QED BY <1>1, <1>4, <1>5, <2>1, <3>1, <3>2 DEF Secret
  <2>. QED BY <1>3, <2>1 DEF Secret
<1>9. ASSUME ~interrupted'
      PROVE  LogoutInv'
  <2>1. LogoutInv
    BY <1>9 DEF IInv
  <2>2. ~LoggingOut
    BY <2>1 DEF LogoutInv
  <2>3. ~LoggingOut'
    BY <1>5, <2>2 DEF LoggingOut, Open
  <2>4. \A c \in Calls : call[c].phase # "revoked" /\ call'[c].phase # "revoked"
    BY <1>1, <1>5, <2>2 DEF Shape, LoggingOut, Open
  <2>5. held # NoPair => Live(held) /\ ~LoggedOutOf(held)
    BY <1>2, <1>4, <2>1 DEF LogoutInv
  <2>. QED BY <1>3, <1>4, <2>1, <2>3, <2>4, <2>5 DEF LogoutInv, Live, LoggedOutOf
<1>10. ASSUME ~straggled'
       PROVE  RefreshInv'
  <2>1. RefreshInv /\ Stragglers(t) = {}
    BY <1>10 DEF IInv
  <2>2. ASSUME NEW c \in Calls, call'[c].phase = "sent", Replaced(call[c].pair)
        PROVE  call'[c] = call[c] /\ \E u \in Tabs : renewal'[u].pair = call[c].pair
    <3>1. call'[c] = call[c] /\ c \notin WaitingIn(t)
      BY <1>5, <2>2
    <3>2. call[c].pair # renewal[t].pair
      BY <2>1, <2>2, <3>1 DEF Stragglers, OpenCalls, Open
    <3>3. PICK u \in Tabs : renewal[u].pair = call[c].pair
      BY <2>1, <2>2, <3>1 DEF RefreshInv, Promised
    <3>. QED BY <1>4, <3>1, <3>2, <3>3
  <2>3. ~Replaced(held)
    BY <1>1, <1>2, <1>4 DEF Replaced, Secret
  <2>4. \A c \in Calls : call'[c].phase = "sent" => call'[c] = call[c]
    BY <1>5
  <2>. QED BY <1>3, <1>4, <2>1, <2>2, <2>3, <2>4 DEF RefreshInv, Replaced, Promised, Renewing
<1>. QED BY <1>7, <1>8, <1>9, <1>10 DEF IInv

LEMMA SettlesKeeps ==
  ASSUME IInv, NEW t \in Tabs, Settle(t)
  PROVE  IInv'
<1>1. Shape
  BY DEF IInv
<1>2. CASE Renewed(t)
  <2>1. Renewing(t) /\ stored' = renewal[t].result /\ stored' # NoPair
    BY <1>2 DEF Renewed, Renewing, Kept
  <2>2. /\ \A c \in Calls : c \notin WaitingIn(t) => call'[c] = call[c]
        /\ \A c \in WaitingIn(t) : call'[c] = [call[c] EXCEPT !.phase = "resent", !.pair = stored']
    BY <1>2 DEF Renewed, Resumed, WaitingIn
  <2>3. \A c \in WaitingIn(t) :
          /\ call'[c].phase = "resent" /\ call'[c].kind = call[c].kind
          /\ call'[c].pair = stored' /\ call'[c] \in Call
    <3>1. PICK held \in Pairs \cup {NoPair} : held = stored'
      BY <1>1, <2>1, Fields DEF Renewal
    <3>2. ASSUME NEW c \in WaitingIn(t)
          PROVE  /\ call'[c].phase = "resent" /\ call'[c].kind = call[c].kind
                 /\ call'[c].pair = held /\ call'[c] \in Call
      <4>1. PICK b \in Call : b = call[c]
        BY <1>1, Fields DEF WaitingIn
      <4>2. call'[c] = [b EXCEPT !.phase = "resent", !.pair = held]
        BY <2>2, <3>1, <4>1
      <4>. QED BY <3>1, <4>1, <4>2 DEF Call, Open
    <3>. QED BY <3>1, <3>2
  <2>4. call' \in [Calls -> Call]
    BY <1>1, <1>2, <2>2, <2>3, Fields DEF Renewed, Resumed
  <2>. QED BY <1>2, <2>1, <2>2, <2>3, <2>4, SettleKeeps DEF Renewed
<1>3. CASE NotRenewed(t)
  <2>1. /\ \A c \in Calls : c \notin WaitingIn(t) => call'[c] = call[c]
        /\ \A c \in WaitingIn(t) : call'[c] = Ended
    BY <1>3 DEF NotRenewed, Failed, WaitingIn
  <2>2. call' \in [Calls -> Call]
    BY <1>1, <1>3, Fields, EndedIsCall DEF NotRenewed, Failed
  <2>. QED BY <1>3, <2>1, <2>2, SettleKeeps DEF NotRenewed
<1>. QED BY <1>2, <1>3 DEF Settle

-----------------------------------------------------------------------------
(* Logout *)

\* The API leaves no live pair of the session.
LEMMA RevokeKeeps ==
  ASSUME IInv, NEW c \in Calls, RevokeSession(c)
  PROVE  IInv'
<1>1. Shape /\ Secret
  BY DEF IInv
<1>2. PICK s : s = issued[call[c].pair].session
  OBVIOUS
<1>3. /\ call[c].kind = "logout" /\ call[c].phase = "sent" /\ call[c].pair \in Known
      /\ issued' = [p \in Known |-> IF issued[p].session = s /\ Live(p)
                                    THEN [issued[p] EXCEPT !.state = "revoked"] ELSE issued[p]]
      /\ call' = [call EXCEPT ![c].phase = "revoked"]
      /\ Known' = Known
      /\ UNCHANGED <<stored, stale, renewal, loggedOut, interrupted, straggled>>
  BY <1>1, <1>2 DEF RevokeSession, Live, Known, Shape, Open
<1>4. /\ issued' \in [Known -> Row]
      /\ \A p \in Known : /\ issued'[p].session = issued[p].session
                          /\ Live(p)' <=> Live(p) /\ issued[p].session # s
                          /\ issued'[p].state = "replaced" <=> issued[p].state = "replaced"
  <2>1. ASSUME NEW p \in Known
        PROVE  /\ issued'[p] \in Row
               /\ issued'[p].session = issued[p].session
               /\ issued'[p].state = "live" <=> Live(p) /\ issued[p].session # s
               /\ issued'[p].state = "replaced" <=> issued[p].state = "replaced"
    BY <1>1, <1>3, Fields DEF Live, Row
  <2>. QED BY <1>3, <2>1 DEF Live
<1>5. /\ call'[c].phase = "revoked" /\ call'[c].kind = "logout" /\ call'[c].tab = call[c].tab
      /\ call'[c].pair = call[c].pair /\ call'[c] \in Call
      /\ \A b \in Calls \ {c} : call'[b] = call[b]
  BY <1>1, <1>3, Fields DEF Shape, TypeOK, Call, Open
<1>6. call' \in [Calls -> Call]
  BY <1>1, <1>3, <1>5, Fields DEF Shape, TypeOK
<1>7. \A t \in Tabs : WaitingIn(t)' = WaitingIn(t)
  BY <1>3, <1>5 DEF WaitingIn
<1>8. Shape'
  <2>1. TypeOK'
    BY <1>1, <1>3, <1>4, <1>6, <1>7 DEF Shape, TypeOK, Renewing
  <2>2. \A b \in Calls :
          /\ call'[b].pair \in Known \cup {NoPair}
          /\ call'[b].phase \in {"idle", "done"} => call'[b].pair = NoPair
          /\ call'[b].kind = "logout" /\ call'[b].phase \in Open => call'[b].pair \in Known
          /\ call'[b].phase = "revoked" => call'[b].kind = "logout"
    BY <1>1, <1>3, <1>5 DEF Shape
  <2>. QED BY <1>1, <1>3, <1>4, <1>7, <2>1, <2>2 DEF Shape, Renewing
<1>9. Secret'
  BY <1>1, <1>3, <1>4, <1>5 DEF Secret, Shape
<1>10. ASSUME ~interrupted'
       PROVE  LogoutInv'
  <2>1. LogoutInv /\ LoggingOut
    BY <1>3, <1>10 DEF IInv, LoggingOut, Open
  <2>2. \A t \in Tabs : renewal[t].phase = "none" /\ renewal[t].result = NoPair
    BY <1>1, <2>1 DEF LogoutInv, Renewing, Shape
  <2>3. \A b \in Calls : call'[b].phase = "revoked" =>
           /\ call'[b].pair = call[b].pair /\ call[b].pair \in Known
           /\ b # c => call[b].phase = "revoked"
    BY <1>1, <1>3, <1>5 DEF Shape, Open
  <2>4. ASSUME NEW b \in Calls, call'[b].phase = "revoked", NEW p \in Known,
               issued'[p].session = issued'[call'[b].pair].session
        PROVE  issued'[p].state # "live"
    BY <1>2, <1>3, <1>4, <2>1, <2>3, <2>4 DEF LogoutInv, Live
  <2>5. \A p \in Known : Live(p)' => ~LoggedOutOf(p)'
    BY <1>3, <1>4, <2>1 DEF LogoutInv, LoggedOutOf
  <2>6. stored # NoPair => issued'[stored].session \notin loggedOut
    BY <1>1, <1>4, <2>1 DEF Shape, TypeOK, LogoutInv, LoggedOutOf
  <2>. QED BY <1>3, <1>5, <2>2, <2>4, <2>5, <2>6 DEF LogoutInv, Live, LoggedOutOf, Renewing
<1>11. ASSUME ~straggled'
       PROVE  RefreshInv'
  <2>1. RefreshInv
    BY <1>3, <1>11 DEF IInv
  <2>2. \A p \in Known : Replaced(p)' <=> Replaced(p)
    BY <1>4 DEF Replaced
  <2>3. \A b \in Calls : call'[b].phase = "sent" =>
           call'[b] = call[b] /\ call[b].pair \in Known \cup {NoPair}
    BY <1>1, <1>5 DEF Shape
  <2>4. \A t \in Tabs : renewal[t].pair \in Known \cup {NoPair}
    BY <1>1 DEF Shape
  <2>. QED BY <1>1, <1>3, <1>4, <2>1, <2>3, <2>4
           DEF RefreshInv, Replaced, Promised, Renewing, Shape, TypeOK
<1>. QED BY <1>8, <1>9, <1>10, <1>11 DEF IInv

\* The client drops its tokens after the session is revoked, or is interrupted.
LEMMA LoggedOutKeeps ==
  ASSUME IInv, NEW c \in Calls, LoggedOut(c)
  PROVE  IInv'
<1>1. Shape /\ Secret
  BY DEF IInv
<1>2. PICK s \in Known : s = issued[call[c].pair].session
  BY <1>1 DEF LoggedOut, Shape, Open
<1>3. /\ call[c].kind = "logout" /\ call[c].phase \in {"sent", "revoked"}
      /\ stored' = NoPair /\ loggedOut' = loggedOut \cup {s}
      /\ interrupted' = (interrupted \/ call[c].phase = "sent")
      /\ Known' = Known /\ UNCHANGED <<issued, stale, renewal, straggled>>
  BY <1>2 DEF LoggedOut, Forget, Known
<1>4. /\ call' \in [Calls -> Call]
      /\ call'[c].phase = "done" /\ call'[c].pair = NoPair /\ call'[c].kind = "request"
      /\ \A b \in Calls \ {c} : call'[b] = call[b]
  BY <1>1, EndedIsCall DEF LoggedOut, Ends, Shape, TypeOK
<1>5. \A t \in Tabs : WaitingIn(t)' = WaitingIn(t)
  BY <1>3, <1>4 DEF WaitingIn
<1>6. Shape'
  <2>1. interrupted' \in BOOLEAN /\ loggedOut' \subseteq Pairs /\ loggedOut' \subseteq Known
    BY <1>1, <1>3 DEF Shape, TypeOK
  <2>2. TypeOK'
    BY <1>1, <1>3, <1>4, <1>5, <2>1 DEF Shape, TypeOK, Renewing
  <2>. QED BY <1>1, <1>3, <1>4, <1>5, <2>1, <2>2 DEF Shape, Renewing, Open
<1>7. Secret'
  BY <1>1, <1>3, <1>4, Fields DEF Secret
<1>8. ASSUME ~interrupted'
      PROVE  LogoutInv'
  <2>1. LogoutInv /\ call[c].phase = "revoked"
    BY <1>3, <1>8 DEF IInv
  <2>2. LoggingOut' => LoggingOut
    BY <1>4 DEF LoggingOut, Open
  <2>3. \A p \in Known : Live(p) => issued[p].session # s
    BY <1>2, <2>1 DEF LogoutInv
  <2>4. \A t \in Tabs : ~Renewing(t)
    BY <1>3, <2>1 DEF LogoutInv, LoggingOut, Open
  <2>5. \A b \in Calls : call'[b].phase = "revoked" => call'[b] = call[b]
    BY <1>4
  <2>. QED BY <1>3, <2>1, <2>2, <2>3, <2>4, <2>5 DEF LogoutInv, Live, LoggedOutOf, Renewing
<1>9. ASSUME ~straggled'
      PROVE  RefreshInv'
  BY <1>3, <1>4, <1>9 DEF IInv, RefreshInv, Replaced, Promised, Renewing
<1>. QED BY <1>6, <1>7, <1>8, <1>9 DEF IInv

-----------------------------------------------------------------------------
(* What happens to a browser *)

\* A tab takes its calls and its promise with it; a renewal or a logout that is
\* lost so interrupts.
LEMMA ReloadKeeps ==
  ASSUME IInv, NEW t \in Tabs, Reload(t)
  PROVE  IInv'
<1>. DEFINE lost == {c \in OpenCalls : call[c].tab = t}
<1>1. Shape /\ Secret
  BY DEF IInv
<1>2. /\ call' = [c \in Calls |-> IF c \in lost THEN Ended ELSE call[c]]
      /\ renewal' = [renewal EXCEPT ![t] = NoRenewal]
      /\ interrupted' = \/ interrupted \/ Renewing(t)
                        \/ \E c \in lost : call[c].kind = "logout"
      /\ straggled' = (straggled \/ Renewing(t))
      /\ Known' = Known /\ UNCHANGED <<stored, issued, stale, loggedOut>>
  BY DEF Reload, Known
<1>3. /\ call' \in [Calls -> Call]
      /\ \A c \in Calls :
           \/ call'[c] = call[c] /\ ~(call[c].phase \in Open /\ call[c].tab = t)
           \/ /\ call'[c].phase = "done" /\ call'[c].kind = "request"
              /\ call'[c].pair = NoPair
  <2>1. \A c \in Calls : call'[c] \in Call
    BY <1>1, <1>2, Fields, EndedIsCall
  <2>. QED BY <1>1, <1>2, <2>1, EndedIsCall DEF OpenCalls
<1>4. /\ WaitingIn(t)' = {}
      /\ \A u \in Tabs \ {t} : WaitingIn(u)' = WaitingIn(u)
  BY <1>1, <1>2, EndedIsCall DEF WaitingIn, OpenCalls, Open
<1>5. /\ \A u \in Tabs \ {t} : renewal'[u] = renewal[u]
      /\ renewal'[t] = NoRenewal /\ renewal' \in [Tabs -> Renewal]
      /\ NoRenewal.phase = "none" /\ NoRenewal.pair = NoPair /\ NoRenewal.result = NoPair
  BY <1>1, <1>2 DEF Shape, TypeOK, NoRenewal, Renewal
<1>6. Shape'
  <2>1. interrupted' \in BOOLEAN /\ straggled' \in BOOLEAN
    BY <1>1, <1>2 DEF Shape, TypeOK, Renewing
  <2>2. \A u \in Tabs : WaitingIn(u)' # {} => Renewing(u)'
    BY <1>1, <1>4, <1>5 DEF Shape, TypeOK, Renewing
  <2>3. TypeOK'
    BY <1>1, <1>2, <1>3, <1>5, <2>1, <2>2 DEF Shape, TypeOK
  <2>4. \A c \in Calls :
          /\ call'[c].pair \in Known \cup {NoPair}
          /\ call'[c].phase \in {"idle", "done"} => call'[c].pair = NoPair
          /\ call'[c].kind = "logout" /\ call'[c].phase \in Open => call'[c].pair \in Known
          /\ call'[c].phase = "revoked" => call'[c].kind = "logout"
    BY <1>1, <1>3 DEF Shape, Open
  <2>5. \A u \in Tabs :
          /\ renewal'[u].result \in Known \cup {NoPair}
          /\ renewal'[u].phase # "answered" => renewal'[u].result = NoPair
          /\ IF Renewing(u)' THEN renewal'[u].pair \in Known /\ WaitingIn(u)' # {}
             ELSE renewal'[u].pair = NoPair
    BY <1>1, <1>4, <1>5 DEF Shape, Renewing
  <2>. QED BY <1>1, <1>2, <2>3, <2>4, <2>5 DEF Shape
<1>7. Secret'
  BY <1>1, <1>2, <1>3, <1>5 DEF Secret
<1>8. ASSUME ~interrupted'
      PROVE  LogoutInv'
  <2>1. LogoutInv /\ ~Renewing(t) /\ \A c \in lost : call[c].kind # "logout"
    BY <1>2, <1>8 DEF IInv
  <2>2. renewal[t].result = NoPair
    BY <1>1, <2>1 DEF Shape, Renewing
  <2>3. LoggingOut' => LoggingOut
    BY <1>3 DEF LoggingOut, Open
  <2>4. \A c \in Calls : /\ call'[c].phase = "revoked" => call'[c] = call[c]
                         /\ call[c].phase = "revoked" => call'[c] = call[c]
    BY <1>1, <1>2, <1>3, <2>1 DEF Shape, OpenCalls
  <2>. QED BY <1>2, <1>5, <2>1, <2>2, <2>3, <2>4 DEF LogoutInv, Live, LoggedOutOf, Renewing
<1>9. ASSUME ~straggled'
      PROVE  RefreshInv'
  <2>1. RefreshInv /\ ~Renewing(t) /\ renewal[t].pair = NoPair
    BY <1>1, <1>2, <1>9 DEF IInv, Shape
  <2>2. \A c \in Calls : call'[c].phase = "sent" => call'[c] = call[c]
    BY <1>3
  <2>. QED BY <1>2, <1>5, <2>1, <2>2 DEF RefreshInv, Replaced, Promised, Renewing
<1>. QED BY <1>6, <1>7, <1>8, <1>9 DEF IInv

\* An access token that expires changes nothing a refresh depends on.
LEMMA StaleKeeps ==
  ASSUME IInv, stale' \subseteq Known,
         UNCHANGED <<stored, issued, call, renewal, loggedOut, interrupted, straggled>>
  PROVE  IInv'
<1>1. Shape /\ Secret /\ Known' = Known
  BY DEF IInv, Known
<1>2. \A t \in Tabs : WaitingIn(t)' = WaitingIn(t)
  BY DEF WaitingIn
<1>3. Shape'
  BY <1>1, <1>2 DEF Shape, TypeOK, Renewing
<1>4. Secret'
  BY <1>1 DEF Secret
<1>5. ~interrupted' => LogoutInv'
  BY <1>1 DEF IInv, LogoutInv, LoggingOut, Live, LoggedOutOf, Renewing
<1>6. ~straggled' => RefreshInv'
  BY DEF IInv, RefreshInv, Replaced, Promised, Renewing
<1>. QED BY <1>3, <1>4, <1>5, <1>6 DEF IInv

-----------------------------------------------------------------------------
(* The invariant *)

LEMMA InitStrong == Init => IInv
<1>. SUFFICES ASSUME Init PROVE IInv
  OBVIOUS
<1>1. /\ NoCall \in Call /\ NoCall.phase = "idle" /\ NoCall.pair = NoPair
      /\ NoCall.kind = "request"
  <2>1. (CHOOSE t \in Tabs : TRUE) \in Tabs
    BY TabsAssumption
  <2>. QED BY <2>1 DEF NoCall, Call, Kinds
<1>2. /\ NoRenewal \in Renewal /\ NoRenewal.phase = "none" /\ NoRenewal.pair = NoPair
      /\ NoRenewal.result = NoPair
  BY DEF NoRenewal, Renewal
<1>3. /\ Known = {1} /\ 1 \in Pairs /\ 1 # NoPair
      /\ issued[1] = [session |-> 1, state |-> "live"]
  BY MaxPairsAssumption DEF Init, Known, Pairs, NoPair
<1>4. /\ stored = 1 /\ stale = {} /\ loggedOut = {} /\ interrupted = FALSE /\ straggled = FALSE
      /\ call \in [Calls -> Call] /\ renewal \in [Tabs -> Renewal]
      /\ \A c \in Calls : call[c] = NoCall
      /\ \A t \in Tabs : renewal[t] = NoRenewal
      /\ issued = [p \in {1} |-> [session |-> p, state |-> "live"]]
  BY <1>1, <1>2 DEF Init
<1>5. Shape
  <2>1. Known = 1 .. 1 /\ 1 \in Nat
    BY <1>3
  <2>2. issued \in [Known -> Row]
    BY <1>3, <1>4 DEF Row
  <2>3. \A t \in Tabs : WaitingIn(t) = {}
    BY <1>1, <1>4 DEF WaitingIn
  <2>4. TypeOK
    BY <1>3, <1>4, <2>2, <2>3 DEF TypeOK
  <2>. QED BY <1>1, <1>2, <1>3, <1>4, <2>1, <2>3, <2>4 DEF Shape, Renewing, Open
<1>6. Secret
  BY <1>2, <1>4 DEF Secret
<1>7. LogoutInv
  BY <1>1, <1>2, <1>3, <1>4 DEF LogoutInv, LoggingOut, Live, LoggedOutOf, Renewing
<1>8. RefreshInv
  BY <1>1, <1>2, <1>3, <1>4 DEF RefreshInv, Replaced, Promised, Renewing
<1>. QED BY <1>5, <1>6, <1>7, <1>8 DEF IInv

LEMMA NextStrong == IInv /\ [Next]_vars => IInv'
<1>. SUFFICES ASSUME IInv, [Next]_vars PROVE IInv'
  OBVIOUS
<1>1. ASSUME NEW c \in Calls, Begin(c)
      PROVE  IInv'
  <2>1. PICK t \in Tabs : Request(c, t) \/ Login(c, t) \/ Logout(c, t)
    BY <1>1 DEF Begin
  <2>2. interrupted \in BOOLEAN
    BY DEF IInv, Shape, TypeOK
  <2>3. CASE Request(c, t)
    BY <2>2, <2>3, BeginsKeeps DEF Request, Kinds
  <2>4. CASE Login(c, t)
    BY <2>2, <2>4, BeginsKeeps DEF Login, Kinds
  <2>5. CASE Logout(c, t)
    <3>1. /\ interrupted' \in BOOLEAN /\ interrupted => interrupted'
          /\ (\E u \in Tabs : Renewing(u)) => interrupted'
      BY <2>2, <2>5 DEF Logout
    <3>. QED BY <2>5, <3>1, BeginsKeeps DEF Logout, Kinds
  <2>. QED BY <2>1, <2>3, <2>4, <2>5
<1>2. ASSUME NEW c \in Calls, Reply(c)
      PROVE  IInv'
  <2>1. CASE Answered(c)
    BY <2>1, EndsKeeps DEF Answered
  <2>2. CASE UnauthorizedAgain(c)
    BY <2>2, EndsKeeps DEF UnauthorizedAgain
  <2>. QED BY <1>2, <2>1, <2>2, LoggedInKeeps, LoggedOutKeeps, UnauthorizedKeeps DEF Reply
<1>3. ASSUME NEW c \in Calls, RevokeSession(c)
      PROVE  IInv'
  BY <1>3, RevokeKeeps
<1>4. ASSUME NEW t \in Tabs, Check(t) \/ Rotate(t) \/ Settle(t) \/ Reload(t)
      PROVE  IInv'
  BY <1>4, CheckKeeps, RotateKeeps, SettlesKeeps, ReloadKeeps
<1>5. ASSUME NEW p \in Pairs, Expire(p)
      PROVE  IInv'
  <2>1. stale' \subseteq Known
    BY <1>5 DEF Expire, IInv, Shape, TypeOK
  <2>. QED BY <1>5, <2>1, StaleKeeps DEF Expire
<1>6. CASE UNCHANGED vars
  <2>1. stale' \subseteq Known
    BY <1>6 DEF vars, IInv, Shape, TypeOK
  <2>. QED BY <1>6, <2>1, StaleKeeps DEF vars
<1>. QED BY <1>1, <1>2, <1>3, <1>4, <1>5, <1>6 DEF Next

\* In every behaviour a new pair is its promise's alone, no promise outlives the
\* session it renews, and what a tab presents has not been replaced behind it.
THEOREM Strong == Spec => []IInv
BY InitStrong, NextStrong, PTL DEF Spec

\* Every variable keeps its type, and a call waits only for a promise of its tab.
THEOREM TypeCorrect == Spec => []TypeOK
<1>1. IInv => TypeOK
  BY DEF IInv, Shape
<1>. QED BY <1>1, Strong, PTL

\* For any number of tabs and calls: unless a logout or a reload cuts across a
\* renewal, the pair that is stored when nothing is in flight is good for a
\* refresh; and no refresh presents a token that one has replaced.
THEOREM TokenStaysAlive == Spec => []KeepsALiveToken
<1>1. ASSUME IInv
      PROVE  KeepsALiveToken
  <2>1. Shape
    BY <1>1 DEF IInv
  <2>2. PresentsNothingReplaced
    <3>1. ASSUME ~straggled, NEW t \in Tabs, renewal[t].phase = "asked"
          PROVE  issued[renewal[t].pair].state # "replaced"
      <4>1. renewal[t].pair \in Known /\ renewal[t].pair # NoPair
        BY <2>1, <3>1, Fields DEF Shape, Renewing
      <4>. QED BY <1>1, <3>1, <4>1 DEF IInv, RefreshInv, Replaced
    <3>. QED BY <3>1 DEF PresentsNothingReplaced
  <2>3. ASSUME ~interrupted, OpenCalls = {}, stored # NoPair
        PROVE  issued[stored].state = "live"
    <3>1. \A c \in Calls : call[c].phase \notin Open
      BY <2>3 DEF OpenCalls
    <3>2. \A t \in Tabs : WaitingIn(t) = {}
      BY <3>1 DEF WaitingIn, Open
    <3>3. \A t \in Tabs : renewal[t].result = NoPair
      BY <2>1, <3>2 DEF Shape, Renewing
    <3>. QED BY <1>1, <2>3, <3>1, <3>3 DEF IInv, LogoutInv, Live, Open
  <2>. QED BY <2>1, <2>2, <2>3 DEF KeepsALiveToken, Shape
<1>. QED BY <1>1, Strong, PTL

\* For any number of tabs and calls: unless a logout crossed a renewal or did not
\* reach the API, a session the user has logged out of is never stored again, not
\* by a call that had read its tokens before.
THEOREM LogoutHolds == Spec => []LogoutIsFinal
<1>1. IInv => LogoutIsFinal
  BY DEF IInv, LogoutInv, LoggedOutOf, LogoutIsFinal
<1>. QED BY <1>1, Strong, PTL

-----------------------------------------------------------------------------
(* Pages: what an act changes, its answer brings to the page *)

\* Whatever an act changes of what its page shows, it refreshes or overwrites.
Serves(p) ==
  \A k \in p.shows : \A act \in p.offers :
    Touches(act, k) => Refreshes(act, k) \/ k \in act.sets

\* A key that reads what it is named for.
Simple(k) ==
  /\ k = List(Head(k)) \/ k = Detail(Head(k))
  /\ Head(k) # "reports"

\* The list is a prefix of every key of its path.
LEMMA ListIsPrefix ==
  ASSUME NEW path, NEW view
  PROVE  /\ IsPrefix(List(path), List(path))
         /\ IsPrefix(List(path), Detail(path))
         /\ IsPrefix(List(path), <<path, "id", view>>)
BY DEF IsPrefix, List, Detail

\* What the operations of a path have in common.
LEMMA ActsOfPath ==
  ASSUME NEW path, NEW gates, NEW when, NEW refresh,
         NEW act \in Acts(path, gates, when, refresh)
  PROVE  /\ act.path = path /\ act.op \in DOMAIN gates
         /\ act.refresh = refresh /\ act.sets = {}
BY DEF Acts

\* ... and those that overwrite a key with their answer.
LEMMA ActsWriting ==
  ASSUME NEW path, NEW gates, NEW key0, NEW act \in Writing(path, gates, key0)
  PROVE  act.path = path /\ act.op \in DOMAIN gates /\ act.sets = {key0}
BY DEF Writing, Acts

\* Three facts are changed by acts of other paths.
LEMMA ChangesOwn ==
  ASSUME NEW path, NEW op, NEW fact \in ChangedBy(path, op)
  PROVE  \/ fact = path
         \/ fact = "journal-entries" /\ <<path, op>> \in Posting
         \/ fact = "employees" /\ path = "terminations" /\ op = "post"
         \/ fact = "users" /\ path = "roles" /\ op \in {"update", "delete"}
BY DEF ChangedBy

\* A simple key is not one of the two that read the journal as well.
LEMMA SimpleReads ==
  ASSUME NEW k, Simple(k)
  PROVE  Reads(k) = {Head(k)}
<1>1. k # Variance /\ k # Summary
  BY DEF Simple, List, Detail, Variance, Summary
<1>. QED BY <1>1 DEF Reads, Simple

\* The acts of a page have one path and refresh its list.  Beside the keys of that
\* path it shows keys that read what they are named for, of other facts than the
\* three that acts of other paths change, or of employees.
OnePath(p, path) ==
  /\ \A act \in p.offers : act.path = path /\ List(path) \in act.refresh
  /\ \A k \in p.shows :
       \/ k \in {<<path, "id", "summary">>, <<path, "id", "variance">>}
       \/ /\ Simple(k)
          /\ \/ Head(k) = path
             \/ Head(k) \notin {"journal-entries", "employees", "users"}
             \/ Head(k) = "employees" /\ path # "terminations"

\* Such a page serves its keys.
LEMMA PathServes ==
  ASSUME NEW p, NEW path, OnePath(p, path)
  PROVE  Serves(p)
<1>. SUFFICES ASSUME NEW k \in p.shows, NEW act \in p.offers, Touches(act, k)
              PROVE  Refreshes(act, k)
  BY DEF Serves
<1>1. act.path = path /\ List(path) \in act.refresh
  BY DEF OnePath
<1>2. CASE k \in {<<path, "id", "summary">>, <<path, "id", "variance">>}
  BY <1>1, <1>2, ListIsPrefix DEF Refreshes
<1>3. CASE k \notin {<<path, "id", "summary">>, <<path, "id", "variance">>}
  <2>1. Simple(k)
    BY <1>3 DEF OnePath
  <2>2. Head(k) \in ChangedBy(path, act.op)
    BY <1>1, <2>1, SimpleReads DEF Touches
  <2>3. Head(k) = path
    BY <1>3, <2>2, ChangesOwn DEF OnePath
  <2>4. IsPrefix(List(path), k)
    BY <2>1, <2>3, ListIsPrefix DEF Simple
  <2>. QED BY <1>1, <2>4 DEF Refreshes
<1>. QED BY <1>2, <1>3

\* The acts of a page of settings have one path, and refresh or overwrite its row,
\* which it shows beside the chart of accounts.
OneRow(p, path) ==
  /\ \A act \in p.offers : act.path = path /\ List(path) \in act.refresh \cup act.sets
  /\ p.shows \subseteq {List(path), List("accounts")}
  /\ path \notin {"accounts", "reports"}

\* Such a page serves its keys.
LEMMA RowServes ==
  ASSUME NEW p, NEW path, OneRow(p, path)
  PROVE  Serves(p)
<1>. SUFFICES ASSUME NEW k \in p.shows, NEW act \in p.offers, Touches(act, k)
              PROVE  Refreshes(act, k) \/ k \in act.sets
  BY DEF Serves
<1>1. act.path = path /\ List(path) \in act.refresh \cup act.sets
  BY DEF OneRow
<1>2. Simple(k)
  BY DEF OneRow, Simple, List
<1>3. Head(k) \in ChangedBy(path, act.op)
  BY <1>1, <1>2, SimpleReads DEF Touches
<1>4. Head(k) \in {path, "journal-entries", "employees", "users"}
  BY <1>3, ChangesOwn
<1>5. Head(k) # "accounts"
  BY <1>4 DEF OneRow
<1>6. k = List(path)
  BY <1>5 DEF OneRow, List
<1>. QED BY <1>1, <1>6, ListIsPrefix DEF Refreshes

\* What offers nothing serves its keys.
LEMMA NothingToServe ==
  ASSUME NEW p, p.offers = {}
  PROVE  Serves(p)
BY DEF Serves

\* Every page serves what it shows: each onSuccess refreshes or overwrites every
\* key of its page that the act changes.
LEMMA PagesServe == \A p \in App : Serves(p)
<1>1. Serves(AccountsPage)
  <2>1. \A act \in AccountsPage.offers :
          act.path = "accounts" /\ List("accounts") \in act.refresh
    BY ActsOfPath DEF AccountsPage, Page
  <2>2. OnePath(AccountsPage, "accounts")
    BY <2>1 DEF OnePath, AccountsPage, Page, Simple, List, Detail
  <2>. QED BY <2>2, PathServes
<1>2. Serves(CostCentersPage)
  <2>1. \A act \in CostCentersPage.offers :
          act.path = "cost-centers" /\ List("cost-centers") \in act.refresh
    BY ActsOfPath DEF CostCentersPage, Page
  <2>2. OnePath(CostCentersPage, "cost-centers")
    BY <2>1 DEF OnePath, CostCentersPage, Page, Simple, List, Detail
  <2>. QED BY <2>2, PathServes
<1>3. Serves(JournalEntriesPage)
  <2>1. \A act \in JournalEntriesPage.offers :
          act.path = "journal-entries" /\ List("journal-entries") \in act.refresh
    BY ActsOfPath DEF JournalEntriesPage, Page
  <2>2. OnePath(JournalEntriesPage, "journal-entries")
    BY <2>1 DEF OnePath, JournalEntriesPage, Page, Simple, List, Detail
  <2>. QED BY <2>2, PathServes
<1>4. Serves(AccountsPayableTab)
  <2>1. \A act \in AccountsPayableTab.offers :
          act.path = "accounts-payable" /\ List("accounts-payable") \in act.refresh
    BY ActsOfPath DEF AccountsPayableTab, Page
  <2>2. OnePath(AccountsPayableTab, "accounts-payable")
    BY <2>1 DEF OnePath, AccountsPayableTab, Page, Simple, List, Detail
  <2>. QED BY <2>2, PathServes
<1>5. Serves(AccountsReceivableTab)
  <2>1. \A act \in AccountsReceivableTab.offers :
          act.path = "accounts-receivable" /\ List("accounts-receivable") \in act.refresh
    BY ActsOfPath DEF AccountsReceivableTab, Page
  <2>2. OnePath(AccountsReceivableTab, "accounts-receivable")
    BY <2>1 DEF OnePath, AccountsReceivableTab, Page, Simple, List, Detail
  <2>. QED BY <2>2, PathServes
<1>6. Serves(BankAccountsTab)
  <2>1. \A act \in BankAccountsTab.offers :
          act.path = "bank-accounts" /\ List("bank-accounts") \in act.refresh
    BY ActsOfPath DEF BankAccountsTab, Page
  <2>2. OnePath(BankAccountsTab, "bank-accounts")
    BY <2>1 DEF OnePath, BankAccountsTab, Page, Simple, List, Detail
  <2>. QED BY <2>2, PathServes
<1>7. Serves(CounterpartiesTab)
  <2>1. \A act \in CounterpartiesTab.offers :
          act.path = "counterparties" /\ List("counterparties") \in act.refresh
    BY ActsOfPath DEF CounterpartiesTab, Page
  <2>2. OnePath(CounterpartiesTab, "counterparties")
    BY <2>1 DEF OnePath, CounterpartiesTab, Page, Simple, List, Detail
  <2>. QED BY <2>2, PathServes
<1>8. Serves(BankReconciliationPage)
  <2>1. \A act \in BankReconciliationPage.offers :
          act.path = "bank-reconciliations" /\ List("bank-reconciliations") \in act.refresh
    BY ActsOfPath DEF BankReconciliationPage, Page
  <2>2. OnePath(BankReconciliationPage, "bank-reconciliations")
    BY <2>1 DEF OnePath, BankReconciliationPage, Page, Simple, List, Detail
  <2>. QED BY <2>2, PathServes
<1>9. Serves(BankReconciliationDetail)
  <2>1. \A act \in BankReconciliationDetail.offers :
          act.path = "bank-reconciliations" /\ List("bank-reconciliations") \in act.refresh
    BY ActsOfPath DEF BankReconciliationDetail, Page
  <2>2. BankReconciliationDetail.shows =
          {List("bank-reconciliations"), List("bank-accounts"), Detail("bank-reconciliations"),
           Summary, List("accounts"), List("cost-centers")}
    BY DEF BankReconciliationDetail, Page
  <2>3. OnePath(BankReconciliationDetail, "bank-reconciliations")
    BY <2>1, <2>2 DEF OnePath, Simple, List, Detail, Summary
  <2>. QED BY <2>3, PathServes
<1>10. Serves(BudgetPage)
  <2>1. \A act \in BudgetPage.offers :
          act.path = "budget-plans" /\ List("budget-plans") \in act.refresh
    BY ActsOfPath DEF BudgetPage, Page
  <2>2. OnePath(BudgetPage, "budget-plans")
    BY <2>1 DEF OnePath, BudgetPage, Page, Simple, List, Detail
  <2>. QED BY <2>2, PathServes
<1>11. Serves(BudgetPlanDetail)
  <2>1. \A act \in BudgetPlanDetail.offers :
          act.path = "budget-plans" /\ List("budget-plans") \in act.refresh
    BY ActsOfPath DEF BudgetPlanDetail, Page, RefreshOfPlan
  <2>2. BudgetPlanDetail.shows =
          {List("budget-plans"), Detail("budget-plans"), Variance,
           List("accounts"), List("cost-centers")}
    BY DEF BudgetPlanDetail, Page
  <2>3. OnePath(BudgetPlanDetail, "budget-plans")
    BY <2>1, <2>2 DEF OnePath, Simple, List, Detail, Variance
  <2>. QED BY <2>3, PathServes
<1>12. Serves(InventoryItemsTab)
  <2>1. \A act \in InventoryItemsTab.offers :
          act.path = "inventory-items" /\ List("inventory-items") \in act.refresh
    BY ActsOfPath DEF InventoryItemsTab, Page
  <2>2. OnePath(InventoryItemsTab, "inventory-items")
    BY <2>1 DEF OnePath, InventoryItemsTab, Page, Simple, List, Detail
  <2>. QED BY <2>2, PathServes
<1>13. Serves(InventoryItemDetail)
  <2>1. \A act \in InventoryItemDetail.offers :
          act.path = "inventory-items" /\ List("inventory-items") \in act.refresh
    BY ActsOfPath DEF InventoryItemDetail, Page
  <2>2. OnePath(InventoryItemDetail, "inventory-items")
    BY <2>1 DEF OnePath, InventoryItemDetail, Page, Simple, List, Detail
  <2>. QED BY <2>2, PathServes
<1>14. Serves(WarehousesTab)
  <2>1. \A act \in WarehousesTab.offers :
          act.path = "warehouses" /\ List("warehouses") \in act.refresh
    BY ActsOfPath DEF WarehousesTab, Page
  <2>2. OnePath(WarehousesTab, "warehouses")
    BY <2>1 DEF OnePath, WarehousesTab, Page, Simple, List, Detail
  <2>. QED BY <2>2, PathServes
<1>15. Serves(FixedAssetsPage)
  <2>1. \A act \in FixedAssetsPage.offers :
          act.path = "fixed-assets" /\ List("fixed-assets") \in act.refresh
    BY ActsOfPath DEF FixedAssetsPage, Page
  <2>2. OnePath(FixedAssetsPage, "fixed-assets")
    BY <2>1 DEF OnePath, FixedAssetsPage, Page, Simple, List, Detail
  <2>. QED BY <2>2, PathServes
<1>16. Serves(FixedAssetDetail)
  <2>1. \A act \in FixedAssetDetail.offers :
          act.path = "fixed-assets" /\ List("fixed-assets") \in act.refresh
    BY ActsOfPath DEF FixedAssetDetail, Page
  <2>2. OnePath(FixedAssetDetail, "fixed-assets")
    BY <2>1 DEF OnePath, FixedAssetDetail, Page, Simple, List, Detail
  <2>. QED BY <2>2, PathServes
<1>17. Serves(EmployeesTab)
  <2>1. \A act \in EmployeesTab.offers :
          act.path = "employees" /\ List("employees") \in act.refresh
    BY ActsOfPath DEF EmployeesTab, Page
  <2>2. OnePath(EmployeesTab, "employees")
    BY <2>1 DEF OnePath, EmployeesTab, Page, Simple, List, Detail
  <2>. QED BY <2>2, PathServes
<1>18. Serves(PayrollRunsTab)
  <2>1. \A act \in PayrollRunsTab.offers :
          act.path = "payroll-runs" /\ List("payroll-runs") \in act.refresh
    BY ActsOfPath DEF PayrollRunsTab, Page
  <2>2. OnePath(PayrollRunsTab, "payroll-runs")
    BY <2>1 DEF OnePath, PayrollRunsTab, Page, Simple, List, Detail
  <2>. QED BY <2>2, PathServes
<1>19. Serves(PayrollRunDetail)
  <2>1. \A act \in PayrollRunDetail.offers :
          act.path = "payroll-runs" /\ List("payroll-runs") \in act.refresh
    BY ActsOfPath DEF PayrollRunDetail, Page
  <2>2. PayrollRunDetail.shows =
          {List("payroll-runs"), Detail("payroll-runs")}
    BY DEF PayrollRunDetail, Page
  <2>3. OnePath(PayrollRunDetail, "payroll-runs")
    BY <2>1, <2>2 DEF OnePath, Simple, List, Detail
  <2>. QED BY <2>3, PathServes
<1>20. Serves(ThirteenthSalaryTab)
  <2>1. \A act \in ThirteenthSalaryTab.offers :
          act.path = "thirteenth-salary-runs" /\ List("thirteenth-salary-runs") \in act.refresh
    BY ActsOfPath DEF ThirteenthSalaryTab, Page
  <2>2. OnePath(ThirteenthSalaryTab, "thirteenth-salary-runs")
    BY <2>1 DEF OnePath, ThirteenthSalaryTab, Page, Simple, List, Detail
  <2>. QED BY <2>2, PathServes
<1>21. Serves(ThirteenthSalaryDetail)
  <2>1. \A act \in ThirteenthSalaryDetail.offers :
          act.path = "thirteenth-salary-runs" /\ List("thirteenth-salary-runs") \in act.refresh
    BY ActsOfPath DEF ThirteenthSalaryDetail, Page
  <2>2. ThirteenthSalaryDetail.shows =
          {List("thirteenth-salary-runs"), Detail("thirteenth-salary-runs")}
    BY DEF ThirteenthSalaryDetail, Page
  <2>3. OnePath(ThirteenthSalaryDetail, "thirteenth-salary-runs")
    BY <2>1, <2>2 DEF OnePath, Simple, List, Detail
  <2>. QED BY <2>3, PathServes
<1>22. Serves(VacationsTab)
  <2>1. \A act \in VacationsTab.offers :
          act.path = "vacations" /\ List("vacations") \in act.refresh
    BY ActsOfPath DEF VacationsTab, Page
  <2>2. VacationsTab.shows =
          {List("vacations"), List("employees")}
    BY DEF VacationsTab, Page
  <2>3. OnePath(VacationsTab, "vacations")
    BY <2>1, <2>2 DEF OnePath, Simple, List, Detail
  <2>. QED BY <2>3, PathServes
<1>23. Serves(EsocialEventosTab)
  <2>1. \A act \in EsocialEventosTab.offers :
          act.path = "esocial-eventos" /\ List("esocial-eventos") \in act.refresh
    BY ActsOfPath DEF EsocialEventosTab, Page
  <2>2. EsocialEventosTab.shows =
          {List("esocial-eventos"), List("employees"), List("vacations"),
           List("terminations"), List("payroll-runs")}
    BY DEF EsocialEventosTab, Page
  <2>3. OnePath(EsocialEventosTab, "esocial-eventos")
    BY <2>1, <2>2 DEF OnePath, Simple, List, Detail
  <2>. QED BY <2>3, PathServes
<1>24. Serves(RolesTab)
  <2>1. \A act \in RolesTab.offers :
          act.path = "roles" /\ List("roles") \in act.refresh
    BY ActsOfPath DEF RolesTab, Page
  <2>2. OnePath(RolesTab, "roles")
    BY <2>1 DEF OnePath, RolesTab, Page, Simple, List, Detail
  <2>. QED BY <2>2, PathServes
<1>25. Serves(PayrollSettingsTab)
  <2>1. \A act \in PayrollSettingsTab.offers :
          act.path = "payroll-settings" /\ List("payroll-settings") \in act.refresh \cup act.sets
    BY ActsOfPath, ActsWriting DEF PayrollSettingsTab, Page
  <2>2. OneRow(PayrollSettingsTab, "payroll-settings")
    BY <2>1 DEF OneRow, PayrollSettingsTab, Page
  <2>. QED BY <2>2, RowServes
<1>26. Serves(FiscalSettingsTab)
  <2>1. \A act \in FiscalSettingsTab.offers :
          act.path = "fiscal-tax-settings" /\ List("fiscal-tax-settings") \in act.refresh \cup act.sets
    BY ActsOfPath, ActsWriting DEF FiscalSettingsTab, Page
  <2>2. OneRow(FiscalSettingsTab, "fiscal-tax-settings")
    BY <2>1 DEF OneRow, FiscalSettingsTab, Page
  <2>. QED BY <2>2, RowServes
<1>27. Serves(CompanyRegistrationTab)
  <2>1. \A act \in CompanyRegistrationTab.offers :
          act.path = "company-registration" /\ List("company-registration") \in act.refresh \cup act.sets
    BY ActsOfPath, ActsWriting DEF CompanyRegistrationTab, Page
  <2>2. OneRow(CompanyRegistrationTab, "company-registration")
    BY <2>1 DEF OneRow, CompanyRegistrationTab, Page
  <2>. QED BY <2>2, RowServes
<1>28. Serves(TerminationsTab)
  <2>. SUFFICES ASSUME NEW k \in TerminationsTab.shows, NEW act \in TerminationsTab.offers
                PROVE  Refreshes(act, k)
    BY DEF Serves
  <2>1. act.refresh = RefreshOfTerminations
    BY ActsOfPath DEF TerminationsTab, Page
  <2>2. k \in RefreshOfTerminations
    BY DEF TerminationsTab, Page, RefreshOfTerminations
  <2>. QED BY <2>1, <2>2, ListIsPrefix DEF Refreshes, RefreshOfTerminations
<1>29. Serves(UsersTab)
  <2>. SUFFICES ASSUME NEW k \in UsersTab.shows, NEW act \in UsersTab.offers, Touches(act, k)
                PROVE  Refreshes(act, k)
    BY DEF Serves
  <2>1. \/ act.path = "users" /\ List("users") \in act.refresh
        \/ act.path = "roles" /\ act.op = "create" /\ List("roles") \in act.refresh
    BY ActsOfPath DEF UsersTab, CreateUserForm, Page
  <2>2. k \in {List("users"), List("roles"), List("permissions")}
    BY DEF UsersTab, Page
  <2>3. Head(k) \in ChangedBy(act.path, act.op)
    BY <2>2, SimpleReads DEF Touches, Simple, List
  <2>4. Head(k) \in {act.path, "journal-entries", "employees"}
    BY <2>1, <2>3, ChangesOwn
  <2>5. k = List(act.path)
    BY <2>2, <2>4 DEF List
  <2>. QED BY <2>1, <2>5, ListIsPrefix DEF Refreshes
<1>30. Serves(EmitirDocumentoTab)
  <2>. SUFFICES ASSUME NEW k \in EmitirDocumentoTab.shows, NEW act \in EmitirDocumentoTab.offers
                PROVE  ~Touches(act, k)
    BY DEF Serves
  <2>1. act.path = "fiscal-documentos"
    BY ActsOfPath DEF EmitirDocumentoTab, Page
  <2>2. k = List("counterparties")
    BY DEF EmitirDocumentoTab, Page
  <2>3. Reads(k) = {"counterparties"}
    BY <2>2, SimpleReads DEF Simple, List
  <2>4. "counterparties" \notin ChangedBy(act.path, act.op)
    BY <2>1 DEF ChangedBy
  <2>. QED BY <2>3, <2>4 DEF Touches
<1>31. \A p \in ReportsPage \cup {DashboardPage, DocumentosEmitidosTab, SpedFilesTab} :
          Serves(p)
  <2>1. \A p \in ReportsPage \cup {DashboardPage, DocumentosEmitidosTab, SpedFilesTab} :
          p.offers = {}
    BY DEF ReportsPage, DashboardPage, DocumentosEmitidosTab, SpedFilesTab, TrialBalanceTab,
           GeneralLedgerTab, IncomeStatementTab, BalanceSheetTab, CashFlowTab,
           IncomeStatementLegalTab, BalanceSheetLegalTab, Report, Page
  <2>. QED BY <2>1, NothingToServe
<1>. QED
  BY <1>1, <1>2, <1>3, <1>4, <1>5, <1>6, <1>7, <1>8, <1>9, <1>10, <1>11, <1>12, <1>13,
     <1>14, <1>15, <1>16, <1>17, <1>18, <1>19, <1>20, <1>21, <1>22, <1>23, <1>24, <1>25,
     <1>26, <1>27, <1>28, <1>29, <1>30, <1>31
  DEF App, FinanceiroPage, WarehousePage, DepartamentoPessoalPage, FiscalPage,
      SpedEsocialPage, UsersPage

-----------------------------------------------------------------------------
(* Pages: what a copy includes *)

\* A mutation, and what it keeps.
Mutation ==
  [phase: {"idle", "sent", "committed", "answered", "refused", "lost"}, overlapped: BOOLEAN,
   snapshot: SUBSET Mutations, effect: [refreshes: BOOLEAN, sets: BOOLEAN]]

\* Every variable of the cache keeps its type.
CacheTypes ==
  /\ page \in App
  /\ at \in {"acting", "other", "away"}
  /\ cached \subseteq SUBSET Mutations
  /\ fetch \in [phase: {"idle", "sent", "read", "failed"}, sees: SUBSET Mutations]
  /\ work \in [Mutations -> Mutation]
  /\ overtaken \in BOOLEAN

\* The answer to a mutation reaches the key, if the page shows it.
EffectsServe ==
  \A m \in Pending : key \in page.shows => work[m].effect.refreshes \/ work[m].effect.sets

\* While it is on its way alone, a mutation has seen all that the user was told of.
AloneSeesAll ==
  \A m \in Pending : ~work[m].overlapped =>
    /\ Pending = {m}
    /\ work[m].phase = "committed" => Told \cup {m} \subseteq work[m].snapshot

\* What a fetch has read includes all the user was told of, unless it was overtaken.
FetchSeesAll ==
  fetch.phase = "read" /\ ~overtaken => Told \subseteq fetch.sees

\* The inductive invariant of the cache.
CacheInvariant ==
  /\ CacheTypes
  /\ EffectsServe
  /\ AloneSeesAll
  /\ FetchSeesAll
  /\ ShowsOwnWrites

\* The fields of a mutation.
LEMMA MutationFields ==
  ASSUME CacheTypes, NEW m \in Mutations
  PROVE  /\ work[m] \in Mutation
         /\ work[m].phase \in {"idle", "sent", "committed", "answered", "refused", "lost"}
         /\ work[m].snapshot \subseteq Mutations
BY DEF CacheTypes, Mutation

\* At first nothing is cached and no mutation made.
LEMMA CacheInit == PageInit => CacheInvariant
<1>. SUFFICES ASSUME PageInit PROVE CacheInvariant
  OBVIOUS
<1>1. CacheTypes
  <2>1. Unsent \in Mutation
    BY DEF Unsent, Mutation
  <2>. QED BY <2>1 DEF PageInit, CacheTypes, Idle
<1>2. Pending = {} /\ Told = {}
  BY DEF PageInit, Pending, Told, Unsent
<1>3. cached = {} /\ fetch.phase = "idle"
  BY DEF PageInit, Idle
<1>. QED BY <1>1, <1>2, <1>3
         DEF CacheInvariant, EffectsServe, AloneSeesAll, FetchSeesAll, ShowsOwnWrites

\* A step that leaves page, key and mutations alone leaves what is known of them.
LEMMA WorkKept ==
  ASSUME CacheInvariant, UNCHANGED <<page, key, work>>
  PROVE  Told' = Told /\ Committed' = Committed /\ EffectsServe' /\ AloneSeesAll'
<1>1. Told' = Told /\ Committed' = Committed /\ Pending' = Pending
  BY DEF Told, Committed, Pending
<1>. QED BY <1>1 DEF CacheInvariant, EffectsServe, AloneSeesAll

\* Who visits a page that shows the key fetches it, or waits for a fetch.
LEMMA VisitKeeps ==
  ASSUME CacheInvariant, NEW place \in {"acting", "other", "away"}, Visit(place)
  PROVE  CacheInvariant'
<1>1. Told' = Told /\ EffectsServe' /\ AloneSeesAll'
  BY WorkKept DEF Visit
<1>2. CacheTypes'
  <2>1. fetch' \in [phase: {"idle", "sent", "read", "failed"}, sees: SUBSET Mutations]
    BY DEF CacheInvariant, CacheTypes, Visit, Start, Sent
  <2>2. overtaken' \in BOOLEAN
    BY DEF CacheInvariant, CacheTypes, Visit, Start
  <2>. QED BY <2>1, <2>2 DEF CacheInvariant, CacheTypes, Visit
<1>3. FetchSeesAll'
  BY <1>1 DEF CacheInvariant, FetchSeesAll, Visit, Start, Sent
<1>4. ShowsOwnWrites'
  <2>1. CASE ShownAt(place)
    BY <2>1 DEF Visit, Start, Sent, InFlight, ShowsOwnWrites
  <2>2. CASE ~ShownAt(place)
    <3>1. ~ShownAt(at)'
      BY <2>2 DEF Visit, ShownAt
    <3>. QED BY <3>1 DEF ShowsOwnWrites
  <2>. QED BY <2>1, <2>2
<1>. QED BY <1>1, <1>2, <1>3, <1>4 DEF CacheInvariant

\* A fetch that is read reads all that is committed; what it has read is shown;
\* when it fails it is not idle; what is collected is not shown.
LEMMA FetchKeeps ==
  ASSUME CacheInvariant, Read \/ Fetched \/ FetchFailed \/ Collect \/ UNCHANGED pageVars
  PROVE  CacheInvariant'
<1>1. Told' = Told /\ Committed' = Committed /\ EffectsServe' /\ AloneSeesAll'
  BY WorkKept DEF Read, Fetched, FetchFailed, Collect, pageVars
<1>2. Committed \subseteq Mutations /\ Told \subseteq Committed
  BY DEF Committed, Told
<1>3. CacheTypes'
  BY <1>2 DEF CacheInvariant, CacheTypes, Read, Fetched, FetchFailed, Collect, pageVars, Idle
<1>4. FetchSeesAll'
  BY <1>1, <1>2 DEF CacheInvariant, FetchSeesAll, Read, Fetched, FetchFailed, Collect, pageVars, Idle
<1>5. ShowsOwnWrites'
  <2>1. CASE Read \/ FetchFailed
    BY <2>1 DEF Read, FetchFailed, ShowsOwnWrites
  <2>2. CASE Fetched
    BY <1>1, <2>2 DEF Fetched, CacheInvariant, FetchSeesAll, ShowsOwnWrites
  <2>3. CASE Collect
    BY <2>3 DEF Collect, ShowsOwnWrites
  <2>4. CASE UNCHANGED pageVars
    <3>1. ShownAt(at)' = ShownAt(at)
      BY <2>4 DEF pageVars, ShownAt
    <3>. QED BY <1>1, <2>4, <3>1 DEF pageVars, CacheInvariant, ShowsOwnWrites
  <2>. QED BY <2>1, <2>2, <2>3, <2>4
<1>. QED BY <1>1, <1>3, <1>4, <1>5 DEF CacheInvariant

\* A new mutation is sent; those that are pending are overlapped from now on.
LEMMA SubmitWork ==
  ASSUME CacheTypes, NEW m \in Mutations,
         NEW effect \in [refreshes: BOOLEAN, sets: BOOLEAN], Submit(m, effect)
  PROVE  /\ m \notin Pending
         /\ work'[m].phase = "sent" /\ work'[m].effect = effect
         /\ work'[m].overlapped <=> Pending # {}
         /\ work'[m] \in Mutation
         /\ \A l \in Pending : work'[l] = [work[l] EXCEPT !.overlapped = TRUE]
         /\ \A l \in Mutations \ (Pending \cup {m}) : work'[l] = work[l]
         /\ DOMAIN work' = Mutations
<1>1. m \notin Pending
  BY DEF Submit, Pending
<1>2. Pending \subseteq Mutations
  BY DEF Pending
<1>3. work'[m] = [Unsent EXCEPT !.phase = "sent", !.effect = effect,
                                !.overlapped = (Pending # {})]
  BY <1>1 DEF Submit
<1>4. /\ work'[m].phase = "sent" /\ work'[m].effect = effect
      /\ work'[m].overlapped <=> Pending # {}
      /\ work'[m] \in Mutation
  BY <1>3 DEF Unsent, Mutation
<1>5. /\ \A l \in Pending : work'[l] = [work[l] EXCEPT !.overlapped = TRUE]
      /\ \A l \in Mutations \ (Pending \cup {m}) : work'[l] = work[l]
      /\ DOMAIN work' = Mutations
  BY <1>1, <1>2 DEF Submit
<1>. QED BY <1>1, <1>4, <1>5

\* A new mutation overlaps those that are pending, and its answer will reach the
\* key: its page serves what it shows.
LEMMA SubmitKeeps ==
  ASSUME CacheInvariant, NEW m \in Mutations, NEW effect \in Effects, Submit(m, effect)
  PROVE  CacheInvariant'
<1>1. PICK act \in page.offers : Touches(act, key) /\ effect = Effect(act, key)
  BY DEF Effects
<1>2. effect \in [refreshes: BOOLEAN, sets: BOOLEAN]
  BY <1>1 DEF Effect, Refreshes
<1>3. /\ CacheTypes
      /\ m \notin Pending
      /\ work'[m].phase = "sent" /\ work'[m].effect = effect
      /\ work'[m].overlapped <=> Pending # {}
      /\ work'[m] \in Mutation
      /\ \A l \in Pending : work'[l] = [work[l] EXCEPT !.overlapped = TRUE]
      /\ \A l \in Mutations \ (Pending \cup {m}) : work'[l] = work[l]
  BY <1>2, SubmitWork DEF CacheInvariant
<1>4. Told' = Told /\ Pending' = Pending \cup {m} /\ m \notin Pending
  <2>1. \A l \in Mutations :
          (l \in Pending' <=> l \in Pending \cup {m}) /\ (l \in Told' <=> l \in Told)
    <3>. TAKE l \in Mutations
    <3>1. CASE l = m
      BY <1>3, <3>1 DEF Pending, Told, Submit
    <3>2. CASE l \in Pending
      <4>1. work'[l].phase = work[l].phase
        BY <1>3, <3>2, MutationFields DEF Mutation, Pending
      <4>. QED BY <3>2, <4>1 DEF Pending, Told
    <3>3. CASE l \notin Pending \cup {m}
      BY <1>3, <3>3 DEF Pending, Told
    <3>. QED BY <3>1, <3>2, <3>3
  <2>. QED BY <1>3, <2>1 DEF Pending, Told
<1>5. CacheTypes'
  <2>1. Unsent \in Mutation
    BY DEF Unsent, Mutation
  <2>2. work' \in [Mutations -> Mutation]
    <3>1. \A l \in Mutations : work'[l] \in Mutation
      <4>. TAKE l \in Mutations
      <4>1. CASE l = m
        BY <1>3, <1>2, <4>1 DEF Mutation
      <4>2. CASE l \in Pending
        <5>1. PICK f \in Mutation : f = work[l]
          BY <1>3, MutationFields
        <5>2. work'[l] = [f EXCEPT !.overlapped = TRUE]
          BY <1>3, <4>2, <5>1
        <5>. QED BY <5>2 DEF Mutation
      <4>3. CASE l \notin Pending \cup {m}
        BY <1>3, <4>3, MutationFields
      <4>. QED BY <4>1, <4>2, <4>3
    <3>. QED BY <3>1 DEF Submit
  <2>. QED BY <2>2 DEF CacheInvariant, CacheTypes, Submit
<1>6. EffectsServe'
  <2>1. key \in page.shows => effect.refreshes \/ effect.sets
    BY <1>1, PagesServe DEF CacheInvariant, CacheTypes, Serves, Effect
  <2>2. \A l \in Pending : work'[l].effect = work[l].effect
    <3>. TAKE l \in Pending
    <3>1. l \in Mutations
      BY DEF Pending
    <3>2. PICK f : f = work[l]
      OBVIOUS
    <3>3. f \in Mutation
      BY <1>3, <3>1, <3>2, MutationFields
    <3>4. work'[l] = [f EXCEPT !.overlapped = TRUE]
      BY <1>3, <3>2
    <3>5. work'[l].effect = f.effect
      BY <3>3, <3>4 DEF Mutation
    <3>. QED BY <3>2, <3>5
  <2>3. work'[m].effect = effect /\ page' = page /\ key' = key
    BY <1>3 DEF Submit
  <2>. QED BY <1>4, <2>1, <2>2, <2>3 DEF CacheInvariant, EffectsServe
<1>7. AloneSeesAll'
  <2>. SUFFICES ASSUME NEW l \in Pending', ~(work[l].overlapped)'
                PROVE  /\ Pending' = {l}
                       /\ work'[l].phase = "committed" => Told \cup {l} \subseteq work'[l].snapshot
    BY <1>4 DEF AloneSeesAll
  <2>1. l \notin Pending
    <3>1. ASSUME l \in Pending PROVE work'[l].overlapped
      BY <1>3, <3>1, MutationFields DEF Mutation, Pending
    <3>. QED BY <3>1
  <2>2. l = m /\ work'[m].phase = "sent" /\ Pending = {}
    BY <1>3, <1>4, <2>1
  <2>. QED BY <1>4, <2>2
<1>8. FetchSeesAll'
  BY <1>4 DEF CacheInvariant, FetchSeesAll, Submit
<1>9. ShowsOwnWrites'
  <2>1. ShownAt(at)' = ShownAt(at)
    BY DEF Submit, ShownAt
  <2>. QED BY <1>4, <2>1 DEF CacheInvariant, ShowsOwnWrites, Submit
<1>. QED BY <1>5, <1>6, <1>7, <1>8, <1>9 DEF CacheInvariant

\* A mutation that is committed has seen every other that is.
LEMMA CommitKeeps ==
  ASSUME CacheInvariant, NEW m \in Mutations, CommitMutation(m)
  PROVE  CacheInvariant'
<1>1. PICK f \in Mutation : f = work[m]
  BY MutationFields DEF CacheInvariant
<1>2. Committed \subseteq Mutations /\ Told \subseteq Committed /\ m \in Pending
  BY DEF Committed, Told, Pending, CommitMutation
<1>3. work'[m] = [f EXCEPT !.phase = "committed", !.snapshot = Committed \cup {m}]
  BY <1>1 DEF CommitMutation, CacheInvariant, CacheTypes
<1>4. /\ work'[m].phase = "committed" /\ work'[m].snapshot = Committed \cup {m}
      /\ work'[m].effect = work[m].effect /\ work'[m].overlapped = work[m].overlapped
      /\ work'[m] \in Mutation
  <2>1. work'[m].phase = "committed" /\ work'[m].snapshot = Committed \cup {m}
    BY <1>3 DEF Mutation
  <2>2. work'[m].effect = f.effect /\ work'[m].overlapped = f.overlapped
    BY <1>3 DEF Mutation
  <2>3. work'[m] \in Mutation
    <3>1. PICK seen \in SUBSET Mutations : seen = Committed \cup {m}
      BY <1>2
    <3>2. work'[m] = [f EXCEPT !.phase = "committed", !.snapshot = seen]
      BY <1>3, <3>1
    <3>. QED BY <3>2 DEF Mutation
  <2>. QED BY <1>1, <2>1, <2>2, <2>3
<1>5. \A l \in Mutations \ {m} : work'[l] = work[l]
  BY DEF CommitMutation, CacheInvariant, CacheTypes
<1>6. Told' = Told /\ Pending' = Pending
  BY <1>4, <1>5 DEF Told, Pending, CommitMutation
<1>7. CacheTypes'
  BY <1>4, <1>5 DEF CacheInvariant, CacheTypes, CommitMutation
<1>8. EffectsServe'
  BY <1>4, <1>5, <1>6 DEF CacheInvariant, EffectsServe, CommitMutation, Pending
<1>9. AloneSeesAll'
  <2>1. \A l \in Pending \ {m} : work'[l] = work[l]
    BY <1>5 DEF Pending
  <2>. QED BY <1>2, <1>4, <1>6, <2>1 DEF CacheInvariant, AloneSeesAll
<1>10. FetchSeesAll'
  BY <1>6 DEF CacheInvariant, FetchSeesAll, CommitMutation
<1>11. ShowsOwnWrites'
  <2>1. ShownAt(at)' = ShownAt(at)
    BY DEF CommitMutation, ShownAt
  <2>. QED BY <1>6, <2>1 DEF CacheInvariant, ShowsOwnWrites, CommitMutation
<1>. QED BY <1>7, <1>8, <1>9, <1>10, <1>11 DEF CacheInvariant

\* When a mutation ends, none of the others was alone.
LEMMA EndsAlone ==
  ASSUME CacheInvariant, NEW m \in Pending, NEW phase \in {"answered", "refused", "lost"},
         work' = [work EXCEPT ![m] = Done(phase)], UNCHANGED <<page, key>>
  PROVE  /\ work' \in [Mutations -> Mutation]
         /\ Pending' = Pending \ {m}
         /\ Told' = IF phase = "answered" THEN Told \cup {m} ELSE Told
         /\ EffectsServe' /\ AloneSeesAll'
<1>1. m \in Mutations
  BY DEF Pending
<1>2. Done(phase) \in Mutation /\ Done(phase).phase = phase
  BY DEF Done, Unsent, Mutation
<1>3. work' \in [Mutations -> Mutation]
  BY <1>1, <1>2 DEF CacheInvariant, CacheTypes
<1>4. work'[m].phase = phase /\ \A l \in Mutations \ {m} : work'[l] = work[l]
  BY <1>1, <1>2 DEF CacheInvariant, CacheTypes
<1>5. Pending' = Pending \ {m}
  BY <1>4 DEF Pending
<1>6. Told' = IF phase = "answered" THEN Told \cup {m} ELSE Told
  BY <1>1, <1>4 DEF Told, Pending
<1>7. EffectsServe'
  BY <1>4, <1>5 DEF CacheInvariant, EffectsServe, Pending
<1>8. AloneSeesAll'
  <2>1. \A l \in Pending \ {m} : work'[l] = work[l] /\ work[l].overlapped
    BY <1>4 DEF CacheInvariant, AloneSeesAll, Pending
  <2>. QED BY <1>5, <2>1 DEF AloneSeesAll
<1>. QED BY <1>3, <1>5, <1>6, <1>7, <1>8

\* What is refused, or never answered, leaves the cache and the user as they were.
LEMMA RefuseKeeps ==
  ASSUME CacheInvariant, NEW m \in Mutations, RefuseMutation(m)
  PROVE  CacheInvariant'
<1>1. m \in Pending
  BY DEF RefuseMutation, Pending
<1>2. PICK phase \in {"refused", "lost"} : work' = [work EXCEPT ![m] = Done(phase)]
  BY DEF RefuseMutation, CacheInvariant, CacheTypes
<1>3. work' \in [Mutations -> Mutation] /\ Told' = Told /\ EffectsServe' /\ AloneSeesAll'
  BY <1>1, <1>2, EndsAlone DEF RefuseMutation
<1>4. CacheTypes'
  BY <1>3 DEF CacheInvariant, CacheTypes, RefuseMutation
<1>5. FetchSeesAll'
  BY <1>3 DEF CacheInvariant, FetchSeesAll, RefuseMutation
<1>6. ShowsOwnWrites'
  <2>1. ShownAt(at)' = ShownAt(at)
    BY DEF RefuseMutation, ShownAt
  <2>. QED BY <1>3, <2>1 DEF CacheInvariant, ShowsOwnWrites, RefuseMutation
<1>. QED BY <1>3, <1>4, <1>5, <1>6 DEF CacheInvariant

\* An answer overwrites the copy with all the user was told of, or fetches what is
\* shown again, or is of another page than the key.
LEMMA SucceedKeeps ==
  ASSUME CacheInvariant, NEW m \in Mutations, Succeed(m)
  PROVE  CacheInvariant'
<1>1. m \in Pending /\ work[m].snapshot \subseteq Mutations
  BY MutationFields DEF CacheInvariant, Succeed, Pending
<1>2. work' \in [Mutations -> Mutation] /\ Told' = Told \cup {m} /\ EffectsServe' /\ AloneSeesAll'
  BY <1>1, EndsAlone DEF Succeed
<1>3. ShownAt(at)' = ShownAt(at)
  BY DEF Succeed, ShownAt
<1>4. CASE Overwrite(m)
  <2>1. CacheTypes'
    <3>1. fetch' \in [phase: {"idle", "sent", "read", "failed"}, sees: SUBSET Mutations]
      BY <1>4 DEF CacheInvariant, CacheTypes, Overwrite, Idle
    <3>2. overtaken' \in BOOLEAN
      BY <1>4 DEF Overwrite
    <3>3. cached' \subseteq SUBSET Mutations
      BY <1>1, <1>4 DEF Overwrite
    <3>. QED BY <1>2, <3>1, <3>2, <3>3 DEF CacheInvariant, CacheTypes, Succeed
  <2>2. FetchSeesAll'
    BY <1>4 DEF FetchSeesAll, Overwrite, InFlight, Idle
  <2>3. ShowsOwnWrites'
    <3>1. ASSUME ~overtaken' PROVE Told \cup {m} \subseteq work[m].snapshot
      BY <1>1, <1>4, <3>1 DEF Overwrite, Succeed, CacheInvariant, AloneSeesAll
    <3>. QED BY <1>2, <1>4, <3>1 DEF ShowsOwnWrites, Overwrite
  <2>. QED BY <1>2, <2>1, <2>2, <2>3 DEF CacheInvariant
<1>5. CASE Invalidate
  <2>1. CacheTypes'
    <3>1. fetch' \in [phase: {"idle", "sent", "read", "failed"}, sees: SUBSET Mutations]
      BY <1>5 DEF CacheInvariant, CacheTypes, Invalidate, Sent
    <3>2. overtaken' \in BOOLEAN
      BY <1>5 DEF Invalidate
    <3>. QED BY <1>2, <1>5, <3>1, <3>2 DEF CacheInvariant, CacheTypes, Succeed, Invalidate
  <2>2. FetchSeesAll'
    <3>1. CASE fetch' = Sent
      BY <3>1 DEF FetchSeesAll, Sent
    <3>2. CASE fetch' = fetch /\ overtaken' = (overtaken \/ InFlight)
      <4>1. ~overtaken' => ~InFlight
        BY <3>2
      <4>. QED BY <3>2, <4>1 DEF FetchSeesAll, InFlight
    <3>. QED BY <1>5, <3>1, <3>2 DEF Invalidate
  <2>3. ShowsOwnWrites'
    BY <1>3, <1>5 DEF ShowsOwnWrites, Invalidate, InFlight, Sent
  <2>. QED BY <1>2, <2>1, <2>2, <2>3 DEF CacheInvariant
<1>6. CASE ~work[m].effect.sets /\ ~work[m].effect.refreshes /\ Ignore
  <2>1. key \notin page.shows
    BY <1>1, <1>6 DEF CacheInvariant, EffectsServe
  <2>2. overtaken' \in BOOLEAN /\ (~overtaken' => ~ShownAt(at) /\ ~InFlight)
    BY <1>6, <2>1 DEF Ignore
  <2>3. CacheTypes'
    BY <1>2, <1>6, <2>2 DEF CacheInvariant, CacheTypes, Succeed, Ignore
  <2>4. FetchSeesAll'
    BY <1>6, <2>2 DEF FetchSeesAll, Ignore, InFlight
  <2>5. ShowsOwnWrites'
    BY <1>3, <2>2 DEF ShowsOwnWrites
  <2>. QED BY <1>2, <2>3, <2>4, <2>5 DEF CacheInvariant
<1>. QED BY <1>4, <1>5, <1>6 DEF Succeed

\* Every step keeps the invariant.
LEMMA CacheNext == CacheInvariant /\ [PageNext]_pageVars => CacheInvariant'
<1>. SUFFICES ASSUME CacheInvariant, [PageNext]_pageVars PROVE CacheInvariant'
  OBVIOUS
<1>. QED BY VisitKeeps, FetchKeeps, SubmitKeeps, CommitKeeps, RefuseKeeps, SucceedKeeps DEF PageNext

\* In every behaviour, of any number of mutations on any page, what is on its way
\* brings what the user was told of.
THEOREM CacheStrong == PageSpec => []CacheInvariant
BY CacheInit, CacheNext, PTL DEF PageSpec

\* What a page shows includes every act of its own the user has been told the success
\* of, once its queries are settled and unless a fetch or an answer was overtaken.
THEOREM OwnWritesShown == PageSpec => []ShowsOwnWrites
<1>1. CacheInvariant => ShowsOwnWrites
  BY DEF CacheInvariant
<1>. QED BY <1>1, CacheStrong, PTL

=============================================================================

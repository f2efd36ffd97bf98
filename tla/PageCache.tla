------------------------------ MODULE PageCache ------------------------------
(***************************************************************************)
(* A page of the web client and the query cache it reads (the pages of     *)
(* Pages.tla, useQuery and useMutation of TanStack Query as the client     *)
(* configures them: no retry, no refetch on focus, everything stale at     *)
(* once).  One page makes its acts; the user may visit another page that   *)
(* shows the same facts, or leave.  Keys of the cache do not interact, so  *)
(* one key is watched.                                                     *)
(*                                                                         *)
(* A copy is told by the acts whose effects it includes, an act by what it *)
(* changes and how its answer reaches the cache.                           *)
(***************************************************************************)
EXTENDS Pages, Integers, SequencesExt

CONSTANT Mutations   \* bound: the mutations made, numbered from 1 in their order

VARIABLES
  page,      \* the page whose acts are made
  key,       \* the key watched
  at,        \* where the user is: "acting" on the page, on an "other", "away"
  cached,    \* the copy of the key, as a set of at most one
  fetch,     \* the fetch of the key
  work,      \* the mutations
             \* History.
  overtaken  \* the copy comes of a fetch or an answer that a newer one overtook

pageVars == <<page, key, at, cached, fetch, work, overtaken>>

-----------------------------------------------------------------------------
(* What a key reads, and what an act does to it *)

Reads(k) ==
  {Head(k)}
    \cup (IF Head(k) = "reports" THEN {"journal-entries", "accounts", "cost-centers"} ELSE {})
    \cup (IF k \in {Variance, Summary} THEN {"journal-entries"} ELSE {})

\* Of the acts of a page, those that change what the key shows.
Refreshes(act, k) == \E prefix \in act.refresh : IsPrefix(prefix, k)
Touches(act, k) == ChangedBy(act.path, act.op) \cap Reads(k) # {}

Effect(act, k) == [refreshes |-> Refreshes(act, k), sets |-> k \in act.sets]
Effects == {Effect(act, key) : act \in {a \in page.offers : Touches(a, key)}}

\* The keys worth watching: of the page, those its acts change; elsewhere, the
\* lists they change.
Watched(p) ==
  {k \in p.shows : \E act \in p.offers : Touches(act, k)}
    \cup {List(fact) : fact \in UNION {ChangedBy(act.path, act.op) : act \in p.offers}}

ShownAt(place) ==
  \/ place = "acting" /\ key \in page.shows
  \/ place = "other" /\ \E p \in App \ {page} : key \in p.shows

\* Mutations of the server's state, and those the page has had an answer to.
Committed == {m \in Mutations : work[m].phase \in {"committed", "answered", "lost"}}
Told == {m \in Mutations : work[m].phase = "answered"}
Pending == {m \in Mutations : work[m].phase \in {"sent", "committed"}}

Unsent == [phase |-> "idle", overlapped |-> FALSE, snapshot |-> {},
           effect |-> [refreshes |-> FALSE, sets |-> FALSE]]
Done(phase) == [Unsent EXCEPT !.phase = phase]
Idle == [phase |-> "idle", sees |-> {}]
Sent == [phase |-> "sent", sees |-> {}]
InFlight == fetch.phase \in {"sent", "read"}

-----------------------------------------------------------------------------
(* The user *)

\* What a mounted query does: it joins the fetch in flight or starts one.
Start ==
  IF InFlight THEN UNCHANGED <<fetch, overtaken>>
  ELSE fetch' = Sent /\ overtaken' = FALSE

Visit(place) ==
  /\ at # place
  /\ at' = place
  /\ IF ShownAt(place) THEN Start ELSE UNCHANGED <<fetch, overtaken>>
  /\ UNCHANGED <<page, key, cached, work>>

\* mutate: mutations of one page may overlap.
Submit(m, effect) ==
  /\ at = "acting"
  /\ work[m].phase = "idle" /\ \A l \in Mutations : l < m => work[l].phase # "idle"
  /\ work' = [l \in Mutations |->
                CASE l = m -> [Unsent EXCEPT !.phase = "sent", !.effect = effect,
                                             !.overlapped = (Pending # {})]
                  [] l \in Pending -> [work[l] EXCEPT !.overlapped = TRUE]
                  [] OTHER -> work[l]]
  /\ UNCHANGED <<page, key, at, cached, fetch, overtaken>>

-----------------------------------------------------------------------------
(* The API *)

\* The answer is computed in the transaction of the call.
CommitMutation(m) ==
  /\ work[m].phase = "sent"
  /\ work' = [work EXCEPT ![m].phase = "committed", ![m].snapshot = Committed \cup {m}]
  /\ UNCHANGED <<page, key, at, cached, fetch, overtaken>>

\* An error, or no answer: onError leaves the cache alone.
RefuseMutation(m) ==
  /\ work[m].phase \in {"sent", "committed"}
  /\ work' = [work EXCEPT ![m] = Done(IF @.phase = "sent" THEN "refused" ELSE "lost")]
  /\ UNCHANGED <<page, key, at, cached, fetch, overtaken>>

Read ==
  /\ fetch.phase = "sent"
  /\ fetch' = [phase |-> "read", sees |-> Committed]
  /\ UNCHANGED <<page, key, at, cached, work, overtaken>>

-----------------------------------------------------------------------------
(* The cache *)

\* setQueryData: a fetch in flight is not cancelled, and lands on top of it.
Overwrite(m) ==
  /\ cached' = {work[m].snapshot}
  /\ fetch' = IF InFlight THEN fetch ELSE Idle
  /\ overtaken' = (InFlight \/ work[m].overlapped)

\* invalidateQueries fetches what is mounted again: a fetch in flight is
\* cancelled, but the first of a key is joined; what is not mounted waits for
\* the next visit.
Invalidate ==
  /\ cached' = cached
  /\ IF ShownAt(at) /\ ~(InFlight /\ cached = {})
     THEN fetch' = Sent /\ overtaken' = FALSE
     ELSE fetch' = fetch /\ overtaken' = (overtaken \/ InFlight)

\* The facts of another page are not refreshed by the acts of this one.
Ignore ==
  /\ overtaken' = (overtaken \/ (key \notin page.shows /\ (ShownAt(at) \/ InFlight)))
  /\ UNCHANGED <<cached, fetch>>

\* onSuccess of the mutation, wherever the user is by now.
Succeed(m) ==
  LET effect == work[m].effect
  IN  /\ work[m].phase = "committed"
      /\ work' = [work EXCEPT ![m] = Done("answered")]
      /\ IF effect.sets THEN Overwrite(m)
         ELSE IF effect.refreshes THEN Invalidate
         ELSE Ignore
      /\ UNCHANGED <<page, key, at>>

Fetched ==
  /\ fetch.phase = "read"
  /\ cached' = {fetch.sees} /\ fetch' = Idle
  /\ UNCHANGED <<page, key, at, work, overtaken>>

\* The old copy is kept and nothing is tried again.
FetchFailed ==
  /\ InFlight
  /\ fetch' = [phase |-> "failed", sees |-> {}]
  /\ UNCHANGED <<page, key, at, cached, work, overtaken>>

\* A copy nobody shows is dropped after a while.
Collect ==
  /\ ~ShownAt(at) /\ ~InFlight /\ cached # {}
  /\ cached' = {} /\ fetch' = Idle
  /\ UNCHANGED <<page, key, at, work, overtaken>>

-----------------------------------------------------------------------------

PageInit ==
  /\ page \in App /\ key \in Watched(page)
  /\ at = "away" /\ cached = {} /\ fetch = Idle
  /\ work = [m \in Mutations |-> Unsent] /\ overtaken = FALSE

PageNext ==
  \/ \E place \in {"acting", "other", "away"} : Visit(place)
  \/ \E m \in Mutations : \/ \E effect \in Effects : Submit(m, effect)
                          \/ CommitMutation(m) \/ RefuseMutation(m) \/ Succeed(m)
  \/ Read \/ Fetched \/ FetchFailed \/ Collect

PageSpec == PageInit /\ [][PageNext]_pageVars

-----------------------------------------------------------------------------
(* Properties *)

\* What a page shows includes every act of its own the user has been told the
\* success of, once its queries are settled and unless a fetch or an answer was
\* overtaken: each onSuccess refreshes every key of the page its act changes.
ShowsOwnWrites ==
  ShownAt(at) /\ fetch.phase = "idle" /\ ~overtaken => \A copy \in cached : Told \subseteq copy

\* The route of an act asks for a permission that can be granted, and everybody
\* the page offers the act to has it.
Permitted(act) ==
  \E route \in Routes :
    /\ route.path = act.path /\ route.op = act.op
    /\ route.needs \in PERMISSION_CATALOG
    /\ Admits(route, act.gate)

\* Pages that ask for no permission before they offer what they do.
OpenPages ==
  {"PayrollSettings", "FiscalSettings", "EmitirDocumento", "CompanyRegistration",
   "EsocialEventos"}


\* "botões de criar/editar/remover somem da UI se o usuário não tiver a
\* permissão": every act of every page is offered behind the permission its
\* route asks for.
OffersOnlyWhatIsAccepted == \A act \in page.offers : Permitted(act)
=============================================================================

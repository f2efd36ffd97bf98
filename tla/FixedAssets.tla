---------------------------- MODULE FixedAssets ----------------------------
(***************************************************************************)
(* The fixed-asset register of one organization: FixedAssetsService.       *)
(*                                                                         *)
(* A request is one READ COMMITTED transaction.  A request that posts holds *)
(* the organization's journal counter from its first posting to its end    *)
(* (poster), so postings of assets are serialised; what they write was     *)
(* computed from rows read before that.  Rows a posting request has written *)
(* stay locked until it ends; update() and delete() lock one row in their  *)
(* last statement and commit, so they never hold a lock while they wait.   *)
(*                                                                         *)
(* Amounts are cents.  Asset numbers and accounts are left out.            *)
(***************************************************************************)
EXTENDS Integers, FiniteSets, FiniteSetsExt

CONSTANTS
  Assets,                \* assets that exist or may be created
  InitialAssets,
  Register,              \* for each asset: cost, residual, life, acquired (month)
  Bases,                 \* values of residual and life that update() is asked for
  Months,                \* competence months
  AssetRequests,
  MaxAssetsOverlapping,  \* bound: requests begun, once some of them overlap
  NoPoster

ASSUME AssetsAssumption ==
  /\ InitialAssets \subseteq Assets
  /\ Register \in [Assets -> [cost: Nat \ {0}, residual: Nat, life: Nat \ {0},
                              acquired: Nat]]
  /\ Bases \subseteq [residual: Nat, life: Nat \ {0}]
  /\ Months \subseteq Nat /\ MaxAssetsOverlapping \in Nat
  /\ NoPoster \notin AssetRequests

VARIABLES
  asset,           \* committed rows
  assetEntries,    \* committed depreciation entries, one posting each
  disposals,       \* committed write-off postings
  poster,          \* who holds the journal counter
  assetPc, assetTx,
  assetOverlapped  \* history: a request once began while another was in progress

assetCommitted == <<asset, assetEntries, disposals>>
assetVars == <<assetCommitted, poster, assetPc, assetTx, assetOverlapped>>

-----------------------------------------------------------------------------
(* Rows *)

Status == {"ABSENT", "ACTIVE", "FULLY_DEPRECIATED", "DISPOSED"}
AssetRow == [status: Status, residual: Nat, life: Nat, accumulated: Nat]
Absent == [status |-> "ABSENT", residual |-> 0, life |-> 0, accumulated |-> 0]
Created(a) == [status |-> "ACTIVE", residual |-> Register[a].residual,
               life |-> Register[a].life, accumulated |-> 0]

EntryRow == [asset: Assets, month: Months, amount: Nat, by: AssetRequests]
DisposalRow == [asset: Assets, accumulated: Nat, bookValue: Int, by: AssetRequests]

HasEntries(a) == \E e \in assetEntries : e.asset = a

-----------------------------------------------------------------------------
(* Straight-line depreciation *)

Base(a, row) == Register[a].cost - row.residual

\* dividedBy(usefulLifeMonths).toDecimalPlaces(2), half up.
MonthlyAmount(a, row) == (2 * Base(a, row) + row.life) \div (2 * row.life)

\* Mutant: the last month is not cut to what remains.
AmountUncut(a, row) ==
  IF Base(a, row) <= 0 \/ Base(a, row) - row.accumulated <= 0
  THEN 0
  ELSE MonthlyAmount(a, row)

\* Zero when the loop skips the asset.
AmountToPost(a, row) ==
  IF Base(a, row) <= 0 \/ Base(a, row) - row.accumulated <= 0
  THEN 0
  ELSE Min({MonthlyAmount(a, row), Base(a, row) - row.accumulated})

-----------------------------------------------------------------------------
(* Requests *)

AssetOperations == {"depreciate", "dispose", "update", "delete", "none"}

\* written: the accumulated depreciation and status each asset gets.
NoAssetWork == [op |-> "none", month |-> 0, basis |-> <<>>, read |-> <<>>,
           todo |-> {}, entries |-> {}, disposals |-> {}, written |-> <<>>]

AssetWorking == {"processed", "post", "write", "commit"}
AssetInProgress == {r \in AssetRequests : assetPc[r] \in AssetWorking}

AssetsBegun == {r \in AssetRequests : assetPc[r] # "idle"}

\* Any request may begin at any time, up to the bound.
MayBeginAsset(r) ==
  /\ assetPc[r] = "idle"
  /\ assetOverlapped \/ AssetInProgress # {} => Cardinality(AssetsBegun) < MaxAssetsOverlapping

AssetBegins(r, place, work) ==
  /\ MayBeginAsset(r)
  /\ assetPc' = [assetPc EXCEPT ![r] = place]
  /\ assetTx' = [assetTx EXCEPT ![r] =
                   IF place \in AssetWorking THEN work ELSE NoAssetWork]
  /\ assetOverlapped' = (assetOverlapped \/ AssetInProgress # {})
  /\ UNCHANGED <<assetCommitted, poster>>

AssetEnds(r, outcome) ==
  /\ assetPc' = [assetPc EXCEPT ![r] = outcome]
  /\ assetTx' = [assetTx EXCEPT ![r] = NoAssetWork]
  /\ poster' = IF poster = r THEN NoPoster ELSE poster
  /\ UNCHANGED assetOverlapped

AssetRollback(r) == AssetEnds(r, "failed") /\ UNCHANGED assetCommitted

\* What is written, and one more row.
With(written, a, row) ==
  [b \in DOMAIN written \cup {a} |-> IF b = a THEN row ELSE written[b]]

RowFree(r, a) == \A q \in AssetRequests \ {r} : a \notin DOMAIN assetTx[q].written

\* runDepreciation(): the eligible assets, as committed now.
BeginDepreciation(r, month) ==
  AssetBegins(r, "processed",
    [NoAssetWork EXCEPT !.op = "depreciate", !.month = month, !.read = asset,
       !.todo = {a \in Assets : /\ asset[a].status = "ACTIVE"
                                /\ Register[a].acquired <= month}])

\* ... and, in a second statement, those already processed in the month.
ReadProcessed(r) ==
  /\ assetPc[r] = "processed"
  /\ LET todo == {a \in assetTx[r].todo :
                    /\ ~\E e \in assetEntries : e.asset = a /\ e.month = assetTx[r].month
                    /\ AmountToPost(a, assetTx[r].read[a]) > 0}
     IN  /\ assetTx' = [assetTx EXCEPT ![r].todo = todo]
         /\ assetPc' = [assetPc EXCEPT ![r] = IF todo = {} THEN "commit" ELSE "post"]
  /\ UNCHANGED <<assetCommitted, poster, assetOverlapped>>

\* What the run writes to the row of an asset it read as row.
Depreciated(a, row) ==
  LET accumulated == row.accumulated + AmountToPost(a, row)
  IN  [accumulated |-> accumulated,
       status |-> IF accumulated >= Base(a, row)
                  THEN "FULLY_DEPRECIATED" ELSE "ACTIVE"]

EntryFor(r, a) == [asset |-> a, month |-> assetTx[r].month, by |-> r,
                   amount |-> AmountToPost(a, assetTx[r].read[a])]

\* Mutant: no unique index on (asset, month).
PostDepreciationAgain(r, a) ==
  /\ assetPc[r] = "post" /\ assetTx[r].op = "depreciate" /\ a \in assetTx[r].todo
  /\ poster \in {NoPoster, r} /\ RowFree(r, a)
  /\ poster' = r
  /\ assetTx' = [assetTx EXCEPT ![r].todo = @ \ {a},
                      ![r].entries = @ \cup {EntryFor(r, a)},
                      ![r].written = With(@, a, Depreciated(a, assetTx[r].read[a]))]
  /\ assetPc' = [assetPc EXCEPT ![r] = IF assetTx[r].todo = {a} THEN "commit" ELSE @]
  /\ UNCHANGED <<assetCommitted, assetOverlapped>>

\* postDepreciation(): the posting, the entry under its unique index and
\* foreign key, and the asset row, from the row read at the start.
PostDepreciation(r, a) ==
  /\ assetPc[r] = "post" /\ assetTx[r].op = "depreciate" /\ a \in assetTx[r].todo
  /\ poster \in {NoPoster, r} /\ RowFree(r, a)
  /\ IF \/ asset[a].status = "ABSENT"
        \/ \E e \in assetEntries : e.asset = a /\ e.month = assetTx[r].month
     THEN AssetRollback(r)
     ELSE /\ poster' = r
          /\ assetTx' = [assetTx EXCEPT
               ![r].todo = @ \ {a},
               ![r].entries = @ \cup {EntryFor(r, a)},
               ![r].written = With(@, a, Depreciated(a, assetTx[r].read[a]))]
          /\ assetPc' = [assetPc EXCEPT ![r] =
                           IF assetTx[r].todo = {a} THEN "commit" ELSE @]
          /\ UNCHANGED <<assetCommitted, assetOverlapped>>

\* Mutant: a disposed asset may be disposed again.
BeginDisposalOfAny(r, a) ==
  AssetBegins(r, IF asset[a].status = "ABSENT" THEN "failed" ELSE "post",
         [NoAssetWork EXCEPT !.op = "dispose", !.read = asset, !.todo = {a}])

\* dispose(): refused when the asset, as read, is already disposed.
BeginDisposal(r, a) ==
  AssetBegins(r, IF asset[a].status \in {"ABSENT", "DISPOSED"} THEN "failed" ELSE "post",
         [NoAssetWork EXCEPT !.op = "dispose", !.read = asset, !.todo = {a}])

\* The write-off of the book value as read, and the row.
PostDisposal(r, a) ==
  LET row == assetTx[r].read[a]
  IN  /\ assetPc[r] = "post" /\ assetTx[r].op = "dispose" /\ a \in assetTx[r].todo
      /\ poster \in {NoPoster, r}
      /\ RowFree(r, a)
      /\ IF asset[a].status = "ABSENT"
         THEN AssetRollback(r)
         ELSE /\ poster' = r
              /\ assetTx' = [assetTx EXCEPT
                   ![r].disposals = {[asset |-> a, by |-> r,
                      accumulated |-> row.accumulated,
                      bookValue |-> Register[a].cost - row.accumulated]},
                   ![r].written = With(<<>>, a, [status |-> "DISPOSED"])]
              /\ assetPc' = [assetPc EXCEPT ![r] = "commit"]
              /\ UNCHANGED <<assetCommitted, assetOverlapped>>

\* update() of residual value or useful life: refused when the asset, as read,
\* has depreciation entries.
BeginAssetUpdate(r, a, basis) ==
  AssetBegins(r,
    IF asset[a].status = "ABSENT" \/ HasEntries(a) THEN "failed" ELSE "write",
    [NoAssetWork EXCEPT !.op = "update", !.todo = {a}, !.basis = basis])

\* delete(): the same check.
BeginDelete(r, a) ==
  AssetBegins(r,
    IF asset[a].status = "ABSENT" \/ HasEntries(a) THEN "failed" ELSE "write",
    [NoAssetWork EXCEPT !.op = "delete", !.todo = {a}])

\* The last statement of update(): only the two fields, without a condition.
WriteAssetUpdate(r, a) ==
  /\ assetPc[r] = "write" /\ assetTx[r].op = "update" /\ a \in assetTx[r].todo
  /\ RowFree(r, a)
  /\ IF asset[a].status = "ABSENT"
     THEN AssetRollback(r)
     ELSE /\ asset' = [asset EXCEPT ![a].residual = assetTx[r].basis.residual,
                                    ![a].life = assetTx[r].basis.life]
          /\ AssetEnds(r, "done")
          /\ UNCHANGED <<assetEntries, disposals>>

\* The DELETE: the foreign key of the entries restricts it.
WriteDelete(r, a) ==
  /\ assetPc[r] = "write" /\ assetTx[r].op = "delete" /\ a \in assetTx[r].todo
  /\ RowFree(r, a)
  /\ IF asset[a].status = "ABSENT" \/ HasEntries(a)
     THEN AssetRollback(r)
     ELSE /\ asset' = [asset EXCEPT ![a] = Absent]
          /\ AssetEnds(r, "done")
          /\ UNCHANGED <<assetEntries, disposals>>

\* Mutant: the entries are recorded and the row is not written.
AssetCommitWithoutRow(r) ==
  /\ assetPc[r] = "commit"
  /\ assetEntries' = assetEntries \cup assetTx[r].entries
  /\ disposals' = disposals \cup assetTx[r].disposals
  /\ AssetEnds(r, "done")
  /\ UNCHANGED asset

\* A run writes the amounts it computed, a disposal only the status.
AssetCommit(r) ==
  LET written == assetTx[r].written
  IN  /\ assetPc[r] = "commit"
      /\ asset' = [a \in Assets |->
           IF a \notin DOMAIN written THEN asset[a]
           ELSE IF assetTx[r].op = "dispose" THEN [asset[a] EXCEPT !.status = "DISPOSED"]
           ELSE [asset[a] EXCEPT !.accumulated = written[a].accumulated,
                                 !.status = written[a].status]]
      /\ assetEntries' = assetEntries \cup assetTx[r].entries
      /\ disposals' = disposals \cup assetTx[r].disposals
      /\ AssetEnds(r, "done")

AssetAbort(r) == assetPc[r] \in AssetWorking /\ AssetRollback(r)

\* create(): inserts, posts nothing.
CreateAsset(a) ==
  /\ asset[a].status = "ABSENT"
  /\ a \notin {d.asset : d \in disposals} \cup {e.asset : e \in assetEntries}
  \* A new id.
  /\ \A r \in AssetRequests : a \notin assetTx[r].todo \cup DOMAIN assetTx[r].written
  /\ asset' = [asset EXCEPT ![a] = Created(a)]
  /\ UNCHANGED <<assetEntries, disposals, poster, assetPc, assetTx, assetOverlapped>>

-----------------------------------------------------------------------------

AssetInit ==
  /\ asset = [a \in Assets |-> IF a \in InitialAssets THEN Created(a) ELSE Absent]
  /\ assetEntries = {} /\ disposals = {}
  /\ poster = NoPoster
  /\ assetPc = [r \in AssetRequests |-> "idle"]
  /\ assetTx = [r \in AssetRequests |-> NoAssetWork]
  /\ assetOverlapped = FALSE

AssetBegin(r) ==
  \/ \E month \in Months : BeginDepreciation(r, month)
  \/ \E a \in Assets :
       \/ BeginDisposal(r, a)
       \/ \E basis \in Bases : BeginAssetUpdate(r, a, basis)
       \/ BeginDelete(r, a)

AssetStatement(r) ==
  \/ ReadProcessed(r)
  \/ \E a \in Assets :
       \/ PostDepreciation(r, a)
       \/ PostDisposal(r, a)
       \/ WriteAssetUpdate(r, a)
       \/ WriteDelete(r, a)
  \/ AssetCommit(r)

AssetNext ==
  \/ \E r \in AssetRequests : AssetBegin(r) \/ AssetStatement(r) \/ AssetAbort(r)
  \/ \E a \in Assets : CreateAsset(a)

AssetSpec == AssetInit /\ [][AssetNext]_assetVars

-----------------------------------------------------------------------------
(* Properties *)

Total(rows) == MapThenSumSet(LAMBDA e : e.amount, rows)
EntriesOf(a) == {e \in assetEntries : e.asset = a}
DisposalsOf(a) == {d \in disposals : d.asset = a}
\* Every committed row keeps its type, and only a request at work holds the
\* journal counter.
AssetTypeOK ==
  /\ asset \in [Assets -> AssetRow]
  /\ assetEntries \subseteq EntryRow /\ disposals \subseteq DisposalRow
  /\ assetPc \in [AssetRequests -> AssetWorking \cup {"idle", "done", "failed"}]
  /\ assetOverlapped \in BOOLEAN
  /\ poster # NoPoster => poster \in AssetRequests /\ assetPc[poster] \in AssetWorking

\* An asset is depreciated at most once in a month, however many runs of the
\* month are started.
DepreciatedOncePerMonth ==
  \A e, f \in assetEntries : e.asset = f.asset /\ e.month = f.month => e = f

\* No asset is depreciated by more than it cost, even when its residual value
\* changes during a run.  Until requests overlap, the auxiliary ledger
\* reconciles: the accumulated depreciation is within the base and the sum of
\* the postings of the asset, and an asset that is deleted has none.  (Of two
\* runs that overlap, the later one overwrites what the other accumulated.  With
\* the types.)
AccumulatedIsSumOfEntries ==
  /\ AssetTypeOK
  /\ \A a \in Assets :
       /\ asset[a].accumulated <= Register[a].cost
       /\ ~assetOverlapped =>
            /\ asset[a].accumulated <= Max({0, Base(a, asset[a])})
            /\ asset[a].accumulated = Total(EntriesOf(a))

\* "Ativo já foi baixado": until requests overlap, an asset is written off at
\* most once, and the write-off debits all the depreciation credited for it.
WriteOffClearsDepreciation ==
  ~assetOverlapped =>
    \A d \in disposals : /\ DisposalsOf(d.asset) = {d}
                         /\ d.accumulated = Total(EntriesOf(d.asset))
=============================================================================

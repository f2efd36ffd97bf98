----------------------------- MODULE Inventory -----------------------------
(***************************************************************************)
(* One inventory item, its stock rows in several warehouses, and the       *)
(* requests of InventoryItemsService that receive, issue and transfer it.  *)
(*                                                                         *)
(* A request is one READ COMMITTED transaction.  Stock rows change by      *)
(* increments and guarded decrements under their row lock; the item row    *)
(* is overwritten with values computed from what the request read when it  *)
(* began.                                                                  *)
(*                                                                         *)
(* Scales, as in the columns: quantities are thousandths, unit costs ten   *)
(* thousandths, posted amounts cents.                                      *)
(***************************************************************************)
EXTENDS Integers, Sequences, FiniteSets, FiniteSetsExt

CONSTANTS
  Warehouses,
  Quantities,        \* quantities callers ask for
  UnitCosts,         \* unit costs of inbound movements
  Opening,           \* the movement registered before the run
  StockRequests,
  MaxConcurrent,     \* requests in progress at once
  Switched,          \* warehouses that are deactivated and back in the run
  NoHolder

ASSUME WarehousesAssumption == IsFiniteSet(Warehouses)
ASSUME QuantitiesAssumption == Quantities \subseteq Nat \ {0}
ASSUME UnitCostsAssumption == UnitCosts \subseteq Nat \ {0}
ASSUME OpeningAssumption ==
  /\ Opening.warehouse \in Warehouses
  /\ Opening.quantity \in Nat \ {0} /\ Opening.unitCost \in Nat \ {0}
ASSUME SwitchedAssumption == Switched \subseteq Warehouses
ASSUME ConcurrencyAssumption == MaxConcurrent \in Nat \ {0}
ASSUME NobodyAssumption == NoHolder \notin StockRequests

VARIABLES
  isActive,                    \* is_active of the item
  openWarehouses,              \* warehouses that are active
  totalQuantity, averageCost,  \* the item row
  stock,                       \* warehouse_stock rows, 0 where there is none
  movements, transfers,        \* committed history
  itemLock, stockLock, entryLock,
  stockPc, stockTx,
  stockOverlapped              \* history: two movements were once in progress

item == <<totalQuantity, averageCost>>
stockCommitted == <<isActive, openWarehouses, item, stock, movements, transfers>>
locks == <<itemLock, stockLock, entryLock>>
stockVars == <<stockCommitted, locks, stockPc, stockTx, stockOverlapped>>

-----------------------------------------------------------------------------
(* Arithmetic of decimal.js: half away from zero *)

DividedBy(n, d) == (2 * n + d) \div (2 * d)

\* toDecimalPlaces(2) of quantity times unit cost.
TotalCost(quantity, unitCost) == DividedBy(quantity * unitCost, 100000)

\* Mutant: the average of the two costs, not weighted.
PlainAverage(total, average, quantity, unitCost) ==
  IF total = 0 THEN unitCost ELSE DividedBy(average + unitCost, 2)

\* The moving weighted average, to four places.
NewAverage(total, average, quantity, unitCost) ==
  DividedBy(total * average + quantity * unitCost, total + quantity)

-----------------------------------------------------------------------------
(* Requests *)

Operations == {"INBOUND", "OUTBOUND", "TRANSFER", "none"}

Tx == [op: Operations, from: Warehouses, to: Warehouses, quantity: Nat,
       unitCost: Nat, total: Int, average: Nat]

NoStockWork == [op |-> "none", from |-> Opening.warehouse, to |-> Opening.warehouse,
                quantity |-> 0, unitCost |-> 0, total |-> 0, average |-> 0]

\* The statements of each handler that lock shared rows, in order.
Route(op) ==
  CASE op = "INBOUND"  -> <<"post", "receive", "item", "commit">>
    [] op = "OUTBOUND" -> <<"issue", "post", "item", "commit">>
    [] op = "TRANSFER" -> <<"issue", "receive", "commit">>

Working == {"post", "receive", "issue", "item", "commit"}
StockInProgress == {r \in StockRequests : stockPc[r] \in Working}
Moving == {r \in StockInProgress : stockTx[r].op \in {"INBOUND", "OUTBOUND"}}

Continue(r) ==
  LET route == Route(stockTx[r].op)
      i     == CHOOSE k \in DOMAIN route : route[k] = stockPc[r]
  IN  stockPc' = [stockPc EXCEPT ![r] = route[i + 1]]

StockEnds(r, outcome) ==
  /\ stockPc' = [stockPc EXCEPT ![r] = outcome]
  /\ stockTx' = [stockTx EXCEPT ![r] = NoStockWork]
  /\ itemLock' = IF itemLock = r THEN NoHolder ELSE itemLock
  /\ entryLock' = IF entryLock = r THEN NoHolder ELSE entryLock
  /\ stockLock' = [w \in Warehouses |->
                     IF stockLock[w] = r THEN NoHolder ELSE stockLock[w]]
  /\ UNCHANGED stockOverlapped

StockRollback(r) == StockEnds(r, "failed") /\ UNCHANGED stockCommitted

\* The opening reads of a handler: refused, or on to its first statement.
Opens(r, refused, work) ==
  /\ stockPc[r] = "idle"
  /\ Cardinality(StockInProgress) < MaxConcurrent
  /\ stockPc' = [stockPc EXCEPT ![r] = IF refused THEN "failed" ELSE Route(work.op)[1]]
  /\ stockTx' = [stockTx EXCEPT ![r] = IF refused THEN NoStockWork ELSE work]
  /\ stockOverlapped' = (stockOverlapped \/ (work.op # "TRANSFER" /\ Moving # {}))
  /\ UNCHANGED <<stockCommitted, locks>>

\* registerInbound(): the new total and average are computed here, from the
\* item as read.
RegisterInbound(r, w, q, c) ==
  Opens(r, ~isActive \/ w \notin openWarehouses,
        [op |-> "INBOUND", from |-> w, to |-> w, quantity |-> q, unitCost |-> c,
         total |-> totalQuantity + q,
         average |-> NewAverage(totalQuantity, averageCost, q, c)])

\* registerOutbound(): costed at the average as read.
RegisterOutbound(r, w, q) ==
  Opens(r, ~isActive \/ w \notin openWarehouses \/ averageCost <= 0,
        [op |-> "OUTBOUND", from |-> w, to |-> w, quantity |-> q,
         unitCost |-> averageCost, total |-> totalQuantity - q,
         average |-> averageCost])

\* registerTransfer().
RegisterTransfer(r, from, to, q) ==
  Opens(r, from = to \/ ~isActive \/ {from, to} \ openWarehouses # {},
        [NoStockWork EXCEPT !.op = "TRANSFER", !.from = from, !.to = to,
                            !.quantity = q])

-----------------------------------------------------------------------------
(* Statements *)

\* Mutant: the balance is read without locking the row.
IssueUnlocked(r) ==
  /\ stockPc[r] = "issue"
  /\ IF stock[stockTx[r].from] >= stockTx[r].quantity
     THEN Continue(r) /\ UNCHANGED <<stockCommitted, locks, stockTx, stockOverlapped>>
     ELSE StockRollback(r)

\* decrementWarehouseStock(): waits for the row, then checks it as committed.
Issue(r) ==
  LET w == stockTx[r].from
  IN  /\ stockPc[r] = "issue"
      /\ stockLock[w] = NoHolder
      /\ IF stock[w] >= stockTx[r].quantity
         THEN /\ stockLock' = [stockLock EXCEPT ![w] = r]
              /\ Continue(r)
              /\ UNCHANGED <<stockCommitted, itemLock, entryLock, stockTx, stockOverlapped>>
         ELSE StockRollback(r)

\* upsertWarehouseStock(): an increment, whatever the row holds.
Receive(r) ==
  LET w == stockTx[r].to
  IN  /\ stockPc[r] = "receive"
      /\ stockLock[w] = NoHolder
      /\ stockLock' = [stockLock EXCEPT ![w] = r]
      /\ Continue(r)
      /\ UNCHANGED <<stockCommitted, itemLock, entryLock, stockTx, stockOverlapped>>

\* The posting holds the organization's counter; a line of zero is refused.
PostEntry(r) ==
  /\ stockPc[r] = "post"
  /\ entryLock = NoHolder
  /\ IF TotalCost(stockTx[r].quantity, stockTx[r].unitCost) > 0
     THEN /\ entryLock' = r
          /\ Continue(r)
          /\ UNCHANGED <<stockCommitted, itemLock, stockLock, stockTx, stockOverlapped>>
     ELSE StockRollback(r)

\* The item row takes the values computed at the start, if the CHECK
\* constraint accepts them.
WriteItem(r) ==
  /\ stockPc[r] = "item"
  /\ itemLock = NoHolder
  /\ IF stockTx[r].total >= 0
     THEN /\ itemLock' = r
          /\ Continue(r)
          /\ UNCHANGED <<stockCommitted, stockLock, entryLock, stockTx, stockOverlapped>>
     ELSE StockRollback(r)

\* Mutant: a transfer that is not received.
StockWrittenOneSided(r) ==
  IF stockTx[r].op = "INBOUND"
  THEN [stock EXCEPT ![stockTx[r].to] = @ + stockTx[r].quantity]
  ELSE [stock EXCEPT ![stockTx[r].from] = @ - stockTx[r].quantity]

\* The stock rows after the transaction.
StockWritten(r) ==
  LET work == stockTx[r]
  IN  CASE work.op = "INBOUND"  -> [stock EXCEPT ![work.to] = @ + work.quantity]
        [] work.op = "OUTBOUND" -> [stock EXCEPT ![work.from] = @ - work.quantity]
        [] work.op = "TRANSFER" -> [stock EXCEPT ![work.from] = @ - work.quantity,
                                                 ![work.to] = @ + work.quantity]

Movement(r) == [type |-> stockTx[r].op, warehouse |-> stockTx[r].to,
                quantity |-> stockTx[r].quantity, unitCost |-> stockTx[r].unitCost,
                amount |-> TotalCost(stockTx[r].quantity, stockTx[r].unitCost), by |-> r]

Transfer(r) == [from |-> stockTx[r].from, to |-> stockTx[r].to,
                quantity |-> stockTx[r].quantity, by |-> r]

\* Mutant: a transfer counts as a receipt in the total of the item.
CommitTransferCounted(r) ==
  /\ stockPc[r] = "commit"
  /\ stock' = StockWritten(r)
  /\ IF stockTx[r].op = "TRANSFER"
     THEN /\ transfers' = transfers \cup {Transfer(r)}
          /\ totalQuantity' = totalQuantity + stockTx[r].quantity
          /\ UNCHANGED <<movements, averageCost>>
     ELSE /\ movements' = movements \cup {Movement(r)}
          /\ totalQuantity' = stockTx[r].total
          /\ averageCost' = stockTx[r].average
          /\ UNCHANGED transfers
  /\ StockEnds(r, "done")
  /\ UNCHANGED <<isActive, openWarehouses>>

\* An outbound movement does not write the average.
StockCommit(r) ==
  /\ stockPc[r] = "commit"
  /\ stock' = StockWritten(r)
  /\ IF stockTx[r].op = "TRANSFER"
     THEN /\ transfers' = transfers \cup {Transfer(r)}
          /\ UNCHANGED <<movements, item>>
     ELSE /\ movements' = movements \cup {Movement(r)}
          /\ totalQuantity' = stockTx[r].total
          /\ averageCost' = IF stockTx[r].op = "INBOUND" THEN stockTx[r].average
                            ELSE averageCost
          /\ UNCHANGED transfers
  /\ StockEnds(r, "done")
  /\ UNCHANGED <<isActive, openWarehouses>>

-----------------------------------------------------------------------------
(* Failures, and the updates of the item and of the warehouses *)

WaitsFor(r) ==
  CASE stockPc[r] = "issue"   -> stockLock[stockTx[r].from]
    [] stockPc[r] = "receive" -> stockLock[stockTx[r].to]
    [] stockPc[r] = "post"    -> entryLock
    [] stockPc[r] = "item"    -> itemLock
    [] OTHER                  -> NoHolder

\* Postgres aborts one transaction of a cycle.  Each waits for at most one
\* other, so a cycle is a set that WaitsFor permutes.
Deadlock(r) ==
  /\ \E cycle \in SUBSET StockRequests :
       r \in cycle /\ {WaitsFor(q) : q \in cycle} = cycle
  /\ StockRollback(r)

StockAbort(r) == stockPc[r] \in Working /\ StockRollback(r)

\* update(): name and unit are left out; one statement, committed at once.
UpdateItem(active) ==
  /\ itemLock = NoHolder
  /\ isActive' = active
  /\ UNCHANGED <<openWarehouses, item, stock, movements, transfers, locks, stockPc, stockTx,
                 stockOverlapped>>

UpdateWarehouse(w, active) ==
  /\ openWarehouses' = IF active THEN openWarehouses \cup {w}
                       ELSE openWarehouses \ {w}
  /\ UNCHANGED <<isActive, item, stock, movements, transfers, locks, stockPc, stockTx,
                 stockOverlapped>>

-----------------------------------------------------------------------------

\* An item created with create() and one inbound movement registered.
StockInit ==
  /\ isActive = TRUE
  /\ openWarehouses = Warehouses
  /\ totalQuantity = Opening.quantity
  /\ averageCost = Opening.unitCost
  /\ stock = [w \in Warehouses |->
                IF w = Opening.warehouse THEN Opening.quantity ELSE 0]
  /\ movements = {[type |-> "INBOUND", warehouse |-> Opening.warehouse,
                   quantity |-> Opening.quantity, unitCost |-> Opening.unitCost,
                   amount |-> TotalCost(Opening.quantity, Opening.unitCost),
                   by |-> NoHolder]}
  /\ transfers = {}
  /\ itemLock = NoHolder /\ entryLock = NoHolder
  /\ stockLock = [w \in Warehouses |-> NoHolder]
  /\ stockPc = [r \in StockRequests |-> "idle"]
  /\ stockTx = [r \in StockRequests |-> NoStockWork]
  /\ stockOverlapped = FALSE

Begin(r) ==
  \/ \E w \in Warehouses, q \in Quantities :
       \/ \E c \in UnitCosts : RegisterInbound(r, w, q, c)
       \/ RegisterOutbound(r, w, q)
       \/ \E to \in Warehouses : RegisterTransfer(r, w, to, q)

Statement(r) ==
  Issue(r) \/ Receive(r) \/ PostEntry(r) \/ WriteItem(r) \/ StockCommit(r)

StockNext ==
  \/ \E r \in StockRequests : Begin(r) \/ Statement(r) \/ Deadlock(r) \/ StockAbort(r)
  \/ \E active \in BOOLEAN :
       \/ UpdateItem(active)
       \/ \E w \in Switched : UpdateWarehouse(w, active)

StockSpec == StockInit /\ [][StockNext]_stockVars

-----------------------------------------------------------------------------
(* Properties *)

MovementRow == [type: {"INBOUND", "OUTBOUND"}, warehouse: Warehouses,
                quantity: Nat, unitCost: Nat, amount: Nat,
                by: StockRequests \cup {NoHolder}]
TransferRow == [from: Warehouses, to: Warehouses, quantity: Nat, by: StockRequests]

\* Every variable keeps its type.  In it, the CHECK constraint keeps the total
\* from becoming negative, and "Guarda de saldo" each warehouse: however many
\* movements and transfers run at once, none issues what it does not have.
StockTypeOK ==
  /\ isActive \in BOOLEAN /\ openWarehouses \subseteq Warehouses
  /\ totalQuantity \in Nat /\ averageCost \in Nat
  /\ stock \in [Warehouses -> Nat]
  /\ movements \subseteq MovementRow /\ transfers \subseteq TransferRow
  /\ itemLock \in StockRequests \cup {NoHolder} /\ entryLock \in StockRequests \cup {NoHolder}
  /\ stockLock \in [Warehouses -> StockRequests \cup {NoHolder}]
  /\ stockPc \in [StockRequests -> Working \cup {"idle", "done", "failed"}]
  /\ stockTx \in [StockRequests -> Tx]
  /\ stockOverlapped \in BOOLEAN

Sum(rows) == MapThenSumSet(LAMBDA x : x.quantity, rows)
Of(type, w) == {m \in movements : m.type = type /\ m.warehouse = w}

\* The balance of each warehouse is what its committed movements and transfers
\* add up to: none is lost or counted twice, and none takes what it does not
\* have.  (With the types.)
StockIsItsHistory ==
  /\ StockTypeOK
  /\ \A w \in Warehouses :
       stock[w] = Sum(Of("INBOUND", w)) - Sum(Of("OUTBOUND", w))
                + Sum({t \in transfers : t.to = w})
                - Sum({t \in transfers : t.from = w})

Posted(rows) == MapThenSumSet(LAMBDA x : x.amount, rows)
Amounts(type) == Posted({m \in movements : m.type = type})
Received == Sum({m \in movements : m.type = "INBOUND"})

\* Until two movements overlap, the total of the item is the sum of its
\* warehouses ("Depósitos só segmentam onde fisicamente o item está"), and the
\* balance of the inventory account is the value of that stock at average cost,
\* up to half a cent per movement and the rounding of each average.  The later
\* of two that overlap overwrites both with what it computed when it began;
\* transfers may overlap anything.
ItemAgreesWithStock ==
  LET difference == 100000 * (Amounts("INBOUND") - Amounts("OUTBOUND"))
                      - totalQuantity * averageCost
      margin == Cardinality(movements) * (100000 + Received)
  IN ~stockOverlapped =>
       /\ totalQuantity = MapThenSumSet(LAMBDA w : stock[w], Warehouses)
       /\ 2 * difference \in -margin .. margin

=============================================================================

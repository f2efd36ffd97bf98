--------------------------- MODULE HoldingsProofs ----------------------------
(***************************************************************************)
(* Proofs about the goods and the assets a company holds.  Inventory: types, *)
(* that every balance of a warehouse is what its history adds up to, and    *)
(* that the item agrees with its stock and with the inventory account until *)
(* two movements overlap.  Fixed assets: that an asset is depreciated once  *)
(* a month whatever runs overlap, and, until requests do, that the          *)
(* auxiliary ledger reconciles and a write-off clears what was depreciated.  *)
(***************************************************************************)
EXTENDS Inventory, FixedAssets, SumTheorems

Ended == {"idle", "done", "failed"}
Places == Working \cup Ended

(* The strengthening of StockIsItsHistory. *)

\* The rows of the history are of requests that are done, each its own.
HistorySound ==
  /\ IsFiniteSet(movements) /\ IsFiniteSet(transfers)
  /\ \A m \in movements : m.by # NoHolder => stockPc[m.by] = "done"
  /\ \A t \in transfers : stockPc[t.by] = "done"

Balanced ==
  \A w \in Warehouses :
    stock[w] = Sum(Of("INBOUND", w)) - Sum(Of("OUTBOUND", w))
             + Sum({t \in transfers : t.to = w})
             - Sum({t \in transfers : t.from = w})

\* How far a request is tells what it does, and the item row it is about to
\* write passed its check.
Fits(r) ==
  /\ stockPc[r] \in Ended <=> stockTx[r].op = "none"
  /\ stockTx[r].op # "none" => stockTx[r].quantity > 0
  /\ stockPc[r] = "issue" => stockTx[r].op \in {"OUTBOUND", "TRANSFER"}
  /\ stockPc[r] = "receive" => stockTx[r].op \in {"INBOUND", "TRANSFER"}
  /\ stockPc[r] \in {"post", "item"} => stockTx[r].op \in {"INBOUND", "OUTBOUND"}
  /\ stockTx[r].op = "TRANSFER" => stockTx[r].from # stockTx[r].to
  /\ stockTx[r].op \in {"INBOUND", "OUTBOUND"} => stockTx[r].from = stockTx[r].to
  /\ stockPc[r] = "commit" /\ stockTx[r].op # "TRANSFER" => stockTx[r].total >= 0

HasIssued(r) ==
  \/ stockTx[r].op = "OUTBOUND" /\ stockPc[r] \in {"post", "item", "commit"}
  \/ stockTx[r].op = "TRANSFER" /\ stockPc[r] \in {"receive", "commit"}

HasReceived(r) ==
  \/ stockTx[r].op = "INBOUND" /\ stockPc[r] \in {"item", "commit"}
  \/ stockTx[r].op = "TRANSFER" /\ stockPc[r] = "commit"

\* It holds the stock rows it has issued from, with what it takes in them, and
\* received into.
Holds(r) ==
  /\ HasIssued(r) => stockLock[stockTx[r].from] = r /\ stock[stockTx[r].from] >= stockTx[r].quantity
  /\ HasReceived(r) => stockLock[stockTx[r].to] = r

RequestInv(r) == Fits(r) /\ Holds(r)

StockInv ==
  /\ StockTypeOK /\ HistorySound /\ Balanced
  /\ \A r \in StockRequests : RequestInv(r)

(* The strengthening of ItemAgreesWithStock: while no two movements overlap,   *)
(* the one in progress still has the item as it read it.                       *)

Moves(r) == stockTx[r].op \in {"INBOUND", "OUTBOUND"}
Scale == 100000  \* the scales of a quantity times a unit cost, over that of amounts
Issued == Sum({m \in movements : m.type = "OUTBOUND"})
Difference ==
  Scale * (Amounts("INBOUND") - Amounts("OUTBOUND")) - totalQuantity * averageCost
Margin == Cardinality(movements) * (Scale + Received)

\* What the request will write follows from the item row.
Current(r) ==
  /\ stockTx[r].op = "INBOUND" =>
       /\ stockTx[r].total = totalQuantity + stockTx[r].quantity
       /\ stockTx[r].average =
                 NewAverage(totalQuantity, averageCost, stockTx[r].quantity, stockTx[r].unitCost)
  /\ stockTx[r].op = "OUTBOUND" =>
       stockTx[r].total = totalQuantity - stockTx[r].quantity /\ stockTx[r].unitCost = averageCost

Serial ==
  /\ \A q, r \in StockRequests : Moves(q) /\ Moves(r) => q = r
  /\ \A r \in StockRequests : Current(r)

ItemInv ==
  /\ Serial
  /\ totalQuantity = SumOf(stock, Warehouses)
  /\ totalQuantity = Received - Issued
  /\ 2 * Difference \in -Margin .. Margin

IInv == StockInv /\ (~stockOverlapped => ItemInv)

-----------------------------------------------------------------------------
(* Arithmetic *)

\* A quotient is a natural, and off by half of its divisor at most.
LEMMA DividedByRounds ==
  ASSUME NEW n \in Nat, NEW d \in Nat \ {0}
  PROVE  DividedBy(n, d) \in Nat /\ 2 * d * DividedBy(n, d) \in 2 * n - d .. 2 * n + d
<1>1. \A x \in Nat, y \in Nat \ {0} :
        /\ x \div y \in Nat /\ x % y \in 0 .. y - 1
        /\ x = y * (x \div y) + (x % y)
  OBVIOUS
<1>2. 2 * n + d \in Nat /\ 2 * d \in Nat \ {0}
  OBVIOUS
<1>3. /\ DividedBy(n, d) \in Nat /\ (2 * n + d) % (2 * d) \in 0 .. 2 * d - 1
      /\ 2 * n + d = (2 * d) * DividedBy(n, d) + ((2 * n + d) % (2 * d))
  BY <1>1, <1>2 DEF DividedBy
<1>. QED BY <1>3

\* The cost of a movement is within half a cent of its exact value.
LEMMA CostRounds ==
  ASSUME NEW quantity \in Nat, NEW unitCost \in Nat
  PROVE  /\ TotalCost(quantity, unitCost) \in Nat
         /\ 2 * (Scale * TotalCost(quantity, unitCost) - quantity * unitCost) \in -Scale .. Scale
<1>. DEFINE worth == quantity * unitCost
            cost == TotalCost(quantity, unitCost)
<1>1. worth \in Nat /\ cost = DividedBy(worth, Scale)
  BY DEF TotalCost, Scale
<1>2. Scale \in Nat \ {0}
  BY SMT DEF Scale
<1>. HIDE DEF worth, cost
<1>3. cost \in Nat /\ 2 * Scale * cost \in 2 * worth - Scale .. 2 * worth + Scale
  BY <1>1, <1>2, DividedByRounds
<1>4. 2 * (Scale * cost - worth) \in -Scale .. Scale
  BY <1>1, <1>2, <1>3
<1>. QED BY <1>3, <1>4 DEF worth, cost

\* The new average times the new total is within half of the total of what the
\* item was worth and the movement adds.
LEMMA AverageRounds ==
  ASSUME NEW total \in Nat, NEW average \in Nat, NEW quantity \in Nat \ {0}, NEW unitCost \in Nat
  PROVE  LET new == NewAverage(total, average, quantity, unitCost)
             sum == total + quantity
         IN  /\ new \in Nat
             /\ 2 * (sum * new - total * average - quantity * unitCost) \in -sum .. sum
<1>. DEFINE worth == total * average + quantity * unitCost
            sum == total + quantity
            new == NewAverage(total, average, quantity, unitCost)
<1>1. total * average \in Nat /\ quantity * unitCost \in Nat /\ sum \in Nat \ {0}
  OBVIOUS
<1>2. worth \in Nat
  BY <1>1
<1>3. new = DividedBy(worth, sum)
  BY DEF NewAverage
<1>. HIDE DEF worth, sum, new
<1>4. new \in Nat /\ 2 * sum * new \in 2 * worth - sum .. 2 * worth + sum
  BY <1>1, <1>2, <1>3, DividedByRounds
<1>5. sum * new \in Nat /\ 2 * sum * new = 2 * (sum * new)
  BY <1>1, <1>4
<1>6. 2 * (sum * new - worth) \in -sum .. sum
  BY <1>1, <1>2, <1>4, <1>5
<1>7. sum * new - worth = sum * new - total * average - quantity * unitCost
  BY <1>1, <1>5 DEF worth
<1>. QED BY <1>4, <1>6, <1>7 DEF sum, new

\* One more movement widens the margin by a cent and the rounding of an average.
LEMMA MarginGrows ==
  ASSUME NEW n \in Nat, NEW received \in Nat, NEW quantity \in Nat, NEW scale \in Nat
  PROVE  (n + 1) * (scale + (received + quantity)) >=
           n * (scale + received) + scale + received + quantity
<1>. DEFINE a == n * (scale + received)
            b == n * quantity
<1>1. a \in Nat /\ b \in Nat
  OBVIOUS
<1>2. (n + 1) * (scale + (received + quantity)) = a + b + scale + received + quantity
  OBVIOUS
<1>. QED BY <1>1, <1>2

-----------------------------------------------------------------------------
(* Steps that commit nothing *)

\* No work is a work.
LEMMA NoWorkFits ==
  /\ NoStockWork \in Tx /\ NoStockWork.op = "none"
  /\ \A r \in StockRequests : stockPc[r] \in Ended /\ stockTx[r] = NoStockWork => RequestInv(r) /\ Current(r)
<1>1. NoStockWork \in Tx /\ NoStockWork.op = "none"
  BY OpeningAssumption DEF NoStockWork, Tx, Operations
<1>. QED
  BY <1>1 DEF RequestInv, Fits, Holds, HasIssued, HasReceived, Current, Ended, Working

\* A request is left alone by steps that keep its locks and the rows under them.
LEMMA RequestKept ==
  ASSUME StockTypeOK, NEW q \in StockRequests, RequestInv(q), stockPc'[q] = stockPc[q], stockTx'[q] = stockTx[q],
         \A w \in Warehouses : stockLock[w] = q => stockLock'[w] = q /\ stock'[w] = stock[w]
  PROVE  RequestInv(q)'
<1>1. stockTx[q].from \in Warehouses /\ stockTx[q].to \in Warehouses
  BY DEF StockTypeOK, Tx
<1>2. Fits(q)'
  BY DEF RequestInv, Fits
<1>3. Holds(q)'
  BY <1>1 DEF RequestInv, Holds, HasIssued, HasReceived
<1>. QED BY <1>2, <1>3 DEF RequestInv

\* A step of one request that commits nothing: it takes what is free or frees
\* what it holds, and does not begin while another moves the item, unless that
\* is recorded.
LEMMA PrivateStep ==
  ASSUME IInv, NEW r \in StockRequests,
         stockPc' = [stockPc EXCEPT ![r] = stockPc'[r]], stockTx' = [stockTx EXCEPT ![r] = stockTx'[r]],
         stockPc[r] # "done", stockPc'[r] \in Places, stockTx'[r] \in Tx,
         UNCHANGED stockCommitted,
         stockLock' \in [Warehouses -> StockRequests \cup {NoHolder}],
         \A w \in Warehouses : stockLock'[w] = stockLock[w] \/ stockLock[w] \in {r, NoHolder},
         itemLock' \in StockRequests \cup {NoHolder}, entryLock' \in StockRequests \cup {NoHolder},
         stockOverlapped' \in BOOLEAN, stockOverlapped => stockOverlapped',
         RequestInv(r)',
         ~stockOverlapped' => /\ Current(r)'
                              /\ Moves(r)' => \A q \in StockRequests \ {r} : ~Moves(q)
  PROVE  IInv'
<1>. USE DEF IInv, StockInv, stockCommitted, item
<1>1. \A q \in StockRequests \ {r} : stockPc'[q] = stockPc[q] /\ stockTx'[q] = stockTx[q]
  BY DEF StockTypeOK
<1>2. StockTypeOK'
  BY DEF StockTypeOK, Places, Ended
<1>3. HistorySound'
  <2>1. \A q \in StockRequests : stockPc[q] = "done" => stockPc'[q] = "done"
    BY <1>1
  <2>2. /\ \A m \in movements : m.by \in StockRequests \cup {NoHolder}
        /\ \A t \in transfers : t.by \in StockRequests
    BY DEF StockTypeOK, MovementRow, TransferRow
  <2>. QED BY <2>1, <2>2 DEF HistorySound
<1>4. Balanced'
  BY DEF Balanced, Of
<1>5. ASSUME NEW q \in StockRequests
      PROVE  RequestInv(q)'
  <2>1. CASE q # r
    <3>1. RequestInv(q) /\ q # NoHolder /\ stockPc'[q] = stockPc[q] /\ stockTx'[q] = stockTx[q]
      BY <1>1, <2>1, NobodyAssumption
    <3>2. \A w \in Warehouses : stockLock[w] = q => stockLock'[w] = q /\ stock'[w] = stock[w]
      BY <2>1, <3>1
    <3>. QED BY <3>1, <3>2, RequestKept
  <2>. QED BY <2>1
<1>6. ASSUME ~stockOverlapped'
      PROVE  ItemInv'
  <2>1. ItemInv /\ Current(r)' /\ (Moves(r)' => \A q \in StockRequests \ {r} : ~Moves(q))
    BY <1>6
  <2>2. Serial'
    <3>1. \A q \in StockRequests \ {r} : Current(q)'
      BY <1>1, <2>1 DEF ItemInv, Serial, Current
    <3>2. \A q \in StockRequests \ {r} : Moves(q)' <=> Moves(q)
      BY <1>1 DEF Moves
    <3>. QED BY <2>1, <3>1, <3>2 DEF ItemInv, Serial
  <2>3. totalQuantity' = SumOf(stock, Warehouses)' /\ totalQuantity' = (Received - Issued)'
    BY <2>1 DEF ItemInv, Received, Issued
  <2>4. Difference' = Difference /\ Margin' = Margin
    <3>1. Amounts("INBOUND")' = Amounts("INBOUND") /\ Amounts("OUTBOUND")' = Amounts("OUTBOUND")
      BY DEF Amounts
    <3>2. Received' = Received
      BY DEF Received
    <3>. QED BY <3>1, <3>2 DEF Difference, Margin
  <2>. QED BY <2>1, <2>2, <2>3, <2>4 DEF ItemInv
<1>. QED BY <1>2, <1>3, <1>4, <1>5, <1>6

\* The end of a transaction frees its locks and no other.
LEMMA EndFrees ==
  ASSUME StockTypeOK, NEW r \in StockRequests, NEW outcome \in {"done", "failed"}, StockEnds(r, outcome)
  PROVE  /\ stockPc' = [stockPc EXCEPT ![r] = outcome] /\ stockTx' = [stockTx EXCEPT ![r] = NoStockWork]
         /\ stockPc'[r] = outcome /\ stockTx'[r] = NoStockWork /\ RequestInv(r)' /\ Current(r)'
         /\ stockLock' \in [Warehouses -> StockRequests \cup {NoHolder}]
         /\ \A w \in Warehouses : stockLock'[w] = IF stockLock[w] = r THEN NoHolder ELSE stockLock[w]
         /\ itemLock' \in StockRequests \cup {NoHolder} /\ entryLock' \in StockRequests \cup {NoHolder}
         /\ stockOverlapped' = stockOverlapped
<1>1. stockPc' = [stockPc EXCEPT ![r] = outcome] /\ stockTx' = [stockTx EXCEPT ![r] = NoStockWork]
  BY DEF StockEnds
<1>2. stockPc'[r] = outcome /\ stockTx'[r] = NoStockWork
  BY <1>1 DEF StockTypeOK
<1>3. RequestInv(r)' /\ Current(r)'
  BY <1>2, NoWorkFits DEF RequestInv, Fits, Holds, HasIssued, HasReceived, Current, Ended, Working
<1>. QED BY <1>1, <1>2, <1>3 DEF StockEnds, StockTypeOK

\* A rollback commits nothing.
LEMMA RollbackStep ==
  ASSUME IInv, NEW r \in StockRequests, stockPc[r] \in Working, StockRollback(r)
  PROVE  IInv'
<1>1. StockTypeOK /\ StockEnds(r, "failed") /\ UNCHANGED stockCommitted
  BY DEF IInv, StockInv, StockRollback
<1>2. \A w \in Warehouses : stockLock'[w] = stockLock[w] \/ stockLock[w] \in {r, NoHolder}
  BY <1>1, EndFrees
<1>3. Moves(r)' => \A q \in StockRequests \ {r} : ~Moves(q)
  BY <1>1, EndFrees, NoWorkFits DEF Moves
<1>4. stockPc[r] # "done" /\ "failed" \in Places /\ stockOverlapped \in BOOLEAN
  BY <1>1 DEF Places, Ended, Working, StockTypeOK
<1>5. stockPc' = [stockPc EXCEPT ![r] = stockPc'[r]] /\ stockTx' = [stockTx EXCEPT ![r] = stockTx'[r]]
  BY <1>1, EndFrees
<1>. QED BY <1>1, <1>2, <1>3, <1>4, <1>5, EndFrees, NoWorkFits, PrivateStep

\* Where a request goes from where it is.
After(op, place) ==
  CASE place = "issue"                      -> IF op = "OUTBOUND" THEN "post" ELSE "receive"
    [] place = "post"                       -> IF op = "INBOUND" THEN "receive" ELSE "item"
    [] place = "receive" /\ op = "INBOUND"  -> "item"
    [] place = "receive" /\ op = "TRANSFER" -> "commit"
    [] place = "item"                       -> "commit"

\* A place is on a route once.
LEMMA RoutePlace ==
  ASSUME NEW route, NEW k \in DOMAIN route, \A j \in DOMAIN route : route[j] = route[k] => j = k
  PROVE  (CHOOSE j \in DOMAIN route : route[j] = route[k]) = k
OBVIOUS

\* The next statement of a handler is the next place of its route.
LEMMA ContinueGoesOn ==
  ASSUME StockTypeOK, NEW r \in StockRequests, Fits(r), stockPc[r] \in Working \ {"commit"}, Continue(r)
  PROVE  stockPc' = [stockPc EXCEPT ![r] = stockPc'[r]] /\ stockPc'[r] = After(stockTx[r].op, stockPc[r])
<1>. DEFINE route == Route(stockTx[r].op)
            i == CHOOSE k \in DOMAIN route : route[k] = stockPc[r]
<1>1. stockPc' = [stockPc EXCEPT ![r] = route[i + 1]]
  BY DEF Continue
<1>2. stockTx[r].op \in {"INBOUND", "OUTBOUND", "TRANSFER"}
  BY DEF Fits, StockTypeOK, Tx, Operations, Ended, Working
<1>3. CASE stockTx[r].op = "INBOUND"
  <2>1. route = <<"post", "receive", "item", "commit">>
    BY <1>3 DEF Route
  <2>2. PICK k \in 1 .. 3 : route[k] = stockPc[r] /\ route[k + 1] = After(stockTx[r].op, stockPc[r])
    BY <1>3, <2>1 DEF Fits, Working, After
  <2>3. DOMAIN route = 1 .. 4 /\ \A j \in DOMAIN route : route[j] = route[k] => j = k
    BY <2>1
  <2>. HIDE DEF route
  <2>4. i = k
    BY <2>2, <2>3, RoutePlace
  <2>. QED BY <1>1, <2>2, <2>4 DEF StockTypeOK
<1>4. CASE stockTx[r].op = "OUTBOUND"
  <2>1. route = <<"issue", "post", "item", "commit">>
    BY <1>4 DEF Route
  <2>2. PICK k \in 1 .. 3 : route[k] = stockPc[r] /\ route[k + 1] = After(stockTx[r].op, stockPc[r])
    BY <1>4, <2>1 DEF Fits, Working, After
  <2>3. DOMAIN route = 1 .. 4 /\ \A j \in DOMAIN route : route[j] = route[k] => j = k
    BY <2>1
  <2>. HIDE DEF route
  <2>4. i = k
    BY <2>2, <2>3, RoutePlace
  <2>. QED BY <1>1, <2>2, <2>4 DEF StockTypeOK
<1>5. CASE stockTx[r].op = "TRANSFER"
  <2>1. route = <<"issue", "receive", "commit">>
    BY <1>5 DEF Route
  <2>2. PICK k \in 1 .. 2 : route[k] = stockPc[r] /\ route[k + 1] = After(stockTx[r].op, stockPc[r])
    BY <1>5, <2>1 DEF Fits, Working, After
  <2>3. DOMAIN route = 1 .. 3 /\ \A j \in DOMAIN route : route[j] = route[k] => j = k
    BY <2>1
  <2>. HIDE DEF route
  <2>4. i = k
    BY <2>2, <2>3, RoutePlace
  <2>. QED BY <1>1, <2>2, <2>4 DEF StockTypeOK
<1>. QED BY <1>2, <1>3, <1>4, <1>5

\* A statement that takes what it needs and lets the request go on.
LEMMA GoesOnStep ==
  ASSUME IInv, NEW r \in StockRequests, stockPc[r] \in Working \ {"commit"}, Continue(r),
         UNCHANGED <<stockCommitted, stockTx, stockOverlapped>>,
         itemLock' \in StockRequests \cup {NoHolder}, entryLock' \in StockRequests \cup {NoHolder},
         stockLock' \in [Warehouses -> StockRequests \cup {NoHolder}],
         \A w \in Warehouses : stockLock'[w] = stockLock[w] \/ stockLock[w] \in {r, NoHolder},
         stockPc'[r] = "commit" /\ stockTx[r].op # "TRANSFER" => stockTx[r].total >= 0,
         Holds(r)'
  PROVE  IInv'
<1>1. StockTypeOK /\ RequestInv(r) /\ (~stockOverlapped => Serial)
  BY DEF IInv, StockInv, ItemInv
<1>2. /\ stockPc' = [stockPc EXCEPT ![r] = stockPc'[r]] /\ stockPc'[r] = After(stockTx[r].op, stockPc[r])
      /\ stockTx[r].op \in {"INBOUND", "OUTBOUND", "TRANSFER"}
  BY <1>1, ContinueGoesOn DEF RequestInv, Fits, StockTypeOK, Tx, Operations, Ended, Working
<1>3. stockPc'[r] \in Working
  BY <1>1, <1>2 DEF RequestInv, Fits, After, Working
<1>4. stockTx' = [stockTx EXCEPT ![r] = stockTx'[r]] /\ stockTx'[r] = stockTx[r] /\ stockTx'[r] \in Tx /\ stockOverlapped' \in BOOLEAN
  BY <1>1 DEF StockTypeOK
<1>5. Fits(r)'
  BY <1>1, <1>2, <1>3, <1>4 DEF RequestInv, Fits, After, Ended, Working
<1>6. stockPc[r] # "done" /\ stockPc'[r] \in Places
  BY <1>3 DEF Working, Places
<1>7. ~stockOverlapped' => /\ Current(r)'
                           /\ Moves(r)' => \A q \in StockRequests \ {r} : ~Moves(q)
  BY <1>1, <1>4 DEF Serial, Current, Moves, stockCommitted, item
<1>8. RequestInv(r)'
  BY <1>5 DEF RequestInv
<1>. QED BY <1>2, <1>4, <1>6, <1>7, <1>8, PrivateStep

\* The statements that take a lock.
LEMMA StatementStep ==
  ASSUME IInv, NEW r \in StockRequests, Issue(r) \/ Receive(r) \/ PostEntry(r) \/ WriteItem(r)
  PROVE  IInv'
<1>1. /\ StockTypeOK /\ Fits(r) /\ Holds(r) /\ r # NoHolder /\ stockTx[r] \in Tx
      /\ stockTx[r].from \in Warehouses /\ stockTx[r].to \in Warehouses
  BY NobodyAssumption DEF IInv, StockInv, RequestInv, StockTypeOK, Tx
<1>2. stockPc[r] \in Working \ {"commit"}
  BY DEF Issue, Receive, PostEntry, WriteItem, Working
<1>3. Continue(r) => stockPc'[r] = After(stockTx[r].op, stockPc[r])
  BY <1>1, <1>2, ContinueGoesOn
<1>4. ASSUME StockRollback(r)
      PROVE  IInv'
  BY <1>2, <1>4, RollbackStep
<1>5. CASE Issue(r)
  <2>1. CASE stock[stockTx[r].from] >= stockTx[r].quantity
    <3>1. /\ stockPc[r] = "issue" /\ stockLock[stockTx[r].from] = NoHolder /\ Continue(r)
          /\ stockLock' = [stockLock EXCEPT ![stockTx[r].from] = r]
          /\ UNCHANGED <<stockCommitted, itemLock, entryLock, stockTx, stockOverlapped>>
      BY <1>5, <2>1 DEF Issue
    <3>2. Holds(r)'
      BY <1>1, <1>3, <2>1, <3>1 DEF Holds, HasIssued, HasReceived, After, Fits, stockCommitted, StockTypeOK
    <3>3. /\ stockLock' \in [Warehouses -> StockRequests \cup {NoHolder}]
          /\ \A w \in Warehouses : stockLock'[w] = stockLock[w] \/ stockLock[w] \in {r, NoHolder}
          /\ stockPc'[r] # "commit"
      BY <1>1, <1>3, <3>1 DEF StockTypeOK, After
    <3>. QED BY <1>1, <1>2, <3>1, <3>2, <3>3, GoesOnStep DEF StockTypeOK
  <2>. QED BY <1>4, <1>5, <2>1 DEF Issue
<1>6. CASE Receive(r)
  <2>1. /\ stockPc[r] = "receive" /\ stockLock[stockTx[r].to] = NoHolder /\ Continue(r)
        /\ stockLock' = [stockLock EXCEPT ![stockTx[r].to] = r]
        /\ UNCHANGED <<stockCommitted, itemLock, entryLock, stockTx, stockOverlapped>>
    BY <1>6 DEF Receive
  <2>2. Holds(r)'
    BY <1>1, <1>3, <2>1 DEF Holds, HasIssued, HasReceived, After, Fits, stockCommitted, StockTypeOK
  <2>3. /\ stockLock' \in [Warehouses -> StockRequests \cup {NoHolder}]
        /\ \A w \in Warehouses : stockLock'[w] = stockLock[w] \/ stockLock[w] \in {r, NoHolder}
        /\ stockPc'[r] = "commit" => stockTx[r].op = "TRANSFER"
    BY <1>1, <1>3, <2>1 DEF StockTypeOK, After, Fits
  <2>. QED BY <1>1, <1>2, <2>1, <2>2, <2>3, GoesOnStep DEF StockTypeOK
<1>7. CASE PostEntry(r)
  <2>1. CASE TotalCost(stockTx[r].quantity, stockTx[r].unitCost) > 0
    <3>1. /\ stockPc[r] = "post" /\ entryLock' = r /\ Continue(r)
          /\ UNCHANGED <<stockCommitted, itemLock, stockLock, stockTx, stockOverlapped>>
      BY <1>7, <2>1 DEF PostEntry
    <3>2. Holds(r)'
      BY <1>1, <1>3, <3>1 DEF Holds, HasIssued, HasReceived, After, Fits, stockCommitted
    <3>3. stockPc'[r] # "commit"
      BY <1>1, <1>3, <3>1 DEF After
    <3>. QED BY <1>1, <1>2, <3>1, <3>2, <3>3, GoesOnStep DEF StockTypeOK
  <2>. QED BY <1>4, <1>7, <2>1 DEF PostEntry
<1>8. CASE WriteItem(r)
  <2>1. CASE stockTx[r].total >= 0
    <3>1. /\ stockPc[r] = "item" /\ itemLock' = r /\ Continue(r)
          /\ UNCHANGED <<stockCommitted, entryLock, stockLock, stockTx, stockOverlapped>>
      BY <1>8, <2>1 DEF WriteItem
    <3>2. Holds(r)'
      BY <1>1, <1>3, <3>1 DEF Holds, HasIssued, HasReceived, After, Fits, stockCommitted
    <3>. QED BY <1>1, <1>2, <2>1, <3>1, <3>2, GoesOnStep DEF StockTypeOK
  <2>. QED BY <1>4, <1>8, <2>1 DEF WriteItem
<1>. QED BY <1>5, <1>6, <1>7, <1>8

\* The opening reads of a handler.
LEMMA OpensStep ==
  ASSUME IInv, NEW r \in StockRequests, NEW work \in Tx, NEW refused \in BOOLEAN,
         Opens(r, refused, work),
         work.op \in {"INBOUND", "OUTBOUND", "TRANSFER"}, work.quantity > 0,
         ~refused => (work.op = "TRANSFER" <=> work.from # work.to),
         work.op = "INBOUND" =>
           /\ work.total = totalQuantity + work.quantity
           /\ work.average =
                NewAverage(totalQuantity, averageCost, work.quantity, work.unitCost),
         work.op = "OUTBOUND" =>
           work.total = totalQuantity - work.quantity /\ work.unitCost = averageCost
  PROVE  IInv'
<1>. DEFINE place == IF refused THEN "failed" ELSE Route(work.op)[1]
            w == IF refused THEN NoStockWork ELSE work
<1>1. StockTypeOK /\ \A q \in StockRequests : Fits(q)
  BY DEF IInv, StockInv, RequestInv
<1>2. /\ stockPc[r] = "idle" /\ stockPc' = [stockPc EXCEPT ![r] = place] /\ stockTx' = [stockTx EXCEPT ![r] = w]
      /\ stockOverlapped' = (stockOverlapped \/ (work.op # "TRANSFER" /\ Moving # {}))
      /\ UNCHANGED <<stockCommitted, locks>>
  BY DEF Opens
<1>3. stockPc'[r] = place /\ stockTx'[r] = w /\ w \in Tx
  BY <1>1, <1>2, NoWorkFits DEF StockTypeOK
<1>4. Route(work.op)[1] = IF work.op = "INBOUND" THEN "post" ELSE "issue"
  BY DEF Route
<1>5. place \in Places /\ stockPc' = [stockPc EXCEPT ![r] = stockPc'[r]] /\ stockTx' = [stockTx EXCEPT ![r] = stockTx'[r]]
  BY <1>2, <1>3, <1>4 DEF Places, Working, Ended
<1>6. RequestInv(r)' /\ Current(r)'
  <2>1. CASE refused
    BY <1>3, <2>1, NoWorkFits DEF RequestInv, Fits, Holds, HasIssued, HasReceived, Current,
       Ended, Working
  <2>2. CASE ~refused
    <3>1. stockPc'[r] = (IF work.op = "INBOUND" THEN "post" ELSE "issue") /\ stockTx'[r] = work
      BY <1>3, <1>4, <2>2
    <3>2. Fits(r)'
      BY <2>2, <3>1 DEF Fits, Ended
    <3>3. Holds(r)'
      BY <3>1 DEF Holds, HasIssued, HasReceived
    <3>4. Current(r)'
      BY <1>2, <3>1 DEF Current, stockCommitted, item
    <3>. QED BY <3>2, <3>3, <3>4 DEF RequestInv
  <2>. QED BY <2>1, <2>2
<1>7. ~stockOverlapped' /\ Moves(r)' => \A q \in StockRequests \ {r} : ~Moves(q)
  <2>1. Moves(r)' => work.op # "TRANSFER"
    BY <1>3, NoWorkFits DEF Moves
  <2>2. \A q \in StockRequests : Moves(q) => q \in Moving
    BY <1>1 DEF Moves, Moving, StockInProgress, Fits, StockTypeOK, Ended
  <2>. QED BY <1>2, <2>1, <2>2
<1>8. /\ stockLock' \in [Warehouses -> StockRequests \cup {NoHolder}] /\ stockLock' = stockLock
      /\ itemLock' \in StockRequests \cup {NoHolder} /\ entryLock' \in StockRequests \cup {NoHolder}
      /\ stockOverlapped' \in BOOLEAN /\ stockOverlapped => stockOverlapped' /\ UNCHANGED stockCommitted
  BY <1>1, <1>2 DEF StockTypeOK, locks
<1>. HIDE DEF w, place
<1>. QED BY <1>2, <1>3, <1>5, <1>6, <1>7, <1>8, PrivateStep

\* What a transfer asks for.
TransferOf(from, to, quantity) ==
  [NoStockWork EXCEPT !.op = "TRANSFER", !.from = from, !.to = to, !.quantity = quantity]

\* It is a work.
LEMMA TransferIsWork ==
  ASSUME NEW from \in Warehouses, NEW to \in Warehouses, NEW q \in Nat
  PROVE  /\ TransferOf(from, to, q) \in Tx /\ TransferOf(from, to, q).op = "TRANSFER"
         /\ TransferOf(from, to, q).quantity = q
         /\ TransferOf(from, to, q).from = from /\ TransferOf(from, to, q).to = to
BY NoWorkFits DEF TransferOf, Tx, Operations

\* What a handler computes from the item as it reads it.
LEMMA BeginStep ==
  ASSUME IInv, NEW r \in StockRequests, Begin(r)
  PROVE  IInv'
<1>1. StockTypeOK /\ totalQuantity \in Nat /\ averageCost \in Nat
  BY DEF IInv, StockInv, StockTypeOK
<1>2. Quantities \subseteq Nat \ {0} /\ UnitCosts \subseteq Nat \ {0}
  BY QuantitiesAssumption, UnitCostsAssumption
<1>3. ASSUME NEW w \in Warehouses, NEW q \in Quantities, NEW c \in UnitCosts,
             RegisterInbound(r, w, q, c)
      PROVE  IInv'
  <2>. DEFINE work == [op |-> "INBOUND", from |-> w, to |-> w, quantity |-> q, unitCost |-> c,
                       total |-> totalQuantity + q,
                       average |-> NewAverage(totalQuantity, averageCost, q, c)]
              refused == ~isActive \/ w \notin openWarehouses
  <2>1. NewAverage(totalQuantity, averageCost, q, c) \in Nat
    BY <1>1, <1>2, AverageRounds
  <2>2. /\ work \in Tx /\ work.op = "INBOUND" /\ work.quantity = q /\ q > 0
        /\ work.from = work.to /\ work.unitCost = c /\ work.total = totalQuantity + q
        /\ work.average = NewAverage(totalQuantity, averageCost, q, c)
    BY <1>1, <1>2, <2>1 DEF Tx, Operations
  <2>3. Opens(r, refused, work) /\ refused \in BOOLEAN
    BY <1>3 DEF RegisterInbound
  <2>. HIDE DEF work, refused
  <2>. QED BY <2>2, <2>3, OpensStep
<1>4. ASSUME NEW w \in Warehouses, NEW q \in Quantities, RegisterOutbound(r, w, q)
      PROVE  IInv'
  <2>. DEFINE work == [op |-> "OUTBOUND", from |-> w, to |-> w, quantity |-> q,
                       unitCost |-> averageCost, total |-> totalQuantity - q,
                       average |-> averageCost]
              refused == ~isActive \/ w \notin openWarehouses \/ averageCost <= 0
  <2>1. /\ work \in Tx /\ work.op = "OUTBOUND" /\ work.quantity = q /\ q > 0
        /\ work.from = work.to /\ work.total = totalQuantity - q
        /\ work.unitCost = averageCost
    BY <1>1, <1>2 DEF Tx, Operations
  <2>2. Opens(r, refused, work) /\ refused \in BOOLEAN
    BY <1>4 DEF RegisterOutbound
  <2>. HIDE DEF work, refused
  <2>. QED BY <2>1, <2>2, OpensStep
<1>5. ASSUME NEW w \in Warehouses, NEW to \in Warehouses, NEW q \in Quantities,
             RegisterTransfer(r, w, to, q)
      PROVE  IInv'
  <2>. DEFINE work == TransferOf(w, to, q)
              refused == w = to \/ ~isActive \/ {w, to} \ openWarehouses # {}
  <2>1. /\ work \in Tx /\ work.op = "TRANSFER" /\ work.quantity = q /\ q > 0
        /\ work.from = w /\ work.to = to
    BY <1>2, TransferIsWork
  <2>2. Opens(r, refused, work) /\ refused \in BOOLEAN /\ (~refused => w # to)
    BY <1>5 DEF RegisterTransfer, TransferOf
  <2>. HIDE DEF work, refused
  <2>. QED BY <2>1, <2>2, OpensStep
<1>. QED BY <1>3, <1>4, <1>5 DEF Begin

\* Updates of the item and of a warehouse leave stock and requests alone.
LEMMA UpdateStep ==
  ASSUME IInv, isActive' \in BOOLEAN, openWarehouses' \subseteq Warehouses,
         UNCHANGED <<item, stock, movements, transfers, locks, stockPc, stockTx, stockOverlapped>>
  PROVE  IInv'
<1>. USE DEF item, locks
<1>1. StockTypeOK'
  BY DEF IInv, StockInv, StockTypeOK
<1>2. HistorySound' /\ Balanced'
  BY DEF IInv, StockInv, HistorySound, Balanced, Of
<1>3. \A q \in StockRequests : RequestInv(q)'
  BY DEF IInv, StockInv, RequestInv, Fits, Holds, HasIssued, HasReceived
<1>4. ASSUME ~stockOverlapped'
      PROVE  ItemInv'
  <2>1. ItemInv
    BY <1>4 DEF IInv
  <2>2. Serial'
    BY <2>1 DEF ItemInv, Serial, Moves, Current
  <2>3. totalQuantity' = SumOf(stock, Warehouses)' /\ totalQuantity' = (Received - Issued)'
    BY <2>1 DEF ItemInv, Received, Issued
  <2>4. Difference' = Difference /\ Margin' = Margin
    <3>1. Amounts("INBOUND")' = Amounts("INBOUND") /\ Amounts("OUTBOUND")' = Amounts("OUTBOUND")
      BY DEF Amounts
    <3>2. Received' = Received
      BY DEF Received
    <3>. QED BY <3>1, <3>2 DEF Difference, Margin
  <2>. QED BY <2>1, <2>2, <2>3, <2>4 DEF ItemInv
<1>. QED BY <1>1, <1>2, <1>3, <1>4 DEF IInv, StockInv

-----------------------------------------------------------------------------
(* Commit *)

\* What a commit brings to a warehouse, and what it takes from it.
Brought(r, w) == IF stockTx[r].op \in {"INBOUND", "TRANSFER"} /\ w = stockTx[r].to THEN stockTx[r].quantity ELSE 0
Taken(r, w) == IF stockTx[r].op \in {"OUTBOUND", "TRANSFER"} /\ w = stockTx[r].from THEN stockTx[r].quantity ELSE 0

\* What is known of a request about to commit, and of the stock it writes.
LEMMA CommitFacts ==
  ASSUME IInv, NEW r \in StockRequests, StockCommit(r)
  PROVE  /\ StockTypeOK /\ HistorySound /\ Balanced /\ r # NoHolder /\ stockPc[r] = "commit"
         /\ stockTx[r] \in Tx /\ stockTx[r].op \in {"INBOUND", "OUTBOUND", "TRANSFER"}
         /\ stockTx[r].from \in Warehouses /\ stockTx[r].to \in Warehouses /\ stockTx[r].quantity \in Nat \ {0}
         /\ stockTx[r].op = "TRANSFER" <=> stockTx[r].from # stockTx[r].to
         /\ stockTx[r].op # "TRANSFER" => stockTx[r].total \in Nat
         /\ \A w \in Warehouses :
              /\ stock'[w] = stock[w] + Brought(r, w) - Taken(r, w)
              /\ stock[w] >= Taken(r, w)
              /\ stock'[w] # stock[w] => stockLock[w] = r
         /\ stock' \in [Warehouses -> Nat]
         /\ StockEnds(r, "done")
<1>1. StockTypeOK /\ HistorySound /\ Balanced /\ Fits(r) /\ Holds(r) /\ r # NoHolder /\ stockPc[r] = "commit"
  BY NobodyAssumption DEF IInv, StockInv, RequestInv, StockCommit
<1>2. /\ stockTx[r] \in Tx /\ stockTx[r].op \in {"INBOUND", "OUTBOUND", "TRANSFER"}
      /\ stockTx[r].from \in Warehouses /\ stockTx[r].to \in Warehouses /\ stockTx[r].quantity \in Nat \ {0}
      /\ stockTx[r].op = "TRANSFER" <=> stockTx[r].from # stockTx[r].to
      /\ stockTx[r].op # "TRANSFER" => stockTx[r].total \in Nat
  BY <1>1 DEF StockTypeOK, Tx, Operations, Fits, Ended
<1>3. /\ stockTx[r].op \in {"OUTBOUND", "TRANSFER"} =>
           stockLock[stockTx[r].from] = r /\ stock[stockTx[r].from] >= stockTx[r].quantity
      /\ stockTx[r].op \in {"INBOUND", "TRANSFER"} => stockLock[stockTx[r].to] = r
  BY <1>1 DEF Holds, HasIssued, HasReceived
<1>4. stock' = StockWritten(r) /\ StockEnds(r, "done") /\ stock \in [Warehouses -> Nat]
  BY <1>1 DEF StockCommit, StockTypeOK
<1>5. DOMAIN stock' = Warehouses /\ stock' = [w \in Warehouses |-> stock'[w]]
  BY <1>2, <1>4 DEF StockWritten
<1>6. ASSUME NEW w \in Warehouses
      PROVE  /\ stock'[w] = stock[w] + Brought(r, w) - Taken(r, w)
             /\ stock[w] >= Taken(r, w)
             /\ stock'[w] # stock[w] => stockLock[w] = r
  <2>0. stock[w] \in Nat
    BY <1>4
  <2>1. CASE stockTx[r].op = "INBOUND"
    <3>1. stock'[w] = IF w = stockTx[r].to THEN stock[w] + stockTx[r].quantity ELSE stock[w]
      BY <1>2, <1>4, <2>1 DEF StockWritten
    <3>. QED BY <1>2, <1>3, <2>0, <2>1, <3>1 DEF Brought, Taken
  <2>2. CASE stockTx[r].op = "OUTBOUND"
    <3>1. stock'[w] = IF w = stockTx[r].from THEN stock[w] - stockTx[r].quantity ELSE stock[w]
      BY <1>2, <1>4, <2>2 DEF StockWritten
    <3>. QED BY <1>2, <1>3, <2>0, <2>2, <3>1 DEF Brought, Taken
  <2>3. CASE stockTx[r].op = "TRANSFER"
    <3>1. stock' = [[stock EXCEPT ![stockTx[r].from] = stock[stockTx[r].from] - stockTx[r].quantity]
                           EXCEPT ![stockTx[r].to] = stock[stockTx[r].to] + stockTx[r].quantity]
      BY <1>2, <1>4, <2>3 DEF StockWritten
    <3>2. stock'[w] = IF w = stockTx[r].to THEN stock[w] + stockTx[r].quantity
                           ELSE IF w = stockTx[r].from THEN stock[w] - stockTx[r].quantity ELSE stock[w]
      BY <1>2, <1>4, <3>1
    <3>. QED BY <1>2, <1>3, <2>0, <2>3, <3>2 DEF Brought, Taken
  <2>. QED BY <1>2, <2>1, <2>2, <2>3
<1>7. \A w \in Warehouses : stock'[w] \in Nat
  BY <1>2, <1>4, <1>6 DEF Brought, Taken
<1>. QED BY <1>1, <1>2, <1>3, <1>4, <1>5, <1>6, <1>7

\* A row that is new adds its quantity and amount to whatever it is counted in.
LEMMA RowsGrow ==
  ASSUME NEW rows, IsFiniteSet(rows), NEW x, x \notin rows, x.quantity \in Nat,
         \A y \in rows : y.quantity \in Nat, NEW S, S \subseteq rows
  PROVE  /\ IsFiniteSet(S) /\ Sum(S) \in Nat /\ Sum(S \cup {x}) = Sum(S) + x.quantity
         /\ x.amount \in Nat /\ (\A y \in rows : y.amount \in Nat) =>
              Posted(S) \in Nat /\ Posted(S \cup {x}) = Posted(S) + x.amount
<1>1. IsFiniteSet(S) /\ x \notin S
  BY FS_Subset
<1>2. \A y \in S : y.quantity \in Nat
  OBVIOUS
<1>3. \A y \in S \cup {x} : y.quantity \in Int
  BY <1>2
<1>4. Sum(S) \in Nat /\ Sum(S \cup {x}) = Sum(S) + x.quantity
  BY <1>1, <1>2, <1>3, RowsNat, QuantitiesAdded DEF Sum, QuantitiesOf
<1>5. ASSUME x.amount \in Nat, \A y \in rows : y.amount \in Nat
      PROVE  Posted(S) \in Nat /\ Posted(S \cup {x}) = Posted(S) + x.amount
  <2>1. (\A y \in S : y.amount \in Nat) /\ \A y \in S \cup {x} : y.amount \in Int
    BY <1>5
  <2>. QED BY <1>1, <2>1, RowsNat, AmountsAdded DEF Posted, AmountsOf
<1>. QED BY <1>1, <1>4, <1>5

\* The row a commit writes is new, since its request was not done before.
LEMMA NewRow ==
  ASSUME IInv, NEW r \in StockRequests, StockCommit(r)
  PROVE  /\ stockTx[r].op = "TRANSFER" =>
              /\ transfers' = transfers \cup {Transfer(r)} /\ Transfer(r) \notin transfers
              /\ Transfer(r) \in TransferRow /\ movements' = movements
              /\ Transfer(r).from = stockTx[r].from /\ Transfer(r).to = stockTx[r].to
              /\ Transfer(r).quantity = stockTx[r].quantity /\ Transfer(r).by = r
         /\ stockTx[r].op # "TRANSFER" =>
              /\ movements' = movements \cup {Movement(r)} /\ Movement(r) \notin movements
              /\ Movement(r) \in MovementRow /\ transfers' = transfers
              /\ Movement(r).type = stockTx[r].op /\ Movement(r).warehouse = stockTx[r].to
              /\ Movement(r).quantity = stockTx[r].quantity /\ Movement(r).by = r
              /\ Movement(r).amount = TotalCost(stockTx[r].quantity, stockTx[r].unitCost)
<1>1. /\ HistorySound /\ r # NoHolder /\ stockPc[r] = "commit" /\ stockTx[r] \in Tx
      /\ stockTx[r].op \in {"INBOUND", "OUTBOUND", "TRANSFER"}
      /\ stockTx[r].from \in Warehouses /\ stockTx[r].to \in Warehouses /\ stockTx[r].quantity \in Nat
  BY CommitFacts
<1>2. stockTx[r].unitCost \in Nat /\ TotalCost(stockTx[r].quantity, stockTx[r].unitCost) \in Nat
  BY <1>1, CostRounds DEF Tx
<1>3. CASE stockTx[r].op = "TRANSFER"
  <2>1. transfers' = transfers \cup {Transfer(r)} /\ movements' = movements
    BY <1>3 DEF StockCommit
  <2>2. /\ Transfer(r) \in TransferRow /\ Transfer(r).by = r
        /\ Transfer(r).from = stockTx[r].from /\ Transfer(r).to = stockTx[r].to
        /\ Transfer(r).quantity = stockTx[r].quantity
    BY <1>1 DEF Transfer, TransferRow
  <2>. QED BY <1>1, <1>3, <2>1, <2>2 DEF HistorySound
<1>4. CASE stockTx[r].op # "TRANSFER"
  <2>1. movements' = movements \cup {Movement(r)} /\ transfers' = transfers
    BY <1>4 DEF StockCommit
  <2>2. /\ Movement(r) \in MovementRow /\ Movement(r).by = r
        /\ Movement(r).type = stockTx[r].op /\ Movement(r).warehouse = stockTx[r].to
        /\ Movement(r).quantity = stockTx[r].quantity
        /\ Movement(r).amount = TotalCost(stockTx[r].quantity, stockTx[r].unitCost)
    BY <1>1, <1>2, <1>4 DEF Movement, MovementRow
  <2>. QED BY <1>1, <1>4, <2>1, <2>2 DEF HistorySound
<1>. QED BY <1>3, <1>4

\* A commit keeps the types and the invariants of the requests: the others hold
\* the rows they have taken from, and its row is of a request that is done now.
LEMMA CommitKeeps ==
  ASSUME IInv, NEW r \in StockRequests, StockCommit(r)
  PROVE  StockTypeOK' /\ HistorySound' /\ \A q \in StockRequests : RequestInv(q)'
<1>1. /\ StockTypeOK /\ HistorySound /\ stockPc[r] = "commit" /\ StockEnds(r, "done")
      /\ stockTx[r] \in Tx /\ stockTx[r].op \in {"INBOUND", "OUTBOUND", "TRANSFER"}
      /\ stockTx[r].op # "TRANSFER" => stockTx[r].total \in Nat
      /\ stock' \in [Warehouses -> Nat]
      /\ \A w \in Warehouses : stock'[w] # stock[w] => stockLock[w] = r
  BY CommitFacts
<1>2. /\ isActive' = isActive /\ openWarehouses' = openWarehouses
      /\ totalQuantity' = IF stockTx[r].op = "TRANSFER" THEN totalQuantity ELSE stockTx[r].total
      /\ averageCost' = IF stockTx[r].op = "INBOUND" THEN stockTx[r].average ELSE averageCost
  BY <1>1 DEF StockCommit, item
<1>3. StockTypeOK'
  <2>1. movements' \subseteq MovementRow /\ transfers' \subseteq TransferRow
    BY <1>1, NewRow DEF StockTypeOK
  <2>2. totalQuantity' \in Nat /\ averageCost' \in Nat
    BY <1>1, <1>2 DEF StockTypeOK, Tx
  <2>3. stockPc' \in [StockRequests -> Working \cup {"idle", "done", "failed"}] /\ stockTx' \in [StockRequests -> Tx]
    BY <1>1, EndFrees, NoWorkFits DEF StockTypeOK
  <2>. QED BY <1>1, <1>2, <2>1, <2>2, <2>3, EndFrees DEF StockTypeOK
<1>4. HistorySound'
  <2>1. IsFiniteSet(movements') /\ IsFiniteSet(transfers')
    BY <1>1, NewRow, FS_AddElement DEF HistorySound
  <2>2. \A q \in StockRequests : stockPc[q] = "done" \/ q = r => stockPc'[q] = "done"
    BY <1>1, EndFrees DEF StockTypeOK
  <2>3. \A m \in movements' : m.by = r \/ m \in movements
    BY <1>1, NewRow
  <2>4. \A t \in transfers' : t.by = r \/ t \in transfers
    BY <1>1, NewRow
  <2>5. /\ \A m \in movements : m.by \in StockRequests \cup {NoHolder}
        /\ \A t \in transfers : t.by \in StockRequests
    BY <1>1 DEF StockTypeOK, MovementRow, TransferRow
  <2>. QED BY <1>1, <2>1, <2>2, <2>3, <2>4, <2>5 DEF HistorySound
<1>5. ASSUME NEW q \in StockRequests
      PROVE  RequestInv(q)'
  <2>1. CASE q = r
    BY <1>1, <2>1, EndFrees
  <2>2. CASE q # r
    <3>1. RequestInv(q) /\ stockPc'[q] = stockPc[q] /\ stockTx'[q] = stockTx[q]
      BY <1>1, <2>2, EndFrees DEF IInv, StockInv, StockTypeOK
    <3>2. \A w \in Warehouses : stockLock[w] = q => stockLock'[w] = q /\ stock'[w] = stock[w]
      BY <1>1, <2>2, EndFrees
    <3>. QED BY <1>1, <3>1, <3>2, RequestKept
  <2>. QED BY <2>1, <2>2
<1>. QED BY <1>3, <1>4, <1>5

\* The row a commit adds to the history is what it adds to the stock.
LEMMA CommitBalances ==
  ASSUME IInv, NEW r \in StockRequests, StockCommit(r)
  PROVE  Balanced'
<1>1. /\ StockTypeOK /\ HistorySound /\ Balanced
      /\ stockTx[r].op \in {"INBOUND", "OUTBOUND", "TRANSFER"} /\ stockTx[r].quantity \in Nat \ {0}
      /\ stockTx[r].op = "TRANSFER" <=> stockTx[r].from # stockTx[r].to
      /\ \A w \in Warehouses : stock'[w] = stock[w] + Brought(r, w) - Taken(r, w)
  BY CommitFacts
<1>2. /\ IsFiniteSet(movements) /\ IsFiniteSet(transfers)
      /\ \A m \in movements : m.quantity \in Nat
      /\ \A t \in transfers : t.quantity \in Nat
      /\ \A w \in Warehouses : stock[w] \in Nat
  BY <1>1 DEF HistorySound, StockTypeOK, MovementRow, TransferRow
<1>. SUFFICES ASSUME NEW w \in Warehouses
              PROVE  stock'[w] = Sum(Of("INBOUND", w)') - Sum(Of("OUTBOUND", w)')
                               + Sum({t \in transfers' : t.to = w})
                               - Sum({t \in transfers' : t.from = w})
  BY DEF Balanced
<1>. DEFINE in2 == Of("INBOUND", w)'
            out2 == Of("OUTBOUND", w)'
            to2 == {t \in transfers' : t.to = w}
            from2 == {t \in transfers' : t.from = w}
<1>3. SUFFICES stock'[w] = Sum(in2) - Sum(out2) + Sum(to2) - Sum(from2)
  OBVIOUS
<1>. DEFINE in == Of("INBOUND", w)
            out == Of("OUTBOUND", w)
            to == {t \in transfers : t.to = w}
            from == {t \in transfers : t.from = w}
            q == stockTx[r].quantity
<1>4. stock[w] = Sum(in) - Sum(out) + Sum(to) - Sum(from)
  BY <1>1 DEF Balanced
<1>5. in \subseteq movements /\ out \subseteq movements /\ to \subseteq transfers /\ from \subseteq transfers
  BY DEF Of
<1>6. Sum(in) \in Nat /\ Sum(out) \in Nat /\ Sum(to) \in Nat /\ Sum(from) \in Nat
  <2>1. ASSUME NEW rows, IsFiniteSet(rows), \A y \in rows : y.quantity \in Nat, NEW S, S \subseteq rows
        PROVE  Sum(S) \in Nat
    <3>1. IsFiniteSet(S) /\ \A y \in S : y.quantity \in Nat
      BY <2>1, FS_Subset
    <3>. QED BY <3>1, RowsNat DEF Sum, QuantitiesOf
  <2>. HIDE DEF in, out, to, from
  <2>. QED BY <1>2, <1>5, <2>1
<1>7. CASE stockTx[r].op = "TRANSFER"
  <2>1. in2 = in /\ out2 = out
    BY <1>7, NewRow DEF Of
  <2>2. /\ to2 = IF w = stockTx[r].to THEN to \cup {Transfer(r)} ELSE to
        /\ from2 = IF w = stockTx[r].from THEN from \cup {Transfer(r)} ELSE from
    BY <1>7, NewRow
  <2>3. /\ Sum(to \cup {Transfer(r)}) = Sum(to) + q
        /\ Sum(from \cup {Transfer(r)}) = Sum(from) + q
    <3>1. Transfer(r) \notin transfers /\ Transfer(r).quantity = q /\ q \in Nat
      BY <1>1, <1>7, NewRow
    <3>. HIDE DEF to, from, q
    <3>. QED BY <1>2, <1>5, <3>1, RowsGrow
  <2>4. /\ Brought(r, w) = IF w = stockTx[r].to THEN q ELSE 0
        /\ Taken(r, w) = IF w = stockTx[r].from THEN q ELSE 0
        /\ q \in Nat /\ stock'[w] = stock[w] + Brought(r, w) - Taken(r, w)
    BY <1>1, <1>7 DEF Brought, Taken
  <2>. HIDE DEF in, out, to, from, in2, out2, to2, from2, q
  <2>5. CASE w = stockTx[r].to
    BY <1>1, <1>4, <1>6, <1>7, <2>1, <2>2, <2>3, <2>4, <2>5
  <2>6. CASE w = stockTx[r].from
    BY <1>1, <1>4, <1>6, <1>7, <2>1, <2>2, <2>3, <2>4, <2>6
  <2>7. CASE w \notin {stockTx[r].to, stockTx[r].from}
    BY <1>2, <1>4, <1>6, <2>1, <2>2, <2>4, <2>7
  <2>. QED BY <2>5, <2>6, <2>7
<1>8. CASE stockTx[r].op # "TRANSFER"
  <2>1. transfers' = transfers
    BY <1>8, NewRow
  <2>2. /\ in2 = IF stockTx[r].op = "INBOUND" /\ w = stockTx[r].to
                       THEN in \cup {Movement(r)} ELSE in
        /\ out2 = IF stockTx[r].op = "OUTBOUND" /\ w = stockTx[r].to
                        THEN out \cup {Movement(r)} ELSE out
    BY <1>8, NewRow DEF Of
  <2>3. /\ Sum(in \cup {Movement(r)}) = Sum(in) + q
        /\ Sum(out \cup {Movement(r)}) = Sum(out) + q
    <3>1. Movement(r) \notin movements /\ Movement(r).quantity = q /\ q \in Nat
      BY <1>1, <1>8, NewRow
    <3>. HIDE DEF in, out, q
    <3>. QED BY <1>2, <1>5, <3>1, RowsGrow
  <2>4. /\ Brought(r, w) = IF stockTx[r].op = "INBOUND" /\ w = stockTx[r].to THEN q ELSE 0
        /\ Taken(r, w) = IF stockTx[r].op = "OUTBOUND" /\ w = stockTx[r].to THEN q ELSE 0
        /\ q \in Nat /\ stock'[w] = stock[w] + Brought(r, w) - Taken(r, w)
        /\ to2 = to /\ from2 = from
    BY <1>1, <1>8, <2>1 DEF Brought, Taken
  <2>. HIDE DEF in, out, to, from, in2, out2, to2, from2, q
  <2>5. CASE w = stockTx[r].to /\ stockTx[r].op = "INBOUND"
    BY <1>2, <1>4, <1>6, <2>2, <2>3, <2>4, <2>5
  <2>6. CASE w = stockTx[r].to /\ stockTx[r].op = "OUTBOUND"
    BY <1>2, <1>4, <1>6, <2>2, <2>3, <2>4, <2>6
  <2>7. CASE w # stockTx[r].to
    BY <1>2, <1>4, <1>6, <2>2, <2>4, <2>7
  <2>. QED BY <1>1, <1>8, <2>5, <2>6, <2>7
<1>. QED BY <1>7, <1>8

\* A receipt moves the value of the stock by its cost, up to half a cent, and by
\* the rounding of the new average.
LEMMA InboundMargin ==
  ASSUME NEW n \in Nat, NEW received \in Nat, NEW T \in Nat, NEW A \in Nat,
         NEW q \in Nat \ {0}, NEW c \in Nat, NEW ins \in Nat, NEW outs \in Nat, T <= received,
         2 * (Scale * (ins - outs) - T * A) \in -(n * (Scale + received)) .. n * (Scale + received)
  PROVE  LET margin == (n + 1) * (Scale + (received + q))
         IN  2 * (Scale * ((ins + TotalCost(q, c)) - outs) - (T + q) * NewAverage(T, A, q, c))
               \in -margin .. margin
<1>. DEFINE cost == TotalCost(q, c)
            worth == T * A
            exact == q * c
            new == (T + q) * NewAverage(T, A, q, c)
            m == n * (Scale + received)
            m2 == (n + 1) * (Scale + (received + q))
<1>0. Scale \in Nat
  BY SMT DEF Scale
<1>1. cost \in Nat /\ 2 * (Scale * cost - exact) \in -Scale .. Scale
  BY CostRounds
<1>2. NewAverage(T, A, q, c) \in Nat /\ 2 * (new - worth - exact) \in -(T + q) .. T + q
  BY AverageRounds
<1>3. m2 >= m + Scale + received + q
  BY <1>0, MarginGrows
<1>4. worth \in Nat /\ exact \in Nat /\ new \in Nat /\ m \in Nat /\ m2 \in Nat
  BY <1>0, <1>2
<1>5. 2 * (Scale * (ins - outs) - worth) \in -m .. m
  OBVIOUS
<1>. HIDE DEF cost, worth, exact, new, m, m2
<1>6. /\ Scale * ((ins + cost) - outs) = Scale * (ins - outs) + Scale * cost
      /\ Scale * (ins - outs) \in Int /\ Scale * cost \in Int
  BY <1>0, <1>1
<1>7. 2 * (Scale * ((ins + cost) - outs) - new) \in -m2 .. m2
  <2>. DEFINE x == Scale * (ins - outs)
              y == Scale * cost
              z == Scale * ((ins + cost) - outs)
  <2>1. z = x + y /\ x \in Int /\ y \in Int
    BY <1>6
  <2>2. 2 * (x - worth) \in -m .. m /\ 2 * (y - exact) \in -Scale .. Scale
    BY <1>1, <1>5
  <2>. HIDE DEF x, y, z
  <2>3. 2 * (z - new) \in -m2 .. m2
    BY <1>0, <1>2, <1>3, <1>4, <2>1, <2>2
  <2>. QED BY <2>3 DEF z
<1>. QED BY <1>7 DEF cost, new, m2

\* An issue moves it by its cost, up to half a cent.
LEMMA OutboundMargin ==
  ASSUME NEW n \in Nat, NEW received \in Nat, NEW T \in Nat, NEW A \in Nat,
         NEW q \in Nat, NEW ins \in Nat, NEW outs \in Nat,
         2 * (Scale * (ins - outs) - T * A) \in -(n * (Scale + received)) .. n * (Scale + received)
  PROVE  LET margin == (n + 1) * (Scale + received)
         IN  2 * (Scale * (ins - (outs + TotalCost(q, A))) - (T - q) * A) \in -margin .. margin
<1>. DEFINE cost == TotalCost(q, A)
            worth == T * A
            exact == q * A
            m == n * (Scale + received)
            m2 == (n + 1) * (Scale + received)
            x == Scale * (ins - outs)
            y == Scale * cost
<1>0. Scale \in Nat
  BY SMT DEF Scale
<1>1. cost \in Nat /\ 2 * (y - exact) \in -Scale .. Scale
  BY CostRounds
<1>2. m2 = m + Scale + received /\ m \in Nat /\ worth \in Nat /\ exact \in Nat
  BY <1>0
<1>3. 2 * (x - worth) \in -m .. m
  OBVIOUS
<1>4. (T - q) * A = worth - exact
  OBVIOUS
<1>5. x \in Int /\ y \in Int /\ Scale * (ins - (outs + cost)) = x - y
  <2>. HIDE DEF cost
  <2>. QED BY <1>0, <1>1
<1>. HIDE DEF cost, worth, exact, m, m2, x, y
<1>6. 2 * ((x - y) - (worth - exact)) \in -m2 .. m2
  BY <1>0, <1>1, <1>2, <1>3, <1>5
<1>. QED BY <1>4, <1>5, <1>6 DEF cost, m2

\* A receipt adds its quantity to the stock of the item, an issue takes it, a
\* transfer moves it from one of its rows to another.
LEMMA CommitStock ==
  ASSUME IInv, NEW r \in StockRequests, StockCommit(r)
  PROVE  SumOf(stock', Warehouses) =
           CASE stockTx[r].op = "INBOUND"  -> SumOf(stock, Warehouses) + stockTx[r].quantity
             [] stockTx[r].op = "OUTBOUND" -> SumOf(stock, Warehouses) - stockTx[r].quantity
             [] stockTx[r].op = "TRANSFER" -> SumOf(stock, Warehouses)
<1>. DEFINE from == stockTx[r].from
            to == stockTx[r].to
            q == stockTx[r].quantity
            mid == [w \in Warehouses |-> IF w = from THEN stock[w] - Taken(r, w) ELSE stock[w]]
<1>1. /\ StockTypeOK /\ stockTx[r].op \in {"INBOUND", "OUTBOUND", "TRANSFER"}
      /\ from \in Warehouses /\ to \in Warehouses /\ q \in Nat \ {0}
      /\ stockTx[r].op = "TRANSFER" <=> from # to
      /\ \A w \in Warehouses : stock'[w] = stock[w] + Brought(r, w) - Taken(r, w)
  BY CommitFacts
<1>2. \A w \in Warehouses : stock[w] \in Nat
  BY <1>1 DEF StockTypeOK
<1>3. \A w \in Warehouses : Brought(r, w) \in Nat /\ Taken(r, w) \in Nat
  BY <1>1 DEF Brought, Taken
<1>4. /\ Brought(r, to) = IF stockTx[r].op = "OUTBOUND" THEN 0 ELSE q
      /\ Taken(r, from) = IF stockTx[r].op = "INBOUND" THEN 0 ELSE q
      /\ \A w \in Warehouses \ {to} : Brought(r, w) = 0
      /\ \A w \in Warehouses \ {from} : Taken(r, w) = 0
  BY <1>1 DEF Brought, Taken
<1>5. /\ \A w \in Warehouses : stock[w] \in Int /\ mid[w] \in Int /\ stock'[w] \in Int
      /\ \A w \in Warehouses \ {from} : mid[w] = stock[w]
      /\ \A w \in Warehouses \ {to} : stock'[w] = mid[w]
      /\ mid[from] = stock[from] - Taken(r, from)
      /\ stock'[to] = mid[to] + Brought(r, to)
  BY <1>1, <1>2, <1>3, <1>4
<1>. HIDE DEF mid, from, to, q
<1>6. SumOf(mid, Warehouses) = SumOf(stock, Warehouses) - stock[from] + mid[from]
  BY <1>1, <1>5, WarehousesAssumption, SumOfChanged
<1>7. SumOf(stock', Warehouses) = SumOf(mid, Warehouses) - mid[to] + stock'[to]
  BY <1>1, <1>5, WarehousesAssumption, SumOfChanged
<1>8. SumOf(stock, Warehouses) \in Int /\ SumOf(mid, Warehouses) \in Int
  BY <1>5, WarehousesAssumption, SumOfInt
<1>9. SumOf(stock', Warehouses) = SumOf(stock, Warehouses) - Taken(r, from) + Brought(r, to)
  BY <1>1, <1>3, <1>5, <1>6, <1>7, <1>8
<1>. QED BY <1>1, <1>4, <1>8, <1>9 DEF q

\* While no two movements overlap, what a commit writes on the item row is what
\* it does to the stock, and what it posts is what it does to its value.
LEMMA CommitItem ==
  ASSUME IInv, NEW r \in StockRequests, StockCommit(r), ~stockOverlapped
  PROVE  ItemInv'
<1>. DEFINE q == stockTx[r].quantity
            c == stockTx[r].unitCost
            inRows == {m \in movements : m.type = "INBOUND"}
            outRows == {m \in movements : m.type = "OUTBOUND"}
            inRows2 == {m \in movements' : m.type = "INBOUND"}
            outRows2 == {m \in movements' : m.type = "OUTBOUND"}
<1>1. /\ StockTypeOK /\ HistorySound /\ stockTx[r] \in Tx
      /\ stockTx[r].op \in {"INBOUND", "OUTBOUND", "TRANSFER"} /\ q \in Nat \ {0}
      /\ StockEnds(r, "done")
  BY CommitFacts
<1>2. ItemInv /\ totalQuantity \in Nat /\ averageCost \in Nat
  BY <1>1 DEF IInv, StockTypeOK
<1>3. /\ totalQuantity' = IF stockTx[r].op = "TRANSFER" THEN totalQuantity ELSE stockTx[r].total
      /\ averageCost' = IF stockTx[r].op = "INBOUND" THEN stockTx[r].average ELSE averageCost
  BY <1>1 DEF StockCommit, item
<1>4. /\ stockPc'[r] = "done" /\ stockTx'[r] = NoStockWork /\ Current(r)'
      /\ \A p \in StockRequests \ {r} : stockTx'[p] = stockTx[p]
  BY <1>1, EndFrees DEF StockTypeOK
<1>5. Serial'
  <2>1. \A p \in StockRequests : Moves(p)' => p # r /\ Moves(p)
    BY <1>4, NoWorkFits DEF Moves
  <2>2. ASSUME NEW p \in StockRequests \ {r}
        PROVE  Current(p)'
    <3>1. CASE Moves(p)
      <4>1. stockTx[r].op = "TRANSFER"
        BY <1>1, <1>2, <3>1 DEF ItemInv, Serial, Moves
      <4>. QED BY <1>2, <1>3, <1>4, <4>1 DEF ItemInv, Serial, Current
    <3>2. CASE ~Moves(p)
      BY <1>4, <3>2 DEF Moves, Current
    <3>. QED BY <3>1, <3>2
  <2>. QED BY <1>2, <1>4, <2>1, <2>2 DEF ItemInv, Serial
<1>6. /\ Received = Sum(inRows) /\ Issued = Sum(outRows)
      /\ Received' = Sum(inRows2) /\ Issued' = Sum(outRows2)
      /\ Amounts("INBOUND") = Posted(inRows) /\ Amounts("OUTBOUND") = Posted(outRows)
      /\ Amounts("INBOUND")' = Posted(inRows2) /\ Amounts("OUTBOUND")' = Posted(outRows2)
  BY DEF Received, Issued, Amounts
<1>7. /\ totalQuantity = SumOf(stock, Warehouses) /\ totalQuantity = Sum(inRows) - Sum(outRows)
      /\ 2 * (Scale * (Posted(inRows) - Posted(outRows)) - totalQuantity * averageCost) \in
           -(Cardinality(movements) * (Scale + Sum(inRows)))
             .. Cardinality(movements) * (Scale + Sum(inRows))
  <2>1. 2 * Difference \in -Margin .. Margin
    BY <1>2 DEF ItemInv
  <2>2. /\ Difference = Scale * (Posted(inRows) - Posted(outRows)) - totalQuantity * averageCost
        /\ Margin = Cardinality(movements) * (Scale + Sum(inRows))
    BY <1>6 DEF Difference, Margin
  <2>. QED BY <1>2, <1>6, <2>1, <2>2 DEF ItemInv
<1>8. SUFFICES /\ totalQuantity' = SumOf(stock', Warehouses)
               /\ totalQuantity' = Sum(inRows2) - Sum(outRows2)
               /\ 2 * (Scale * (Posted(inRows2) - Posted(outRows2)) - totalQuantity' * averageCost') \in
                    -(Cardinality(movements') * (Scale + Sum(inRows2)))
                      .. Cardinality(movements') * (Scale + Sum(inRows2))
  <2>1. /\ Difference' = Scale * (Posted(inRows2) - Posted(outRows2)) - totalQuantity' * averageCost'
        /\ Margin' = Cardinality(movements') * (Scale + Sum(inRows2))
    BY <1>6 DEF Difference, Margin
  <2>. QED BY <1>5, <1>6, <2>1 DEF ItemInv
<1>9. CASE stockTx[r].op = "TRANSFER"
  <2>1. inRows2 = inRows /\ outRows2 = outRows /\ movements' = movements
    BY <1>9, NewRow
  <2>2. totalQuantity' = totalQuantity /\ averageCost' = averageCost
    BY <1>3, <1>9
  <2>3. SumOf(stock', Warehouses) = SumOf(stock, Warehouses)
    BY <1>9, CommitStock
  <2>. HIDE DEF inRows, inRows2, outRows, outRows2
  <2>. QED BY <1>7, <2>1, <2>2, <2>3
<1>10. CASE stockTx[r].op # "TRANSFER"
  <2>. DEFINE m == Movement(r)
  <2>1. /\ movements' = movements \cup {m} /\ m \notin movements /\ m.quantity = q
        /\ m.type = stockTx[r].op /\ m.amount = TotalCost(q, c)
    BY <1>10, NewRow
  <2>2. /\ inRows2 = IF stockTx[r].op = "INBOUND" THEN inRows \cup {m} ELSE inRows
        /\ outRows2 = IF stockTx[r].op = "OUTBOUND" THEN outRows \cup {m} ELSE outRows
    BY <2>1
  <2>3. c \in Nat /\ TotalCost(q, c) \in Nat
    BY <1>1, CostRounds DEF Tx
  <2>4. /\ IsFiniteSet(movements)
        /\ \A x \in movements : x.quantity \in Nat /\ x.amount \in Nat
    BY <1>1 DEF HistorySound, StockTypeOK, MovementRow
  <2>5. inRows \subseteq movements /\ outRows \subseteq movements
    OBVIOUS
  <2>. HIDE DEF m, inRows, outRows, inRows2, outRows2, q, c
  <2>6. /\ Cardinality(movements) \in Nat
        /\ Cardinality(movements') = Cardinality(movements) + 1
    BY <2>1, <2>4, FS_AddElement, FS_CardinalityType
  <2>7. /\ Sum(inRows) \in Nat /\ Sum(outRows) \in Nat
        /\ Posted(inRows) \in Nat /\ Posted(outRows) \in Nat
        /\ Sum(inRows \cup {m}) = Sum(inRows) + q /\ Sum(outRows \cup {m}) = Sum(outRows) + q
        /\ Posted(inRows \cup {m}) = Posted(inRows) + TotalCost(q, c)
        /\ Posted(outRows \cup {m}) = Posted(outRows) + TotalCost(q, c)
    <3>1. m.quantity \in Nat /\ m.amount \in Nat
      BY <1>1, <2>1, <2>3
    <3>. QED BY <2>1, <2>4, <2>5, <3>1, RowsGrow
  <2>8. CASE stockTx[r].op = "INBOUND"
    <3>1. /\ totalQuantity' = totalQuantity + q
          /\ averageCost' = NewAverage(totalQuantity, averageCost, q, c)
      BY <1>2, <1>3, <2>8 DEF ItemInv, Serial, Current, q, c
    <3>2. SumOf(stock', Warehouses) = SumOf(stock, Warehouses) + q
      BY <2>8, CommitStock DEF q
    <3>3. /\ Sum(inRows2) = Sum(inRows) + q /\ Sum(outRows2) = Sum(outRows)
          /\ Posted(inRows2) = Posted(inRows) + TotalCost(q, c) /\ Posted(outRows2) = Posted(outRows)
      BY <2>2, <2>7, <2>8
    <3>4. totalQuantity <= Sum(inRows)
      BY <1>7, <2>7
    <3>5. 2 * (Scale * (Posted(inRows2) - Posted(outRows2)) - totalQuantity' * averageCost') \in
            -(Cardinality(movements') * (Scale + Sum(inRows2)))
              .. Cardinality(movements') * (Scale + Sum(inRows2))
      <4>1. LET margin == (Cardinality(movements) + 1) * (Scale + (Sum(inRows) + q))
            IN  2 * (Scale * ((Posted(inRows) + TotalCost(q, c)) - Posted(outRows))
                               - (totalQuantity + q) * NewAverage(totalQuantity, averageCost, q, c))
                            \in -margin .. margin
        BY <1>1, <1>2, <1>7, <2>3, <2>6, <2>7, <3>4, InboundMargin
      <4>. QED BY <2>6, <3>1, <3>3, <4>1
    <3>6. totalQuantity' = Sum(inRows2) - Sum(outRows2)
      BY <1>1, <1>7, <2>7, <3>1, <3>3
    <3>. QED BY <1>7, <3>1, <3>2, <3>5, <3>6
  <2>9. CASE stockTx[r].op = "OUTBOUND"
    <3>1. totalQuantity' = totalQuantity - q /\ averageCost' = averageCost /\ c = averageCost
      BY <1>2, <1>3, <2>9 DEF ItemInv, Serial, Current, q, c
    <3>2. SumOf(stock', Warehouses) = SumOf(stock, Warehouses) - q
      BY <2>9, CommitStock DEF q
    <3>3. /\ Sum(inRows2) = Sum(inRows) /\ Sum(outRows2) = Sum(outRows) + q
          /\ Posted(inRows2) = Posted(inRows) /\ Posted(outRows2) = Posted(outRows) + TotalCost(q, c)
      BY <2>2, <2>7, <2>9
    <3>4. 2 * (Scale * (Posted(inRows2) - Posted(outRows2)) - totalQuantity' * averageCost') \in
            -(Cardinality(movements') * (Scale + Sum(inRows2)))
              .. Cardinality(movements') * (Scale + Sum(inRows2))
      <4>1. LET margin == (Cardinality(movements) + 1) * (Scale + Sum(inRows))
            IN  2 * (Scale * (Posted(inRows) - (Posted(outRows) + TotalCost(q, averageCost)))
                               - (totalQuantity - q) * averageCost)
                            \in -margin .. margin
        BY <1>1, <1>2, <1>7, <2>6, <2>7, OutboundMargin
      <4>. QED BY <2>6, <3>1, <3>3, <4>1
    <3>5. totalQuantity' = Sum(inRows2) - Sum(outRows2)
      BY <1>1, <1>7, <2>7, <3>1, <3>3
    <3>. QED BY <1>7, <3>1, <3>2, <3>4, <3>5
  <2>. QED BY <1>1, <1>10, <2>8, <2>9
<1>. QED BY <1>9, <1>10

-----------------------------------------------------------------------------
(* The invariant *)

\* It holds of an item with one movement registered.
LEMMA InitStrong == StockInit => IInv
<1>. SUFFICES ASSUME StockInit PROVE IInv
  OBVIOUS
<1>. DEFINE W == Opening.warehouse
            Q == Opening.quantity
            C == Opening.unitCost
            first == [type |-> "INBOUND", warehouse |-> W, quantity |-> Q, unitCost |-> C,
                      amount |-> TotalCost(Q, C), by |-> NoHolder]
<1>1. W \in Warehouses /\ Q \in Nat \ {0} /\ C \in Nat
  BY OpeningAssumption
<1>2. /\ isActive = TRUE /\ openWarehouses = Warehouses /\ totalQuantity = Q /\ averageCost = C
      /\ stock = [w \in Warehouses |-> IF w = W THEN Q ELSE 0]
      /\ movements = {first} /\ transfers = {}
      /\ itemLock = NoHolder /\ entryLock = NoHolder /\ stockLock = [w \in Warehouses |-> NoHolder]
      /\ stockPc = [r \in StockRequests |-> "idle"] /\ stockTx = [r \in StockRequests |-> NoStockWork] /\ stockOverlapped = FALSE
  BY DEF StockInit
<1>3. /\ TotalCost(Q, C) \in Nat
      /\ 2 * (Scale * TotalCost(Q, C) - Q * C) \in -Scale .. Scale
  BY <1>1, CostRounds
<1>4. /\ first \in MovementRow /\ first.by = NoHolder /\ first.type = "INBOUND" /\ first.warehouse = W
      /\ first.quantity = Q /\ first.amount = TotalCost(Q, C)
  BY <1>1, <1>3 DEF MovementRow
<1>. HIDE DEF first
<1>5. StockTypeOK
  BY <1>1, <1>2, <1>4, NoWorkFits DEF StockTypeOK
<1>6. /\ {} \cup {first} = {first} /\ IsFiniteSet({}) /\ IsFiniteSet({first})
      /\ Cardinality({first}) = 1
  BY FS_EmptySet, FS_Singleton
<1>7. /\ Sum({}) = 0 /\ Posted({}) = 0
      /\ Sum({first}) = Q /\ Posted({first}) = TotalCost(Q, C)
  <2>1. Sum({}) = 0 /\ Posted({}) = 0
    BY NoRows DEF Sum, Posted, QuantitiesOf, AmountsOf
  <2>2. first.quantity \in Nat /\ first.amount \in Nat
    BY <1>1, <1>3, <1>4
  <2>3. Sum({} \cup {first}) = Sum({}) + first.quantity
    BY <1>6, <2>2, QuantitiesAdded DEF Sum, QuantitiesOf
  <2>4. Posted({} \cup {first}) = Posted({}) + first.amount
    BY <1>6, <2>2, AmountsAdded DEF Posted, AmountsOf
  <2>. HIDE DEF Q, C
  <2>. QED BY <1>4, <1>6, <2>1, <2>2, <2>3, <2>4
<1>8. HistorySound
  BY <1>2, <1>4, <1>6 DEF HistorySound
<1>9. Balanced
  <2>1. ASSUME NEW w \in Warehouses
        PROVE  stock[w] = Sum(Of("INBOUND", w)) - Sum(Of("OUTBOUND", w))
                        + Sum({t \in transfers : t.to = w})
                        - Sum({t \in transfers : t.from = w})
    <3>. DEFINE in == Of("INBOUND", w)
                out == Of("OUTBOUND", w)
                to == {t \in transfers : t.to = w}
                from == {t \in transfers : t.from = w}
    <3>1. in = (IF w = W THEN {first} ELSE {}) /\ out = {} /\ to = {} /\ from = {}
      BY <1>2, <1>4 DEF Of
    <3>2. stock[w] = IF w = W THEN Q ELSE 0
      BY <1>2
    <3>3. Sum(out) = 0 /\ Sum(to) = 0 /\ Sum(from) = 0 /\ Q \in Nat
      BY <1>1, <1>7, <3>1
    <3>4. Sum(in) = IF w = W THEN Q ELSE 0
      BY <1>7, <3>1
    <3>. HIDE DEF in, out, to, from, Q, W
    <3>5. stock[w] = Sum(in) - Sum(out) + Sum(to) - Sum(from)
      BY <3>2, <3>3, <3>4
    <3>. QED BY <3>5 DEF in, out, to, from
  <2>. QED BY <2>1 DEF Balanced
<1>10. \A r \in StockRequests : RequestInv(r) /\ Current(r) /\ ~Moves(r)
  BY <1>2, NoWorkFits DEF Ended, Moves
<1>11. ItemInv
  <2>1. Serial
    BY <1>10 DEF Serial
  <2>2. /\ {m \in movements : m.type = "INBOUND"} = {first}
        /\ {m \in movements : m.type = "OUTBOUND"} = {}
    BY <1>2, <1>4
  <2>3. /\ Received = Q /\ Issued = 0
        /\ Amounts("INBOUND") = TotalCost(Q, C) /\ Amounts("OUTBOUND") = 0
    BY <1>7, <2>2 DEF Received, Issued, Amounts
  <2>4. totalQuantity = SumOf(stock, Warehouses)
    <3>. DEFINE none == [w \in Warehouses |-> 0]
    <3>1. SumOf(none, Warehouses) = 0
      BY WarehousesAssumption, SumOfZeros
    <3>2. /\ \A w \in Warehouses : none[w] \in Int /\ stock[w] \in Int
          /\ \A w \in Warehouses \ {W} : stock[w] = none[w]
          /\ none[W] = 0 /\ stock[W] = Q
      BY <1>1, <1>2
    <3>. HIDE DEF none, W, Q
    <3>3. SumOf(stock, Warehouses) = SumOf(none, Warehouses) - none[W] + stock[W]
      BY <1>1, <3>2, WarehousesAssumption, SumOfChanged
    <3>. QED BY <1>1, <1>2, <3>1, <3>2, <3>3
  <2>5. 2 * Difference \in -Margin .. Margin
    <3>. DEFINE cost == TotalCost(Q, C)
                worth == Q * C
    <3>1. Scale \in Nat
      BY SMT DEF Scale
    <3>2. Margin = Scale + Q
      BY <1>1, <1>2, <1>6, <2>3, <3>1 DEF Margin
    <3>3. Difference = Scale * cost - worth
      <4>1. TotalCost(Q, C) - 0 = TotalCost(Q, C)
        BY <1>3
      <4>. QED BY <1>2, <2>3, <4>1 DEF Difference
    <3>4. worth \in Nat /\ Scale * cost \in Nat
      BY <1>1, <1>3, <3>1
    <3>5. 2 * (Scale * cost - worth) \in -Scale .. Scale
      BY <1>3
    <3>. HIDE DEF cost, worth, Q
    <3>. QED BY <1>1, <3>1, <3>2, <3>3, <3>4, <3>5
  <2>6. totalQuantity = Received - Issued
    BY <1>1, <1>2, <2>3
  <2>. QED BY <2>1, <2>4, <2>5, <2>6 DEF ItemInv
<1>. QED BY <1>5, <1>8, <1>9, <1>10, <1>11 DEF IInv, StockInv

\* And every step keeps it.
LEMMA NextStrong == IInv /\ [StockNext]_stockVars => IInv'
<1>. SUFFICES ASSUME IInv, [StockNext]_stockVars PROVE IInv'
  OBVIOUS
<1>1. ASSUME NEW r \in StockRequests, Begin(r)
      PROVE  IInv'
  BY <1>1, BeginStep
<1>2. ASSUME NEW r \in StockRequests, Statement(r)
      PROVE  IInv'
  <2>1. CASE StockCommit(r)
    <3>1. stockOverlapped' = stockOverlapped
      BY <2>1, CommitFacts, EndFrees
    <3>. QED BY <2>1, <3>1, CommitKeeps, CommitBalances, CommitItem DEF IInv, StockInv
  <2>. QED BY <1>2, <2>1, StatementStep DEF Statement
<1>3. ASSUME NEW r \in StockRequests, Deadlock(r) \/ StockAbort(r)
      PROVE  IInv'
  <2>1. CASE StockAbort(r)
    BY <2>1, RollbackStep DEF StockAbort
  <2>2. CASE Deadlock(r)
    <3>1. WaitsFor(r) \in StockRequests /\ StockRollback(r)
      BY <2>2 DEF Deadlock
    <3>2. WaitsFor(r) # NoHolder
      BY <3>1, NobodyAssumption
    <3>3. stockPc[r] \in Working
      BY <3>2 DEF WaitsFor, Working
    <3>. QED BY <3>1, <3>3, RollbackStep
  <2>. QED BY <1>3, <2>1, <2>2
<1>4. ASSUME NEW active \in BOOLEAN, UpdateItem(active)
      PROVE  IInv'
  BY <1>4, UpdateStep DEF UpdateItem, IInv, StockInv, StockTypeOK
<1>5. ASSUME NEW active \in BOOLEAN, NEW w \in Switched, UpdateWarehouse(w, active)
      PROVE  IInv'
  <2>1. openWarehouses' \subseteq Warehouses /\ isActive' \in BOOLEAN
    BY <1>5, SwitchedAssumption DEF UpdateWarehouse, IInv, StockInv, StockTypeOK
  <2>. QED BY <1>5, <2>1, UpdateStep DEF UpdateWarehouse
<1>6. CASE UNCHANGED stockVars
  <2>1. openWarehouses' \subseteq Warehouses /\ isActive' \in BOOLEAN
    BY <1>6 DEF stockVars, stockCommitted, IInv, StockInv, StockTypeOK
  <2>. QED BY <1>6, <2>1, UpdateStep DEF stockVars, stockCommitted
<1>. QED BY <1>1, <1>2, <1>3, <1>4, <1>5, <1>6 DEF StockNext

\* In every behaviour a request holds the rows it has changed, stock is its
\* history, and until two movements overlap the item is its stock.
THEOREM Strong == StockSpec => []IInv
BY InitStrong, NextStrong, PTL DEF StockSpec

\* Every variable keeps its type: no total and no balance becomes negative.
THEOREM TypeCorrect == StockSpec => []StockTypeOK
<1>1. IInv => StockTypeOK
  BY DEF IInv, StockInv
<1>. QED BY <1>1, Strong, PTL

\* However receipts, issues and transfers interleave, fail and commit, the balance
\* of each warehouse is what its history adds up to, and is never negative.
THEOREM StockAddsUp == StockSpec => []StockIsItsHistory
<1>1. IInv => StockIsItsHistory
  BY DEF IInv, StockInv, Balanced, StockIsItsHistory
<1>. QED BY <1>1, Strong, PTL

\* Until two movements overlap, whatever the quantities and costs, the total of
\* the item is the sum of its warehouses, and the inventory account is its value
\* up to half a cent per movement and the rounding of each average.
THEOREM ItemAgrees == StockSpec => []ItemAgreesWithStock
<1>1. IInv => ItemAgreesWithStock
  <2>. DEFINE total == MapThenSumSet(LAMBDA w : stock[w], Warehouses)
  <2>1. ASSUME IInv, ~stockOverlapped
        PROVE  totalQuantity = total /\ 2 * Difference \in -Margin .. Margin
    BY <2>1 DEF IInv, ItemInv, SumOf
  <2>2. /\ Difference = 100000 * (Amounts("INBOUND") - Amounts("OUTBOUND"))
                         - totalQuantity * averageCost
        /\ Margin = Cardinality(movements) * (100000 + Received)
    BY SMT DEF Difference, Margin, Scale
  <2>3. (~stockOverlapped => totalQuantity = total /\ 2 * Difference \in -Margin .. Margin)
          => ItemAgreesWithStock
    BY <2>2, SMT DEF ItemAgreesWithStock
  <2>. QED BY <2>1, <2>3, SMT
<1>. QED BY <1>1, Strong, PTL

-----------------------------------------------------------------------------
(* Fixed assets *)

\* What a request holds.
AssetCell == [accumulated: Nat, status: Status] \cup [status: Status]
AssetCells == UNION {[S -> AssetCell] : S \in SUBSET Assets}
AssetWork ==
  [op: AssetOperations, month: Months \cup {0}, basis: Bases \cup {<<>>},
   read: [Assets -> AssetRow] \cup {<<>>}, todo: SUBSET Assets,
   entries: SUBSET EntryRow, disposals: SUBSET DisposalRow,
   written: AssetCells]

\* Every table and every request's work is of its type.
AssetTypes ==
  /\ asset \in [Assets -> AssetRow]
  /\ assetEntries \subseteq EntryRow /\ disposals \subseteq DisposalRow
  /\ assetPc \in [AssetRequests -> AssetWorking \cup {"idle", "done", "failed"}]
  /\ assetTx \in [AssetRequests -> AssetWork]
  /\ assetOverlapped \in BOOLEAN
  /\ IsFiniteSet(assetEntries) /\ \A r \in AssetRequests : IsFiniteSet(assetTx[r].entries)

\* A row depreciates over some months, and by no more than its asset cost.
RowSound(a, row) ==
  /\ row.accumulated <= Register[a].cost
  /\ row.status # "ABSENT" => row.life # 0

\* ... for every asset of the register.
WithinCost == \A a \in Assets : RowSound(a, asset[a])

\* What a request has posted and not committed.
Unposted(r) ==
  assetTx[r].entries = {} /\ assetTx[r].disposals = {} /\ DOMAIN assetTx[r].written = {}

\* What a request read was sound when it read it.
ReadWithinCost(r) ==
  /\ assetTx[r].read \in [Assets -> AssetRow]
  /\ \A a \in Assets : RowSound(a, assetTx[r].read[a])

\* The assets a request is yet to post, or has posted.
Touched(r) == assetTx[r].todo \cup DOMAIN assetTx[r].written

\* A run of a month ...
Depreciates(r) ==
  /\ assetTx[r].month \in Months
  /\ ReadWithinCost(r)
  /\ assetPc[r] \in {"processed", "post", "commit"}
  /\ assetPc[r] = "processed" => Unposted(r)
  /\ \A a \in Touched(r) : assetTx[r].read[a].status = "ACTIVE"
  /\ assetPc[r] # "processed" => \A a \in Touched(r) : AmountToPost(a, assetTx[r].read[a]) > 0
  /\ assetTx[r].todo \cap DOMAIN assetTx[r].written = {}
  /\ assetTx[r].disposals = {}
  /\ assetTx[r].entries = {EntryFor(r, a) : a \in DOMAIN assetTx[r].written}
  /\ \A a \in DOMAIN assetTx[r].written :
       /\ assetTx[r].written[a] = Depreciated(a, assetTx[r].read[a])
       /\ ~\E e \in assetEntries : e.asset = a /\ e.month = assetTx[r].month

\* ... a disposal ...
Disposes(r) ==
  /\ ReadWithinCost(r)
  /\ assetPc[r] \in {"post", "commit"}
  /\ \E a \in Assets :
       /\ assetTx[r].todo = {a}
       /\ assetTx[r].entries = {}
       /\ assetPc[r] = "post" => Unposted(r)
       /\ assetPc[r] = "commit" =>
            /\ DOMAIN assetTx[r].written = {a}
            /\ \E d \in assetTx[r].disposals :
                 /\ d.asset = a /\ d.accumulated = assetTx[r].read[a].accumulated
                 /\ assetTx[r].disposals = {d}

\* ... and a change of one row.
Changes(r) ==
  /\ assetPc[r] = "write"
  /\ Unposted(r)
  /\ assetTx[r].op = "update" => assetTx[r].basis \in Bases

\* What a request holds is what its operation may hold at this point of it.
Stages(r) ==
  /\ assetPc[r] \in AssetWorking <=> assetTx[r].op # "none"
  /\ assetTx[r].op = "none" => assetTx[r] = NoAssetWork
  /\ assetTx[r].op = "depreciate" => Depreciates(r)
  /\ assetTx[r].op = "dispose" => Disposes(r)
  /\ assetTx[r].op \in {"update", "delete"} => Changes(r)
  /\ ~Unposted(r) => poster = r
  /\ \A a \in DOMAIN assetTx[r].written : asset[a].status # "ABSENT"

\* The counter of journal entries is held by a request that posts.
PosterWorks ==
  poster # NoPoster => poster \in AssetRequests /\ assetPc[poster] \in {"post", "commit"}

\* Until requests overlap.
BooksReconcile ==
  \A a \in Assets :
    /\ asset[a].accumulated <= Max({0, Base(a, asset[a])})
    /\ asset[a].accumulated = Total(EntriesOf(a))

\* An asset is written off at most once, by the sum of its entries.
WrittenOffOnce ==
  \A d \in disposals :
    /\ DisposalsOf(d.asset) = {d}
    /\ d.accumulated = Total(EntriesOf(d.asset))
    /\ asset[d.asset].status \in {"DISPOSED", "ABSENT"}

\* Until requests overlap, what a request read is what the table says.
ReadsCurrent(r) ==
  /\ assetTx[r].op = "depreciate" =>
       \A a \in Touched(r) : assetTx[r].read[a] = asset[a] /\ asset[a].status = "ACTIVE"
  /\ assetTx[r].op = "dispose" =>
       \A a \in assetTx[r].todo : /\ assetTx[r].read[a] = asset[a]
                             /\ asset[a].status \notin {"ABSENT", "DISPOSED"}
  /\ assetTx[r].op \in {"update", "delete"} => \A a \in assetTx[r].todo : ~HasEntries(a)

\* At most one request is in progress.
OneAtATime == \A q, r \in AssetInProgress : q = r

\* What the books promise as long as no two requests overlapped.
AssetsSerial ==
  ~assetOverlapped =>
    /\ OneAtATime
    /\ BooksReconcile
    /\ WrittenOffOnce
    /\ \A r \in AssetRequests : ReadsCurrent(r)

\* The inductive invariant of the register.
AssetsInvariant ==
  /\ AssetTypes
  /\ WithinCost
  /\ \A r \in AssetRequests : Stages(r)
  /\ PosterWorks
  /\ DepreciatedOncePerMonth
  /\ AssetsSerial

-----------------------------------------------------------------------------
(* The amount of a month *)

\* A set of two numbers, given by name.
IsPair(S, x, y) == S = {x, y}

\* The smaller of two numbers ...
LEMMA MinOfTwo ==
  ASSUME NEW x \in Int, NEW y \in Int, NEW S, IsPair(S, x, y)
  PROVE  (Min(S) = x \/ Min(S) = y) /\ Min(S) <= x /\ Min(S) <= y
<1>1. \E z \in S : \A w \in S : z <= w
  BY DEF IsPair
<1>. QED BY <1>1 DEF Min, IsPair

\* ... and the larger.
LEMMA MaxOfTwo ==
  ASSUME NEW x \in Int, NEW y \in Int, NEW S, IsPair(S, x, y)
  PROVE  (Max(S) = x \/ Max(S) = y) /\ Max(S) >= x /\ Max(S) >= y
<1>1. \E z \in S : \A w \in S : z >= w
  BY DEF IsPair
<1>. QED BY <1>1 DEF Max, IsPair

\* What a run posts of a row is a natural number, and within the base.
LEMMA AmountWithinBase ==
  ASSUME NEW a \in Assets, NEW row \in AssetRow, row.life # 0
  PROVE  /\ Base(a, row) \in Int /\ Base(a, row) <= Register[a].cost
         /\ AmountToPost(a, row) \in Nat
         /\ AmountToPost(a, row) # 0 => row.accumulated + AmountToPost(a, row) <= Base(a, row)
<1>. DEFINE b == Base(a, row)
            m == MonthlyAmount(a, row)
            left == b - row.accumulated
<1>1. /\ Register[a].cost \in Nat /\ row.residual \in Nat /\ row.accumulated \in Nat
      /\ row.life \in Nat
  BY AssetsAssumption DEF AssetRow
<1>2. b \in Int /\ left \in Int /\ b <= Register[a].cost
  BY <1>1 DEF Base
<1>3. CASE b <= 0 \/ left <= 0
  BY <1>2, <1>3 DEF AmountToPost
<1>4. CASE b > 0 /\ left > 0
  <2>1. m \in Nat
    <3>. HIDE DEF b
    <3>1. 2 * b + row.life \in Nat /\ 2 * row.life \in Nat \ {0}
      BY <1>1, <1>2, <1>4
    <3>2. m = (2 * b + row.life) \div (2 * row.life)
      BY DEF MonthlyAmount, b
    <3>3. \A x \in Nat, y \in Nat \ {0} : x \div y \in Nat
      OBVIOUS
    <3>. QED BY <3>1, <3>2, <3>3
  <2>. DEFINE both == {m, left}
              least == Min(both)
  <2>2. AmountToPost(a, row) = least
    BY <1>2, <1>4 DEF AmountToPost
  <2>. HIDE DEF m, left
  <2>0. IsPair(both, m, left)
    BY DEF IsPair
  <2>. HIDE DEF both
  <2>3. (least = m \/ least = left) /\ least <= left
    BY <1>2, <2>0, <2>1, MinOfTwo
  <2>. HIDE DEF least
  <2>. QED BY <1>1, <1>2, <1>4, <2>1, <2>2, <2>3 DEF left
<1>. QED BY <1>2, <1>3, <1>4

-----------------------------------------------------------------------------
(* Steps that commit nothing *)

\* A step of one request leaves the work of the others alone.
OnlyOf(r) ==
  /\ assetTx' = [assetTx EXCEPT ![r] = assetTx'[r]]
  /\ assetPc' = [assetPc EXCEPT ![r] = assetPc'[r]]

\* What another request has posted, and whether it may still commit, stays.
LEMMA StagesKept ==
  ASSUME NEW q \in AssetRequests, Stages(q),
         assetTx'[q] = assetTx[q], assetPc'[q] = assetPc[q],
         poster = q => poster' = q,
         Unposted(q) \/ assetEntries' = assetEntries,
         \A a \in DOMAIN assetTx[q].written :
           asset'[a].status = "ABSENT" => asset[a].status = "ABSENT"
  PROVE  Stages(q)'
<1>1. Unposted(q)' <=> Unposted(q)
  BY DEF Unposted
<1>2. ReadWithinCost(q)' <=> ReadWithinCost(q)
  BY DEF ReadWithinCost, RowSound
<1>3. Touched(q)' = Touched(q)
  BY DEF Touched
<1>4. Changes(q) => Changes(q)'
  BY <1>1 DEF Changes
<1>5. Disposes(q) => Disposes(q)'
  BY <1>1, <1>2 DEF Disposes
<1>6. \A a : EntryFor(q, a)' = EntryFor(q, a)
  BY DEF EntryFor
<1>7. Depreciates(q) => Depreciates(q)'
  BY <1>1, <1>2, <1>3, <1>6 DEF Depreciates, Unposted
<1>. QED BY <1>1, <1>4, <1>5, <1>7 DEF Stages

\* The register does not change with a step that leaves the tables alone.
LEMMA BooksKept ==
  ASSUME UNCHANGED assetCommitted
  PROVE  /\ WithinCost => WithinCost'
         /\ DepreciatedOncePerMonth => DepreciatedOncePerMonth'
         /\ BooksReconcile => BooksReconcile'
         /\ WrittenOffOnce => WrittenOffOnce'
<1>. USE DEF assetCommitted
<1>1. WithinCost => WithinCost'
  BY DEF WithinCost, RowSound
<1>2. DepreciatedOncePerMonth => DepreciatedOncePerMonth'
  BY DEF DepreciatedOncePerMonth
<1>3. \A a : Total(EntriesOf(a))' = Total(EntriesOf(a)) /\ DisposalsOf(a)' = DisposalsOf(a)
  <2>1. \A a : EntriesOf(a)' = EntriesOf(a) /\ DisposalsOf(a)' = DisposalsOf(a)
    BY DEF EntriesOf, DisposalsOf
  <2>. QED BY <2>1
<1>4. BooksReconcile => BooksReconcile'
  BY <1>3 DEF BooksReconcile, Base
<1>5. WrittenOffOnce => WrittenOffOnce'
  BY <1>3 DEF WrittenOffOnce
<1>. QED BY <1>1, <1>2, <1>4, <1>5

\* A request that has posted holds the counter, so no other has.
LEMMA OnePoster ==
  ASSUME NEW q, NEW r, q # r, Stages(q), Stages(r), ~Unposted(q)
  PROVE  Unposted(r)
BY DEF Stages

\* With a request in progress, or about to be, no other works until some overlap.
LEMMA OthersRest ==
  ASSUME \A q \in AssetRequests : Stages(q), OneAtATime, NEW r \in AssetInProgress
  PROVE  \A q \in AssetRequests \ {r} : assetTx[q].op = "none"
BY DEF Stages, OneAtATime, AssetInProgress

\* A statement that commits nothing keeps the invariant when the work it leaves is sound.
LEMMA PrivateAssetStep ==
  ASSUME AssetsInvariant, NEW r \in AssetRequests, UNCHANGED assetCommitted, OnlyOf(r),
         assetTx'[r] \in AssetWork, IsFiniteSet(assetTx'[r].entries),
         assetPc'[r] \in AssetWorking \cup {"idle", "done", "failed"},
         Stages(r)',
         poster' = poster \/ (poster \in {NoPoster, r} /\ poster' \in {NoPoster, r}),
         poster' = r => assetPc'[r] \in {"post", "commit"},
         assetOverlapped' \in BOOLEAN,
         ~assetOverlapped' =>
           /\ ~assetOverlapped
           /\ \A q \in AssetRequests \ {r} : assetTx[q].op = "none"
           /\ ReadsCurrent(r)'
  PROVE  AssetsInvariant'
<1>1. \A q \in AssetRequests \ {r} : assetTx'[q] = assetTx[q] /\ assetPc'[q] = assetPc[q]
  BY DEF OnlyOf, AssetsInvariant, AssetTypes
<1>2. AssetTypes'
  BY <1>1 DEF OnlyOf, AssetsInvariant, AssetTypes, assetCommitted
<1>3. WithinCost' /\ DepreciatedOncePerMonth'
  BY BooksKept DEF AssetsInvariant
<1>4. NoPoster \notin AssetRequests
  BY AssetsAssumption
<1>5. ASSUME NEW q \in AssetRequests
      PROVE  Stages(q)'
  <2>1. CASE q = r
    BY <2>1
  <2>2. CASE q # r
    <3>1. poster = q => poster' = q
      BY <1>4, <2>2
    <3>. QED BY <1>1, <2>2, <3>1, StagesKept DEF AssetsInvariant, assetCommitted
  <2>. QED BY <2>1, <2>2
<1>6. PosterWorks'
  BY <1>1, <1>4 DEF AssetsInvariant, PosterWorks
<1>7. ASSUME ~assetOverlapped'
      PROVE  /\ OneAtATime' /\ BooksReconcile' /\ WrittenOffOnce'
             /\ \A q \in AssetRequests : ReadsCurrent(q)'
  <2>1. \A q \in AssetRequests \ {r} : assetTx[q].op = "none"
    BY <1>7
  <2>2. OneAtATime'
    BY <1>1, <2>1 DEF AssetsInvariant, Stages, OneAtATime, AssetInProgress
  <2>3. BooksReconcile' /\ WrittenOffOnce'
    BY <1>7, BooksKept DEF AssetsInvariant, AssetsSerial
  <2>4. ASSUME NEW q \in AssetRequests \ {r}
        PROVE  ReadsCurrent(q)'
    <3>1. assetTx'[q].op = "none"
      BY <1>1, <2>1
    <3>. QED BY <3>1 DEF ReadsCurrent
  <2>. QED BY <1>7, <2>2, <2>3, <2>4
<1>. QED BY <1>2, <1>3, <1>5, <1>6, <1>7 DEF AssetsInvariant, AssetsSerial

\* A request that is not at work has nothing.
LEMMA NoAssetWorkTyped ==
  NoAssetWork \in AssetWork /\ IsFiniteSet(NoAssetWork.entries)
<1>1. NoAssetWork.written \in [{} -> AssetCell]
  BY DEF NoAssetWork
<1>2. NoAssetWork.written \in AssetCells
  BY <1>1 DEF AssetCells
<1>3. NoAssetWork \in AssetWork
  BY <1>2 DEF NoAssetWork, AssetWork, AssetOperations
<1>4. IsFiniteSet(NoAssetWork.entries)
  BY FS_EmptySet DEF NoAssetWork
<1>. QED BY <1>3, <1>4

\* It is sound in every state.
LEMMA RestingAsset ==
  ASSUME NEW r, assetTx[r] = NoAssetWork, assetPc[r] \notin AssetWorking
  PROVE  Stages(r) /\ ReadsCurrent(r)
BY DEF Stages, ReadsCurrent, NoAssetWork, Unposted, AssetWorking

\* A request begins with sound work, or fails at once.
LEMMA BeginsStep ==
  ASSUME AssetsInvariant, NEW r \in AssetRequests, NEW place, NEW work,
         AssetBegins(r, place, work),
         place \in {"processed", "post", "write", "failed"},
         place # "failed" =>
           /\ work \in AssetWork /\ work.entries = {}
           /\ assetTx'[r] = work /\ assetPc'[r] = place => Stages(r)' /\ ReadsCurrent(r)'
  PROVE  AssetsInvariant'
<1>1. /\ assetPc' = [assetPc EXCEPT ![r] = place]
      /\ assetTx' = [assetTx EXCEPT ![r] = IF place \in AssetWorking THEN work ELSE NoAssetWork]
      /\ UNCHANGED assetCommitted /\ poster' = poster
      /\ assetOverlapped' = (assetOverlapped \/ AssetInProgress # {})
      /\ assetPc[r] = "idle"
  BY DEF AssetBegins, MayBeginAsset
<1>2. /\ assetPc'[r] = place
      /\ assetTx'[r] = IF place \in AssetWorking THEN work ELSE NoAssetWork
      /\ OnlyOf(r)
  BY <1>1 DEF AssetsInvariant, AssetTypes, OnlyOf
<1>3. /\ assetTx'[r] \in AssetWork /\ IsFiniteSet(assetTx'[r].entries)
      /\ Stages(r)' /\ ReadsCurrent(r)'
  <2>1. CASE place = "failed"
    <3>1. assetTx'[r] = NoAssetWork /\ assetPc'[r] \notin AssetWorking
      BY <1>2, <2>1 DEF AssetWorking
    <3>2. (assetTx[r] = NoAssetWork /\ assetPc[r] \notin AssetWorking => Stages(r) /\ ReadsCurrent(r))'
      BY RestingAsset, PTL
    <3>. QED BY <3>1, <3>2, NoAssetWorkTyped
  <2>2. CASE place # "failed"
    BY <1>2, <2>2, FS_EmptySet DEF AssetWorking
  <2>. QED BY <2>1, <2>2
<1>4. poster # r
  BY <1>1, AssetsAssumption DEF AssetsInvariant, PosterWorks
<1>5. ASSUME ~assetOverlapped'
      PROVE  \A q \in AssetRequests \ {r} : assetTx[q].op = "none"
  BY <1>1, <1>5 DEF AssetsInvariant, Stages, AssetInProgress
<1>6. assetOverlapped' \in BOOLEAN /\ (assetOverlapped => assetOverlapped')
  BY <1>1 DEF AssetsInvariant, AssetTypes
<1>. QED
  BY <1>1, <1>2, <1>3, <1>4, <1>5, <1>6, PrivateAssetStep DEF AssetWorking

\* Every operation begins with sound work: it holds the rows it has just read.
LEMMA AssetBeginStep ==
  ASSUME AssetsInvariant, NEW r \in AssetRequests, AssetBegin(r)
  PROVE  AssetsInvariant'
<1>1. /\ NoAssetWork \in AssetWork
      /\ NoAssetWork.entries = {} /\ NoAssetWork.disposals = {} /\ DOMAIN NoAssetWork.written = {}
  BY NoAssetWorkTyped DEF NoAssetWork
<1>2. asset \in [Assets -> AssetRow] /\ \A a \in Assets : RowSound(a, asset[a])
  BY DEF AssetsInvariant, AssetTypes, WithinCost
<1>3. AssetBegin(r) => UNCHANGED asset /\ UNCHANGED assetEntries
  BY DEF AssetBegin, BeginDepreciation, BeginDisposal, BeginAssetUpdate, BeginDelete, AssetBegins,
         assetCommitted
<1>4. ASSUME NEW month \in Months, BeginDepreciation(r, month)
      PROVE  AssetsInvariant'
  <2>. DEFINE work == [NoAssetWork EXCEPT !.op = "depreciate", !.month = month, !.read = asset,
                         !.todo = {a \in Assets : /\ asset[a].status = "ACTIVE"
                                                  /\ Register[a].acquired <= month}]
  <2>1. AssetBegins(r, "processed", work)
    BY <1>4 DEF BeginDepreciation
  <2>2. /\ work \in AssetWork /\ work.entries = {} /\ work.disposals = {}
        /\ DOMAIN work.written = {} /\ work.op = "depreciate" /\ work.month = month
        /\ work.read = asset /\ \A a \in work.todo : a \in Assets /\ asset[a].status = "ACTIVE"
    BY <1>1, <1>2 DEF AssetWork, AssetOperations
  <2>. HIDE DEF work
  <2>3. ASSUME assetTx'[r] = work, assetPc'[r] = "processed"
        PROVE  Stages(r)' /\ ReadsCurrent(r)'
    <3>1. Unposted(r)'
      BY <2>2, <2>3 DEF Unposted
    <3>2. ReadWithinCost(r)'
      BY <1>2, <2>2, <2>3 DEF ReadWithinCost, RowSound
    <3>3. Depreciates(r)'
      BY <2>2, <2>3, <3>1, <3>2 DEF Depreciates, Touched
    <3>4. ReadsCurrent(r)'
      BY <1>3, <1>4, <2>2, <2>3 DEF ReadsCurrent, Touched, AssetBegin
    <3>. QED BY <2>2, <2>3, <3>1, <3>3, <3>4 DEF Stages, AssetWorking
  <2>. QED BY <2>1, <2>2, <2>3, BeginsStep
<1>5. ASSUME NEW a \in Assets, BeginDisposal(r, a)
      PROVE  AssetsInvariant'
  <2>. DEFINE work == [NoAssetWork EXCEPT !.op = "dispose", !.read = asset, !.todo = {a}]
              place == IF asset[a].status \in {"ABSENT", "DISPOSED"} THEN "failed" ELSE "post"
  <2>1. AssetBegins(r, place, work)
    BY <1>5 DEF BeginDisposal
  <2>2. /\ work \in AssetWork /\ work.entries = {} /\ work.disposals = {}
        /\ DOMAIN work.written = {} /\ work.op = "dispose" /\ work.todo = {a}
        /\ work.read = asset
    BY <1>1, <1>2 DEF AssetWork, AssetOperations
  <2>. HIDE DEF work
  <2>3. ASSUME place # "failed", assetTx'[r] = work, assetPc'[r] = place
        PROVE  Stages(r)' /\ ReadsCurrent(r)'
    <3>0. assetPc'[r] = "post" /\ asset[a].status \notin {"ABSENT", "DISPOSED"}
      BY <2>3
    <3>1. Unposted(r)'
      BY <2>2, <2>3 DEF Unposted
    <3>2. ReadWithinCost(r)'
      BY <1>2, <2>2, <2>3 DEF ReadWithinCost, RowSound
    <3>3. Disposes(r)'
      BY <2>2, <2>3, <3>0, <3>1, <3>2 DEF Disposes
    <3>4. ReadsCurrent(r)'
      BY <1>3, <1>5, <2>2, <2>3, <3>0 DEF ReadsCurrent, AssetBegin
    <3>. QED BY <2>2, <2>3, <3>0, <3>1, <3>3, <3>4 DEF Stages, AssetWorking
  <2>4. place \in {"processed", "post", "write", "failed"}
    OBVIOUS
  <2>. HIDE DEF place
  <2>. QED BY <2>1, <2>2, <2>3, <2>4, BeginsStep
<1>6. ASSUME NEW work,
             AssetBegins(r, IF \E a \in work.todo : asset[a].status = "ABSENT" \/ HasEntries(a)
                            THEN "failed" ELSE "write", work),
             work \in AssetWork, work.op \in {"update", "delete"}, work.entries = {},
             work.disposals = {}, DOMAIN work.written = {},
             work.op = "update" => work.basis \in Bases
      PROVE  AssetsInvariant'
  <2>. DEFINE place == IF \E a \in work.todo : asset[a].status = "ABSENT" \/ HasEntries(a)
                       THEN "failed" ELSE "write"
  <2>1. ASSUME place # "failed", assetTx'[r] = work, assetPc'[r] = place
        PROVE  Stages(r)' /\ ReadsCurrent(r)'
    <3>0. assetPc'[r] = "write" /\ \A a \in work.todo : ~HasEntries(a)
      BY <2>1
    <3>1. Unposted(r)'
      BY <1>6, <2>1 DEF Unposted
    <3>2. Changes(r)'
      BY <1>6, <2>1, <3>0, <3>1 DEF Changes
    <3>3. assetEntries' = assetEntries
      BY <1>6 DEF AssetBegins, assetCommitted
    <3>4. \A a \in work.todo : ~HasEntries(a)'
      BY <3>0, <3>3 DEF HasEntries
    <3>5. ReadsCurrent(r)'
      BY <1>6, <2>1, <3>4 DEF ReadsCurrent
    <3>. QED BY <1>6, <2>1, <3>0, <3>1, <3>2, <3>5 DEF Stages, AssetWorking
  <2>2. place \in {"processed", "post", "write", "failed"} /\ AssetBegins(r, place, work)
    BY <1>6
  <2>. HIDE DEF place
  <2>. QED BY <1>6, <2>1, <2>2, BeginsStep
<1>7. ASSUME NEW a \in Assets, NEW basis \in Bases, BeginAssetUpdate(r, a, basis)
      PROVE  AssetsInvariant'
  <2>. DEFINE work == [NoAssetWork EXCEPT !.op = "update", !.todo = {a}, !.basis = basis]
  <2>1. /\ work \in AssetWork /\ work.op = "update" /\ work.entries = {} /\ work.disposals = {}
        /\ DOMAIN work.written = {} /\ work.basis \in Bases /\ work.todo = {a}
    BY <1>1 DEF AssetWork, AssetOperations
  <2>2. AssetBegins(r, IF asset[a].status = "ABSENT" \/ HasEntries(a) THEN "failed" ELSE "write", work)
    BY <1>7 DEF BeginAssetUpdate
  <2>. HIDE DEF work
  <2>. QED BY <1>6, <2>1, <2>2
<1>8. ASSUME NEW a \in Assets, BeginDelete(r, a)
      PROVE  AssetsInvariant'
  <2>. DEFINE work == [NoAssetWork EXCEPT !.op = "delete", !.todo = {a}]
  <2>1. /\ work \in AssetWork /\ work.op = "delete" /\ work.entries = {} /\ work.disposals = {}
        /\ DOMAIN work.written = {} /\ work.todo = {a}
    BY <1>1 DEF AssetWork, AssetOperations
  <2>2. AssetBegins(r, IF asset[a].status = "ABSENT" \/ HasEntries(a) THEN "failed" ELSE "write", work)
    BY <1>8 DEF BeginDelete
  <2>. HIDE DEF work
  <2>. QED BY <1>6, <2>1, <2>2
<1>. QED BY <1>4, <1>5, <1>7, <1>8 DEF AssetBegin

\* A step of a request in progress: the others rest until some overlap.
LEMMA WorkingStep ==
  ASSUME AssetsInvariant, NEW r \in AssetInProgress, ~assetOverlapped
  PROVE  /\ \A q \in AssetRequests \ {r} : assetTx[q].op = "none"
         /\ ReadsCurrent(r)
  BY OthersRest DEF AssetsInvariant, AssetsSerial, AssetInProgress

\* A run drops the assets of the month's entries and those with nothing to post.
LEMMA ReadProcessedStep ==
  ASSUME AssetsInvariant, NEW r \in AssetRequests, ReadProcessed(r)
  PROVE  AssetsInvariant'
<1>. DEFINE todo == {a \in assetTx[r].todo :
                      /\ ~\E e \in assetEntries : e.asset = a /\ e.month = assetTx[r].month
                      /\ AmountToPost(a, assetTx[r].read[a]) > 0}
            work == [assetTx[r] EXCEPT !.todo = todo]
            place == IF todo = {} THEN "commit" ELSE "post"
<1>1. /\ assetPc[r] = "processed" /\ UNCHANGED assetCommitted /\ poster' = poster
      /\ assetOverlapped' = assetOverlapped
      /\ assetTx' = [assetTx EXCEPT ![r].todo = todo]
      /\ assetPc' = [assetPc EXCEPT ![r] = place]
  BY DEF ReadProcessed
<1>2. assetTx[r] \in AssetWork /\ Stages(r) /\ r \in AssetInProgress
  BY <1>1 DEF AssetsInvariant, AssetTypes, AssetInProgress, AssetWorking
<1>3. assetTx[r].op = "depreciate" /\ Depreciates(r) /\ Unposted(r)
  BY <1>1, <1>2 DEF Stages, Disposes, Changes, AssetWorking, AssetWork, AssetOperations, Depreciates
<1>4. /\ work \in AssetWork /\ work.todo = todo
      /\ work.op = "depreciate" /\ work.read = assetTx[r].read /\ work.month = assetTx[r].month
      /\ work.entries = {} /\ work.disposals = {} /\ DOMAIN work.written = {}
      /\ todo \subseteq assetTx[r].todo
      /\ \A a \in todo : AmountToPost(a, assetTx[r].read[a]) > 0
  BY <1>2, <1>3 DEF AssetWork, Unposted
<1>5. place \in {"post", "commit"}
  OBVIOUS
<1>6. assetTx'[r] = work /\ assetPc'[r] = place /\ OnlyOf(r)
  BY <1>1 DEF AssetsInvariant, AssetTypes, OnlyOf
<1>. HIDE DEF work, place, todo
<1>7. Unposted(r)' /\ ReadWithinCost(r)' /\ Touched(r)' = todo /\ todo \subseteq Touched(r)
  BY <1>3, <1>4, <1>6 DEF Unposted, Depreciates, ReadWithinCost, RowSound, Touched
<1>8. Depreciates(r)'
  BY <1>3, <1>4, <1>5, <1>6, <1>7 DEF Depreciates, Unposted
<1>9. Stages(r)'
  BY <1>4, <1>5, <1>6, <1>7, <1>8 DEF Stages, AssetWorking
<1>10. poster # r
  BY <1>1, AssetsAssumption DEF AssetsInvariant, PosterWorks
<1>11. ASSUME ~assetOverlapped
       PROVE  /\ \A q \in AssetRequests \ {r} : assetTx[q].op = "none"
              /\ ReadsCurrent(r)'
  <2>1. ReadsCurrent(r) /\ \A q \in AssetRequests \ {r} : assetTx[q].op = "none"
    BY <1>2, <1>11, WorkingStep
  <2>2. ReadsCurrent(r)'
    BY <1>1, <1>3, <1>4, <1>6, <1>7, <2>1 DEF ReadsCurrent, assetCommitted
  <2>. QED BY <2>1, <2>2
<1>12. assetOverlapped' \in BOOLEAN /\ IsFiniteSet(assetTx'[r].entries) /\ assetTx'[r] \in AssetWork
  BY <1>1, <1>4, <1>6, FS_EmptySet DEF AssetsInvariant, AssetTypes
<1>. QED
  BY <1>1, <1>5, <1>6, <1>9, <1>10, <1>11, <1>12, PrivateAssetStep DEF AssetWorking

\* The end of a request that commits nothing.
LEMMA AssetRollbackStep ==
  ASSUME AssetsInvariant, NEW r \in AssetInProgress, AssetRollback(r)
  PROVE  AssetsInvariant'
<1>1. /\ UNCHANGED assetCommitted /\ assetOverlapped' = assetOverlapped
      /\ assetTx' = [assetTx EXCEPT ![r] = NoAssetWork]
      /\ assetPc' = [assetPc EXCEPT ![r] = "failed"]
      /\ poster' = IF poster = r THEN NoPoster ELSE poster
  BY DEF AssetRollback, AssetEnds
<1>2. r \in AssetRequests /\ r # NoPoster
  BY AssetsAssumption DEF AssetInProgress
<1>3. assetTx'[r] = NoAssetWork /\ assetPc'[r] = "failed" /\ OnlyOf(r)
  BY <1>1, <1>2 DEF AssetsInvariant, AssetTypes, OnlyOf
<1>4. (assetTx[r] = NoAssetWork /\ assetPc[r] \notin AssetWorking => Stages(r) /\ ReadsCurrent(r))'
  BY RestingAsset, PTL
<1>5. Stages(r)' /\ ReadsCurrent(r)'
  BY <1>3, <1>4 DEF AssetWorking
<1>6. ~assetOverlapped => \A q \in AssetRequests \ {r} : assetTx[q].op = "none"
  BY WorkingStep
<1>7. assetOverlapped' \in BOOLEAN
  BY <1>1 DEF AssetsInvariant, AssetTypes
<1>. QED BY <1>1, <1>2, <1>3, <1>5, <1>6, <1>7, NoAssetWorkTyped, PrivateAssetStep

\* The depreciation of nothing is within the base, and so is that of the base.
LEMMA ZeroWithinBase ==
  ASSUME NEW a \in Assets, NEW rows \in [Assets -> AssetRow]
  PROVE  LET most == Max({0, Base(a, rows[a])})
         IN  most \in Int /\ 0 <= most /\ Base(a, rows[a]) <= most
<1>. DEFINE b == Base(a, rows[a])
            both == {0, b}
<1>1. b \in Int
  BY AssetsAssumption DEF Base, AssetRow
<1>2. IsPair(both, 0, b)
  BY DEF IsPair
<1>. HIDE DEF both, b
<1>3. Max(both) >= 0 /\ Max(both) \in Int /\ Max(both) >= b
  BY <1>1, <1>2, MaxOfTwo
<1>. QED BY <1>1, <1>3 DEF both, b

\* One more row to write.
LEMMA OneMoreWritten ==
  ASSUME NEW f \in AssetCells, NEW a \in Assets, NEW c \in AssetCell,
         a \notin DOMAIN f, NEW g, g = With(f, a, c)
  PROVE  /\ g \in AssetCells
         /\ DOMAIN g = DOMAIN f \cup {a}
         /\ g[a] = c /\ \A b \in DOMAIN f : g[b] = f[b]
<1>1. PICK S \in SUBSET Assets : f \in [S -> AssetCell]
  BY DEF AssetCells
<1>2. g = [b \in DOMAIN f \cup {a} |-> IF b = a THEN c ELSE f[b]]
  BY DEF With
<1>3. g \in [S \cup {a} -> AssetCell]
  BY <1>1, <1>2
<1>. QED BY <1>1, <1>2, <1>3 DEF AssetCells

\* A run posts one entry, holding the counter, or fails on the unique index.
LEMMA PostDepreciationStep ==
  ASSUME AssetsInvariant, NEW r \in AssetRequests, NEW a \in Assets, PostDepreciation(r, a)
  PROVE  AssetsInvariant'
<1>1. assetPc[r] = "post" /\ assetTx[r].op = "depreciate" /\ a \in assetTx[r].todo
      /\ poster \in {NoPoster, r}
  BY DEF PostDepreciation
<1>2. assetTx[r] \in AssetWork /\ Stages(r) /\ r \in AssetInProgress
  BY <1>1 DEF AssetsInvariant, AssetTypes, AssetInProgress, AssetWorking
<1>3. CASE AssetRollback(r)
  BY <1>2, <1>3, AssetRollbackStep
<1>4. CASE ~AssetRollback(r)
  <2>. DEFINE e == EntryFor(r, a)
              c == Depreciated(a, assetTx[r].read[a])
              f == assetTx[r].written
              g == With(f, a, c)
              work == [assetTx[r] EXCEPT !.todo = @ \ {a}, !.entries = @ \cup {e}, !.written = g]
              place == IF assetTx[r].todo = {a} THEN "commit" ELSE assetPc[r]
  <2>1. /\ poster' = r /\ UNCHANGED assetCommitted /\ assetOverlapped' = assetOverlapped
        /\ assetTx' = [assetTx EXCEPT ![r].todo = @ \ {a}, ![r].entries = @ \cup {e},
                                      ![r].written = With(@, a, c)]
        /\ assetPc' = [assetPc EXCEPT ![r] = IF assetTx[r].todo = {a} THEN "commit" ELSE @]
        /\ ~\E x \in assetEntries : x.asset = a /\ x.month = assetTx[r].month
        /\ asset[a].status # "ABSENT" /\ asset' = asset
    BY <1>4 DEF PostDepreciation, assetCommitted
  <2>2. assetTx'[r] = work /\ assetPc'[r] = place /\ OnlyOf(r)
    BY <2>1 DEF AssetsInvariant, AssetTypes, OnlyOf
  <2>3. place \in {"post", "commit"}
    BY <1>1
  <2>4. Depreciates(r)
    BY <1>1, <1>2 DEF Stages
  <2>5. /\ a \notin DOMAIN f /\ assetTx[r].read \in [Assets -> AssetRow] /\ assetTx[r].month \in Months
        /\ assetTx[r].read[a].life # 0 /\ assetTx[r].read[a] \in AssetRow
    BY <1>1, <2>4 DEF Depreciates, ReadWithinCost, RowSound, Touched
  <2>6. e \in EntryRow /\ c \in AssetCell
    <3>1. AmountToPost(a, assetTx[r].read[a]) \in Nat
      BY <2>5, AmountWithinBase
    <3>. QED BY <2>5, <3>1 DEF EntryFor, EntryRow, Depreciated, AssetCell, AssetRow, Status
  <2>7. /\ g \in AssetCells
        /\ DOMAIN g = DOMAIN f \cup {a} /\ g[a] = c /\ \A b \in DOMAIN f : g[b] = f[b]
    <3>1. f \in AssetCells
      BY <1>2 DEF AssetWork
    <3>2. a \notin DOMAIN f /\ c \in AssetCell /\ g = With(f, a, c)
      BY <2>5, <2>6
    <3>. HIDE DEF e, f, c, g, work, place
    <3>. QED BY <3>1, <3>2, OneMoreWritten
  <2>. HIDE DEF place, g, c
  <2>8. /\ work \in AssetWork /\ work.op = "depreciate" /\ work.read = assetTx[r].read
        /\ work.month = assetTx[r].month /\ work.todo = assetTx[r].todo \ {a}
        /\ work.entries = assetTx[r].entries \cup {e} /\ work.disposals = assetTx[r].disposals
        /\ work.written = g
    BY <1>1, <1>2, <2>6, <2>7 DEF AssetWork
  <2>9. IsFiniteSet(work.entries)
    <3>. HIDE DEF e, work
    <3>1. IsFiniteSet(assetTx[r].entries)
      BY DEF AssetsInvariant, AssetTypes
    <3>. QED BY <2>8, <3>1, FS_AddElement
  <2>. HIDE DEF work
  <2>10. \A b : EntryFor(r, b)' = EntryFor(r, b)
    BY <2>2, <2>8 DEF EntryFor
  <2>11. ReadWithinCost(r)' /\ Touched(r)' = Touched(r)
    BY <1>1, <2>2, <2>4, <2>7, <2>8 DEF Depreciates, ReadWithinCost, RowSound, Touched
  <2>12. Depreciates(r)'
    <3>1. assetTx'[r].entries = {EntryFor(r, b) : b \in DOMAIN g}
      BY <2>2, <2>4, <2>7, <2>8 DEF Depreciates
    <3>2. assetTx'[r].entries = {EntryFor(r, b)' : b \in DOMAIN g}
      BY <2>10, <3>1
    <3>3. \A b \in DOMAIN g : g[b] = Depreciated(b, assetTx[r].read[b])
      BY <2>4, <2>7 DEF Depreciates, c
    <3>4. \A b \in DOMAIN g : ~\E x \in assetEntries : x.asset = b /\ x.month = assetTx[r].month
      BY <2>1, <2>4, <2>7 DEF Depreciates
    <3>5. /\ assetTx'[r].todo \cap DOMAIN assetTx'[r].written = {}
          /\ assetTx'[r].disposals = {} /\ assetTx'[r].month \in Months
      BY <2>2, <2>4, <2>7, <2>8 DEF Depreciates
    <3>6. \A b \in Touched(r) : /\ assetTx[r].read[b].status = "ACTIVE"
                                /\ AmountToPost(b, assetTx[r].read[b]) > 0
      BY <1>1, <2>4 DEF Depreciates
    <3>7. UNCHANGED assetEntries
      BY <2>1 DEF assetCommitted
    <3>. QED BY <2>2, <2>3, <2>8, <2>11, <3>2, <3>3, <3>4, <3>5, <3>6, <3>7 DEF Depreciates
  <2>13. Stages(r)'
    BY <1>2, <2>1, <2>2, <2>3, <2>7, <2>8, <2>12 DEF Stages, AssetWorking
  <2>14. ASSUME ~assetOverlapped
         PROVE  /\ \A q \in AssetRequests \ {r} : assetTx[q].op = "none"
                /\ ReadsCurrent(r)'
    <3>1. ReadsCurrent(r) /\ \A q \in AssetRequests \ {r} : assetTx[q].op = "none"
      BY <1>2, <2>14, WorkingStep
    <3>2. ReadsCurrent(r)'
      BY <1>1, <2>1, <2>2, <2>8, <2>11, <3>1 DEF ReadsCurrent, assetCommitted
    <3>. QED BY <3>1, <3>2
  <2>15. assetOverlapped' \in BOOLEAN
    BY <2>1 DEF AssetsInvariant, AssetTypes
  <2>. QED
    BY <1>1, <2>1, <2>2, <2>3, <2>8, <2>9, <2>13, <2>14, <2>15, PrivateAssetStep DEF AssetWorking
<1>. QED BY <1>3, <1>4

\* A disposal posts the write-off, holding the counter.
LEMMA PostDisposalStep ==
  ASSUME AssetsInvariant, NEW r \in AssetRequests, NEW a \in Assets, PostDisposal(r, a)
  PROVE  AssetsInvariant'
<1>1. assetPc[r] = "post" /\ assetTx[r].op = "dispose" /\ a \in assetTx[r].todo
      /\ poster \in {NoPoster, r}
  BY DEF PostDisposal
<1>2. assetTx[r] \in AssetWork /\ Stages(r) /\ r \in AssetInProgress
  BY <1>1 DEF AssetsInvariant, AssetTypes, AssetInProgress, AssetWorking
<1>3. CASE AssetRollback(r)
  BY <1>2, <1>3, AssetRollbackStep
<1>4. CASE ~AssetRollback(r)
  <2>. DEFINE row == assetTx[r].read[a]
              d == [asset |-> a, by |-> r, accumulated |-> row.accumulated,
                    bookValue |-> Register[a].cost - row.accumulated]
              c == [status |-> "DISPOSED"]
              g == With(<<>>, a, c)
              work == [assetTx[r] EXCEPT !.disposals = {d}, !.written = g]
  <2>1. /\ poster' = r /\ UNCHANGED assetCommitted /\ assetOverlapped' = assetOverlapped
        /\ assetTx' = [assetTx EXCEPT ![r].disposals = {d}, ![r].written = g]
        /\ assetPc' = [assetPc EXCEPT ![r] = "commit"]
        /\ asset[a].status # "ABSENT" /\ asset' = asset
    BY <1>4 DEF PostDisposal, assetCommitted
  <2>. HIDE DEF g, d, row
  <2>2. assetTx'[r] = work /\ assetPc'[r] = "commit" /\ OnlyOf(r)
    BY <2>1 DEF AssetsInvariant, AssetTypes, OnlyOf
  <2>3. Disposes(r) /\ Unposted(r) /\ assetTx[r].todo = {a} /\ ReadWithinCost(r)
    BY <1>1, <1>2 DEF Stages, Disposes
  <2>4. row \in AssetRow /\ Register[a].cost \in Nat
    BY <2>3, AssetsAssumption DEF ReadWithinCost, row
  <2>5. d \in DisposalRow /\ d.asset = a /\ d.accumulated = assetTx[r].read[a].accumulated
    BY <2>4 DEF DisposalRow, AssetRow, d, row
  <2>6. /\ g \in AssetCells /\ DOMAIN g = {a}
    <3>1. g = [b \in {a} |-> c]
      BY DEF With, g
    <3>2. c \in AssetCell
      BY DEF AssetCell, Status
    <3>. HIDE DEF c
    <3>3. g \in [{a} -> AssetCell]
      BY <3>1, <3>2
    <3>. QED BY <3>1, <3>3 DEF AssetCells
  <2>7. /\ work \in AssetWork /\ work.op = "dispose" /\ work.read = assetTx[r].read
        /\ work.todo = {a} /\ work.entries = {} /\ work.disposals = {d} /\ work.written = g
    BY <1>1, <1>2, <2>3, <2>5, <2>6 DEF AssetWork, Unposted
  <2>. HIDE DEF work
  <2>8. Disposes(r)'
    <3>1. ReadWithinCost(r)'
      BY <2>2, <2>3, <2>7 DEF ReadWithinCost, RowSound
    <3>. QED BY <2>2, <2>5, <2>6, <2>7, <3>1 DEF Disposes
  <2>9. Stages(r)'
    BY <2>1, <2>2, <2>6, <2>7, <2>8 DEF Stages, AssetWorking
  <2>10. ASSUME ~assetOverlapped
         PROVE  /\ \A q \in AssetRequests \ {r} : assetTx[q].op = "none"
                /\ ReadsCurrent(r)'
    <3>1. ReadsCurrent(r) /\ \A q \in AssetRequests \ {r} : assetTx[q].op = "none"
      BY <1>2, <2>10, WorkingStep
    <3>2. ReadsCurrent(r)'
      BY <1>1, <2>1, <2>2, <2>3, <2>7, <3>1 DEF ReadsCurrent, assetCommitted
    <3>. QED BY <3>1, <3>2
  <2>11. assetOverlapped' \in BOOLEAN /\ IsFiniteSet(work.entries)
    BY <2>1, <2>7, FS_EmptySet DEF AssetsInvariant, AssetTypes
  <2>. QED
    BY <1>1, <2>1, <2>2, <2>7, <2>9, <2>10, <2>11, PrivateAssetStep DEF AssetWorking
<1>. QED BY <1>3, <1>4

-----------------------------------------------------------------------------
(* Steps that commit *)

\* A statement that ends a request with a commit keeps the invariant when the tables it
\* leaves are sound.
LEMMA PublicAssetStep ==
  ASSUME AssetsInvariant, NEW r \in AssetInProgress, AssetEnds(r, "done"),
         asset' \in [Assets -> AssetRow], assetEntries' \subseteq EntryRow, disposals' \subseteq DisposalRow,
         IsFiniteSet(assetEntries'), WithinCost', DepreciatedOncePerMonth',
         assetEntries' = assetEntries \/ ~Unposted(r),
         \A q \in AssetRequests \ {r} : \A a \in DOMAIN assetTx[q].written :
            asset'[a].status = "ABSENT" => asset[a].status = "ABSENT",
         ~assetOverlapped => BooksReconcile' /\ WrittenOffOnce'
  PROVE  AssetsInvariant'
<1>1. /\ assetOverlapped' = assetOverlapped
      /\ assetTx' = [assetTx EXCEPT ![r] = NoAssetWork]
      /\ assetPc' = [assetPc EXCEPT ![r] = "done"]
      /\ poster' = IF poster = r THEN NoPoster ELSE poster
  BY DEF AssetEnds
<1>2. r \in AssetRequests /\ r # NoPoster /\ NoPoster \notin AssetRequests
  BY AssetsAssumption DEF AssetInProgress
<1>3. /\ assetTx'[r] = NoAssetWork /\ assetPc'[r] = "done"
      /\ \A q \in AssetRequests \ {r} : assetTx'[q] = assetTx[q] /\ assetPc'[q] = assetPc[q]
  BY <1>1, <1>2 DEF AssetsInvariant, AssetTypes
<1>4. (assetTx[r] = NoAssetWork /\ assetPc[r] \notin AssetWorking => Stages(r) /\ ReadsCurrent(r))'
  BY RestingAsset, PTL
<1>5. Stages(r)' /\ ReadsCurrent(r)'
  BY <1>3, <1>4 DEF AssetWorking
<1>6. AssetTypes'
  <2>1. /\ assetTx' \in [AssetRequests -> AssetWork]
        /\ \A q \in AssetRequests : IsFiniteSet(assetTx'[q].entries)
    BY <1>1, <1>3, NoAssetWorkTyped DEF AssetsInvariant, AssetTypes
  <2>. QED BY <1>1, <2>1 DEF AssetsInvariant, AssetTypes
<1>7. ASSUME NEW q \in AssetRequests \ {r}
      PROVE  Stages(q)'
  <2>1. Unposted(q) \/ assetEntries' = assetEntries
    BY OnePoster DEF AssetsInvariant, AssetInProgress
  <2>2. poster = q => poster' = q
    BY <1>1, <1>2
  <2>. QED BY <1>3, <2>1, <2>2, StagesKept DEF AssetsInvariant
<1>8. PosterWorks'
  BY <1>1, <1>2, <1>3 DEF AssetsInvariant, PosterWorks
<1>9. ASSUME ~assetOverlapped'
      PROVE  OneAtATime' /\ \A q \in AssetRequests : ReadsCurrent(q)'
  <2>1. \A q \in AssetRequests \ {r} : assetTx[q].op = "none"
    BY <1>1, <1>9, WorkingStep
  <2>2. OneAtATime'
    BY <1>3, <2>1 DEF AssetsInvariant, Stages, OneAtATime, AssetInProgress, AssetWorking
  <2>3. ASSUME NEW q \in AssetRequests \ {r}
        PROVE  ReadsCurrent(q)'
    <3>1. assetTx'[q].op = "none"
      BY <1>3, <2>1
    <3>. QED BY <3>1 DEF ReadsCurrent
  <2>. QED BY <1>5, <2>2, <2>3
<1>. QED BY <1>1, <1>5, <1>6, <1>7, <1>8, <1>9 DEF AssetsInvariant, AssetsSerial

\* The write of update() moves the base only of an asset without entries.
LEMMA WriteUpdateStep ==
  ASSUME AssetsInvariant, NEW r \in AssetRequests, NEW a \in Assets, WriteAssetUpdate(r, a)
  PROVE  AssetsInvariant'
<1>1. /\ assetPc[r] = "write" /\ assetTx[r].op = "update" /\ a \in assetTx[r].todo
      /\ r \in AssetInProgress /\ Stages(r)
  BY DEF WriteAssetUpdate, AssetInProgress, AssetWorking, AssetsInvariant
<1>2. CASE AssetRollback(r)
  BY <1>1, <1>2, AssetRollbackStep
<1>3. CASE ~AssetRollback(r)
  <2>. DEFINE basis == assetTx[r].basis
  <2>1. /\ asset' = [asset EXCEPT ![a].residual = basis.residual, ![a].life = basis.life]
        /\ AssetEnds(r, "done") /\ assetEntries' = assetEntries /\ disposals' = disposals
        /\ asset[a].status # "ABSENT"
    BY <1>3 DEF WriteAssetUpdate
  <2>2. basis.residual \in Nat /\ basis.life \in Nat \ {0}
    BY <1>1, AssetsAssumption DEF Stages, Changes
  <2>3. asset \in [Assets -> AssetRow] /\ \A b \in Assets : RowSound(b, asset[b])
    BY DEF AssetsInvariant, AssetTypes, WithinCost
  <2>. HIDE DEF basis
  <2>4. /\ asset' \in [Assets -> AssetRow]
        /\ \A b \in Assets \ {a} : asset'[b] = asset[b]
        /\ asset'[a].status = asset[a].status /\ asset'[a].accumulated = asset[a].accumulated
        /\ asset'[a].life = basis.life /\ asset'[a].residual = basis.residual
    BY <2>1, <2>2, <2>3 DEF AssetRow
  <2>5. WithinCost'
    BY <2>2, <2>3, <2>4 DEF WithinCost, RowSound
  <2>6. /\ DepreciatedOncePerMonth' /\ IsFiniteSet(assetEntries')
        /\ assetEntries' \subseteq EntryRow /\ disposals' \subseteq DisposalRow
    BY <2>1 DEF AssetsInvariant, AssetTypes, DepreciatedOncePerMonth
  <2>7. \A b \in Assets : /\ asset'[b].status = asset[b].status
                          /\ asset'[b].accumulated = asset[b].accumulated
    BY <2>4
  <2>8. ASSUME ~assetOverlapped
        PROVE  BooksReconcile' /\ WrittenOffOnce'
    <3>1. BooksReconcile /\ WrittenOffOnce /\ ~HasEntries(a)
      BY <1>1, <2>8, WorkingStep DEF AssetsInvariant, AssetsSerial, ReadsCurrent
    <3>2. \A b : EntriesOf(b)' = EntriesOf(b) /\ DisposalsOf(b)' = DisposalsOf(b)
      BY <2>1 DEF EntriesOf, DisposalsOf
    <3>3. \A b : Total(EntriesOf(b))' = Total(EntriesOf(b))
      BY <3>2
    <3>4. WrittenOffOnce'
      <4>1. \A d \in disposals : d.asset \in Assets
        BY DEF AssetsInvariant, AssetTypes, DisposalRow
      <4>. QED BY <2>1, <2>7, <3>1, <3>2, <3>3, <4>1 DEF WrittenOffOnce
    <3>5. BooksReconcile'
      <4>1. EntriesOf(a) = {} /\ Total({}) = 0
        BY <3>1, NoRows DEF HasEntries, EntriesOf, Total, AmountsOf
      <4>2. asset'[a].accumulated = 0
        BY <2>4, <3>1, <4>1 DEF BooksReconcile
      <4>3. 0 <= Max({0, Base(a, asset[a])})'
        BY <2>4, ZeroWithinBase
      <4>. QED BY <2>4, <3>1, <3>3, <4>1, <4>2, <4>3 DEF BooksReconcile, Base
    <3>. QED BY <3>4, <3>5
  <2>9. \A q \in AssetRequests : DOMAIN assetTx[q].written \subseteq Assets
    BY DEF AssetsInvariant, AssetTypes, AssetWork, AssetCells
  <2>. QED BY <1>1, <2>1, <2>4, <2>5, <2>6, <2>7, <2>8, <2>9, PublicAssetStep
<1>. QED BY <1>2, <1>3

\* The write of delete() takes away only an asset without entries.
LEMMA WriteDeleteStep ==
  ASSUME AssetsInvariant, NEW r \in AssetRequests, NEW a \in Assets, WriteDelete(r, a)
  PROVE  AssetsInvariant'
<1>1. /\ assetPc[r] = "write" /\ assetTx[r].op = "delete" /\ a \in assetTx[r].todo
      /\ r \in AssetInProgress /\ Stages(r) /\ RowFree(r, a)
  BY DEF WriteDelete, AssetInProgress, AssetWorking, AssetsInvariant
<1>2. CASE AssetRollback(r)
  BY <1>1, <1>2, AssetRollbackStep
<1>3. CASE ~AssetRollback(r)
  <2>1. /\ asset' = [asset EXCEPT ![a] = Absent]
        /\ AssetEnds(r, "done") /\ assetEntries' = assetEntries /\ disposals' = disposals
        /\ ~HasEntries(a)
    BY <1>3 DEF WriteDelete
  <2>2. asset \in [Assets -> AssetRow] /\ \A b \in Assets : RowSound(b, asset[b])
    BY DEF AssetsInvariant, AssetTypes, WithinCost
  <2>3. /\ Absent \in AssetRow /\ Absent.accumulated = 0 /\ Absent.status = "ABSENT" /\ Absent.residual = 0
        /\ Register[a].cost \in Nat /\ RowSound(a, Absent)
    BY AssetsAssumption DEF Absent, AssetRow, Status, RowSound
  <2>4. /\ asset' \in [Assets -> AssetRow] /\ asset'[a] = Absent
        /\ \A b \in Assets \ {a} : asset'[b] = asset[b]
    BY <2>1, <2>2, <2>3
  <2>5. WithinCost'
    BY <2>2, <2>3, <2>4 DEF WithinCost, RowSound
  <2>6. /\ DepreciatedOncePerMonth' /\ IsFiniteSet(assetEntries')
        /\ assetEntries' \subseteq EntryRow /\ disposals' \subseteq DisposalRow
    BY <2>1 DEF AssetsInvariant, AssetTypes, DepreciatedOncePerMonth
  <2>7. ASSUME ~assetOverlapped
        PROVE  BooksReconcile' /\ WrittenOffOnce'
    <3>1. BooksReconcile /\ WrittenOffOnce
      BY <2>7 DEF AssetsInvariant, AssetsSerial
    <3>2. \A b : EntriesOf(b)' = EntriesOf(b) /\ DisposalsOf(b)' = DisposalsOf(b)
      BY <2>1 DEF EntriesOf, DisposalsOf
    <3>3. \A b : Total(EntriesOf(b))' = Total(EntriesOf(b))
      BY <3>2
    <3>4. WrittenOffOnce'
      <4>1. \A d \in disposals : d.asset \in Assets
        BY DEF AssetsInvariant, AssetTypes, DisposalRow
      <4>. QED BY <2>1, <2>3, <2>4, <3>1, <3>2, <3>3, <4>1 DEF WrittenOffOnce
    <3>5. BooksReconcile'
      <4>1. EntriesOf(a) = {} /\ Total({}) = 0
        BY <2>1, NoRows DEF HasEntries, EntriesOf, Total, AmountsOf
      <4>2. asset'[a].accumulated = 0
        BY <2>3, <2>4
      <4>3. 0 <= Max({0, Base(a, asset[a])})'
        BY <2>4, ZeroWithinBase
      <4>. QED BY <2>4, <3>1, <3>3, <4>1, <4>2, <4>3 DEF BooksReconcile, Base
    <3>. QED BY <3>4, <3>5
  <2>8. \A q \in AssetRequests \ {r} : \A b \in DOMAIN assetTx[q].written : b \in Assets \ {a}
    BY <1>1 DEF AssetsInvariant, AssetTypes, AssetWork, AssetCells, RowFree
  <2>. QED BY <1>1, <2>1, <2>4, <2>5, <2>6, <2>7, <2>8, PublicAssetStep
<1>. QED BY <1>2, <1>3

\* create() adds an asset without entries.
LEMMA CreateAssetStep ==
  ASSUME AssetsInvariant, NEW a \in Assets, CreateAsset(a)
  PROVE  AssetsInvariant'
<1>. DEFINE new == Created(a)
<1>1. /\ asset[a].status = "ABSENT" /\ asset' = [asset EXCEPT ![a] = new]
      /\ UNCHANGED <<assetEntries, disposals, poster, assetPc, assetTx, assetOverlapped>>
      /\ \A d \in disposals : d.asset # a
      /\ \A e \in assetEntries : e.asset # a
      /\ \A r \in AssetRequests : a \notin Touched(r)
  BY DEF CreateAsset, Touched
<1>2. asset \in [Assets -> AssetRow] /\ \A b \in Assets : RowSound(b, asset[b])
  BY DEF AssetsInvariant, AssetTypes, WithinCost
<1>3. /\ new \in AssetRow /\ new.accumulated = 0 /\ RowSound(a, new)
  BY AssetsAssumption DEF Created, AssetRow, Status, RowSound
<1>. HIDE DEF new
<1>4. asset' \in [Assets -> AssetRow] /\ asset'[a] = new /\ \A b \in Assets \ {a} : asset'[b] = asset[b]
  BY <1>1, <1>2, <1>3
<1>5. AssetTypes' /\ PosterWorks' /\ DepreciatedOncePerMonth' /\ (OneAtATime <=> OneAtATime')
  BY <1>1, <1>4 DEF AssetsInvariant, AssetTypes, PosterWorks, DepreciatedOncePerMonth, OneAtATime,
                    AssetInProgress
<1>6. WithinCost'
  BY <1>2, <1>3, <1>4 DEF WithinCost, RowSound
<1>7. ASSUME NEW r \in AssetRequests
      PROVE  Stages(r)'
  <2>1. \A b \in DOMAIN assetTx[r].written : b \in Assets \ {a}
    BY <1>1 DEF AssetsInvariant, AssetTypes, AssetWork, AssetCells, Touched
  <2>. QED BY <1>1, <1>4, <2>1, StagesKept DEF AssetsInvariant
<1>8. ASSUME ~assetOverlapped
      PROVE  /\ OneAtATime' /\ BooksReconcile' /\ WrittenOffOnce'
             /\ \A r \in AssetRequests : ReadsCurrent(r)'
  <2>1. BooksReconcile /\ WrittenOffOnce /\ OneAtATime /\ \A r \in AssetRequests : ReadsCurrent(r)
    BY <1>8 DEF AssetsInvariant, AssetsSerial
  <2>2. \A b : EntriesOf(b)' = EntriesOf(b) /\ DisposalsOf(b)' = DisposalsOf(b)
    BY <1>1 DEF EntriesOf, DisposalsOf
  <2>3. \A b : Total(EntriesOf(b))' = Total(EntriesOf(b))
    BY <2>2
  <2>4. WrittenOffOnce'
    <3>1. \A d \in disposals : d.asset \in Assets \ {a}
      BY <1>1 DEF AssetsInvariant, AssetTypes, DisposalRow
    <3>. QED BY <1>1, <1>4, <2>1, <2>2, <2>3, <3>1 DEF WrittenOffOnce
  <2>5. BooksReconcile'
    <3>1. EntriesOf(a) = {} /\ Total({}) = 0
      BY <1>1, NoRows DEF EntriesOf, Total, AmountsOf
    <3>2. 0 <= Max({0, Base(a, asset[a])})'
      BY <1>4, ZeroWithinBase
    <3>. QED BY <1>3, <1>4, <2>1, <2>3, <3>1, <3>2 DEF BooksReconcile, Base
  <2>6. ASSUME NEW r \in AssetRequests
        PROVE  ReadsCurrent(r)'
    <3>1. /\ Touched(r)' = Touched(r) /\ Touched(r) \subseteq Assets \ {a}
          /\ assetTx[r].todo \subseteq Touched(r)
      BY <1>1 DEF AssetsInvariant, AssetTypes, AssetWork, AssetCells, Touched
    <3>2. \A b : HasEntries(b)' <=> HasEntries(b)
      BY <1>1 DEF HasEntries
    <3>. QED BY <1>1, <1>4, <2>1, <3>1, <3>2 DEF ReadsCurrent
  <2>. QED BY <1>5, <2>1, <2>4, <2>5, <2>6
<1>. QED BY <1>1, <1>5, <1>6, <1>7, <1>8 DEF AssetsInvariant, AssetsSerial

\* The total of the entries is the sum the lemmas on sums are about.
LEMMA TotalIsAmounts == \A rows : Total(rows) = AmountsOf(rows)
BY DEF Total, AmountsOf

\* The commit of a run: its entries, and what each adds to its asset.
LEMMA CommitDepreciation ==
  ASSUME AssetsInvariant, NEW r \in AssetRequests, AssetCommit(r), assetTx[r].op = "depreciate"
  PROVE  AssetsInvariant'
<1>. DEFINE W == DOMAIN assetTx[r].written
            row(a) == assetTx[r].read[a]
            amount(a) == AmountToPost(a, row(a))
            e == [a \in W |-> EntryFor(r, a)]
<1>1. /\ assetPc[r] = "commit" /\ AssetEnds(r, "done") /\ r \in AssetInProgress
      /\ asset' = [a \in Assets |->
                     IF a \notin W THEN asset[a]
                     ELSE [asset[a] EXCEPT !.accumulated = assetTx[r].written[a].accumulated,
                                           !.status = assetTx[r].written[a].status]]
      /\ assetEntries' = assetEntries \cup assetTx[r].entries
      /\ disposals' = disposals \cup assetTx[r].disposals
  BY DEF AssetCommit, AssetInProgress, AssetWorking
<1>2. assetTx[r] \in AssetWork /\ Stages(r) /\ Depreciates(r) /\ IsFiniteSet(assetTx[r].entries)
  BY DEF AssetsInvariant, AssetTypes, Stages
<1>3. W \subseteq Assets /\ W \subseteq Touched(r) /\ assetTx[r].month \in Months
  BY <1>2 DEF AssetWork, AssetCells, Touched, Depreciates
<1>4. asset \in [Assets -> AssetRow] /\ \A b \in Assets : RowSound(b, asset[b])
  BY DEF AssetsInvariant, AssetTypes, WithinCost
<1>. HIDE DEF W
<1>5. ASSUME NEW a \in W
      PROVE  /\ row(a) \in AssetRow /\ row(a).life # 0 /\ amount(a) \in Nat
             /\ row(a).accumulated + amount(a) <= Base(a, row(a))
             /\ Base(a, row(a)) <= Register[a].cost
             /\ Base(a, row(a)) \in Int /\ Register[a].cost \in Nat
             /\ assetTx[r].written[a] = Depreciated(a, row(a))
             /\ asset[a].status # "ABSENT"
             /\ asset'[a].accumulated = row(a).accumulated + amount(a)
             /\ asset'[a].status \in {"ACTIVE", "FULLY_DEPRECIATED"}
             /\ asset'[a].life = asset[a].life /\ asset'[a].residual = asset[a].residual
             /\ asset'[a] \in AssetRow
  <2>1. /\ row(a) \in AssetRow /\ row(a).life # 0 /\ amount(a) > 0
        /\ assetTx[r].written[a] = Depreciated(a, row(a))
    BY <1>1, <1>2, <1>3 DEF Depreciates, ReadWithinCost, RowSound, W
  <2>2. /\ amount(a) \in Nat /\ row(a).accumulated + amount(a) <= Base(a, row(a))
        /\ Base(a, row(a)) <= Register[a].cost /\ Base(a, row(a)) \in Int
    <3>. HIDE DEF row
    <3>. QED BY <1>3, <2>1, AmountWithinBase
  <2>3. asset[a].status # "ABSENT" /\ Register[a].cost \in Nat
    BY <1>2, <1>3, AssetsAssumption DEF Stages, W
  <2>4. /\ assetTx[r].written[a].accumulated = row(a).accumulated + amount(a)
        /\ assetTx[r].written[a].status \in {"ACTIVE", "FULLY_DEPRECIATED"}
    BY <2>1 DEF Depreciated
  <2>5. row(a).accumulated + amount(a) \in Nat
    BY <2>1, <2>2 DEF AssetRow
  <2>. HIDE DEF row, amount
  <2>6. /\ asset'[a] = [asset[a] EXCEPT !.accumulated = assetTx[r].written[a].accumulated,
                                        !.status = assetTx[r].written[a].status]
        /\ asset[a] \in AssetRow
    BY <1>1, <1>3, <1>4
  <2>7. /\ asset'[a].accumulated = row(a).accumulated + amount(a)
        /\ asset'[a].status \in {"ACTIVE", "FULLY_DEPRECIATED"}
        /\ asset'[a].life = asset[a].life /\ asset'[a].residual = asset[a].residual
        /\ asset'[a] \in AssetRow
    BY <2>4, <2>5, <2>6 DEF AssetRow, Status
  <2>. QED BY <2>1, <2>2, <2>3, <2>7
<1>6. \A a \in Assets \ W : asset'[a] = asset[a]
  BY <1>1
<1>7. asset' \in [Assets -> AssetRow]
  BY <1>1, <1>4, <1>5, <1>6
<1>8. WithinCost'
  <2>1. ASSUME NEW a \in Assets
        PROVE  RowSound(a, asset'[a])
    <3>1. CASE a \in W
      <4>1. asset'[a].accumulated <= Register[a].cost
        BY <1>5, <3>1 DEF AssetRow
      <4>. QED BY <1>4, <1>5, <3>1, <4>1 DEF RowSound
    <3>2. CASE a \notin W
      BY <1>4, <1>6, <3>2
    <3>. QED BY <3>1, <3>2
  <2>. QED BY <2>1 DEF WithinCost, RowSound
<1>9. /\ \A x : x \in assetTx[r].entries <=> \E a \in W : x = e[a]
      /\ assetTx[r].disposals = {}
      /\ \A a \in W : /\ e[a].asset = a /\ e[a].month = assetTx[r].month
                      /\ e[a].amount = amount(a)
                      /\ ~\E x \in assetEntries : x.asset = a /\ x.month = assetTx[r].month
  BY <1>2 DEF Depreciates, EntryFor, W
<1>10. /\ assetEntries \subseteq EntryRow /\ IsFiniteSet(assetEntries) /\ DepreciatedOncePerMonth
       /\ disposals \subseteq DisposalRow
  BY DEF AssetsInvariant, AssetTypes
<1>11. /\ assetEntries' \subseteq EntryRow /\ disposals' = disposals /\ disposals' \subseteq DisposalRow
       /\ IsFiniteSet(assetEntries')
  <2>1. IsFiniteSet(assetEntries \cup assetTx[r].entries)
    BY <1>2, <1>10, FS_Union
  <2>. QED BY <1>1, <1>2, <1>9, <1>10, <2>1 DEF AssetWork
<1>. HIDE DEF e, amount, row
<1>12. \A x : x \in assetEntries' <=> x \in assetEntries \/ \E a \in W : x = e[a]
  <2>1. assetEntries' = assetEntries \cup assetTx[r].entries
    BY <1>1
  <2>. QED BY <1>9, <2>1
<1>13. DepreciatedOncePerMonth'
  <2>. SUFFICES ASSUME NEW x \in assetEntries', NEW y \in assetEntries',
                       x.asset = y.asset, x.month = y.month
                PROVE  x = y
    BY DEF DepreciatedOncePerMonth
  <2>1. CASE x \in assetEntries /\ y \in assetEntries
    BY <1>10, <2>1 DEF DepreciatedOncePerMonth
  <2>2. ASSUME NEW a \in W, x = e[a] PROVE x = y
    BY <1>9, <1>12, <2>2
  <2>3. ASSUME NEW a \in W, y = e[a] PROVE x = y
    BY <1>9, <1>12, <2>3
  <2>. QED BY <1>12, <2>1, <2>2, <2>3
<1>14. assetEntries' = assetEntries \/ ~Unposted(r)
  BY <1>1 DEF Unposted
<1>15. ASSUME ~assetOverlapped
       PROVE  BooksReconcile' /\ WrittenOffOnce'
  <2>1. BooksReconcile /\ WrittenOffOnce
    BY <1>15 DEF AssetsInvariant, AssetsSerial
  <2>2. \A a \in W : row(a) = asset[a] /\ asset[a].status = "ACTIVE"
    BY <1>1, <1>3, <1>15, WorkingStep DEF ReadsCurrent, row
  <2>3. \A a : DisposalsOf(a)' = DisposalsOf(a)
    BY <1>11 DEF DisposalsOf
  <2>4. \A a \in W : EntriesOf(a)' = EntriesOf(a) \cup {e[a]} /\ e[a] \notin EntriesOf(a)
    <3>. SUFFICES ASSUME NEW a \in W
                  PROVE  EntriesOf(a)' = EntriesOf(a) \cup {e[a]} /\ e[a] \notin EntriesOf(a)
      OBVIOUS
    <3>1. e[a] \notin EntriesOf(a)
      BY <1>9 DEF EntriesOf
    <3>2. \A x : x \in EntriesOf(a)' <=> x \in EntriesOf(a) \/ x = e[a]
      BY <1>9, <1>12 DEF EntriesOf
    <3>. HIDE DEF e
    <3>. QED BY <3>1, <3>2
  <2>5. \A a : a \notin W => EntriesOf(a)' = EntriesOf(a)
    <3>1. \A a : a \notin W => \A x : x \in EntriesOf(a)' <=> x \in EntriesOf(a)
      BY <1>9, <1>12 DEF EntriesOf
    <3>. QED BY <3>1
  <2>6. \A a \in Assets : IsFiniteSet(EntriesOf(a)) /\ \A x \in EntriesOf(a) : x.amount \in Int
    <3>1. \A a \in Assets : EntriesOf(a) \subseteq assetEntries
      BY DEF EntriesOf
    <3>. QED BY <1>10, <3>1, FS_Subset DEF EntryRow
  <2>7. \A a \in W : Total(EntriesOf(a)') = Total(EntriesOf(a)) + amount(a)
    <3>. SUFFICES ASSUME NEW a \in W
                  PROVE  Total(EntriesOf(a)') = Total(EntriesOf(a)) + amount(a)
      OBVIOUS
    <3>1. e[a].amount = amount(a) /\ amount(a) \in Int
      BY <1>5, <1>9
    <3>2. AmountsOf(EntriesOf(a) \cup {e[a]}) = AmountsOf(EntriesOf(a)) + e[a].amount
      BY <1>3, <2>4, <2>6, <3>1, AmountsAdded
    <3>. QED BY <2>4, <3>1, <3>2, TotalIsAmounts
  <2>8. WrittenOffOnce'
    <3>1. \A d \in disposals : d.asset \in Assets \ W
      BY <1>10, <2>1, <2>2 DEF WrittenOffOnce, DisposalRow
    <3>2. \A d \in disposals : Total(EntriesOf(d.asset))' = Total(EntriesOf(d.asset))
      BY <2>5, <3>1
    <3>. QED BY <1>6, <1>11, <2>1, <2>3, <3>1, <3>2 DEF WrittenOffOnce
  <2>9. ASSUME NEW a \in Assets
        PROVE  /\ asset'[a].accumulated <= Max({0, Base(a, asset'[a])})
               /\ asset'[a].accumulated = Total(EntriesOf(a)')
    <3>1. CASE a \in W
      <4>1. asset'[a].accumulated = Total(EntriesOf(a)')
        <5>1. asset'[a].accumulated = row(a).accumulated + amount(a) /\ row(a) = asset[a]
          BY <1>5, <2>2, <3>1
        <5>2. asset[a].accumulated = Total(EntriesOf(a))
          BY <2>1 DEF BooksReconcile
        <5>. QED BY <2>7, <3>1, <5>1, <5>2
      <4>2. Base(a, asset'[a]) = Base(a, row(a))
        BY <1>5, <2>2, <3>1 DEF Base
      <4>3. /\ Max({0, Base(a, asset'[a])}) \in Int
            /\ Base(a, asset'[a]) <= Max({0, Base(a, asset'[a])})
        BY <1>7, ZeroWithinBase
      <4>. QED BY <1>5, <3>1, <4>1, <4>2, <4>3 DEF AssetRow
    <3>2. CASE a \notin W
      BY <1>6, <2>1, <2>5, <3>2 DEF BooksReconcile
    <3>. QED BY <3>1, <3>2
  <2>10. BooksReconcile'
    BY <2>9 DEF BooksReconcile, Base
  <2>. QED BY <2>8, <2>10
<1>16. \A q \in AssetRequests \ {r} : \A a \in DOMAIN assetTx[q].written :
         asset'[a].status = "ABSENT" => asset[a].status = "ABSENT"
  <2>1. \A q \in AssetRequests : DOMAIN assetTx[q].written \subseteq Assets
    BY DEF AssetsInvariant, AssetTypes, AssetWork, AssetCells
  <2>. QED BY <1>5, <1>6, <2>1
<1>. QED BY <1>1, <1>7, <1>8, <1>11, <1>13, <1>14, <1>15, <1>16, PublicAssetStep

\* The commit of a disposal: the write-off, and the status.
LEMMA CommitDisposal ==
  ASSUME AssetsInvariant, NEW r \in AssetRequests, AssetCommit(r), assetTx[r].op = "dispose"
  PROVE  AssetsInvariant'
<1>1. /\ assetPc[r] = "commit" /\ AssetEnds(r, "done") /\ r \in AssetInProgress
      /\ asset' = [a \in Assets |->
                     IF a \notin DOMAIN assetTx[r].written THEN asset[a]
                     ELSE [asset[a] EXCEPT !.status = "DISPOSED"]]
      /\ assetEntries' = assetEntries \cup assetTx[r].entries
      /\ disposals' = disposals \cup assetTx[r].disposals
  BY DEF AssetCommit, AssetInProgress, AssetWorking
<1>2. assetTx[r] \in AssetWork /\ Stages(r) /\ Disposes(r)
  BY DEF AssetsInvariant, AssetTypes, Stages
<1>3. PICK a \in Assets : /\ assetTx[r].todo = {a} /\ DOMAIN assetTx[r].written = {a}
                          /\ assetTx[r].entries = {}
                          /\ \E d \in assetTx[r].disposals :
                               /\ d.asset = a /\ d.accumulated = assetTx[r].read[a].accumulated
                               /\ assetTx[r].disposals = {d}
  BY <1>1, <1>2 DEF Disposes
<1>4. PICK d \in DisposalRow : /\ d.asset = a /\ d.accumulated = assetTx[r].read[a].accumulated
                               /\ assetTx[r].disposals = {d}
  BY <1>2, <1>3 DEF AssetWork
<1>5. asset \in [Assets -> AssetRow] /\ \A b \in Assets : RowSound(b, asset[b])
  BY DEF AssetsInvariant, AssetTypes, WithinCost
<1>6. asset[a].status # "ABSENT"
  BY <1>2, <1>3 DEF Stages
<1>7. /\ asset' \in [Assets -> AssetRow] /\ \A b \in Assets \ {a} : asset'[b] = asset[b]
      /\ asset'[a].status = "DISPOSED" /\ asset'[a].accumulated = asset[a].accumulated
      /\ asset'[a].life = asset[a].life /\ asset'[a].residual = asset[a].residual
  BY <1>1, <1>3, <1>5 DEF AssetRow, Status
<1>8. WithinCost'
  BY <1>5, <1>6, <1>7 DEF WithinCost, RowSound
<1>9. /\ assetEntries' = assetEntries /\ assetEntries' \subseteq EntryRow /\ IsFiniteSet(assetEntries')
      /\ disposals' = disposals \cup {d} /\ disposals' \subseteq DisposalRow
      /\ DepreciatedOncePerMonth'
  BY <1>1, <1>3, <1>4 DEF AssetsInvariant, AssetTypes, DepreciatedOncePerMonth
<1>10. ASSUME ~assetOverlapped
       PROVE  BooksReconcile' /\ WrittenOffOnce'
  <2>1. BooksReconcile /\ WrittenOffOnce
    BY <1>10 DEF AssetsInvariant, AssetsSerial
  <2>2. assetTx[r].read[a] = asset[a] /\ asset[a].status \notin {"ABSENT", "DISPOSED"}
    BY <1>1, <1>3, <1>10, WorkingStep DEF ReadsCurrent
  <2>3. \A b : EntriesOf(b)' = EntriesOf(b)
    BY <1>9 DEF EntriesOf
  <2>4. \A b : Total(EntriesOf(b))' = Total(EntriesOf(b))
    BY <2>3
  <2>5. \A x \in disposals : x.asset \in Assets \ {a}
    <3>1. \A x \in disposals : /\ x.asset \in Assets
                               /\ asset[x.asset].status \in {"ABSENT", "DISPOSED"}
      BY <2>1 DEF AssetsInvariant, AssetTypes, DisposalRow, WrittenOffOnce
    <3>. QED BY <2>2, <3>1
  <2>6. DisposalsOf(a)' = {d} /\ \A x \in disposals : DisposalsOf(x.asset)' = DisposalsOf(x.asset)
    BY <1>4, <1>9, <2>5 DEF DisposalsOf
  <2>7. d.accumulated = Total(EntriesOf(a))
    BY <1>4, <2>1, <2>2 DEF BooksReconcile
  <2>8. WrittenOffOnce'
    BY <1>4, <1>7, <1>9, <2>1, <2>4, <2>5, <2>6, <2>7 DEF WrittenOffOnce
  <2>9. BooksReconcile'
    BY <1>7, <2>1, <2>4 DEF BooksReconcile, Base
  <2>. QED BY <2>8, <2>9
<1>11. \A q \in AssetRequests \ {r} : \A b \in DOMAIN assetTx[q].written :
         asset'[b].status = "ABSENT" => asset[b].status = "ABSENT"
  <2>1. \A q \in AssetRequests : DOMAIN assetTx[q].written \subseteq Assets
    BY DEF AssetsInvariant, AssetTypes, AssetWork, AssetCells
  <2>. QED BY <1>7, <2>1
<1>. QED BY <1>1, <1>7, <1>8, <1>9, <1>10, <1>11, PublicAssetStep

-----------------------------------------------------------------------------
(* The invariant *)

\* The register starts sound ...
LEMMA AssetInitStrong == AssetInit => AssetsInvariant
<1>. SUFFICES ASSUME AssetInit PROVE AssetsInvariant
  OBVIOUS
<1>. USE DEF AssetInit
<1>1. /\ \A a \in Assets : Created(a) \in AssetRow /\ Absent \in AssetRow
      /\ \A a \in Assets : RowSound(a, Created(a)) /\ RowSound(a, Absent)
      /\ \A a \in Assets : asset[a] = Created(a) \/ asset[a] = Absent
  BY AssetsAssumption DEF Created, Absent, AssetRow, Status, RowSound
<1>2. asset \in [Assets -> AssetRow] /\ WithinCost
  BY <1>1 DEF WithinCost
<1>3. AssetTypes
  BY <1>2, NoAssetWorkTyped, FS_EmptySet DEF AssetTypes
<1>4. \A r \in AssetRequests : Stages(r) /\ ReadsCurrent(r)
  BY RestingAsset DEF AssetWorking
<1>5. PosterWorks /\ DepreciatedOncePerMonth /\ OneAtATime /\ WrittenOffOnce
  BY DEF PosterWorks, DepreciatedOncePerMonth, OneAtATime, AssetInProgress, AssetWorking,
         WrittenOffOnce
<1>6. BooksReconcile
  <2>. SUFFICES ASSUME NEW a \in Assets
                PROVE  /\ asset[a].accumulated <= Max({0, Base(a, asset[a])})
                       /\ asset[a].accumulated = Total(EntriesOf(a))
    BY DEF BooksReconcile
  <2>1. asset[a].accumulated = 0
    BY <1>1 DEF Created, Absent
  <2>2. EntriesOf(a) = {} /\ Total({}) = 0
    BY NoRows, TotalIsAmounts DEF EntriesOf
  <2>. QED BY <1>2, <2>1, <2>2, ZeroWithinBase
<1>. QED BY <1>2, <1>3, <1>4, <1>5, <1>6 DEF AssetsInvariant, AssetsSerial

\* ... and every step keeps it so.
LEMMA AssetNextStrong == AssetsInvariant /\ [AssetNext]_assetVars => AssetsInvariant'
<1>. SUFFICES ASSUME AssetsInvariant, [AssetNext]_assetVars PROVE AssetsInvariant'
  OBVIOUS
<1>1. ASSUME NEW r \in AssetRequests, AssetBegin(r) PROVE AssetsInvariant'
  BY <1>1, AssetBeginStep
<1>2. ASSUME NEW r \in AssetRequests, AssetStatement(r) PROVE AssetsInvariant'
  <2>1. CASE ReadProcessed(r)
    BY <2>1, ReadProcessedStep
  <2>2. ASSUME NEW a \in Assets, PostDepreciation(r, a) PROVE AssetsInvariant'
    BY <2>2, PostDepreciationStep
  <2>3. ASSUME NEW a \in Assets, PostDisposal(r, a) PROVE AssetsInvariant'
    BY <2>3, PostDisposalStep
  <2>4. ASSUME NEW a \in Assets, WriteAssetUpdate(r, a) PROVE AssetsInvariant'
    BY <2>4, WriteUpdateStep
  <2>5. ASSUME NEW a \in Assets, WriteDelete(r, a) PROVE AssetsInvariant'
    BY <2>5, WriteDeleteStep
  <2>6. CASE AssetCommit(r)
    <3>1. assetTx[r].op \in {"depreciate", "dispose"}
      BY <2>6 DEF AssetsInvariant, AssetTypes, Stages, Changes, AssetCommit, AssetWork,
                  AssetOperations, AssetWorking
    <3>. QED BY <2>6, <3>1, CommitDepreciation, CommitDisposal
  <2>. QED BY <1>2, <2>1, <2>2, <2>3, <2>4, <2>5, <2>6 DEF AssetStatement
<1>3. ASSUME NEW r \in AssetRequests, AssetAbort(r) PROVE AssetsInvariant'
  BY <1>3, AssetRollbackStep DEF AssetAbort, AssetInProgress
<1>4. ASSUME NEW a \in Assets, CreateAsset(a) PROVE AssetsInvariant'
  BY <1>4, CreateAssetStep
<1>5. CASE UNCHANGED assetVars
  <2>. USE <1>5 DEF assetVars, assetCommitted
  <2>1. AssetTypes' /\ WithinCost' /\ PosterWorks' /\ DepreciatedOncePerMonth'
    BY DEF AssetsInvariant, AssetTypes, WithinCost, RowSound, PosterWorks, DepreciatedOncePerMonth
  <2>2. \A r \in AssetRequests : Stages(r)'
    BY StagesKept DEF AssetsInvariant
  <2>3. BooksReconcile => BooksReconcile'
    BY BooksKept
  <2>4. WrittenOffOnce => WrittenOffOnce'
    BY BooksKept
  <2>5. \A r \in AssetRequests : ReadsCurrent(r) => ReadsCurrent(r)'
    BY DEF ReadsCurrent, Touched, HasEntries
  <2>6. OneAtATime => OneAtATime'
    BY DEF OneAtATime, AssetInProgress
  <2>. QED BY <2>1, <2>2, <2>3, <2>4, <2>5, <2>6 DEF AssetsInvariant, AssetsSerial
<1>. QED BY <1>1, <1>2, <1>3, <1>4, <1>5 DEF AssetNext

\* The invariant of the register, for any number of assets, months and requests.
THEOREM AssetsStrong == AssetSpec => []AssetsInvariant
BY AssetInitStrong, AssetNextStrong, PTL DEF AssetSpec

\* One depreciation by asset and month, however many runs are started.
THEOREM DepreciatedOnce == AssetSpec => []DepreciatedOncePerMonth
<1>1. AssetsInvariant => DepreciatedOncePerMonth
  BY DEF AssetsInvariant
<1>. QED BY <1>1, AssetsStrong, PTL

\* Until two requests overlap, the accumulated depreciation of an asset is the sum of its
\* entries and stays within its base; in every state it stays within the cost.
THEOREM AccumulatedReconciles == AssetSpec => []AccumulatedIsSumOfEntries
<1>1. AssetsInvariant => AccumulatedIsSumOfEntries
  <2>1. AssetsInvariant => AssetTypeOK
    BY DEF AssetsInvariant, AssetTypes, AssetTypeOK, PosterWorks, AssetWorking
  <2>. QED BY <2>1 DEF AssetsInvariant, AccumulatedIsSumOfEntries, WithinCost, RowSound,
                       AssetsSerial, BooksReconcile
<1>. QED BY <1>1, AssetsStrong, PTL

\* Until two requests overlap, a disposal writes off what the entries of its asset posted.
THEOREM WriteOffClears == AssetSpec => []WriteOffClearsDepreciation
<1>1. AssetsInvariant => WriteOffClearsDepreciation
  BY DEF AssetsInvariant, WriteOffClearsDepreciation, AssetsSerial, WrittenOffOnce
<1>. QED BY <1>1, AssetsStrong, PTL
=============================================================================

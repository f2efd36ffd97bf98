---------------------------- MODULE LedgerProofs ----------------------------
(***************************************************************************)
(* Proofs about Ledger for every set of organizations, accounts, requests  *)
(* and drafts and every batch size.                                        *)
(***************************************************************************)
EXTENDS Ledger, TLAPS

-----------------------------------------------------------------------------
(* Lemmas on amounts and lines *)

\* A rounded amount is a natural number, a whole number of cents.
LEMMA RoundedType ==
  ASSUME NEW a \in Nat
  PROVE  ColumnRounded(a) \in Nat /\ ColumnRounded(ColumnRounded(a)) = ColumnRounded(a)
  BY DEF ColumnRounded

\* Swapping the directions of a list of lines gives a list of lines.
LEMMA SwappedType ==
  ASSUME NEW lines \in Seq(LedgerLine)
  PROVE  Swapped(lines) \in Seq(LedgerLine) /\ Len(Swapped(lines)) = Len(lines)
  <1>1. DOMAIN lines = 1 .. Len(lines) /\ Len(lines) \in Nat
    OBVIOUS
  <1>2. ASSUME NEW i \in DOMAIN lines
        PROVE  [lines[i] EXCEPT !.direction = Opposite(@)] \in LedgerLine
    <2>1. lines[i] \in LedgerLine
      BY <1>1
    <2>2. QED
      BY <2>1 DEF LedgerLine, Opposite, Directions
  <1>3. Swapped(lines) \in [1 .. Len(lines) -> LedgerLine]
    BY <1>1, <1>2 DEF Swapped
  <1>4. QED
    BY <1>1, <1>3

\* The transaction of a request that has ended is well typed.
LEMMA NoWorkType == NoWork \in Tx
  <1>1. (CHOOSE o \in Orgs : TRUE) \in Orgs
    BY SomeOrgAssumption
  <1>2. <<>> \in Seq(LedgerLine)
    OBVIOUS
  <1>3. QED
    BY <1>1, <1>2 DEF NoWork, Fresh, Tx

-----------------------------------------------------------------------------
(***************************************************************************)
(* What a step does to the books.  The lemma Steps reduces Next to these   *)
(* cases once; every invariant is then proved case by case.                *)
(***************************************************************************)

\* A posting or a reversal starts, or is refused before it writes.
Starts(r, o, d, of, p) ==
  /\ pc[r] = "idle"
  /\ pc' = [pc EXCEPT ![r] = p]
  /\ tx' = [tx EXCEPT ![r] = Fresh(o, d, of)]
  /\ UNCHANGED <<accountVars, books, owner>>
  /\ of # 0 /\ p = "number" =>
       \E original \in OfOrg(o) : /\ original.number = of
                                  /\ original.of = 0
                                  /\ d = Swapped(original.lines)

HeaderStored(r) ==
  /\ pc[r] = "header"
  /\ pc' = [pc EXCEPT ![r] = "lines"]
  /\ UNCHANGED <<accountVars, books, owner, tx>>

LineStored(r, l) ==
  /\ pc[r] = "lines"
  /\ Len(tx[r].lines) < Len(tx[r].draft)
  /\ l = [tx[r].draft[Len(tx[r].lines) + 1] EXCEPT !.amount = ColumnRounded(@)]
  /\ tx' = [tx EXCEPT ![r] = [tx[r] EXCEPT !.lines = Append(@, l)]]
  /\ UNCHANGED <<accountVars, books, owner, pc>>

\* The transaction keeps the finished entry and goes on with lines d.
Continued(t, e, d) ==
  [t EXCEPT !.written = @ \cup {e}, !.draft = d, !.lines = <<>>, !.of = 0]

AnotherStarted(r, d) ==
  /\ AllLinesStored(r)
  /\ tx[r].of = 0
  /\ tx' = [tx EXCEPT ![r] = Continued(tx[r], Current(r), d)]
  /\ pc' = [pc EXCEPT ![r] = "number"]
  /\ UNCHANGED <<accountVars, books, owner>>

Published(r) ==
  /\ AllLinesStored(r)
  /\ \A e \in tx[r].written \cup {Current(r)} : BalancedInDatabase(e.lines)
  /\ ledger' = ledger \cup tx[r].written \cup {Current(r)}
  /\ counter' = [counter EXCEPT ![tx[r].org] = tx[r].value]
  /\ owner' = [owner EXCEPT ![tx[r].org] = NoRequest]
  /\ pc' = [pc EXCEPT ![r] = "done"]
  /\ tx' = [tx EXCEPT ![r] = NoWork]
  /\ UNCHANGED accountVars

ChartChanged ==
  /\ \E a \in LedgerAccounts :
       CreateAccount(a) \/ \E isActive \in BOOLEAN : UpdateAccount(a, isActive)
  /\ UNCHANGED <<books, owner, pc, tx>>

\* A typed transaction and a typed set of fields.
LEMMA TxFields ==
  ASSUME NEW t \in Tx
  PROVE  /\ \A v \in Nat : [t EXCEPT !.value = v] \in Tx
         /\ \A l \in Seq(LedgerLine) : [t EXCEPT !.lines = l] \in Tx
         /\ \A e \in Entry, d \in Seq(LedgerLine) : Continued(t, e, d) \in Tx
  <1>1. <<>> \in Seq(LedgerLine)
    OBVIOUS
  <1>2. QED
    BY <1>1 DEF Tx, Continued

\* A new transaction is typed.
LEMMA FreshType ==
  ASSUME NEW o \in Orgs, NEW d \in Seq(LedgerLine), NEW of \in Nat
  PROVE  Fresh(o, d, of) \in Tx
  <1>1. <<>> \in Seq(LedgerLine)
    OBVIOUS
  <1>2. QED
    BY <1>1 DEF Tx, Fresh

\* What a request is writing is an entry.
LEMMA CurrentType ==
  ASSUME NEW r \in Requests, tx[r] \in Tx
  PROVE  Current(r) \in Entry
  BY DEF Current, Entry, Tx

\* Every step is one of the cases above.
LEMMA Steps ==
  ASSUME TypeOK, StoredPrefix, Next
  PROVE  \/ \E r \in Requests :
              \/ \E o \in Orgs, d \in Seq(LedgerLine), of \in Nat,
                    p \in {"number", "failed"} : Starts(r, o, d, of, p)
              \/ TakeNumber(r)
              \/ HeaderStored(r)
              \/ \E l \in LedgerLine : LineStored(r, l)
              \/ \E d \in Seq(LedgerLine) : AnotherStarted(r, d)
              \/ Published(r)
              \/ Rollback(r)
         \/ ChartChanged
  <1>1. ASSUME NEW r \in Requests, NEW o \in Orgs, NEW d \in LineLists,
               BeginPosting(r, o, d)
        PROVE  \E p \in {"number", "failed"} : Starts(r, o, d, 0, p)
    BY <1>1 DEF BeginPosting, Starts
  <1>2. ASSUME NEW r \in Requests, NEW e \in ledger, BeginReversal(r, e)
        PROVE  \E o \in Orgs, d \in Seq(LedgerLine), of \in Nat,
                  p \in {"number", "failed"} : Starts(r, o, d, of, p)
    <2>1. e \in Entry /\ e.org \in Orgs /\ e.number \in Nat
      BY DEF TypeOK, Entry
    <2>2. Swapped(e.lines) \in Seq(LedgerLine)
      BY <2>1, SwappedType DEF Entry
    <2>3. \E p \in {"number", "failed"} :
            Starts(r, e.org, Swapped(e.lines), e.number, p)
      BY <1>2, <2>1 DEF BeginReversal, Starts, OfOrg, TypeOK
    <2>4. QED
      BY <2>1, <2>2, <2>3
  <1>3. ASSUME NEW r \in Requests, Statement(r)
        PROVE  \/ TakeNumber(r)
               \/ HeaderStored(r)
               \/ \E l \in LedgerLine : LineStored(r, l)
               \/ Published(r)
               \/ Rollback(r)
    <2>0. /\ tx[r] \in Tx /\ tx[r].draft \in Seq(LedgerLine)
          /\ tx[r].lines \in Seq(LedgerLine)
      BY DEF TypeOK, Tx
    <2>1. CASE InsertHeader(r)
      BY <2>1 DEF InsertHeader, HeaderStored
    <2>2. CASE InsertLine(r) /\ ~Rollback(r)
      <3> DEFINE line == tx[r].draft[Len(tx[r].lines) + 1]
                 l    == [line EXCEPT !.amount = ColumnRounded(@)]
      <3>1. Len(tx[r].lines) < Len(tx[r].draft)
        BY <2>0, <2>2 DEF InsertLine, AllLinesStored, StoredPrefix
      <3>2. line \in LedgerLine
        BY <2>0, <3>1
      <3>3. l \in LedgerLine
        BY <3>2, RoundedType DEF LedgerLine
      <3>4. LineStored(r, l)
        BY <2>2, <3>1 DEF InsertLine, LineStored
      <3>5. QED
        BY <3>3, <3>4
    <2>3. CASE Commit(r)
      BY <2>3 DEF Commit, Published
    <2>4. QED
      BY <1>3, <2>1, <2>2, <2>3 DEF Statement
  <1>4. ASSUME NEW r \in Requests, NEW d \in LineLists, PostAnother(r, d)
        PROVE  AnotherStarted(r, d) \/ Rollback(r)
    BY <1>4 DEF PostAnother, AnotherStarted, Continued, TypeOK, Tx
  <1>5. ASSUME NEW a \in LedgerAccounts,
               \/ CreateAccount(a)
               \/ \E isActive \in BOOLEAN : UpdateAccount(a, isActive)
        PROVE  ChartChanged
    BY <1>5 DEF ChartChanged, CreateAccount, UpdateAccount
  <1>6. QED
    BY <1>1, <1>2, <1>3, <1>4, <1>5, LineListsAssumption
       DEF Next, Begin, Abort

-----------------------------------------------------------------------------
(* Type correctness *)

\* A request that has not begun or has ended has stored no line.
LEMMA FreshPrefix ==
  ASSUME NEW o \in Orgs, NEW d \in Seq(LedgerLine), NEW of \in Nat
  PROVE  Fresh(o, d, of).lines = <<>> /\ Len(Fresh(o, d, of).draft) \in Nat
  BY DEF Fresh

\* What the empty transaction of an idle request consists of.
LEMMA NoWorkFields ==
  /\ NoWork.lines = <<>> /\ NoWork.draft = <<>>
  /\ NoWork.written = {} /\ NoWork.of = 0 /\ NoWork.org \in Orgs
  BY SomeOrgAssumption DEF NoWork, Fresh

\* The initial state is well typed, and no request has stored a line.
LEMMA InitType == Init => TypeOK /\ StoredPrefix
  <1> SUFFICES ASSUME Init PROVE TypeOK /\ StoredPrefix
    OBVIOUS
  <1>1. TypeOK
    BY NoWorkType, RowsAssumption DEF Init, TypeOK
  <1>2. StoredPrefix
    BY NoWorkFields DEF Init, StoredPrefix
  <1>3. QED
    BY <1>1, <1>2

\* Every statement of every request keeps the types, and what a request has
\* stored stays a rounded prefix of the lines it was asked to post.
LEMMA NextType ==
  ASSUME TypeOK, StoredPrefix, [Next]_vars
  PROVE  TypeOK' /\ StoredPrefix'
  <1>1. ASSUME NEW r \in Requests, NEW o \in Orgs, NEW d \in Seq(LedgerLine),
               NEW of \in Nat, NEW p \in {"number", "failed"},
               Starts(r, o, d, of, p)
        PROVE  TypeOK' /\ StoredPrefix'
    <2>1. TypeOK'
      BY <1>1, FreshType DEF Starts, TypeOK, accountVars, books, Working
    <2>2. StoredPrefix'
      BY <1>1, FreshPrefix DEF Starts, StoredPrefix, TypeOK
    <2>3. QED
      BY <2>1, <2>2
  <1>2. ASSUME NEW r \in Requests, TakeNumber(r)
        PROVE  TypeOK' /\ StoredPrefix'
    <2> DEFINE v == IF owner[tx[r].org] = r THEN tx[r].value + 1
                                            ELSE counter[tx[r].org] + 1
    <2>1. tx[r] \in Tx /\ tx[r].org \in Orgs /\ v \in Nat
      BY DEF TypeOK, Tx
    <2>2. tx' = [tx EXCEPT ![r] = [tx[r] EXCEPT !.value = v]]
      BY <1>2, <2>1 DEF TakeNumber, TypeOK
    <2>3. tx' \in [Requests -> Tx]
      BY <2>1, <2>2, TxFields DEF TypeOK
    <2>4. TypeOK'
      BY <1>2, <2>1, <2>3 DEF TypeOK, TakeNumber, accountVars, books, Working
    <2>5. StoredPrefix'
      BY <2>1, <2>2 DEF StoredPrefix, TypeOK, Tx
    <2>6. QED
      BY <2>4, <2>5
  <1>3. ASSUME NEW r \in Requests, HeaderStored(r)
        PROVE  TypeOK' /\ StoredPrefix'
    BY <1>3 DEF TypeOK, StoredPrefix, HeaderStored, accountVars, books, Working
  <1>4. ASSUME NEW r \in Requests, NEW l \in LedgerLine, LineStored(r, l)
        PROVE  TypeOK' /\ StoredPrefix'
    <2>1. /\ tx[r] \in Tx /\ tx[r].lines \in Seq(LedgerLine)
          /\ tx[r].draft \in Seq(LedgerLine)
      BY DEF TypeOK, Tx
    <2>2. Append(tx[r].lines, l) \in Seq(LedgerLine)
      BY <2>1
    <2>3. TypeOK'
      BY <1>4, <2>1, <2>2, TxFields DEF LineStored, TypeOK, accountVars, books
    <2>4. /\ tx'[r].lines = Append(tx[r].lines, l)
          /\ tx'[r].draft = tx[r].draft
          /\ \A q \in Requests \ {r} : tx'[q] = tx[q]
      BY <1>4, <2>1 DEF LineStored, TypeOK, Tx
    <2>5. /\ Len(tx'[r].lines) <= Len(tx'[r].draft)
          /\ \A i \in 1 .. Len(tx'[r].lines) :
               tx'[r].lines[i] = [tx'[r].draft[i] EXCEPT !.amount = ColumnRounded(@)]
      BY <1>4, <2>1, <2>4 DEF LineStored, StoredPrefix
    <2>6. ASSUME NEW q \in Requests
          PROVE  /\ Len(tx'[q].lines) <= Len(tx'[q].draft)
                 /\ \A i \in 1 .. Len(tx'[q].lines) :
                      tx'[q].lines[i] =
                        [tx'[q].draft[i] EXCEPT !.amount = ColumnRounded(@)]
      <3>1. CASE q = r
        BY <2>5, <3>1
      <3>2. CASE q # r
        BY <2>4, <3>2 DEF StoredPrefix
      <3>3. QED
        BY <3>1, <3>2
    <2>7. StoredPrefix'
      BY <2>6 DEF StoredPrefix
    <2>8. QED
      BY <2>3, <2>7
  <1>5. ASSUME NEW r \in Requests, NEW d \in Seq(LedgerLine), AnotherStarted(r, d)
        PROVE  TypeOK' /\ StoredPrefix'
    <2>1. tx[r] \in Tx
      BY DEF TypeOK
    <2>2. Continued(tx[r], Current(r), d) \in Tx
      BY <2>1, CurrentType, TxFields
    <2>3. TypeOK'
      BY <1>5, <2>2 DEF AnotherStarted, TypeOK, accountVars, books, Working
    <2>4. tx'[r].lines = <<>> /\ tx'[r].draft = d
      BY <1>5, <2>1 DEF AnotherStarted, Continued, TypeOK, Tx
    <2>5. \A q \in Requests \ {r} : tx'[q] = tx[q]
      BY <1>5 DEF AnotherStarted, TypeOK
    <2>6. StoredPrefix'
      BY <2>4, <2>5 DEF StoredPrefix
    <2>7. QED
      BY <2>3, <2>6
  <1>6. ASSUME NEW r \in Requests, Published(r)
        PROVE  TypeOK' /\ StoredPrefix'
    <2>1. /\ tx[r] \in Tx /\ tx[r].org \in Orgs /\ tx[r].value \in Nat
          /\ tx[r].written \subseteq Entry
      BY DEF TypeOK, Tx
    <2>2. TypeOK'
      BY <1>6, <2>1, CurrentType, NoWorkType DEF Published, TypeOK, accountVars
    <2>3. StoredPrefix'
      BY <1>6, NoWorkFields DEF Published, StoredPrefix, TypeOK
    <2>4. QED
      BY <2>2, <2>3
  <1>7. ASSUME NEW r \in Requests, Rollback(r)
        PROVE  TypeOK' /\ StoredPrefix'
    <2>1. TypeOK'
      BY <1>7, NoWorkType DEF Rollback, TypeOK, accountVars, books
    <2>2. StoredPrefix'
      BY <1>7, NoWorkFields DEF Rollback, StoredPrefix, TypeOK
    <2>3. QED
      BY <2>1, <2>2
  <1>8. CASE ChartChanged
    BY <1>8 DEF ChartChanged, CreateAccount, UpdateAccount, TypeOK,
                StoredPrefix, books
  <1>9. CASE UNCHANGED vars
    BY <1>9 DEF vars, TypeOK, StoredPrefix
  <1>10. QED
    BY <1>1, <1>2, <1>3, <1>4, <1>5, <1>6, <1>7, <1>8, <1>9, Steps

\* Every variable keeps its type in every state the system can reach.
THEOREM TypeCorrect == Spec => []TypeOK
  <1>1. Spec => [](TypeOK /\ StoredPrefix)
    BY InitType, NextType, PTL DEF Spec
  <1>2. QED
    BY <1>1, PTL

(* The chart of accounts *)

\* The parent of an account has a row before the account does, so that a new
\* account has no child.
ParentsHaveRows == \A a \in rows : ParentOf[a] \in rows \cup {NoAccount}

Leaves == {a \in rows : \A b \in rows : ParentOf[b] # a}

LeavesInv == ParentsHaveRows /\ analytic = Leaves

\* Creating an account is the only step that changes the rows, and it makes a
\* leaf of the account and none of its parent.
LEMMA NextLeaves ==
  ASSUME TypeOK, StoredPrefix, LeavesInv, [Next]_vars
  PROVE  LeavesInv'
  <1>1. ASSUME NEW a \in LedgerAccounts, CreateAccount(a)
        PROVE  LeavesInv'
    <2>1. a \notin rows /\ rows' = rows \cup {a}
          /\ analytic' = (analytic \cup {a}) \ {ParentOf[a]}
          /\ ParentOf[a] \in rows \cup {NoAccount}
      BY <1>1 DEF CreateAccount
    <2>2. ParentsHaveRows'
      BY <2>1 DEF LeavesInv, ParentsHaveRows
    <2>3. ParentOf[a] # a /\ \A b \in rows : ParentOf[b] # a
      BY <2>1, NoneAssumption DEF LeavesInv, ParentsHaveRows
    <2>4. ASSUME NEW x
          PROVE  x \in analytic' <=> x \in Leaves'
      <3>1. CASE x = a
        BY <2>1, <2>3, <3>1 DEF LeavesInv, Leaves
      <3>2. CASE x # a
        BY <2>1, <3>2 DEF LeavesInv, Leaves
      <3>3. QED
        BY <3>1, <3>2
    <2>5. QED
      BY <2>2, <2>4 DEF LeavesInv
  <1>2. CASE UNCHANGED <<rows, analytic>>
    BY <1>2 DEF LeavesInv, ParentsHaveRows, Leaves
  <1>3. QED
    BY <1>1, <1>2, Steps
       DEF Starts, TakeNumber, HeaderStored, LineStored, AnotherStarted,
           Published, Rollback, ChartChanged, UpdateAccount, accountVars, books, vars

\* Only leaves are analytic, whatever accounts are created and postings made
\* meanwhile.
THEOREM LeavesAnalytic == Spec => []AnalyticIsLeaf
  <1>1. Init => LeavesInv
    BY RowsAssumption DEF Init, LeavesInv, ParentsHaveRows, Leaves
  <1>2. Spec => [](TypeOK /\ StoredPrefix /\ LeavesInv)
    BY <1>1, InitType, NextType, NextLeaves, PTL DEF Spec
  <1>3. QED
    BY <1>2, PTL DEF AnalyticIsLeaf, LeavesInv, Leaves

-----------------------------------------------------------------------------
(* The counter row: who holds it, and for which organization *)

LockInv == NumberedHoldsRow /\ ContentionStaysInOrg

\* Initially nobody holds or waits for a counter row.
LEMMA InitLock == Init => LockInv
  BY DEF Init, LockInv, NumberedHoldsRow, ContentionStaysInOrg, Locking

\* Every statement keeps it: the upsert of the counter takes the row, and only
\* the end of a transaction gives it back.
LEMMA NextLock ==
  ASSUME TypeOK, StoredPrefix, LockInv, [Next]_vars
  PROVE  LockInv'
  <1> USE NoneAssumption DEF LockInv, NumberedHoldsRow, ContentionStaysInOrg,
                             Locking, Working
  <1>0. \A q \in Requests : tx[q] \in Tx /\ tx[q].org \in Orgs
    BY DEF TypeOK, Tx
  <1>1. ASSUME NEW r \in Requests, NEW o \in Orgs, NEW d \in Seq(LedgerLine),
               NEW of \in Nat, NEW p \in {"number", "failed"},
               Starts(r, o, d, of, p)
        PROVE  LockInv'
    <2>1. \A q \in Requests \ {r} : tx'[q] = tx[q] /\ pc'[q] = pc[q]
      BY <1>1 DEF Starts, TypeOK
    <2>2. pc'[r] \notin Locking /\ \A p2 \in Orgs : owner[p2] # r
      BY <1>1 DEF Starts, TypeOK
    <2>3. QED
      BY <1>1, <2>1, <2>2 DEF Starts, TypeOK
  <1>2. ASSUME NEW r \in Requests, TakeNumber(r)
        PROVE  LockInv'
    <2>1. \A q \in Requests : tx'[q].org = tx[q].org
      BY <1>0, <1>2 DEF TakeNumber, TypeOK, Tx
    <2>2. QED
      BY <1>0, <1>2, <2>1 DEF TakeNumber, TypeOK
  <1>3. ASSUME NEW r \in Requests, HeaderStored(r)
        PROVE  LockInv'
    BY <1>3 DEF HeaderStored, TypeOK
  <1>4. ASSUME NEW r \in Requests, NEW l \in LedgerLine, LineStored(r, l)
        PROVE  LockInv'
    <2>1. \A q \in Requests : tx'[q].org = tx[q].org
      BY <1>0, <1>4 DEF LineStored, TypeOK, Tx
    <2>2. QED
      BY <1>4, <2>1 DEF LineStored, TypeOK
  <1>5. ASSUME NEW r \in Requests, NEW d \in Seq(LedgerLine), AnotherStarted(r, d)
        PROVE  LockInv'
    <2>1. \A q \in Requests : tx'[q].org = tx[q].org
      BY <1>0, <1>5 DEF AnotherStarted, Continued, TypeOK, Tx
    <2>2. QED
      BY <1>5, <2>1 DEF AnotherStarted, AllLinesStored, TypeOK
  <1>6. ASSUME NEW r \in Requests, Published(r)
        PROVE  LockInv'
    <2>1. \A q \in Requests \ {r} : tx'[q] = tx[q] /\ pc'[q] = pc[q]
      BY <1>6 DEF Published, TypeOK
    <2>2. pc'[r] = "done" /\ owner[tx[r].org] = r
      BY <1>6 DEF Published, AllLinesStored, TypeOK
    <2>3. \A o \in Orgs : owner'[o] # r
      BY <1>0, <1>6, <2>2 DEF Published, TypeOK
    <2>4. QED
      BY <1>0, <1>6, <2>1, <2>2, <2>3 DEF Published, TypeOK
  <1>7. ASSUME NEW r \in Requests, Rollback(r)
        PROVE  LockInv'
    <2>1. \A q \in Requests \ {r} : tx'[q] = tx[q] /\ pc'[q] = pc[q]
      BY <1>7 DEF Rollback, TypeOK
    <2>2. pc'[r] = "failed" /\ \A o \in Orgs : owner'[o] # r
      BY <1>7 DEF Rollback, TypeOK
    <2>3. QED
      BY <1>0, <1>7, <2>1, <2>2 DEF Rollback, TypeOK
  <1>8. CASE ChartChanged
    BY <1>8 DEF ChartChanged, books
  <1>9. CASE UNCHANGED vars
    BY <1>9 DEF vars
  <1>10. QED
    BY <1>1, <1>2, <1>3, <1>4, <1>5, <1>6, <1>7, <1>8, <1>9, Steps

\* A counter row is only ever locked by a request of its own organization.
THEOREM ContentionLocal == Spec => []ContentionStaysInOrg
  <1>1. Spec => [](TypeOK /\ StoredPrefix /\ LockInv)
    BY InitType, NextType, InitLock, NextLock, PTL DEF Spec
  <1>2. QED
    BY <1>1, PTL DEF LockInv

-----------------------------------------------------------------------------
(* Numbering *)

NumbersInv == WrittenFollowCounter /\ GapFreeNumbering

\* Initially there are no entries and every counter is zero.
LEMMA InitNumbers == Init => NumbersInv
  <1> SUFFICES ASSUME Init PROVE NumbersInv
    OBVIOUS
  <1>1. WrittenFollowCounter
    BY NoWorkFields, NoneAssumption DEF Init, WrittenFollowCounter
  <1>2. GapFreeNumbering
    BY DEF Init, GapFreeNumbering, OfOrg
  <1>3. QED
    BY <1>1, <1>2 DEF NumbersInv

\* What WrittenFollowCounter says of one request.
FollowsCounter(t, o, own, base, top) ==
  /\ \A e \in t.written : e.org = o /\ e.of = 0
  /\ \A e, f \in t.written : e.number = f.number => e = f
  /\ ~own => t.written = {}
  /\ own =>
       /\ top >= base
       /\ \A e \in t.written : e.number \in base + 1 .. top
       /\ \A n \in base + 1 .. top : \E e \in t.written : e.number = n

\* WrittenFollowCounter, for the transaction of one request.
LEMMA WrittenForm ==
  WrittenFollowCounter <=>
    \A q \in Requests :
      FollowsCounter(tx[q], tx[q].org, owner[tx[q].org] = q,
                     counter[tx[q].org], Top(q))
  BY DEF WrittenFollowCounter, FollowsCounter

\* WrittenFollowCounter after a step, from the same fact about each request.
LEMMA WrittenFormNext ==
  WrittenFollowCounter' <=>
    \A q \in Requests :
      FollowsCounter(tx'[q], tx'[q].org, owner'[tx'[q].org] = q,
                     counter'[tx'[q].org], Top(q)')
  BY DEF WrittenFollowCounter, FollowsCounter

\* A transaction without entries follows any counter it does not hold.
LEMMA EmptyFollows ==
  ASSUME NEW t, t.written = {}, NEW o, NEW base, NEW top
  PROVE  FollowsCounter(t, o, FALSE, base, top)
  BY DEF FollowsCounter

\* Every statement keeps the numbering: a number drawn is the next one of a
\* row its request holds, a commit publishes all of them, a rollback none.
LEMMA NextNumbers ==
  ASSUME TypeOK, StoredPrefix, LockInv, NumbersInv, [Next]_vars
  PROVE  NumbersInv'
  <1>0. /\ \A q \in Requests : /\ tx[q] \in Tx /\ tx[q].org \in Orgs
                               /\ tx[q].value \in Nat
                               /\ tx[q].written \subseteq Entry
        /\ \A o \in Orgs : counter[o] \in Nat
    BY DEF TypeOK, Tx
  <1>a. \A q \in Requests :
          FollowsCounter(tx[q], tx[q].org, owner[tx[q].org] = q,
                         counter[tx[q].org], Top(q))
    BY WrittenForm DEF NumbersInv
  <1>1. ASSUME NEW r \in Requests, NEW o \in Orgs, NEW d \in Seq(LedgerLine),
               NEW of \in Nat, NEW p \in {"number", "failed"},
               Starts(r, o, d, of, p)
        PROVE  NumbersInv'
    <2>1. \A q \in Requests \ {r} : tx'[q] = tx[q] /\ Top(q)' = Top(q)
      BY <1>1 DEF Starts, TypeOK, Top
    <2>2. \A x \in Orgs : owner[x] # r
      BY <1>1, NoneAssumption
         DEF Starts, LockInv, ContentionStaysInOrg, Working
    <2>3. tx'[r].written = {} /\ tx'[r].org = o
      BY <1>1 DEF Starts, TypeOK, Fresh
    <2>4. owner' = owner /\ counter' = counter /\ ledger' = ledger
      BY <1>1 DEF Starts, books
    <2>5. WrittenFollowCounter'
      BY <1>a, <2>1, <2>2, <2>4, <2>3, WrittenFormNext DEF FollowsCounter
    <2>6. QED
      BY <2>4, <2>5 DEF NumbersInv, GapFreeNumbering, OfOrg
  <1>2. ASSUME NEW r \in Requests, TakeNumber(r)
        PROVE  NumbersInv'
    <2>1. /\ \A q \in Requests \ {r} : tx'[q] = tx[q] /\ Top(q)' = Top(q)
          /\ \A o \in Orgs : o # tx[r].org => owner'[o] = owner[o]
          /\ owner'[tx[r].org] = r
      BY <1>0, <1>2 DEF TakeNumber, TypeOK, Top
    <2>2. counter' = counter /\ ledger' = ledger
      BY <1>2 DEF TakeNumber, books
    <2>3. /\ tx'[r].written = tx[r].written /\ tx'[r].org = tx[r].org
          /\ tx'[r].value = IF owner[tx[r].org] = r THEN tx[r].value + 1
                                            ELSE counter[tx[r].org] + 1
      BY <1>0, <1>2 DEF TakeNumber, TypeOK, Tx
    <2>4. Top(r)' = IF owner[tx[r].org] = r THEN Top(r)
                                            ELSE counter[tx[r].org]
      BY <1>0, <1>2, <2>3 DEF TakeNumber, TypeOK, Top, Locking
    <2>5. FollowsCounter(tx'[r], tx[r].org, TRUE, counter[tx[r].org], Top(r)')
      <3>1. CASE owner[tx[r].org] = r
        BY <1>a, <2>3, <2>4, <3>1 DEF FollowsCounter
      <3>2. CASE owner[tx[r].org] # r
        BY <1>0, <1>a, <2>3, <2>4, <3>2 DEF FollowsCounter
      <3>3. QED
        BY <3>1, <3>2
    <2>6. ASSUME NEW q \in Requests \ {r}
          PROVE  (owner'[tx[q].org] = q) <=> (owner[tx[q].org] = q)
      BY <1>0, <1>2, <2>1, NoneAssumption DEF TakeNumber
    <2>7. ASSUME NEW q \in Requests
          PROVE  FollowsCounter(tx'[q], tx'[q].org, owner'[tx'[q].org] = q,
                                counter'[tx'[q].org], Top(q)')
      <3>1. CASE q = r
        <4>1. (owner'[tx'[r].org] = r) = TRUE
          BY <2>1, <2>3
        <4>2. QED
          BY <2>2, <2>3, <2>5, <3>1, <4>1
      <3>2. CASE q # r
        <4>1. /\ tx'[q] = tx[q] /\ Top(q)' = Top(q)
              /\ (owner'[tx[q].org] = q) = (owner[tx[q].org] = q)
          BY <2>1, <2>6, <3>2
        <4>2. QED
          BY <1>a, <2>2, <4>1
      <3>3. QED
        BY <3>1, <3>2
    <2>8. QED
      BY <2>2, <2>7, WrittenFormNext DEF NumbersInv, GapFreeNumbering, OfOrg
  <1>3. ASSUME NEW r \in Requests, HeaderStored(r)
        PROVE  NumbersInv'
    <2>1. /\ tx' = tx /\ owner' = owner /\ counter' = counter
          /\ ledger' = ledger
      BY <1>3 DEF HeaderStored, books
    <2>2. \A q \in Requests : Top(q)' = Top(q)
      BY <1>3, <2>1 DEF HeaderStored, TypeOK, Top, Locking
    <2>3. QED
      BY <1>a, <2>1, <2>2, WrittenFormNext
         DEF NumbersInv, GapFreeNumbering, OfOrg
  <1>4. ASSUME NEW r \in Requests, NEW l \in LedgerLine, LineStored(r, l)
        PROVE  NumbersInv'
    <2>1. /\ pc' = pc /\ owner' = owner /\ counter' = counter
          /\ ledger' = ledger
      BY <1>4 DEF LineStored, books
    <2>2. \A q \in Requests : /\ tx'[q].written = tx[q].written
                              /\ tx'[q].org = tx[q].org
                              /\ tx'[q].value = tx[q].value
      BY <1>0, <1>4 DEF LineStored, TypeOK, Tx
    <2>3. \A q \in Requests : Top(q)' = Top(q)
      BY <2>1, <2>2 DEF Top
    <2>4. QED
      BY <1>a, <2>1, <2>2, <2>3, WrittenFormNext
         DEF NumbersInv, GapFreeNumbering, OfOrg, FollowsCounter
  <1>5. ASSUME NEW r \in Requests, NEW d \in Seq(LedgerLine), AnotherStarted(r, d)
        PROVE  NumbersInv'
    <2>1. owner' = owner /\ counter' = counter /\ ledger' = ledger
      BY <1>5 DEF AnotherStarted, books
    <2>2. \A q \in Requests \ {r} : tx'[q] = tx[q] /\ Top(q)' = Top(q)
      BY <1>5 DEF AnotherStarted, TypeOK, Top
    <2>3. /\ tx'[r].written = tx[r].written \cup {Current(r)}
          /\ tx'[r].org = tx[r].org /\ tx'[r].value = tx[r].value
      BY <1>0, <1>5 DEF AnotherStarted, Continued, TypeOK, Tx
    <2>4. /\ Top(r) = tx[r].value - 1 /\ Top(r)' = tx[r].value
          /\ owner[tx[r].org] = r
      BY <1>5, <2>3 DEF AnotherStarted, AllLinesStored, TypeOK, Top, Locking,
                        LockInv, NumberedHoldsRow
    <2>5. /\ Current(r).org = tx[r].org /\ Current(r).of = 0
          /\ Current(r).number = tx[r].value
      BY <1>5 DEF AnotherStarted, Current
    <2>6. FollowsCounter(tx'[r], tx[r].org, TRUE, counter[tx[r].org], Top(r)')
      BY <1>0, <1>a, <2>3, <2>4, <2>5 DEF FollowsCounter
    <2>7. ASSUME NEW q \in Requests
          PROVE  FollowsCounter(tx'[q], tx'[q].org, owner'[tx'[q].org] = q,
                                counter'[tx'[q].org], Top(q)')
      <3>1. CASE q = r
        <4>1. (owner'[tx'[r].org] = r) = TRUE
          BY <2>1, <2>3, <2>4
        <4>2. QED
          BY <2>1, <2>3, <2>6, <3>1, <4>1
      <3>2. CASE q # r
        BY <1>a, <2>1, <2>2, <3>2
      <3>3. QED
        BY <3>1, <3>2
    <2>8. QED
      BY <2>1, <2>7, WrittenFormNext DEF NumbersInv, GapFreeNumbering, OfOrg
  <1>6. ASSUME NEW r \in Requests, Published(r)
        PROVE  NumbersInv'
    <2> DEFINE o     == tx[r].org
               batch == tx[r].written \cup {Current(r)}
    <2>1. /\ Top(r) = tx[r].value - 1 /\ owner[o] = r /\ o \in Orgs
          /\ tx[r].value \in Nat /\ counter[o] \in Nat
      BY <1>0, <1>6 DEF Published, AllLinesStored, TypeOK, Top, Locking,
                        LockInv, NumberedHoldsRow
    <2>2. Current(r).org = o /\ Current(r).number = tx[r].value
      BY DEF Current
    <2>3. /\ \A e \in batch : e.org = o /\ e.number \in counter[o] + 1 .. tx[r].value
          /\ \A n \in counter[o] + 1 .. tx[r].value : \E e \in batch : e.number = n
          /\ \A e, f \in batch : e.number = f.number => e = f
          /\ tx[r].value > counter[o]
      BY <1>0, <1>a, <2>1, <2>2 DEF FollowsCounter
    <2>4. /\ \A x \in Orgs \ {o} : /\ counter'[x] = counter[x]
                                   /\ owner'[x] = owner[x]
          /\ counter'[o] = tx[r].value /\ owner'[o] = NoRequest
          /\ ledger' = ledger \cup batch
      BY <1>6, <2>1 DEF Published, TypeOK
    <2>5. GapFreeNumbering'
      <3> SUFFICES ASSUME NEW x \in Orgs
                   PROVE  /\ {e.number : e \in OfOrg(x)'} = 1 .. counter'[x]
                          /\ \A e, f \in OfOrg(x)' : e.number = f.number => e = f
        BY DEF GapFreeNumbering
      <3>1. CASE x # o
        <4>1. OfOrg(x)' = OfOrg(x)
          BY <2>3, <2>4, <3>1 DEF OfOrg
        <4>2. QED
          BY <2>4, <3>1, <4>1 DEF NumbersInv, GapFreeNumbering
      <3>2. CASE x = o
        <4>1. OfOrg(x)' = OfOrg(o) \cup batch
          BY <2>3, <2>4, <3>2 DEF OfOrg
        <4>2. /\ \A e \in OfOrg(o) : e.number \in 1 .. counter[o]
              /\ \A n \in 1 .. counter[o] : \E e \in OfOrg(o) : e.number = n
              /\ \A e, f \in OfOrg(o) : e.number = f.number => e = f
          <5>1. {e.number : e \in OfOrg(o)} = 1 .. counter[o]
            BY <2>1 DEF NumbersInv, GapFreeNumbering
          <5>2. QED
            BY <2>1, <5>1 DEF NumbersInv, GapFreeNumbering
        <4>3. /\ \A e \in OfOrg(x)' : e.number \in 1 .. counter'[x]
              /\ \A n \in 1 .. counter'[x] : \E e \in OfOrg(x)' : e.number = n
          BY <2>1, <2>3, <2>4, <3>2, <4>1, <4>2
        <4>4. \A e, f \in OfOrg(x)' : e.number = f.number => e = f
          BY <2>1, <2>3, <4>1, <4>2
        <4>5. QED
          BY <4>3, <4>4
      <3>3. QED
        BY <3>1, <3>2
    <2>6. /\ tx'[r] = NoWork
          /\ \A q \in Requests \ {r} : tx'[q] = tx[q] /\ Top(q)' = Top(q)
      BY <1>6 DEF Published, TypeOK, Top
    <2>7. \A x \in Orgs : owner'[x] # r
      BY <1>0, <1>6, <2>1, <2>4, NoneAssumption
         DEF LockInv, ContentionStaysInOrg
    <2>8. ASSUME NEW q \in Requests \ {r}
          PROVE  FollowsCounter(tx'[q], tx'[q].org, owner'[tx'[q].org] = q,
                                counter'[tx'[q].org], Top(q)')
      <3>1. CASE tx[q].org = o
        BY <1>a, <2>1, <2>4, <2>6, <3>1, NoneAssumption DEF FollowsCounter
      <3>2. CASE tx[q].org # o
        BY <1>0, <1>a, <2>4, <2>6, <3>2
      <3>3. QED
        BY <3>1, <3>2
    <2>9. FollowsCounter(tx'[r], tx'[r].org, owner'[tx'[r].org] = r,
                         counter'[tx'[r].org], Top(r)')
      BY <2>6, <2>7, NoWorkFields DEF FollowsCounter
    <2>10. QED
      BY <2>5, <2>8, <2>9, WrittenFormNext DEF NumbersInv
  <1>7. ASSUME NEW r \in Requests, Rollback(r)
        PROVE  NumbersInv'
    <2>1. counter' = counter /\ ledger' = ledger
      BY <1>7 DEF Rollback, books
    <2>2. /\ tx'[r] = NoWork
          /\ \A q \in Requests \ {r} : tx'[q] = tx[q] /\ Top(q)' = Top(q)
      BY <1>7 DEF Rollback, TypeOK, Top
    <2>3. \A x \in Orgs : /\ owner'[x] # r
                          /\ owner[x] # r => owner'[x] = owner[x]
                          /\ \A q \in Requests \ {r} :
                               owner'[x] = q <=> owner[x] = q
      BY <1>7, NoneAssumption DEF Rollback, TypeOK
    <2>4. ASSUME NEW q \in Requests \ {r}
          PROVE  FollowsCounter(tx'[q], tx'[q].org, owner'[tx'[q].org] = q,
                                counter'[tx'[q].org], Top(q)')
      BY <1>0, <1>a, <2>1, <2>2, <2>3
    <2>5. FollowsCounter(tx'[r], tx'[r].org, owner'[tx'[r].org] = r,
                         counter'[tx'[r].org], Top(r)')
      BY <2>2, <2>3, NoWorkFields DEF FollowsCounter
    <2>6. QED
      BY <2>1, <2>4, <2>5, WrittenFormNext
         DEF NumbersInv, GapFreeNumbering, OfOrg
  <1>8. CASE ChartChanged
    BY <1>8 DEF ChartChanged, books, NumbersInv, WrittenFollowCounter, Top,
                GapFreeNumbering, OfOrg
  <1>9. CASE UNCHANGED vars
    BY <1>9 DEF vars, NumbersInv, WrittenFollowCounter, Top,
                GapFreeNumbering, OfOrg
  <1>10. QED
    BY <1>1, <1>2, <1>3, <1>4, <1>5, <1>6, <1>7, <1>8, <1>9, Steps

\* Numbering without gaps: the committed entries of an organization carry
\* exactly the numbers 1..counter, each once, for any number of concurrent,
\* aborted and multi-entry transactions.
THEOREM GapFree == Spec => []GapFreeNumbering
  <1>1. Spec => [](TypeOK /\ StoredPrefix /\ LockInv /\ NumbersInv)
    BY InitType, NextType, InitLock, NextLock, InitNumbers, NextNumbers, PTL
       DEF Spec
  <1>2. QED
    BY <1>1, PTL DEF NumbersInv

-----------------------------------------------------------------------------
(* Balance *)

\* Only a commit adds entries, and the deferred trigger lets it add none that
\* do not balance.
LEMMA NextBalance ==
  ASSUME TypeOK, StoredPrefix, CommittedEntriesBalance, [Next]_vars
  PROVE  CommittedEntriesBalance'
  <1>1. ASSUME NEW r \in Requests, Published(r)
        PROVE  CommittedEntriesBalance'
    BY <1>1 DEF Published, CommittedEntriesBalance
  <1>2. CASE UNCHANGED ledger
    BY <1>2 DEF CommittedEntriesBalance
  <1>3. QED
    BY <1>1, <1>2, Steps
       DEF Starts, TakeNumber, HeaderStored, LineStored, AnotherStarted,
           Rollback, ChartChanged, books, vars

\* Every committed entry balances to the cent and has both directions,
\* whatever lines the callers pass and however the columns round them.
THEOREM EntriesBalance == Spec => []CommittedEntriesBalance
  <1>1. Init => CommittedEntriesBalance
    BY DEF Init, CommittedEntriesBalance
  <1>2. Spec => [](TypeOK /\ StoredPrefix /\ CommittedEntriesBalance)
    BY <1>1, InitType, NextType, NextBalance, PTL DEF Spec
  <1>3. QED
    BY <1>2, PTL

-----------------------------------------------------------------------------
(* Reversals *)

MirrorInv == StoredInCents /\ PendingMirrorsOriginal /\ ReversalMirrorsOriginal

\* Initially there is no entry to mirror and nothing is being written.
LEMMA InitMirror == Init => MirrorInv
  BY NoWorkFields DEF Init, MirrorInv, StoredInCents, PendingMirrorsOriginal,
                      ReversalMirrorsOriginal, Working

\* The lines of the entry being written are whole cents.
LEMMA CurrentInCents ==
  ASSUME TypeOK, StoredPrefix, NEW r \in Requests
  PROVE  WholeCents(tx[r].lines)
  <1>1. tx[r].lines \in Seq(LedgerLine) /\ tx[r].draft \in Seq(LedgerLine)
    BY DEF TypeOK, Tx
  <1>2. SUFFICES ASSUME NEW i \in 1 .. Len(tx[r].lines)
                 PROVE  ColumnRounded(tx[r].lines[i].amount) = tx[r].lines[i].amount
    BY DEF WholeCents
  <1>3. tx[r].draft[i] \in LedgerLine
    BY <1>1, <1>2 DEF StoredPrefix
  <1>4. tx[r].lines[i].amount = ColumnRounded(tx[r].draft[i].amount)
    BY <1>2, <1>3 DEF StoredPrefix, LedgerLine
  <1>5. QED
    BY <1>3, <1>4, RoundedType DEF LedgerLine

\* Storing lines that are already whole cents changes none of them.
LEMMA FullPrefix ==
  ASSUME NEW lines \in Seq(LedgerLine), NEW draft \in Seq(LedgerLine),
         Len(lines) = Len(draft), WholeCents(draft),
         \A i \in 1 .. Len(lines) :
           lines[i] = [draft[i] EXCEPT !.amount = ColumnRounded(@)]
  PROVE  lines = draft
  <1>1. ASSUME NEW i \in 1 .. Len(draft)
        PROVE  lines[i] = draft[i]
    <2>1. draft[i] \in LedgerLine /\ ColumnRounded(draft[i].amount) = draft[i].amount
      BY DEF WholeCents
    <2>2. QED
      BY <2>1 DEF LedgerLine
  <1>2. QED
    BY <1>1

\* Swapping directions leaves the amounts alone.
LEMMA SwappedInCents ==
  ASSUME NEW lines \in Seq(LedgerLine), WholeCents(lines)
  PROVE  WholeCents(Swapped(lines))
  <1>1. SUFFICES ASSUME NEW i \in 1 .. Len(lines)
                 PROVE  ColumnRounded(Swapped(lines)[i].amount) =
                          Swapped(lines)[i].amount
    BY SwappedType DEF WholeCents
  <1>2. lines[i] \in LedgerLine /\ DOMAIN lines = 1 .. Len(lines)
    OBVIOUS
  <1>3. Swapped(lines)[i].amount = lines[i].amount
    BY <1>2 DEF Swapped, LedgerLine
  <1>4. QED
    BY <1>3 DEF WholeCents

\* Every statement keeps the mirror: a reversal takes the lines of a committed
\* entry with directions swapped, and storing them rounds nothing.
LEMMA NextMirror ==
  ASSUME TypeOK, StoredPrefix, LockInv, NumbersInv, MirrorInv, [Next]_vars
  PROVE  MirrorInv'
  <1>0. \A q \in Requests : /\ tx[q] \in Tx /\ tx[q].org \in Orgs
                            /\ tx[q].lines \in Seq(LedgerLine)
                            /\ tx[q].draft \in Seq(LedgerLine)
    BY DEF TypeOK, Tx
  <1>1. ASSUME NEW r \in Requests, NEW o \in Orgs, NEW d \in Seq(LedgerLine),
               NEW of \in Nat, NEW p \in {"number", "failed"},
               Starts(r, o, d, of, p)
        PROVE  MirrorInv'
    <2>1. \A q \in Requests \ {r} : tx'[q] = tx[q] /\ pc'[q] = pc[q]
      BY <1>1 DEF Starts, TypeOK
    <2>2. tx'[r] = Fresh(o, d, of) /\ pc'[r] = p /\ ledger' = ledger
      BY <1>1 DEF Starts, TypeOK, books
    <2>3. StoredInCents'
      BY <2>1, <2>2 DEF MirrorInv, StoredInCents, Fresh
    <2>4. PendingMirrorsOriginal'
      BY <1>1, <2>1, <2>2
         DEF Starts, MirrorInv, PendingMirrorsOriginal, OfOrg, Fresh, Working
    <2>5. QED
      BY <2>2, <2>3, <2>4 DEF MirrorInv, ReversalMirrorsOriginal, OfOrg
  <1>2. ASSUME ledger' = ledger,
               \A q \in Requests :
                 /\ tx'[q].written = tx[q].written /\ tx'[q].org = tx[q].org
                 /\ tx'[q].of = tx[q].of /\ tx'[q].draft = tx[q].draft
                 /\ pc'[q] \in Working => pc[q] \in Working
        PROVE  MirrorInv'
    BY <1>2 DEF MirrorInv, StoredInCents, PendingMirrorsOriginal,
                ReversalMirrorsOriginal, OfOrg
  <1>3. ASSUME NEW r \in Requests, TakeNumber(r)
        PROVE  MirrorInv'
    BY <1>0, <1>2, <1>3 DEF TakeNumber, TypeOK, Tx, books, Working
  <1>4. ASSUME NEW r \in Requests, HeaderStored(r)
        PROVE  MirrorInv'
    BY <1>2, <1>4 DEF HeaderStored, TypeOK, books, Working
  <1>5. ASSUME NEW r \in Requests, NEW l \in LedgerLine, LineStored(r, l)
        PROVE  MirrorInv'
    BY <1>0, <1>2, <1>5 DEF LineStored, TypeOK, Tx, books
  <1>6. ASSUME NEW r \in Requests, NEW d \in Seq(LedgerLine), AnotherStarted(r, d)
        PROVE  MirrorInv'
    <2>1. \A q \in Requests \ {r} : tx'[q] = tx[q] /\ pc'[q] = pc[q]
      BY <1>6 DEF AnotherStarted, TypeOK
    <2>2. /\ tx'[r].written = tx[r].written \cup {Current(r)}
          /\ tx'[r].of = 0 /\ ledger' = ledger
      BY <1>0, <1>6 DEF AnotherStarted, Continued, TypeOK, Tx, books
    <2>3. WholeCents(Current(r).lines)
      BY CurrentInCents DEF Current
    <2>4. StoredInCents'
      BY <2>1, <2>2, <2>3 DEF MirrorInv, StoredInCents
    <2>5. PendingMirrorsOriginal'
      BY <2>1, <2>2 DEF MirrorInv, PendingMirrorsOriginal, OfOrg
    <2>6. QED
      BY <2>2, <2>4, <2>5 DEF MirrorInv, ReversalMirrorsOriginal, OfOrg
  <1>7. ASSUME NEW r \in Requests, Published(r)
        PROVE  MirrorInv'
    <2> DEFINE o == tx[r].org
    <2>1. \A q \in Requests \ {r} : tx'[q] = tx[q] /\ pc'[q] = pc[q]
      BY <1>7 DEF Published, TypeOK
    <2>2. /\ tx'[r] = NoWork /\ pc'[r] = "done"
          /\ ledger' = ledger \cup tx[r].written \cup {Current(r)}
      BY <1>7 DEF Published, TypeOK
    <2>3. WholeCents(Current(r).lines)
      BY CurrentInCents DEF Current
    <2>4. StoredInCents'
      BY <2>1, <2>2, <2>3, NoWorkFields DEF MirrorInv, StoredInCents
    <2>5. PendingMirrorsOriginal'
      BY <2>1, <2>2, NoWorkFields
         DEF MirrorInv, PendingMirrorsOriginal, OfOrg, Working
    <2>6. \A e \in tx[r].written : e.of = 0
      BY DEF NumbersInv, WrittenFollowCounter
    <2>7. ASSUME tx[r].of # 0
          PROVE  \E original \in OfOrg(o) :
                   /\ original.number = tx[r].of
                   /\ original.number < tx[r].value
                   /\ original.of = 0
                   /\ tx[r].lines = Swapped(original.lines)
      <3>1. pc[r] = "lines" /\ Len(tx[r].lines) = Len(tx[r].draft)
        BY <1>7 DEF Published, AllLinesStored
      <3>2. PICK original \in OfOrg(o) : /\ original.number = tx[r].of
                                         /\ original.of = 0
                                         /\ tx[r].draft = Swapped(original.lines)
        BY <2>7, <3>1 DEF MirrorInv, PendingMirrorsOriginal, Working
      <3>3. /\ original \in ledger /\ original.lines \in Seq(LedgerLine)
            /\ original.number \in Nat
        BY <3>2 DEF OfOrg, TypeOK, Entry
      <3>4. WholeCents(tx[r].draft)
        BY <3>2, <3>3, SwappedInCents DEF MirrorInv, StoredInCents
      <3>5. tx[r].lines = tx[r].draft
        BY <1>0, <3>1, <3>4, FullPrefix DEF StoredPrefix
      <3>6. original.number \in 1 .. counter[o]
        BY <1>0, <3>2 DEF NumbersInv, GapFreeNumbering
      <3>7. tx[r].value \in Nat /\ counter[o] \in Nat /\ tx[r].value > counter[o]
        BY <1>0, <3>1 DEF NumbersInv, WrittenFollowCounter, Top, Locking,
                          LockInv, NumberedHoldsRow, TypeOK, Tx
      <3>8. QED
        BY <3>2, <3>3, <3>5, <3>6, <3>7
    <2>8. \A x \in Orgs : OfOrg(x) \subseteq OfOrg(x)'
      BY <2>2 DEF OfOrg
    <2>9. ASSUME NEW e \in ledger', e.of # 0
          PROVE  \E original \in OfOrg(e.org)' :
                   /\ original.number = e.of
                   /\ original.number < e.number
                   /\ original.of = 0
                   /\ e.lines = Swapped(original.lines)
      <3>1. CASE e \in ledger
        <4>1. e.org \in Orgs
          BY <3>1 DEF TypeOK, Entry
        <4>2. QED
          BY <2>8, <2>9, <3>1, <4>1 DEF MirrorInv, ReversalMirrorsOriginal
      <3>2. CASE e \in tx[r].written
        BY <2>6, <2>9, <3>2
      <3>3. CASE e = Current(r)
        BY <1>0, <2>7, <2>8, <2>9, <3>3 DEF Current
      <3>4. QED
        BY <2>2, <2>9, <3>1, <3>2, <3>3
    <2>10. QED
      BY <2>4, <2>5, <2>9 DEF MirrorInv, ReversalMirrorsOriginal
  <1>8. ASSUME NEW r \in Requests, Rollback(r)
        PROVE  MirrorInv'
    <2>1. \A q \in Requests \ {r} : tx'[q] = tx[q] /\ pc'[q] = pc[q]
      BY <1>8 DEF Rollback, TypeOK
    <2>2. tx'[r] = NoWork /\ ledger' = ledger
      BY <1>8 DEF Rollback, TypeOK, books
    <2>3. QED
      BY <2>1, <2>2, NoWorkFields
         DEF MirrorInv, StoredInCents, PendingMirrorsOriginal,
             ReversalMirrorsOriginal, OfOrg
  <1>9. CASE ChartChanged \/ UNCHANGED vars
    BY <1>2, <1>9 DEF ChartChanged, vars, books
  <1>10. QED
    BY <1>1, <1>3, <1>4, <1>5, <1>6, <1>7, <1>8, <1>9, Steps

\* A committed reversal undoes, line by line, an earlier committed entry of the
\* same organization that is not itself a reversal.
THEOREM ReversalMirrors == Spec => []ReversalMirrorsOriginal
  <1>1. Spec => [](TypeOK /\ StoredPrefix /\ LockInv /\ NumbersInv /\ MirrorInv)
    BY InitType, NextType, InitLock, NextLock, InitNumbers, NextNumbers,
       InitMirror, NextMirror, PTL DEF Spec
  <1>2. QED
    BY <1>1, PTL DEF MirrorInv

-----------------------------------------------------------------------------
(* The journal implements the append-only log *)

\* In a set of entries numbered 1..c without repetition, each number finds its
\* entry and each entry is found by its number.
LEMMA Lookup ==
  ASSUME NEW S, NEW c \in Nat,
         {e.number : e \in S} = 1 .. c,
         \A e, f \in S : e.number = f.number => e = f
  PROVE  /\ \A n \in 1 .. c : /\ (CHOOSE e \in S : e.number = n) \in S
                              /\ (CHOOSE e \in S : e.number = n).number = n
         /\ \A e \in S : (CHOOSE f \in S : f.number = e.number) = e
  <1>1. ASSUME NEW n \in 1 .. c
        PROVE  \E e \in S : e.number = n
    OBVIOUS
  <1>2. QED
    BY <1>1

\* A function on 1..c is a sequence of length c.
LEMMA SequenceLength ==
  ASSUME NEW c \in Nat, NEW s, NEW T, s \in [1 .. c -> T]
  PROVE  s \in Seq(T) /\ Len(s) = c
  OBVIOUS

Logs == [o \in Orgs |-> LogOf(o)]

\* A commit extends the log of the organization of the request.
LEMMA PublishExtends ==
  ASSUME TypeOK, GapFreeNumbering, TypeOK', GapFreeNumbering',
         CommittedEntriesBalance', ReversalMirrorsOriginal',
         WrittenFollowCounter, NumberedHoldsRow,
         NEW r \in Requests, Published(r)
  PROVE  Log!Next
  <1>0. PICK o \in Orgs : o = tx[r].org
    BY DEF TypeOK, Tx
  <1>1. /\ counter[o] \in Nat /\ tx[r].value \in Nat
        /\ owner[o] = r /\ Top(r) = tx[r].value - 1
    BY <1>0 DEF TypeOK, Tx, Published, AllLinesStored, NumberedHoldsRow,
                Locking, Top
  <1>2. /\ counter'[o] = tx[r].value /\ tx[r].value > counter[o]
        /\ \A x \in Orgs \ {o} : counter'[x] = counter[x]
    BY <1>0, <1>1 DEF Published, TypeOK, WrittenFollowCounter
  <1>3. \A x \in Orgs : OfOrg(x) \subseteq OfOrg(x)'
    BY DEF Published, OfOrg
  <1>4. \A x \in Orgs \ {o} : OfOrg(x)' = OfOrg(x)
    BY <1>0 DEF Published, OfOrg, WrittenFollowCounter, Current
  <1>5. ASSUME NEW x \in Orgs
        PROVE  /\ counter[x] \in Nat /\ counter'[x] \in Nat
               /\ Len(LogOf(x)) = counter[x] /\ Len(LogOf(x)') = counter'[x]
    <2>1. counter[x] \in Nat /\ counter'[x] \in Nat
      BY DEF TypeOK
    <2>2. LogOf(x) \in [1 .. counter[x] -> {LogOf(x)[n] : n \in 1 .. counter[x]}]
      BY DEF LogOf
    <2>3. LogOf(x)' \in [1 .. counter'[x] -> {LogOf(x)'[n] : n \in 1 .. counter'[x]}]
      BY DEF LogOf
    <2>4. QED
      BY <2>1, <2>2, <2>3, SequenceLength
  <1>6. ASSUME NEW n \in 1 .. counter[o]
        PROVE  LogOf(o)'[n] = LogOf(o)[n]
    <2>1. EntryNumbered(o, n) \in OfOrg(o) /\ EntryNumbered(o, n).number = n
      BY <1>1, Lookup DEF GapFreeNumbering, EntryNumbered
    <2>2. EntryNumbered(o, n) \in OfOrg(o)'
      BY <1>1, <1>3, <2>1
    <2>3. EntryNumbered(o, n)' = EntryNumbered(o, n)
      BY <1>1, <1>5, <2>1, <2>2, Lookup DEF GapFreeNumbering, EntryNumbered
    <2>4. QED
      BY <1>1, <1>2, <2>3 DEF LogOf
  <1>7. ASSUME NEW n \in 1 .. counter'[o]
        PROVE  /\ BalancedInDatabase(LogOf(o)'[n].lines)
               /\ LogOf(o)'[n].of # 0 =>
                    /\ LogOf(o)'[n].of \in 1 .. n - 1
                    /\ LogOf(o)'[LogOf(o)'[n].of].of = 0
                    /\ LogOf(o)'[n].lines =
                         Swapped(LogOf(o)'[LogOf(o)'[n].of].lines)
    <2> DEFINE e == EntryNumbered(o, n)'
    <2>1. e \in OfOrg(o)' /\ e.number = n
      BY <1>1, <1>5, Lookup DEF GapFreeNumbering, EntryNumbered
    <2>2. e \in ledger' /\ e.org = o
      BY <2>1 DEF OfOrg
    <2>3. LogOf(o)'[n] = [of |-> e.of, lines |-> e.lines]
      BY DEF LogOf
    <2>4. BalancedInDatabase(e.lines)
      BY <2>2 DEF CommittedEntriesBalance
    <2>5. ASSUME e.of # 0
          PROVE  /\ e.of \in 1 .. n - 1
                 /\ LogOf(o)'[e.of].of = 0
                 /\ e.lines = Swapped(LogOf(o)'[e.of].lines)
      <3>1. PICK f \in OfOrg(o)' : /\ f.number = e.of /\ f.number < e.number
                                   /\ f.of = 0 /\ e.lines = Swapped(f.lines)
        BY <2>2, <2>5 DEF ReversalMirrorsOriginal
      <3>2. f.number \in 1 .. counter'[o]
        BY <1>1, <3>1 DEF GapFreeNumbering
      <3>3. EntryNumbered(o, f.number)' = f
        BY <1>1, <1>5, <3>1, Lookup DEF GapFreeNumbering, EntryNumbered
      <3>4. LogOf(o)'[f.number] = [of |-> f.of, lines |-> f.lines]
        BY <3>2, <3>3 DEF LogOf
      <3>5. QED
        BY <1>5, <2>1, <3>1, <3>2, <3>4
    <2>6. QED
      BY <2>3, <2>4, <2>5
  <1>8. \A x \in Orgs \ {o} : LogOf(x)' = LogOf(x)
    BY <1>2, <1>4 DEF LogOf, EntryNumbered
  <1>9. Log!Extend(o)
    <2>1. Len(Logs'[o]) > Len(Logs[o])
      BY <1>1, <1>2, <1>5 DEF Logs
    <2>2. \A n \in 1 .. Len(Logs[o]) : Logs'[o][n] = Logs[o][n]
      BY <1>1, <1>5, <1>6 DEF Logs
    <2>3. \A n \in Len(Logs[o]) + 1 .. Len(Logs'[o]) : Log!Sound(Logs'[o], n)
      BY <1>1, <1>5, <1>7 DEF Logs, Log!Sound
    <2>4. \A x \in Orgs \ {o} : Logs'[x] = Logs[x]
      BY <1>8 DEF Logs
    <2>5. QED
      BY <2>1, <2>2, <2>3, <2>4 DEF Log!Extend, Logs
  <1>10. QED
    BY <1>1, <1>9 DEF Log!Next

\* Every other step leaves the log as it is.
LEMMA StepRefines ==
  ASSUME TypeOK, StoredPrefix, GapFreeNumbering, TypeOK', GapFreeNumbering',
         CommittedEntriesBalance', ReversalMirrorsOriginal',
         WrittenFollowCounter, NumberedHoldsRow, [Next]_vars
  PROVE  [Log!Next]_Logs
  <1>1. ASSUME NEW r \in Requests, Published(r)
        PROVE  Log!Next
    BY <1>1, PublishExtends
  <1>2. CASE UNCHANGED books
    BY <1>2 DEF books, Logs, LogOf, EntryNumbered, OfOrg
  <1>3. QED
    BY <1>1, <1>2, Steps
       DEF Starts, TakeNumber, HeaderStored, LineStored, AnotherStarted,
           Rollback, ChartChanged, books, vars

\* The journal, seen through its committed counter, is an append-only log of
\* balanced entries whose order is the order of the numbers.
THEOREM Refinement == Spec => RefinesLedgerLog
  <1>1. Init => Logs = [o \in Orgs |-> <<>>]
    BY DEF Init, Logs, LogOf
  <1>2. Spec => [](/\ TypeOK /\ StoredPrefix /\ LockInv /\ NumbersInv
                   /\ CommittedEntriesBalance /\ MirrorInv)
    <2>1. Init => CommittedEntriesBalance
      BY DEF Init, CommittedEntriesBalance
    <2>2. QED
      BY <2>1, InitType, NextType, InitLock, NextLock, InitNumbers, NextNumbers,
         NextBalance, InitMirror, NextMirror, PTL DEF Spec
  <1>3. Spec => [][Log!Next]_Logs
    BY <1>2, StepRefines, PTL DEF Spec, LockInv, NumbersInv, MirrorInv
  <1>4. QED
    BY <1>1, <1>3, PTL DEF Spec, RefinesLedgerLog, Log!Spec, Log!Init, Logs

=============================================================================

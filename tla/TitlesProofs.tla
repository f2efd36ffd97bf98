---------------------------- MODULE TitlesProofs ----------------------------
(***************************************************************************)
(* Proofs about Titles: types, that no title is overpaid, that settlements *)
(* add up and have their entries, and that canceled titles stay canceled.  *)
(***************************************************************************)
EXTENDS Titles, SumTheorems

Ended == {"idle", "done", "failed"}
Phases == Working \cup Ended

(* The strengthening of NeverOverpaid and SettlementsAgree. *)

\* A title that is there has its accrual in the journal.
RowsSound ==
  \A t \in Titles :
    /\ bill[t].paid <= bill[t].original
    /\ bill[t].status # "ABSENT" => \E e \in journal : e.number = bill[t].accrual

\* What is settled was posted, for titles that are there.
HistorySound ==
  /\ IsFiniteSet(settled)
  /\ \A s \in settled : s.entry <= lastEntry /\ bill[s.title].status # "ABSENT"

\* How far a request is tells what it does.
Fits(r) ==
  /\ pc[r] \in Ended => tx[r] = NoWork
  /\ pc[r] = "document" => tx[r].op = "create"
  /\ pc[r] = "guard" => tx[r].op = "settle"
  /\ pc[r] = "reversal" => tx[r].op \in {"cancel", "reverse"}
  /\ pc[r] = "flag" => tx[r].op = "cancel"
  /\ pc[r] \in {"entry", "commit"} => tx[r].op # "none"

\* What a request found of its title when it began, and nobody else can undo.
Found(r) ==
  LET b == bill[tx[r].title] IN
  /\ tx[r].op \in {"create", "settle"} => tx[r].amount \in Amounts
  /\ tx[r].op = "create" => b.status = "ABSENT"
  /\ tx[r].op \in {"settle", "cancel"} => b.status # "ABSENT"
  /\ tx[r].op \in {"cancel", "reverse"} => \E e \in journal : e.number = tx[r].of

\* What a request holds: the counter its entry is numbered from, and the row of
\* the title it is about to write, with what the guarded update found in it.
Holds(r) ==
  LET b == bill[tx[r].title] IN
  /\ pc[r] \in {"flag", "commit"} => entryLock = r /\ tx[r].entry = lastEntry + 1
  /\ tx[r].op = "settle" /\ pc[r] \in {"entry", "commit"} =>
       /\ billLock[tx[r].title] = r
       /\ b.status # "CANCELED" /\ b.paid + tx[r].amount <= b.original
  /\ tx[r].op = "cancel" /\ pc[r] = "commit" => billLock[tx[r].title] = r

RequestInv(r) == Fits(r) /\ Found(r) /\ Holds(r)

\* A title is created once.
OneCreator ==
  \A q, r \in Requests :
    tx[q].op = "create" /\ tx[r].op = "create" /\ tx[q].title = tx[r].title => q = r

IInv ==
  /\ TitleTypeOK /\ RowsSound /\ HistorySound /\ SettlementsAgree /\ OneCreator
  /\ \A r \in Requests : RequestInv(r)

-----------------------------------------------------------------------------
(* Steps *)

\* No work is a work, that of a request which asks and holds nothing.
LEMMA NoWorkFits ==
  /\ NoWork \in Tx /\ NoWork.op = "none"
  /\ \A r \in Requests : pc[r] \in Ended /\ tx[r] = NoWork => RequestInv(r)
<1>1. (CHOOSE t \in Titles : TRUE) \in Titles
  BY BillsAssumption
<1>2. NoWork \in Tx /\ NoWork.op = "none"
  BY <1>1 DEF NoWork, Tx, Operations
<1>. QED BY <1>2 DEF RequestInv, Fits, Found, Holds, Ended

\* What a request asked for is a work.
LEMMA RequestIsWork ==
  ASSUME NEW op \in Operations, NEW t \in Titles, NEW amount \in Nat, NEW of \in Nat
  PROVE  /\ TitleRequest(op, t, amount, of) \in Tx
         /\ TitleRequest(op, t, amount, of).op = op /\ TitleRequest(op, t, amount, of).title = t
         /\ TitleRequest(op, t, amount, of).amount = amount /\ TitleRequest(op, t, amount, of).of = of
BY NoWorkFits DEF TitleRequest, Tx

\* A request is left alone by steps that free nothing it holds, commit nothing it
\* has found otherwise, and post no entry while it holds the counter.
LEMMA RequestKept ==
  ASSUME TitleTypeOK, NEW q \in Requests, RequestInv(q), pc'[q] = pc[q], tx'[q] = tx[q],
         \A t \in Titles : billLock[t] = q => billLock'[t] = q,
         entryLock = q => entryLock' = q /\ lastEntry' = lastEntry,
         journal \subseteq journal',
         LET t == tx[q].title IN
           \/ bill'[t] = bill[t]
           \/ /\ tx[q].op # "create" /\ (tx[q].op = "settle" => billLock[t] # q)
              /\ bill[t].status # "ABSENT" => bill'[t].status # "ABSENT"
  PROVE  RequestInv(q)'
<1>1. tx[q].title \in Titles
  BY DEF TitleTypeOK, Tx
<1>2. Fits(q)'
  BY DEF RequestInv, Fits
<1>3. Found(q)'
  BY DEF RequestInv, Found
<1>4. Holds(q)'
  BY <1>1 DEF RequestInv, Holds
<1>. QED BY <1>2, <1>3, <1>4 DEF RequestInv

\* A step of one request that commits nothing: it takes what is free or frees
\* what it holds.
LEMMA PrivateStep ==
  ASSUME IInv, NEW r \in Requests,
         pc' = [pc EXCEPT ![r] = pc'[r]], tx' = [tx EXCEPT ![r] = tx'[r]],
         pc'[r] \in Phases, tx'[r] \in Tx, UNCHANGED committed,
         billLock' \in [Titles -> Requests \cup {Nobody}],
         \A t \in Titles : billLock'[t] = billLock[t] \/ billLock[t] \in {r, Nobody},
         entryLock' \in Requests \cup {Nobody},
         entryLock' = entryLock \/ entryLock \in {r, Nobody},
         documentLock' \in [Sides -> Requests \cup {Nobody}],
         RequestInv(r)',
         tx'[r].op = "create" =>
           \A q \in Requests \ {r} : tx[q].op = "create" => tx[q].title # tx'[r].title
  PROVE  IInv'
<1>. USE DEF IInv, committed
<1>1. \A q \in Requests \ {r} : pc'[q] = pc[q] /\ tx'[q] = tx[q]
  BY DEF TitleTypeOK
<1>2. TitleTypeOK'
  BY DEF TitleTypeOK, Phases, Ended
<1>3. RowsSound' /\ HistorySound'
  BY DEF RowsSound, HistorySound
<1>4. SettlementsAgree'
  BY DEF SettlementsAgree, SettlementsOf, PostedFor
<1>5. OneCreator'
  BY <1>1 DEF OneCreator
<1>6. ASSUME NEW q \in Requests
      PROVE  RequestInv(q)'
  <2>1. CASE q # r
    <3>1. RequestInv(q) /\ q # Nobody /\ pc'[q] = pc[q] /\ tx'[q] = tx[q]
      BY <1>1, <2>1, NobodyAssumption
    <3>2. entryLock = q => entryLock' = q
      BY <2>1, <3>1
    <3>3. \A t \in Titles : billLock[t] = q => billLock'[t] = q
      BY <2>1, <3>1
    <3>. QED BY <3>1, <3>2, <3>3, RequestKept
  <2>. QED BY <2>1
<1>. QED BY <1>2, <1>3, <1>4, <1>5, <1>6

\* The end of a transaction frees its locks and no other.
LEMMA EndFrees ==
  ASSUME TitleTypeOK, NEW r \in Requests, Unlocked(r)
  PROVE  /\ billLock' \in [Titles -> Requests \cup {Nobody}]
         /\ \A t \in Titles : billLock'[t] = IF billLock[t] = r THEN Nobody ELSE billLock[t]
         /\ entryLock' = IF entryLock = r THEN Nobody ELSE entryLock
         /\ entryLock' \in Requests \cup {Nobody}
         /\ documentLock' \in [Sides -> Requests \cup {Nobody}]
BY DEF Unlocked, TitleTypeOK

\* A rollback commits nothing and frees what the request holds.
LEMMA RollbackStep ==
  ASSUME IInv, NEW r \in Requests, Rollback(r)
  PROVE  IInv'
<1>1. TitleTypeOK /\ Unlocked(r) /\ UNCHANGED committed
  BY DEF IInv, Rollback, EndRequest
<1>2. pc' = [pc EXCEPT ![r] = "failed"] /\ tx' = [tx EXCEPT ![r] = NoWork]
  BY DEF Rollback, EndRequest
<1>3. pc'[r] = "failed" /\ tx'[r] = NoWork
  BY <1>1, <1>2 DEF TitleTypeOK
<1>4. RequestInv(r)'
  BY <1>3, NoWorkFits DEF RequestInv, Fits, Found, Holds, Ended
<1>5. \A t \in Titles : billLock'[t] = billLock[t] \/ billLock[t] \in {r, Nobody}
  BY <1>1, EndFrees
<1>6. entryLock' = entryLock \/ entryLock \in {r, Nobody}
  BY <1>1, EndFrees
<1>. QED
  BY <1>1, <1>2, <1>3, <1>4, <1>5, <1>6, EndFrees, NoWorkFits, PrivateStep DEF Phases, Ended

\* The opening reads of a handler.
LEMMA OpensStep ==
  ASSUME IInv, NEW r \in Requests, NEW work \in Tx, NEW place \in Phases,
         Opens(r, work, place),
         place # "failed" =>
           /\ place \in {"document", "guard", "reversal"}
           /\ place = "document" <=> work.op = "create"
           /\ place = "guard" <=> work.op = "settle"
           /\ place = "reversal" <=> work.op \in {"cancel", "reverse"}
           /\ work.op \in {"create", "settle"} => work.amount \in Amounts
           /\ work.op = "create" =>
                /\ bill[work.title].status = "ABSENT"
                /\ \A q \in Requests : tx[q].op = "create" => tx[q].title # work.title
           /\ work.op \in {"settle", "cancel"} => bill[work.title].status # "ABSENT"
           /\ work.op \in {"cancel", "reverse"} => \E e \in journal : e.number = work.of
  PROVE  IInv'
<1>0. TitleTypeOK /\ UNCHANGED <<committed, locks>>
  BY DEF IInv, Opens
<1>. DEFINE w == IF place = "failed" THEN NoWork ELSE work
<1>1. pc' = [pc EXCEPT ![r] = place] /\ tx' = [tx EXCEPT ![r] = w]
  BY DEF Opens, Continue
<1>2. pc'[r] = place /\ tx'[r] = w /\ w \in Tx
  BY <1>0, <1>1, NoWorkFits DEF TitleTypeOK
<1>3. RequestInv(r)'
  <2>1. CASE place = "failed"
    BY <1>2, <2>1, NoWorkFits DEF RequestInv, Fits, Found, Holds, Ended
  <2>2. CASE place # "failed"
    <3>1. tx'[r] = work /\ place \in {"document", "guard", "reversal"}
      BY <1>2, <2>2
    <3>2. Fits(r)'
      BY <1>2, <2>2, <3>1 DEF Fits, Ended
    <3>3. Found(r)'
      BY <1>0, <1>2, <2>2, <3>1 DEF Found, committed
    <3>4. Holds(r)'
      BY <1>2, <3>1 DEF Holds
    <3>. QED BY <3>2, <3>3, <3>4 DEF RequestInv
  <2>. QED BY <2>1, <2>2
<1>4. tx'[r].op = "create" =>
        \A q \in Requests \ {r} : tx[q].op = "create" => tx[q].title # tx'[r].title
  BY <1>2, NoWorkFits
<1>5. /\ billLock' \in [Titles -> Requests \cup {Nobody}]
      /\ entryLock' \in Requests \cup {Nobody}
      /\ documentLock' \in [Sides -> Requests \cup {Nobody}]
      /\ billLock' = billLock /\ entryLock' = entryLock
  BY <1>0 DEF TitleTypeOK, locks
<1>. HIDE DEF w
<1>. QED BY <1>0, <1>1, <1>2, <1>3, <1>4, <1>5, PrivateStep

\* What a handler reads before its transaction writes is enough for the request
\* to go on.
LEMMA BeginStep ==
  ASSUME IInv, NEW r \in Requests, BeginRequest(r)
  PROVE  IInv'
<1>0. TitleTypeOK /\ Amounts \subseteq Nat
  BY AmountsAssumption DEF IInv
<1>1. ASSUME NEW t \in Titles, NEW amount \in Amounts, Create(r, t, amount)
      PROVE  IInv'
  <2>1. /\ Opens(r, TitleRequest("create", t, amount, 0), "document") /\ bill[t].status = "ABSENT"
        /\ \A q \in Requests : tx[q].op = "create" => tx[q].title # t
    BY <1>1 DEF Create
  <2>2. /\ TitleRequest("create", t, amount, 0) \in Tx
        /\ TitleRequest("create", t, amount, 0).op = "create"
        /\ TitleRequest("create", t, amount, 0).title = t
        /\ TitleRequest("create", t, amount, 0).amount = amount
    BY <1>0, RequestIsWork DEF Operations
  <2>. QED BY <2>1, <2>2, OpensStep DEF Phases, Working, Waiting
<1>2. ASSUME NEW t \in Titles, NEW amount \in Amounts, SettleTitle(r, t, amount)
      PROVE  IInv'
  <2>. DEFINE place == IF bill[t].status = "ABSENT" THEN "failed" ELSE "guard"
  <2>1. Opens(r, TitleRequest("settle", t, amount, 0), place)
    BY <1>2 DEF SettleTitle
  <2>2. /\ TitleRequest("settle", t, amount, 0) \in Tx
        /\ TitleRequest("settle", t, amount, 0).op = "settle"
        /\ TitleRequest("settle", t, amount, 0).title = t
        /\ TitleRequest("settle", t, amount, 0).amount = amount
    BY <1>0, RequestIsWork DEF Operations
  <2>3. place \in Phases /\ (place # "failed" => bill[t].status # "ABSENT" /\ place = "guard")
    BY DEF Phases, Ended, Working, Waiting
  <2>. HIDE DEF place
  <2>. QED BY <2>1, <2>2, <2>3, OpensStep
<1>3. ASSUME NEW t \in Titles, Cancel(r, t)
      PROVE  IInv'
  <2>. DEFINE place == IF bill[t].status \in {"ABSENT", "CANCELED"} \/ bill[t].paid > 0
                       THEN "failed" ELSE "reversal"
              w == TitleRequest("cancel", t, 0, bill[t].accrual)
  <2>1. Opens(r, w, place)
    BY <1>3 DEF Cancel
  <2>2. bill[t].accrual \in Nat
    BY <1>0 DEF TitleTypeOK, Bill
  <2>3. w \in Tx /\ w.op = "cancel" /\ w.title = t /\ w.of = bill[t].accrual
    BY <2>2, RequestIsWork DEF Operations
  <2>4. place \in Phases
    BY DEF Phases, Ended, Working, Waiting
  <2>5. place # "failed" => bill[t].status # "ABSENT" /\ place = "reversal"
    OBVIOUS
  <2>6. bill[t].status # "ABSENT" => \E e \in journal : e.number = bill[t].accrual
    BY DEF IInv, RowsSound
  <2>. HIDE DEF place, w
  <2>. QED BY <2>1, <2>3, <2>4, <2>5, <2>6, OpensStep
<1>4. ASSUME ReverseEntry(r)
      PROVE  IInv'
  <2>1. PICK e \in journal :
          Opens(r, TitleRequest("reverse", e.title, 0, e.number),
                IF e.kind = "reversal" THEN "failed" ELSE "reversal")
    BY <1>4 DEF ReverseEntry
  <2>. DEFINE place == IF e.kind = "reversal" THEN "failed" ELSE "reversal"
              w == TitleRequest("reverse", e.title, 0, e.number)
  <2>2. e.title \in Titles /\ e.number \in Nat
    BY <1>0 DEF TitleTypeOK, Entry
  <2>3. w \in Tx /\ w.op = "reverse" /\ w.title = e.title /\ w.of = e.number
    BY <2>2, RequestIsWork DEF Operations
  <2>4. place \in Phases /\ place \in {"failed", "reversal"}
    BY DEF Phases, Ended, Working, Waiting
  <2>5. Opens(r, w, place)
    BY <2>1
  <2>. HIDE DEF place, w
  <2>. QED BY <2>3, <2>4, <2>5, OpensStep
<1>. QED
  BY <1>1, <1>2, <1>3, <1>4 DEF BeginRequest, CreatePayable, CreateReceivable, RegisterPayment,
     RegisterReceipt, CancelPayable, CancelReceivable, Titles

\* The statements that take a lock or look for an earlier reversal.
LEMMA StatementStep ==
  ASSUME IInv, NEW r \in Requests,
         TakeDocument(r) \/ GuardedUpdate(r) \/ FindReversal(r) \/ PostEntry(r) \/ FlagCanceled(r)
  PROVE  IInv'
<1>. DEFINE t == tx[r].title
<1>0. TitleTypeOK /\ RequestInv(r) /\ tx[r] \in Tx /\ t \in Titles /\ r # Nobody
  BY NobodyAssumption DEF IInv, TitleTypeOK, Tx
<1>1. CASE TakeDocument(r)
  <2>1. /\ pc[r] = "document" /\ UNCHANGED <<committed, billLock, entryLock>>
        /\ pc' = [pc EXCEPT ![r] = "entry"]
        /\ tx' = [tx EXCEPT ![r].document = lastDocument[Side(t)] + 1]
        /\ documentLock' = [documentLock EXCEPT ![Side(t)] = r]
    BY <1>1 DEF TakeDocument, Continue
  <2>2. Side(t) \in Sides
    BY DEF Side, Sides
  <2>3. /\ pc'[r] = "entry" /\ tx'[r] = [tx[r] EXCEPT !.document = lastDocument[Side(t)] + 1]
        /\ tx' = [tx EXCEPT ![r] = tx'[r]] /\ tx[r].op = "create"
    BY <1>0, <2>1 DEF TitleTypeOK, RequestInv, Fits
  <2>4. /\ tx'[r] \in Tx /\ tx'[r].op = "create" /\ tx'[r].title = t
        /\ tx'[r].amount = tx[r].amount
    BY <1>0, <2>2, <2>3 DEF TitleTypeOK, Tx
  <2>5. RequestInv(r)'
    BY <1>0, <2>1, <2>3, <2>4 DEF RequestInv, Fits, Found, Holds, Ended, committed
  <2>6. \A q \in Requests \ {r} : tx[q].op = "create" => tx[q].title # tx'[r].title
    BY <2>3, <2>4 DEF IInv, OneCreator
  <2>7. documentLock' \in [Sides -> Requests \cup {Nobody}]
    BY <1>0, <2>1 DEF TitleTypeOK
  <2>. QED
    BY <1>0, <2>1, <2>3, <2>4, <2>5, <2>6, <2>7, PrivateStep
    DEF TitleTypeOK, Phases, Working, Waiting
<1>2. CASE GuardedUpdate(r)
  <2>0. pc[r] = "guard" /\ billLock[t] = Nobody /\ tx[r].op = "settle"
    BY <1>0, <1>2 DEF GuardedUpdate, RequestInv, Fits
  <2>1. CASE bill[t].status # "CANCELED" /\ bill[t].paid + tx[r].amount <= bill[t].original
    <3>1. /\ billLock' = [billLock EXCEPT ![t] = r] /\ pc' = [pc EXCEPT ![r] = "entry"]
          /\ UNCHANGED <<committed, entryLock, documentLock, tx>>
      BY <1>2, <2>1 DEF GuardedUpdate, Continue
    <3>2. pc'[r] = "entry" /\ tx'[r] = tx[r] /\ tx' = [tx EXCEPT ![r] = tx'[r]]
      BY <1>0, <3>1 DEF TitleTypeOK
    <3>3. /\ billLock' \in [Titles -> Requests \cup {Nobody}] /\ billLock'[t] = r
          /\ \A u \in Titles : billLock'[u] = billLock[u] \/ billLock[u] \in {r, Nobody}
      BY <1>0, <2>0, <3>1 DEF TitleTypeOK
    <3>4. RequestInv(r)'
      BY <1>0, <2>0, <2>1, <3>1, <3>2, <3>3 DEF RequestInv, Fits, Found, Holds, Ended, committed
    <3>. QED
      BY <1>0, <2>0, <3>1, <3>2, <3>3, <3>4, PrivateStep DEF TitleTypeOK, Phases, Working, Waiting
  <2>. QED BY <1>2, <2>1, RollbackStep DEF GuardedUpdate
<1>3. CASE FindReversal(r)
  <2>1. CASE \E e \in journal : e.kind = "reversal" /\ e.of = tx[r].of
    BY <1>3, <2>1, RollbackStep DEF FindReversal
  <2>2. CASE ~ \E e \in journal : e.kind = "reversal" /\ e.of = tx[r].of
    <3>1. pc[r] = "reversal" /\ pc' = [pc EXCEPT ![r] = "entry"] /\ UNCHANGED <<committed, locks, tx>>
      BY <1>3, <2>2 DEF FindReversal, Continue
    <3>2. /\ pc'[r] = "entry" /\ tx'[r] = tx[r] /\ tx' = [tx EXCEPT ![r] = tx'[r]]
          /\ tx[r].op \in {"cancel", "reverse"}
      BY <1>0, <3>1 DEF TitleTypeOK, RequestInv, Fits
    <3>3. RequestInv(r)'
      BY <1>0, <3>1, <3>2 DEF RequestInv, Fits, Found, Holds, Ended, committed, locks
    <3>. QED
      BY <1>0, <3>1, <3>2, <3>3, PrivateStep DEF TitleTypeOK, Phases, Working, Waiting, locks
  <2>. QED BY <2>1, <2>2
<1>4. CASE PostEntry(r)
  <2>. DEFINE place == IF tx[r].op = "cancel" THEN "flag" ELSE "commit"
  <2>1. /\ pc[r] = "entry" /\ entryLock = Nobody /\ entryLock' = r
        /\ tx' = [tx EXCEPT ![r].entry = lastEntry + 1] /\ pc' = [pc EXCEPT ![r] = place]
        /\ UNCHANGED <<committed, billLock, documentLock>>
    BY <1>4 DEF PostEntry, Continue
  <2>2. /\ pc'[r] = place /\ tx'[r] = [tx[r] EXCEPT !.entry = lastEntry + 1]
        /\ tx' = [tx EXCEPT ![r] = tx'[r]] /\ tx[r].op # "none"
    BY <1>0, <2>1 DEF TitleTypeOK, RequestInv, Fits
  <2>3. /\ tx'[r] \in Tx /\ tx'[r].op = tx[r].op /\ tx'[r].title = t
        /\ tx'[r].amount = tx[r].amount /\ tx'[r].of = tx[r].of
        /\ tx'[r].entry = lastEntry + 1
    BY <1>0, <2>2 DEF TitleTypeOK, Tx
  <2>4. RequestInv(r)'
    BY <1>0, <2>1, <2>2, <2>3 DEF RequestInv, Fits, Found, Holds, Ended, committed
  <2>5. tx'[r].op = "create" =>
          \A q \in Requests \ {r} : tx[q].op = "create" => tx[q].title # tx'[r].title
    BY <2>3 DEF IInv, OneCreator
  <2>6. place \in Phases
    BY DEF Phases, Working, Waiting
  <2>. HIDE DEF place
  <2>. QED BY <1>0, <2>1, <2>2, <2>3, <2>4, <2>5, <2>6, PrivateStep DEF TitleTypeOK
<1>5. CASE FlagCanceled(r)
  <2>1. /\ pc[r] = "flag" /\ billLock[t] = Nobody /\ billLock' = [billLock EXCEPT ![t] = r]
        /\ pc' = [pc EXCEPT ![r] = "commit"]
        /\ UNCHANGED <<committed, entryLock, documentLock, tx>>
    BY <1>5 DEF FlagCanceled, Continue
  <2>2. /\ pc'[r] = "commit" /\ tx'[r] = tx[r] /\ tx' = [tx EXCEPT ![r] = tx'[r]]
        /\ tx[r].op = "cancel"
    BY <1>0, <2>1 DEF TitleTypeOK, RequestInv, Fits
  <2>3. /\ billLock' \in [Titles -> Requests \cup {Nobody}] /\ billLock'[t] = r
        /\ \A u \in Titles : billLock'[u] = billLock[u] \/ billLock[u] \in {r, Nobody}
    BY <1>0, <2>1 DEF TitleTypeOK
  <2>4. RequestInv(r)'
    BY <1>0, <2>1, <2>2, <2>3 DEF RequestInv, Fits, Found, Holds, Ended, committed
  <2>. QED
    BY <1>0, <2>1, <2>2, <2>3, <2>4, PrivateStep DEF TitleTypeOK, Phases, Working, Waiting
<1>. QED BY <1>1, <1>2, <1>3, <1>4, <1>5

-----------------------------------------------------------------------------
(* Commit *)

\* A row whose status changes.
LEMMA RowFlagged ==
  ASSUME NEW b \in Bill, NEW status \in Status, NEW row, row = [b EXCEPT !.status = status]
  PROVE  /\ row \in Bill /\ row.paid = b.paid /\ row.original = b.original
         /\ row.status = status /\ row.accrual = b.accrual
BY DEF Bill

\* What is known of a request about to commit, and of what it writes.
LEMMA CommitFacts ==
  ASSUME IInv, NEW r \in Requests, Commit(r)
  PROVE  LET t == tx[r].title IN
         /\ t \in Titles /\ tx[r] \in Tx /\ bill[t] \in Bill
         /\ tx[r].op \in {"create", "settle", "cancel", "reverse"}
         /\ entryLock = r /\ lastEntry \in Nat /\ tx[r].entry = lastEntry + 1
         /\ tx[r].op = "create" => bill[t].status = "ABSENT"
         /\ tx[r].op \in {"settle", "cancel"} => bill[t].status # "ABSENT" /\ billLock[t] = r
         /\ tx[r].op = "settle" =>
              /\ tx[r].amount \in Amounts
              /\ bill[t].status # "CANCELED" /\ bill[t].paid + tx[r].amount <= bill[t].original
         /\ RowWritten(r) \in Bill /\ RowWritten(r).paid <= RowWritten(r).original
         /\ tx[r].op # "reverse" => RowWritten(r).status # "ABSENT"
         /\ tx[r].op = "reverse" => RowWritten(r) = bill[t]
         /\ RowWritten(r).accrual = IF tx[r].op = "create" THEN tx[r].entry ELSE bill[t].accrual
         /\ tx[r].op = "settle" =>
            /\ RowWritten(r).paid = bill[t].paid + tx[r].amount
            /\ RowWritten(r).original = bill[t].original
            /\ RowWritten(r).status = StatusAfter(bill[t], tx[r].amount)
         /\ Posted(r) \in Entry /\ Posted(r).number = lastEntry + 1 /\ Posted(r).title = t
         /\ tx[r].op = "settle" =>
              Posted(r).kind = "settlement" /\ Posted(r).amount = tx[r].amount
         /\ tx[r].op # "settle" => Posted(r).kind # "settlement"
<1>. DEFINE t == tx[r].title
<1>1. TitleTypeOK /\ RowsSound /\ RequestInv(r) /\ pc[r] = "commit"
  BY DEF IInv, Commit
<1>2. t \in Titles /\ tx[r] \in Tx /\ bill[t] \in Bill /\ lastEntry \in Nat
  BY <1>1 DEF TitleTypeOK, Tx
<1>3. /\ tx[r].op \in {"create", "settle", "cancel", "reverse"}
      /\ entryLock = r /\ tx[r].entry = lastEntry + 1
  BY <1>1, <1>2 DEF RequestInv, Fits, Holds, Tx, Operations
<1>4. /\ tx[r].op = "create" => bill[t].status = "ABSENT"
      /\ tx[r].op \in {"settle", "cancel"} => bill[t].status # "ABSENT" /\ billLock[t] = r
      /\ tx[r].op = "settle" =>
           /\ tx[r].amount \in Amounts
           /\ bill[t].status # "CANCELED" /\ bill[t].paid + tx[r].amount <= bill[t].original
      /\ tx[r].op \in {"cancel", "reverse"} => \E e \in journal : e.number = tx[r].of
  BY <1>1 DEF RequestInv, Found, Holds
<1>5. bill[t].paid <= bill[t].original
  BY <1>1, <1>2 DEF RowsSound
<1>6. /\ RowWritten(r) \in Bill /\ RowWritten(r).paid <= RowWritten(r).original
      /\ tx[r].op # "reverse" => RowWritten(r).status # "ABSENT"
      /\ tx[r].op = "reverse" => RowWritten(r) = bill[t]
      /\ RowWritten(r).accrual = IF tx[r].op = "create" THEN tx[r].entry ELSE bill[t].accrual
      /\ tx[r].op = "settle" =>
         /\ RowWritten(r).paid = bill[t].paid + tx[r].amount
         /\ RowWritten(r).original = bill[t].original
         /\ RowWritten(r).status = StatusAfter(bill[t], tx[r].amount)
  <2>0. /\ tx[r].amount \in Nat /\ tx[r].entry \in Nat /\ tx[r].document \in Nat
        /\ bill[t].paid \in Nat /\ bill[t].original \in Nat
    BY <1>2 DEF Tx, Bill
  <2>1. CASE tx[r].op = "create"
    <3>1. RowWritten(r) = [status |-> "OPEN", original |-> tx[r].amount, paid |-> 0,
                           accrual |-> tx[r].entry, document |-> tx[r].document]
      BY <2>1 DEF RowWritten
    <3>. QED BY <2>0, <2>1, <3>1 DEF Bill, Status
  <2>2. CASE tx[r].op = "settle"
    <3>1. RowWritten(r) = [bill[t] EXCEPT !.paid = @ + tx[r].amount,
                                          !.status = StatusAfter(bill[t], tx[r].amount)]
      BY <2>2 DEF RowWritten
    <3>2. StatusAfter(bill[t], tx[r].amount) \in Status \ {"ABSENT"}
      BY DEF StatusAfter, Status
    <3>. DEFINE b == bill[t]
                a == tx[r].amount
                status == StatusAfter(bill[t], tx[r].amount)
                row == [b EXCEPT !.paid = @ + a, !.status = status]
    <3>3. b \in Bill /\ status \in Status /\ status # "ABSENT" /\ a \in Nat
      BY <1>2, <2>0, <3>2
    <3>4. RowWritten(r) = row
      BY <3>1
    <3>5. b.paid + a <= b.original
      BY <1>4, <2>2
    <3>. HIDE DEF a, b, status
    <3>6. b.paid + a \in Nat
      BY <3>3 DEF Bill
    <3>7. row \in Bill
      BY <3>3, <3>6 DEF Bill
    <3>8. /\ row.paid = b.paid + a /\ row.original = b.original
          /\ row.status = status /\ row.accrual = b.accrual
      BY <3>3 DEF Bill
    <3>. HIDE DEF row
    <3>. QED BY <2>2, <3>3, <3>4, <3>5, <3>7, <3>8 DEF a, b, status
  <2>3. CASE tx[r].op = "cancel"
    <3>1. RowWritten(r) = [bill[t] EXCEPT !.status = "CANCELED"]
      BY <2>3 DEF RowWritten
    <3>. HIDE DEF t
    <3>. QED BY <1>2, <1>5, <2>3, <3>1, RowFlagged DEF Status
  <2>4. CASE tx[r].op = "reverse"
    <3>1. RowWritten(r) = bill[t]
      BY <2>4 DEF RowWritten
    <3>. QED BY <1>2, <1>5, <2>4, <3>1
  <2>. QED BY <1>3, <2>1, <2>2, <2>3, <2>4
<1>7. tx[r].op \in {"cancel", "reverse"} => EntryNumbered(tx[r].of).amount \in Nat
  <2>1. SUFFICES ASSUME tx[r].op \in {"cancel", "reverse"}
                 PROVE  EntryNumbered(tx[r].of) \in journal
    BY <1>1 DEF TitleTypeOK, Entry
  <2>. QED BY <1>4, <2>1 DEF EntryNumbered
<1>8. /\ Posted(r) \in Entry /\ Posted(r).number = lastEntry + 1 /\ Posted(r).title = t
      /\ tx[r].op = "settle" =>
           Posted(r).kind = "settlement" /\ Posted(r).amount = tx[r].amount
      /\ tx[r].op # "settle" => Posted(r).kind # "settlement"
  <2>. HIDE DEF t
  <2>0. t = tx[r].title
    BY DEF t
  <2>1. CASE tx[r].op = "create"
    BY <1>2, <1>3, <2>0, <2>1 DEF Posted, Entry, EntryKinds, Tx
  <2>2. CASE tx[r].op = "settle"
    BY <1>2, <1>3, <2>0, <2>2 DEF Posted, Entry, EntryKinds, Tx
  <2>3. CASE tx[r].op \in {"cancel", "reverse"}
    BY <1>2, <1>3, <1>7, <2>0, <2>3 DEF Posted, Entry, EntryKinds, Tx
  <2>. QED BY <1>3, <2>1, <2>2, <2>3
<1>. QED BY <1>2, <1>3, <1>4, <1>6, <1>8

\* The rows and the history after a commit.
LEMMA CommitRows ==
  ASSUME IInv, NEW r \in Requests, Commit(r)
  PROVE  TitleTypeOK' /\ RowsSound' /\ HistorySound'
<1>. DEFINE t == tx[r].title
            paid == [title |-> t, amount |-> tx[r].amount, entry |-> tx[r].entry]
<1>1. TitleTypeOK /\ RowsSound /\ HistorySound
  BY DEF IInv
<1>2. /\ t \in Titles /\ tx[r] \in Tx /\ bill[t] \in Bill
      /\ lastEntry \in Nat /\ tx[r].entry = lastEntry + 1
      /\ tx[r].op \in {"settle", "cancel"} => bill[t].status # "ABSENT"
      /\ tx[r].op \in {"create", "settle", "cancel", "reverse"}
      /\ RowWritten(r) \in Bill /\ RowWritten(r).paid <= RowWritten(r).original
      /\ tx[r].op # "reverse" => RowWritten(r).status # "ABSENT"
      /\ tx[r].op = "reverse" => RowWritten(r) = bill[t]
      /\ RowWritten(r).accrual = IF tx[r].op = "create" THEN tx[r].entry ELSE bill[t].accrual
      /\ Posted(r) \in Entry /\ Posted(r).number = lastEntry + 1
  BY CommitFacts
<1>3. /\ bill' = [bill EXCEPT ![t] = RowWritten(r)] /\ journal' = journal \cup {Posted(r)}
      /\ lastEntry' = tx[r].entry
      /\ settled' = IF tx[r].op = "settle" THEN settled \cup {paid} ELSE settled
      /\ lastDocument' = IF tx[r].op = "create"
                         THEN [lastDocument EXCEPT ![Side(t)] = tx[r].document]
                         ELSE lastDocument
      /\ pc' = [pc EXCEPT ![r] = "done"] /\ tx' = [tx EXCEPT ![r] = NoWork] /\ Unlocked(r)
  BY DEF Commit, EndRequest
<1>4. bill'[t] = RowWritten(r) /\ \A u \in Titles \ {t} : bill'[u] = bill[u]
  BY <1>1, <1>2, <1>3 DEF TitleTypeOK
<1>5. settled' \subseteq Settlement
  <2>1. paid \in Settlement
    BY <1>2 DEF Settlement, Tx
  <2>. QED BY <1>1, <1>3, <2>1 DEF TitleTypeOK
<1>6. TitleTypeOK'
  <2>1. bill' \in [Titles -> Bill] /\ journal' \subseteq Entry /\ lastEntry' \in Nat
    BY <1>1, <1>2, <1>3 DEF TitleTypeOK
  <2>2. lastDocument' \in [Sides -> Nat]
    BY <1>1, <1>2, <1>3 DEF TitleTypeOK, Tx
  <2>3. pc' \in [Requests -> Working \cup {"idle", "done", "failed"}] /\ tx' \in [Requests -> Tx]
    BY <1>1, <1>3, NoWorkFits DEF TitleTypeOK
  <2>. QED BY <1>1, <1>3, <1>5, <2>1, <2>2, <2>3, EndFrees DEF TitleTypeOK
<1>7. RowsSound'
  BY <1>1, <1>2, <1>3, <1>4 DEF RowsSound
<1>8. HistorySound'
  <2>1. IsFiniteSet(settled')
    BY <1>1, <1>3, FS_AddElement DEF HistorySound
  <2>2. \A s \in settled : s.entry \in Nat /\ s.title \in Titles
    BY <1>1 DEF TitleTypeOK, Settlement
  <2>3. ASSUME NEW s \in settled'
        PROVE  s.entry <= lastEntry' /\ bill'[s.title].status # "ABSENT"
    <3>1. CASE s \in settled
      BY <1>1, <1>2, <1>3, <1>4, <2>2, <3>1 DEF HistorySound
    <3>2. CASE s \notin settled
      BY <1>2, <1>3, <1>4, <3>2
    <3>. QED BY <3>1, <3>2
  <2>. QED BY <2>1, <2>3 DEF HistorySound
<1>. QED BY <1>6, <1>7, <1>8

\* A settlement adds its amount to the paid amount, its row to the history and
\* its entry to the journal; no other commit touches any of the three.
LEMMA CommitAgrees ==
  ASSUME IInv, NEW r \in Requests, Commit(r)
  PROVE  SettlementsAgree'
<1>0. PICK t \in Titles : t = tx[r].title
  BY CommitFacts
<1>. DEFINE a == tx[r].amount
            n == tx[r].entry
            row == [title |-> t, amount |-> a, entry |-> n]
            Pairs(rows) == {[number |-> s.entry, amount |-> s.amount] : s \in rows}
            Numbers(rows) == {[number |-> e.number, amount |-> e.amount] : e \in rows}
<1>1. TitleTypeOK /\ HistorySound /\ SettlementsAgree
  BY DEF IInv
<1>2. /\ bill[t] \in Bill /\ lastEntry \in Nat /\ n = lastEntry + 1
      /\ tx[r].op \in {"create", "settle", "cancel", "reverse"}
      /\ Posted(r).number = n /\ Posted(r).title = t
      /\ tx[r].op = "create" => bill[t].status = "ABSENT"
      /\ tx[r].op = "settle" =>
           /\ a \in Amounts /\ bill[t].status # "CANCELED" /\ bill[t].paid + a <= bill[t].original
           /\ Posted(r).kind = "settlement" /\ Posted(r).amount = a
           /\ RowWritten(r).paid = bill[t].paid + a /\ RowWritten(r).original = bill[t].original
           /\ RowWritten(r).status = StatusAfter(bill[t], a)
      /\ tx[r].op # "settle" => Posted(r).kind # "settlement"
  BY <1>0, CommitFacts
<1>3. /\ bill' = [bill EXCEPT ![t] = RowWritten(r)] /\ journal' = journal \cup {Posted(r)}
      /\ settled' = IF tx[r].op = "settle" THEN settled \cup {row} ELSE settled
  BY <1>0 DEF Commit
<1>4. bill'[t] = RowWritten(r) /\ \A u \in Titles \ {t} : bill'[u] = bill[u]
  BY <1>1, <1>2, <1>3 DEF TitleTypeOK
<1>5. a \in Nat /\ (tx[r].op = "settle" => a > 0)
  BY <1>1, <1>2, AmountsAssumption DEF TitleTypeOK, Tx
<1>6. row.title = t /\ row.amount = a /\ row.entry = n
  OBVIOUS
<1>7. ASSUME NEW u \in Titles \ {t}
      PROVE  /\ SettlementsOf(u)' = SettlementsOf(u)
             /\ PostedFor(u, "settlement")' = PostedFor(u, "settlement")
  <2>. HIDE DEF row
  <2>. QED BY <1>2, <1>3, <1>6 DEF SettlementsOf, PostedFor
<1>8. CASE tx[r].op = "settle"
  <2>1. SettlementsOf(t)' = SettlementsOf(t) \cup {row}
    <3>. HIDE DEF row
    <3>. QED BY <1>3, <1>6, <1>8 DEF SettlementsOf
  <2>2. PostedFor(t, "settlement")' = PostedFor(t, "settlement") \cup {Posted(r)}
    BY <1>2, <1>3, <1>8 DEF PostedFor
  <2>3. row \notin SettlementsOf(t) /\ IsFiniteSet(SettlementsOf(t))
    <3>1. IsFiniteSet(SettlementsOf(t))
      BY <1>1, FS_Subset DEF HistorySound, SettlementsOf
    <3>2. \A s \in SettlementsOf(t) : s.entry <= lastEntry
      BY <1>1 DEF HistorySound, SettlementsOf
    <3>. HIDE DEF row
    <3>. QED BY <1>2, <1>6, <3>1, <3>2
  <2>4. \A s \in SettlementsOf(t) \cup {row} : s.amount \in Int
    <3>1. \A s \in SettlementsOf(t) : s.amount \in Nat
      BY <1>1 DEF TitleTypeOK, Settlement, SettlementsOf
    <3>. HIDE DEF row
    <3>. QED BY <1>5, <1>6, <3>1
  <2>5. Total(SettlementsOf(t) \cup {row}) = Total(SettlementsOf(t)) + a
    <3>. HIDE DEF row
    <3>. QED BY <1>6, <2>3, <2>4, AmountsAdded DEF Total, AmountsOf
  <2>6. bill[t].paid = Total(SettlementsOf(t))
        /\ Pairs(SettlementsOf(t)) = Numbers(PostedFor(t, "settlement"))
    BY <1>1, <1>2 DEF SettlementsAgree
  <2>7. Pairs(SettlementsOf(t) \cup {row}) = Numbers(PostedFor(t, "settlement") \cup {Posted(r)})
    <3>1. Pairs(SettlementsOf(t) \cup {row})
            = Pairs(SettlementsOf(t)) \cup {[number |-> n, amount |-> a]}
      <4>. HIDE DEF row
      <4>. QED BY <1>6
    <3>2. Numbers(PostedFor(t, "settlement") \cup {Posted(r)})
            = Numbers(PostedFor(t, "settlement")) \cup {[number |-> n, amount |-> a]}
      BY <1>2, <1>8
    <3>. HIDE DEF Pairs, Numbers
    <3>. QED BY <2>6, <3>1, <3>2
  <2>8. /\ bill'[t].paid = bill[t].paid + a /\ bill'[t].original = bill[t].original
        /\ bill'[t].status = IF bill[t].paid + a >= bill[t].original
                             THEN "PAID" ELSE "PARTIALLY_PAID"
    BY <1>2, <1>4, <1>8 DEF StatusAfter
  <2>9. bill[t].paid \in Nat /\ bill[t].original \in Nat
    BY <1>2 DEF Bill
  <2>10. ASSUME NEW u \in Titles
         PROVE  /\ bill'[u].paid = Total(SettlementsOf(u)')
                /\ Pairs(SettlementsOf(u)') = Numbers(PostedFor(u, "settlement")')
                /\ bill'[u].status = "OPEN" => bill'[u].paid = 0
                /\ bill'[u].status = "PARTIALLY_PAID" =>
                     bill'[u].paid > 0 /\ bill'[u].paid < bill'[u].original
                /\ bill'[u].status = "PAID" => bill'[u].paid = bill'[u].original
    <3>1. CASE u = t
      <4>1. bill'[t].paid = Total(SettlementsOf(t)')
        BY <2>1, <2>5, <2>6, <2>8
      <4>2. Pairs(SettlementsOf(t)') = Numbers(PostedFor(t, "settlement")')
        <5>. HIDE DEF Pairs, Numbers, row
        <5>. QED BY <2>1, <2>2, <2>7
      <4>3. bill'[t].status \in {"PARTIALLY_PAID", "PAID"}
            /\ (bill'[t].status = "PARTIALLY_PAID" =>
                  bill'[t].paid > 0 /\ bill'[t].paid < bill'[t].original)
            /\ (bill'[t].status = "PAID" => bill'[t].paid = bill'[t].original)
        BY <1>2, <1>5, <1>8, <2>8, <2>9
      <4>. HIDE DEF Pairs, Numbers, row
      <4>. QED BY <3>1, <4>1, <4>2, <4>3
    <3>2. CASE u # t
      BY <1>1, <1>4, <1>7, <3>2 DEF SettlementsAgree
    <3>. QED BY <3>1, <3>2
  <2>. QED BY <2>10 DEF SettlementsAgree
<1>9. CASE tx[r].op # "settle"
  <2>1. SettlementsOf(t)' = SettlementsOf(t)
    BY <1>3, <1>9 DEF SettlementsOf
  <2>2. PostedFor(t, "settlement")' = PostedFor(t, "settlement")
    BY <1>2, <1>3, <1>9 DEF PostedFor
  <2>3. CASE tx[r].op = "create"
    <3>1. bill'[t].status = "OPEN" /\ bill'[t].paid = 0
      BY <1>0, <1>4, <2>3 DEF RowWritten
    <3>2. SettlementsOf(t) = {}
      BY <1>1, <1>2, <2>3 DEF HistorySound, SettlementsOf
    <3>3. bill'[t].paid = Total(SettlementsOf(t))
      BY <3>1, <3>2, NoRows DEF Total, AmountsOf
    <3>. QED BY <1>1, <1>2, <1>4, <1>7, <2>1, <2>2, <3>1, <3>3 DEF SettlementsAgree
  <2>4. CASE tx[r].op \in {"cancel", "reverse"}
    <3>1. /\ bill'[t].paid = bill[t].paid /\ bill'[t].original = bill[t].original
          /\ bill'[t].status \in {bill[t].status, "CANCELED"}
      BY <1>0, <1>2, <1>4, <2>4 DEF RowWritten, Bill
    <3>. QED BY <1>1, <1>2, <1>4, <1>7, <2>1, <2>2, <3>1 DEF SettlementsAgree
  <2>. QED BY <1>2, <1>9, <2>3, <2>4
<1>. QED BY <1>8, <1>9

\* The others keep what they found and hold: the row they have guarded is not
\* the one this commit writes, and no other request holds the counter.
LEMMA CommitRequests ==
  ASSUME IInv, NEW r \in Requests, Commit(r)
  PROVE  OneCreator' /\ \A q \in Requests : RequestInv(q)'
<1>. DEFINE t == tx[r].title
<1>1. TitleTypeOK /\ OneCreator /\ \A q \in Requests : RequestInv(q) /\ q # Nobody
  BY NobodyAssumption DEF IInv
<1>2. /\ t \in Titles /\ bill[t] \in Bill /\ entryLock = r
      /\ tx[r].op \in {"create", "settle", "cancel", "reverse"}
      /\ tx[r].op = "create" => bill[t].status = "ABSENT"
      /\ tx[r].op \in {"settle", "cancel"} => bill[t].status # "ABSENT" /\ billLock[t] = r
      /\ tx[r].op # "reverse" => RowWritten(r).status # "ABSENT"
      /\ tx[r].op = "reverse" => RowWritten(r) = bill[t]
  BY CommitFacts
<1>3. /\ bill' = [bill EXCEPT ![t] = RowWritten(r)] /\ journal \subseteq journal'
      /\ pc' = [pc EXCEPT ![r] = "done"] /\ tx' = [tx EXCEPT ![r] = NoWork] /\ Unlocked(r)
  BY DEF Commit, EndRequest
<1>4. bill'[t] = RowWritten(r) /\ \A u \in Titles \ {t} : bill'[u] = bill[u]
  BY <1>1, <1>2, <1>3 DEF TitleTypeOK
<1>5. /\ pc'[r] = "done" /\ tx'[r] = NoWork
      /\ \A q \in Requests \ {r} : pc'[q] = pc[q] /\ tx'[q] = tx[q]
  BY <1>1, <1>3 DEF TitleTypeOK
<1>6. RequestInv(r)'
  BY <1>5, NoWorkFits DEF RequestInv, Fits, Found, Holds, Ended
<1>7. ASSUME NEW q \in Requests \ {r}
      PROVE  RequestInv(q)'
  <2>1. RequestInv(q) /\ pc'[q] = pc[q] /\ tx'[q] = tx[q] /\ q # Nobody /\ tx[q].title \in Titles
    BY <1>1, <1>5 DEF TitleTypeOK, Tx
  <2>2. \A u \in Titles : billLock[u] = q => billLock'[u] = q
    BY <1>1, <1>3, EndFrees
  <2>3. entryLock # q
    BY <1>2
  <2>4. LET u == tx[q].title IN
          \/ bill'[u] = bill[u]
          \/ /\ tx[q].op # "create" /\ (tx[q].op = "settle" => billLock[u] # q)
             /\ bill[u].status # "ABSENT" => bill'[u].status # "ABSENT"
    <3>1. CASE tx[q].title # t \/ tx[r].op = "reverse"
      BY <1>2, <1>4, <2>1, <3>1
    <3>2. CASE tx[q].title = t /\ tx[r].op = "create"
      BY <1>1, <1>2, <1>4, <2>1, <3>2 DEF RequestInv, Found, OneCreator
    <3>3. CASE tx[q].title = t /\ tx[r].op \in {"settle", "cancel"}
      BY <1>2, <1>4, <2>1, <3>3 DEF RequestInv, Found
    <3>. QED BY <1>2, <3>1, <3>2, <3>3
  <2>. QED BY <1>1, <1>3, <2>1, <2>2, <2>3, <2>4, RequestKept
<1>8. OneCreator'
  BY <1>1, <1>5, NoWorkFits DEF OneCreator
<1>. QED BY <1>6, <1>7, <1>8

-----------------------------------------------------------------------------
(* The invariant *)

\* It holds of the open titles the system starts with.
LEMMA InitStrong == TitleInit => IInv
<1>. SUFFICES ASSUME TitleInit PROVE IInv
  OBVIOUS
<1>1. PICK number \in [InitialBills -> 1 .. Cardinality(InitialBills)] :
        /\ bill = [t \in Titles |->
                    IF t \in InitialBills
                    THEN [status |-> "OPEN", original |-> InitialAmount,
                          paid |-> 0, accrual |-> number[t],
                          document |-> Cardinality({u \in InitialBills :
                            Side(u) = Side(t) /\ number[u] <= number[t]})]
                    ELSE Absent]
        /\ journal = {[number |-> number[t], kind |-> "accrual", title |-> t,
                      amount |-> InitialAmount, of |-> 0] : t \in InitialBills}
  BY DEF TitleInit
<1>2. /\ settled = {} /\ lastEntry = Cardinality(InitialBills)
      /\ lastDocument = [s \in Sides |-> Cardinality({t \in InitialBills : Side(t) = s})]
      /\ billLock = [t \in Titles |-> Nobody] /\ entryLock = Nobody
      /\ documentLock = [s \in Sides |-> Nobody]
      /\ pc = [r \in Requests |-> "idle"] /\ tx = [r \in Requests |-> NoWork]
  BY DEF TitleInit
<1>3. InitialBills \subseteq Titles /\ IsFiniteSet(InitialBills) /\ InitialAmount \in Nat
  BY BillsAssumption, AmountsAssumption, FS_Subset
<1>4. \A S \in SUBSET InitialBills : Cardinality(S) \in Nat
  BY <1>3, FS_Subset, FS_CardinalityType
<1>5. \A t \in InitialBills : number[t] \in Nat
  BY <1>4
<1>6. ASSUME NEW t \in InitialBills
      PROVE  /\ bill[t] \in Bill /\ bill[t].status = "OPEN" /\ bill[t].paid = 0
             /\ bill[t].original = InitialAmount /\ bill[t].accrual = number[t]
  <2>. DEFINE d == Cardinality({u \in InitialBills : Side(u) = Side(t) /\ number[u] <= number[t]})
  <2>1. d \in Nat
    BY <1>4
  <2>2. bill[t] = [status |-> "OPEN", original |-> InitialAmount, paid |-> 0,
                   accrual |-> number[t], document |-> d]
    BY <1>1, <1>3
  <2>. HIDE DEF d
  <2>. QED BY <1>3, <1>5, <2>1, <2>2 DEF Bill, Status
<1>7. ASSUME NEW t \in Titles \ InitialBills
      PROVE  /\ bill[t] \in Bill /\ bill[t].status = "ABSENT"
             /\ bill[t].paid = 0 /\ bill[t].original = 0
  <2>1. bill[t] = Absent
    BY <1>1
  <2>. QED BY <2>1 DEF Absent, Bill, Status
<1>8. TitleTypeOK
  <2>1. bill \in [Titles -> Bill]
    <3>1. \A t \in Titles : bill[t] \in Bill
      BY <1>6, <1>7
    <3>2. bill = [t \in Titles |-> bill[t]]
      BY <1>1
    <3>. QED BY <3>1, <3>2
  <2>2. journal \subseteq Entry
    BY <1>1, <1>3, <1>5 DEF Entry, EntryKinds
  <2>3. lastEntry \in Nat /\ lastDocument \in [Sides -> Nat] /\ settled \subseteq Settlement
    BY <1>2, <1>4
  <2>4. /\ billLock \in [Titles -> Requests \cup {Nobody}] /\ entryLock \in Requests \cup {Nobody}
        /\ documentLock \in [Sides -> Requests \cup {Nobody}]
        /\ pc \in [Requests -> Working \cup {"idle", "done", "failed"}]
        /\ tx \in [Requests -> Tx]
    BY <1>2, NoWorkFits
  <2>. QED BY <2>1, <2>2, <2>3, <2>4 DEF TitleTypeOK
<1>9. RowsSound
  <2>1. ASSUME NEW t \in InitialBills
        PROVE  \E e \in journal : e.number = number[t]
    <3>1. [number |-> number[t], kind |-> "accrual", title |-> t,
           amount |-> InitialAmount, of |-> 0] \in journal
      BY <1>1
    <3>. QED BY <3>1
  <2>. QED BY <1>3, <1>6, <1>7, <2>1 DEF RowsSound
<1>10. HistorySound
  BY <1>2, FS_EmptySet DEF HistorySound
<1>11. SettlementsAgree
  <2>1. \A t \in Titles : SettlementsOf(t) = {} /\ PostedFor(t, "settlement") = {}
    BY <1>1, <1>2 DEF SettlementsOf, PostedFor
  <2>2. \A t \in Titles : bill[t].paid = 0 /\ bill[t].status \in {"OPEN", "ABSENT"}
    BY <1>6, <1>7
  <2>3. Total({}) = 0
    BY NoRows DEF Total, AmountsOf
  <2>. QED BY <2>1, <2>2, <2>3 DEF SettlementsAgree
<1>12. OneCreator /\ \A r \in Requests : RequestInv(r)
  BY <1>2, NoWorkFits DEF OneCreator, Ended
<1>. QED BY <1>8, <1>9, <1>10, <1>11, <1>12 DEF IInv

\* And every step keeps it.
LEMMA NextStrong == IInv /\ [TitleNext]_titleVars => IInv'
<1>. SUFFICES ASSUME IInv, [TitleNext]_titleVars PROVE IInv'
  OBVIOUS
<1>1. ASSUME NEW r \in Requests, BeginRequest(r)
      PROVE  IInv'
  BY <1>1, BeginStep
<1>2. ASSUME NEW r \in Requests, Statement(r)
      PROVE  IInv'
  <2>1. CASE Commit(r)
    BY <2>1, CommitRows, CommitAgrees, CommitRequests DEF IInv
  <2>. QED BY <1>2, <2>1, StatementStep DEF Statement
<1>3. ASSUME NEW r \in Requests, Deadlock(r) \/ Abort(r)
      PROVE  IInv'
  BY <1>3, RollbackStep DEF Deadlock, Abort
<1>4. CASE UNCHANGED titleVars
  BY <1>4 DEF titleVars, IInv, TitleTypeOK, RowsSound, HistorySound, SettlementsAgree, SettlementsOf,
     PostedFor, OneCreator, RequestInv, Fits, Found, Holds
<1>. QED BY <1>1, <1>2, <1>3, <1>4 DEF TitleNext

\* In every behaviour a request has found and holds what its place says, titles
\* agree with their settlements, and the counter with what is posted.
THEOREM Strong == TitleSpec => []IInv
BY InitStrong, NextStrong, PTL DEF TitleSpec

\* Every variable keeps its type.
THEOREM TypeCorrect == TitleSpec => []TitleTypeOK
<1>1. IInv => TitleTypeOK
  BY DEF IInv
<1>. QED BY <1>1, Strong, PTL

\* However many payments and receipts run at once, none takes a title beyond its
\* amount: the guarded update holds the row from its check to the commit.
THEOREM NoOverpayment == TitleSpec => []NeverOverpaid
<1>1. IInv => NeverOverpaid
  BY DEF IInv, RowsSound, NeverOverpaid
<1>. QED BY <1>1, Strong, PTL

\* The paid amount of every title is the sum of its settlement rows, each of them
\* has its journal entry, and the status tells how much is paid.
THEOREM SettlementsAddUp == TitleSpec => []SettlementsAgree
<1>1. IInv => SettlementsAgree
  BY DEF IInv
<1>. QED BY <1>1, Strong, PTL

\* A commit leaves a canceled title as it is: a settlement has found it not
\* canceled under the lock it still holds, a creation has found it absent.
THEOREM CanceledStays == TitleSpec => CanceledForever
<1>1. ASSUME IInv, [TitleNext]_titleVars, NEW t \in Titles, bill[t].status = "CANCELED"
      PROVE  bill'[t] = bill[t]
  <2>1. CASE UNCHANGED bill
    BY <2>1
  <2>2. ASSUME NEW r \in Requests, Commit(r)
        PROVE  bill'[t] = bill[t]
    <3>1. /\ tx[r].op \in {"create", "settle", "cancel", "reverse"}
          /\ tx[r].title = t => tx[r].op \in {"cancel", "reverse"}
          /\ bill[t] \in Bill
      BY <1>1, <2>2, CommitFacts DEF IInv, TitleTypeOK
    <3>2. tx[r].title = t => RowWritten(r) =
            IF tx[r].op = "cancel" THEN [bill[tx[r].title] EXCEPT !.status = "CANCELED"]
            ELSE bill[tx[r].title]
      BY <3>1 DEF RowWritten
    <3>. QED BY <1>1, <2>2, <3>1, <3>2 DEF Commit, Bill, IInv, TitleTypeOK
  <2>. QED
    BY <1>1, <2>1, <2>2 DEF TitleNext, BeginRequest, Statement, CreatePayable, CreateReceivable, Create,
       RegisterPayment, RegisterReceipt, SettleTitle, CancelPayable, CancelReceivable, Cancel,
       ReverseEntry, Opens, TakeDocument, GuardedUpdate, FindReversal, PostEntry, FlagCanceled,
       Deadlock, Abort, Rollback, committed, titleVars
<1>2. IInv /\ [TitleNext]_titleVars => [\A t \in Titles : bill[t].status = "CANCELED" => bill'[t] = bill[t]]_bill
  BY <1>1
<1>. QED BY <1>2, Strong, PTL DEF TitleSpec, CanceledForever

=============================================================================

------------------------------- MODULE Titles -------------------------------
(***************************************************************************)
(* Accounts payable and receivable of one organization: titles that are    *)
(* created with an accrual entry, settled by payments or receipts, and      *)
(* canceled with a reversal of the accrual, together with the journal       *)
(* endpoint that reverses any entry.                                        *)
(*                                                                         *)
(* A request is one READ COMMITTED transaction, one action per statement    *)
(* that reads or locks shared rows; the steps of a posting after its number *)
(* are in module Ledger.  Rows a transaction writes stay locked, and its    *)
(* writes private (tx[r].row, tx[r].entry), until Commit or Rollback.       *)
(***************************************************************************)
EXTENDS Integers, FiniteSets, FiniteSetsExt

CONSTANTS
  Payables, Receivables,  \* titles that exist or may be created
  InitialBills,           \* titles open at the start
  Amounts,                \* original, payment and receipt amounts, in cents
  InitialAmount,          \* original amount of the initial bills
  Requests,
  Nobody

Titles == Payables \cup Receivables
Sides == {"accounts_payable", "accounts_receivable"}
Side(t) == IF t \in Payables THEN "accounts_payable" ELSE "accounts_receivable"

ASSUME SidesAssumption == Payables \cap Receivables = {}
ASSUME BillsAssumption ==
  InitialBills \subseteq Titles /\ IsFiniteSet(Titles) /\ Titles # {}
ASSUME AmountsAssumption == Amounts \subseteq Nat \ {0} /\ InitialAmount \in Amounts
ASSUME NobodyAssumption == Nobody \notin Requests

VARIABLES
  bill,                               \* committed row of each title
  settled,                            \* committed payment and receipt rows
  journal,                            \* committed journal entries of titles
  lastEntry, lastDocument,            \* committed sequence counters
  billLock, entryLock, documentLock,  \* who holds each row lock
  pc, tx

titleVars == <<bill, settled, journal, lastEntry, lastDocument,
              billLock, entryLock, documentLock, pc, tx>>
committed == <<bill, settled, journal, lastEntry, lastDocument>>
locks == <<billLock, entryLock, documentLock>>

-----------------------------------------------------------------------------
(* Rows *)

Status == {"ABSENT", "OPEN", "PARTIALLY_PAID", "PAID", "CANCELED"}

Bill == [status: Status, original: Nat, paid: Nat, accrual: Nat, document: Nat]
Absent == [status |-> "ABSENT", original |-> 0, paid |-> 0, accrual |-> 0,
           document |-> 0]

EntryKinds == {"accrual", "settlement", "reversal"}
Entry == [number: Nat, kind: EntryKinds, title: Titles, amount: Nat, of: Nat]
Settlement == [title: Titles, amount: Nat, entry: Nat]

Operations == {"none", "create", "settle", "cancel", "reverse"}

\* What a request carries: its operation, the title and the amount asked for,
\* the entry it reverses, and the numbers it took.
Tx == [op: Operations, title: Titles, amount: Nat, of: Nat,
       entry: Nat, document: Nat]
NoWork == [op |-> "none", title |-> CHOOSE t \in Titles : TRUE, amount |-> 0,
           of |-> 0, entry |-> 0, document |-> 0]

TitleRequest(op, t, amount, of) ==
  [NoWork EXCEPT !.op = op, !.title = t, !.amount = amount, !.of = of]

Waiting == {"document", "guard", "reversal", "entry", "flag"}
Working == Waiting \cup {"commit"}

EntryNumbered(n) == CHOOSE e \in journal : e.number = n

\* Mutant: the row of the title stays locked.
UnlockedButBill(r) ==
  /\ entryLock' = IF entryLock = r THEN Nobody ELSE entryLock
  /\ documentLock' =
       [s \in Sides |-> IF documentLock[s] = r THEN Nobody ELSE documentLock[s]]
  /\ UNCHANGED billLock

\* The end of a transaction frees every row it locked.
Unlocked(r) ==
  /\ billLock' = [t \in Titles |-> IF billLock[t] = r THEN Nobody ELSE billLock[t]]
  /\ entryLock' = IF entryLock = r THEN Nobody ELSE entryLock
  /\ documentLock' =
       [s \in Sides |-> IF documentLock[s] = r THEN Nobody ELSE documentLock[s]]

EndRequest(r, outcome) ==
  /\ pc' = [pc EXCEPT ![r] = outcome]
  /\ tx' = [tx EXCEPT ![r] = NoWork]
  /\ Unlocked(r)

\* Everything the transaction wrote is dropped.
Rollback(r) == EndRequest(r, "failed") /\ UNCHANGED committed

\* The request goes on to its next statement.
Continue(r, place) == pc' = [pc EXCEPT ![r] = place]

\* A handler's opening reads: the request goes on, or is answered with an error.
Opens(r, request, place) ==
  /\ pc[r] = "idle"
  /\ Continue(r, place)
  /\ tx' = [tx EXCEPT ![r] = IF place = "failed" THEN NoWork ELSE request]
  /\ UNCHANGED <<committed, locks>>

-----------------------------------------------------------------------------
(* Handlers *)

\* create(): the counterparty was found to be of the right type; the rest is
\* the two counters, the accrual and the row.
Create(r, t, amount) ==
  /\ bill[t].status = "ABSENT"
  /\ \A q \in Requests : tx[q].op = "create" => tx[q].title # t  \* a new id
  /\ Opens(r, TitleRequest("create", t, amount, 0), "document")

CreatePayable(r) == \E t \in Payables, a \in Amounts : Create(r, t, a)
CreateReceivable(r) == \E t \in Receivables, a \in Amounts : Create(r, t, a)

\* registerPayment(), registerReceipt(): the title is read, then the guarded
\* update decides.
SettleTitle(r, t, amount) ==
  Opens(r, TitleRequest("settle", t, amount, 0),
        IF bill[t].status = "ABSENT" THEN "failed" ELSE "guard")

RegisterPayment(r) == \E t \in Payables, a \in Amounts : SettleTitle(r, t, a)
RegisterReceipt(r) == \E t \in Receivables, a \in Amounts : SettleTitle(r, t, a)

\* cancel(): status and paid amount are checked on the row as read here; the
\* row is written only after the reversal.
Cancel(r, t) ==
  Opens(r, TitleRequest("cancel", t, 0, bill[t].accrual),
        IF bill[t].status \in {"ABSENT", "CANCELED"} \/ bill[t].paid > 0
        THEN "failed" ELSE "reversal")

CancelPayable(r) == \E t \in Payables : Cancel(r, t)
CancelReceivable(r) == \E t \in Receivables : Cancel(r, t)

\* The journal endpoint: any entry that is not a reversal.
ReverseEntry(r) ==
  \E e \in journal :
    Opens(r, TitleRequest("reverse", e.title, 0, e.number),
          IF e.kind = "reversal" THEN "failed" ELSE "reversal")

-----------------------------------------------------------------------------
(* Statements *)

\* The counter of document numbers of this side.
TakeDocument(r) ==
  LET s == Side(tx[r].title)
  IN  /\ pc[r] = "document"
      /\ documentLock[s] = Nobody
      /\ documentLock' = [documentLock EXCEPT ![s] = r]
      /\ tx' = [tx EXCEPT ![r].document = lastDocument[s] + 1]
      /\ Continue(r, "entry")
      /\ UNCHANGED <<committed, billLock, entryLock>>

\* Mutants: balance checked in one statement and the row written in another,
\* and a guard that forgets canceled titles.
GuardedUpdateUnlocked(r) ==
  /\ pc[r] = "guard"
  /\ IF /\ bill[tx[r].title].status # "CANCELED"
        /\ bill[tx[r].title].paid + tx[r].amount <= bill[tx[r].title].original
     THEN Continue(r, "entry") /\ UNCHANGED <<committed, locks, tx>>
     ELSE Rollback(r)

GuardedUpdateOfAny(r) ==
  /\ pc[r] = "guard"
  /\ billLock[tx[r].title] = Nobody
  /\ IF bill[tx[r].title].paid + tx[r].amount <= bill[tx[r].title].original
     THEN /\ billLock' = [billLock EXCEPT ![tx[r].title] = r]
          /\ Continue(r, "entry")
          /\ UNCHANGED <<committed, entryLock, documentLock, tx>>
     ELSE Rollback(r)

\* The guarded UPDATE: waits for the row, then checks it as committed.
GuardedUpdate(r) ==
  LET t == tx[r].title
  IN  /\ pc[r] = "guard"
      /\ billLock[t] = Nobody
      /\ IF /\ bill[t].status # "CANCELED"
            /\ bill[t].paid + tx[r].amount <= bill[t].original
         THEN /\ billLock' = [billLock EXCEPT ![t] = r]
              /\ Continue(r, "entry")
              /\ UNCHANGED <<committed, entryLock, documentLock, tx>>
         ELSE Rollback(r)

\* reverse(): looks for an earlier reversal among the committed entries.
FindReversal(r) ==
  /\ pc[r] = "reversal"
  /\ IF \E e \in journal : e.kind = "reversal" /\ e.of = tx[r].of
     THEN Rollback(r)
     ELSE Continue(r, "entry") /\ UNCHANGED <<committed, locks, tx>>

\* The counter of journal entries, and with it the whole posting.
PostEntry(r) ==
  /\ pc[r] = "entry"
  /\ entryLock = Nobody
  /\ entryLock' = r
  /\ tx' = [tx EXCEPT ![r].entry = lastEntry + 1]
  /\ Continue(r, IF tx[r].op = "cancel" THEN "flag" ELSE "commit")
  /\ UNCHANGED <<committed, billLock, documentLock>>

\* The unconditional UPDATE at the end of cancel().
FlagCanceled(r) ==
  LET t == tx[r].title
  IN  /\ pc[r] = "flag"
      /\ billLock[t] = Nobody
      /\ billLock' = [billLock EXCEPT ![t] = r]
      /\ Continue(r, "commit")
      /\ UNCHANGED <<committed, entryLock, documentLock, tx>>

\* The entry the transaction posted.
Posted(r) ==
  LET t == tx[r].title
  IN  CASE tx[r].op = "create" ->
             [number |-> tx[r].entry, kind |-> "accrual", title |-> t,
              amount |-> tx[r].amount, of |-> 0]
        [] tx[r].op = "settle" ->
             [number |-> tx[r].entry, kind |-> "settlement", title |-> t,
              amount |-> tx[r].amount, of |-> 0]
        [] OTHER ->
             [number |-> tx[r].entry, kind |-> "reversal", title |-> t,
              amount |-> EntryNumbered(tx[r].of).amount, of |-> tx[r].of]

\* Mutant: fully paid only beyond the amount.
StatusAfterStrict(b, amount) ==
  IF b.paid + amount > b.original THEN "PAID" ELSE "PARTIALLY_PAID"

\* The status the guarded update computes.
StatusAfter(b, amount) ==
  IF b.paid + amount >= b.original THEN "PAID" ELSE "PARTIALLY_PAID"

\* Mutant: a payment overwrites the paid amount.
RowOverwritten(r) ==
  LET b == bill[tx[r].title]
      a == tx[r].amount
  IN  CASE tx[r].op = "create" ->
             [status |-> "OPEN", original |-> a, paid |-> 0,
              accrual |-> tx[r].entry, document |-> tx[r].document]
        [] tx[r].op = "settle" ->
             [b EXCEPT !.paid = a, !.status = StatusAfter(b, a)]
        [] tx[r].op = "cancel" -> [b EXCEPT !.status = "CANCELED"]
        [] OTHER -> b

\* The row of the title the transaction wrote.
RowWritten(r) ==
  LET b == bill[tx[r].title]
      a == tx[r].amount
  IN  CASE tx[r].op = "create" ->
             [status |-> "OPEN", original |-> a, paid |-> 0,
              accrual |-> tx[r].entry, document |-> tx[r].document]
        [] tx[r].op = "settle" ->
             [b EXCEPT !.paid = @ + a, !.status = StatusAfter(b, a)]
        [] tx[r].op = "cancel" -> [b EXCEPT !.status = "CANCELED"]
        [] OTHER -> b

Commit(r) ==
  LET t == tx[r].title
  IN  /\ pc[r] = "commit"
      /\ bill' = [bill EXCEPT ![t] = RowWritten(r)]
      /\ journal' = journal \cup {Posted(r)}
      /\ lastEntry' = tx[r].entry
      /\ settled' = IF tx[r].op = "settle"
                    THEN settled \cup {[title |-> t, amount |-> tx[r].amount,
                                        entry |-> tx[r].entry]}
                    ELSE settled
      /\ lastDocument' = IF tx[r].op = "create"
                         THEN [lastDocument EXCEPT ![Side(t)] = tx[r].document]
                         ELSE lastDocument
      /\ EndRequest(r, "done")

-----------------------------------------------------------------------------
(* Failures *)

\* Whose row a request waits for.
WaitsFor(r) ==
  CASE pc[r] \in {"guard", "flag"} -> billLock[tx[r].title]
    [] pc[r] = "entry"             -> entryLock
    [] pc[r] = "document"          -> documentLock[Side(tx[r].title)]
    [] OTHER                       -> Nobody

\* Postgres aborts one of two transactions that wait for each other.  Longer
\* cycles need two shared counters waited for in both orders; there is one.
Deadlock(r) ==
  /\ WaitsFor(r) # Nobody
  /\ WaitsFor(WaitsFor(r)) = r
  /\ Rollback(r)

\* A later error, the transaction timeout, a lost connection, a crash.
Abort(r) == pc[r] \in Working /\ Rollback(r)

-----------------------------------------------------------------------------

TitleInit ==
  /\ \E number \in [InitialBills -> 1 .. Cardinality(InitialBills)] :
       /\ \A t, u \in InitialBills : number[t] = number[u] => t = u
       /\ bill = [t \in Titles |->
                    IF t \in InitialBills
                    THEN [status |-> "OPEN", original |-> InitialAmount,
                          paid |-> 0, accrual |-> number[t],
                          document |-> Cardinality({u \in InitialBills :
                            Side(u) = Side(t) /\ number[u] <= number[t]})]
                    ELSE Absent]
       /\ journal = {[number |-> number[t], kind |-> "accrual", title |-> t,
                      amount |-> InitialAmount, of |-> 0] : t \in InitialBills}
  /\ settled = {}
  /\ lastEntry = Cardinality(InitialBills)
  /\ lastDocument = [s \in Sides |-> Cardinality({t \in InitialBills : Side(t) = s})]
  /\ billLock = [t \in Titles |-> Nobody]
  /\ entryLock = Nobody
  /\ documentLock = [s \in Sides |-> Nobody]
  /\ pc = [r \in Requests |-> "idle"]
  /\ tx = [r \in Requests |-> NoWork]

BeginRequest(r) ==
  \/ CreatePayable(r) \/ CreateReceivable(r)
  \/ RegisterPayment(r) \/ RegisterReceipt(r)
  \/ CancelPayable(r) \/ CancelReceivable(r)
  \/ ReverseEntry(r)

Statement(r) ==
  \/ TakeDocument(r) \/ GuardedUpdate(r) \/ FindReversal(r)
  \/ PostEntry(r) \/ FlagCanceled(r) \/ Commit(r)

TitleNext == \E r \in Requests : BeginRequest(r) \/ Statement(r) \/ Deadlock(r) \/ Abort(r)

TitleSpec == TitleInit /\ [][TitleNext]_titleVars

\* Postgres runs every statement that can run and its deadlock detector breaks
\* every cycle; aborts for other reasons are not promised.
FairTitleSpec ==
  TitleSpec /\ \A r \in Requests : WF_titleVars(Statement(r)) /\ WF_titleVars(Deadlock(r))

-----------------------------------------------------------------------------
(* Properties *)

\* Every variable keeps its type.
TitleTypeOK ==
  /\ bill \in [Titles -> Bill]
  /\ settled \subseteq Settlement
  /\ journal \subseteq Entry
  /\ lastEntry \in Nat /\ lastDocument \in [Sides -> Nat]
  /\ billLock \in [Titles -> Requests \cup {Nobody}]
  /\ entryLock \in Requests \cup {Nobody}
  /\ documentLock \in [Sides -> Requests \cup {Nobody}]
  /\ pc \in [Requests -> Working \cup {"idle", "done", "failed"}]
  /\ tx \in [Requests -> Tx]

SettlementsOf(t) == {s \in settled : s.title = t}
PostedFor(t, kind) == {e \in journal : e.title = t /\ e.kind = kind}
Total(rows) == MapThenSumSet(LAMBDA x : x.amount, rows)

\* "Evita overpayment": however many payments run at once, a title is never
\* settled beyond its amount.  (With the types.)
NeverOverpaid ==
  /\ TitleTypeOK
  /\ \A t \in Titles : bill[t].paid <= bill[t].original

\* The paid amount of a title is the sum of its payment rows, each of them has
\* its settlement entry in the journal, with the same amount, and the status of
\* a title that is not canceled says how much of it is paid.
SettlementsAgree ==
  \A t \in Titles :
    /\ bill[t].paid = Total(SettlementsOf(t))
    /\ {[number |-> s.entry, amount |-> s.amount] : s \in SettlementsOf(t)} =
         {[number |-> e.number, amount |-> e.amount] :
            e \in PostedFor(t, "settlement")}
    /\ bill[t].status = "OPEN" => bill[t].paid = 0
    /\ bill[t].status = "PARTIALLY_PAID" =>
         bill[t].paid > 0 /\ bill[t].paid < bill[t].original
    /\ bill[t].status = "PAID" => bill[t].paid = bill[t].original

\* Once canceled, a title stays canceled and is settled no further.
CanceledForever ==
  [][\A t \in Titles : bill[t].status = "CANCELED" => bill'[t] = bill[t]]_bill

\* Payments and cancellations lock in opposite orders and may deadlock, yet
\* every request ends.
EveryRequestEnds ==
  \A r \in Requests : pc[r] \in Working ~> pc[r] \in {"done", "failed"}

=============================================================================

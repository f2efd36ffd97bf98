------------------------------- MODULE Ledger -------------------------------
(***************************************************************************)
(* The general journal of one database shared by several organizations:    *)
(* JournalEntriesService, AccountsService and the Postgres triggers of the *)
(* rls_and_triggers migration.                                             *)
(*                                                                         *)
(* A request is one READ COMMITTED transaction (TenancyInterceptor): each  *)
(* of its statements reads the committed state, what it writes is private  *)
(* (the record tx[r]) until Commit publishes it in one step, and a rollback *)
(* drops it.  The only row two postings both write is the counter row of   *)
(* their organization; its lock (owner) is held to the end of the          *)
(* transaction.                                                            *)
(*                                                                         *)
(* Amounts are thousandths of the currency unit: the HTTP DTO allows cents *)
(* only, but the services that post by calling create() do not round.      *)
(***************************************************************************)
EXTENDS Integers, Sequences, FiniteSets, Functions

CONSTANTS
  Orgs,            \* organizations (tenants)
  LedgerAccounts,  \* accounts that exist or may be created
  OrgOf,           \* the organization of each account
  ParentOf,        \* the parent of each account, or NoAccount
  InitialRows,     \* accounts that exist at the start
  Requests,        \* requests of the run, each one transaction
  LineLists,       \* the line lists that callers pass to create()
  MaxBatch,        \* entries one transaction may post
  NoRequest, NoAccount

Directions == {"DEBIT", "CREDIT"}
LedgerLine == [account: LedgerAccounts, direction: Directions, amount: Nat]

ASSUME SomeOrgAssumption == Orgs # {}
ASSUME OrgsAssumption == OrgOf \in [LedgerAccounts -> Orgs]
ASSUME ParentAssumption == ParentOf \in [LedgerAccounts -> LedgerAccounts \cup {NoAccount}]
ASSUME RowsAssumption ==
  /\ InitialRows \subseteq LedgerAccounts
  /\ \A a \in InitialRows : ParentOf[a] \in InitialRows \cup {NoAccount}
ASSUME LineListsAssumption == LineLists \subseteq Seq(LedgerLine)
ASSUME BatchAssumption == MaxBatch \in Nat \ {0}
ASSUME NoneAssumption == NoRequest \notin Requests /\ NoAccount \notin LedgerAccounts

VARIABLES
  rows, analytic, active,  \* committed accounts, those is_analytic, is_active
  counter,                 \* committed sequence_counters row of each org
  ledger,                  \* committed journal entries with their lines
  owner,                   \* who holds the lock of each org's counter row
  pc,                      \* how far each request is
  tx                       \* the uncommitted work of each request

vars == <<rows, analytic, active, counter, ledger, owner, pc, tx>>
accountVars == <<rows, analytic, active>>
books == <<counter, ledger>>

-----------------------------------------------------------------------------
(* Amounts and balance *)

\* numeric(18,2): the column rounds half away from zero.
ColumnRounded(a) == 10 * ((a + 5) \div 10)

SignedAmount(l) == IF l.direction = "DEBIT" THEN l.amount ELSE -l.amount

Difference(lines) == SumFunction([i \in DOMAIN lines |-> SignedAmount(lines[i])])

BothDirections(lines) ==
  \A d \in Directions : \E i \in DOMAIN lines : lines[i].direction = d

\* validateBalance: tolerates half a cent, before the columns round.
ValidateBalance(lines) ==
  /\ BothDirections(lines)
  /\ Difference(lines) \in -5 .. 5

\* fn_check_journal_entry_balanced: exact, over the rounded columns.
BalancedInDatabase(lines) ==
  /\ Difference(lines) = 0
  /\ BothDirections(lines)

Opposite(d) == IF d = "DEBIT" THEN "CREDIT" ELSE "DEBIT"

Swapped(lines) ==
  [i \in DOMAIN lines |-> [lines[i] EXCEPT !.direction = Opposite(@)]]

-----------------------------------------------------------------------------
(* Requests *)

Entry == [org: Orgs, number: Nat, of: Nat, lines: Seq(LedgerLine)]

Working == {"number", "header", "lines"}
Locking == {"header", "lines"}

\* A transaction of organization o that is to write the lines d.
Fresh(o, d, of) == [org |-> o, draft |-> d, of |-> of, value |-> 0,
                    lines |-> <<>>, written |-> {}]

\* What is left of a transaction that ended, or has not begun.
NoWork == Fresh(CHOOSE o \in Orgs : TRUE, <<>>, 0)

\* The entry the request is writing.
Current(r) == [org |-> tx[r].org, number |-> tx[r].value,
               of |-> tx[r].of, lines |-> tx[r].lines]

OfOrg(o) == {e \in ledger : e.org = o}

AllLinesStored(r) ==
  /\ pc[r] = "lines"
  /\ Len(tx[r].lines) = Len(tx[r].draft)

\* fn_journal_entry_lines_validate, reading the accounts as committed.
Postable(a, o) ==
  /\ a \in rows /\ OrgOf[a] = o
  /\ a \in analytic
  /\ a \in active

\* Mutant: a rollback that keeps the number (a Postgres SEQUENCE would).
RollbackKeepsNumber(r) ==
  /\ pc' = [pc EXCEPT ![r] = "failed"]
  /\ tx' = [tx EXCEPT ![r] = NoWork]
  /\ owner' = [o \in Orgs |-> IF owner[o] = r THEN NoRequest ELSE owner[o]]
  /\ counter' = [o \in Orgs |->
                   IF owner[o] = r THEN tx[r].value ELSE counter[o]]
  /\ UNCHANGED <<accountVars, ledger>>

\* The transaction ends without effect and frees the counter row.
Rollback(r) ==
  /\ pc' = [pc EXCEPT ![r] = "failed"]
  /\ tx' = [tx EXCEPT ![r] = NoWork]
  /\ owner' = [o \in Orgs |-> IF owner[o] = r THEN NoRequest ELSE owner[o]]
  /\ UNCHANGED <<accountVars, books>>

-----------------------------------------------------------------------------
(* Posting *)

Init ==
  /\ rows = InitialRows
  /\ analytic = {a \in InitialRows : \A b \in InitialRows : ParentOf[b] # a}
  /\ active = InitialRows
  /\ counter = [o \in Orgs |-> 0]
  /\ ledger = {}
  /\ owner = [o \in Orgs |-> NoRequest]
  /\ pc = [r \in Requests |-> "idle"]
  /\ tx = [r \in Requests |-> NoWork]

\* create(): a caller's lines pass validateBalance, or the request ends.
BeginPosting(r, o, d) ==
  /\ pc[r] = "idle"
  /\ pc' = [pc EXCEPT ![r] = IF ValidateBalance(d) THEN "number" ELSE "failed"]
  /\ tx' = [tx EXCEPT ![r] = Fresh(o, d, 0)]
  /\ UNCHANGED <<accountVars, books, owner>>

\* Mutant: a reversal may itself be reversed.
BeginReversalOfAny(r, original) ==
  /\ pc[r] = "idle"
  /\ LET refused == \E e \in OfOrg(original.org) : e.of = original.number
     IN  pc' = [pc EXCEPT ![r] = IF refused THEN "failed" ELSE "number"]
  /\ tx' = [tx EXCEPT ![r] = Fresh(original.org, Swapped(original.lines),
                                     original.number)]
  /\ UNCHANGED <<accountVars, books, owner>>

\* reverse(): reads the original and looks for an earlier reversal, both as
\* committed now; the number is taken only afterwards.
BeginReversal(r, original) ==
  /\ pc[r] = "idle"
  /\ LET refused == \/ original.of # 0
                    \/ \E e \in OfOrg(original.org) : e.of = original.number
     IN  pc' = [pc EXCEPT ![r] = IF refused THEN "failed" ELSE "number"]
  /\ tx' = [tx EXCEPT ![r] = Fresh(original.org, Swapped(original.lines),
                                     original.number)]
  /\ UNCHANGED <<accountVars, books, owner>>

\* The counter upsert: waits for the row, then increments what is committed,
\* or the value this same transaction already wrote.
TakeNumber(r) ==
  LET o == tx[r].org
  IN  /\ pc[r] = "number"
      /\ owner[o] \in {NoRequest, r}
      /\ owner' = [owner EXCEPT ![o] = r]
      /\ tx' = [tx EXCEPT ![r].value =
                  IF owner[o] = r THEN @ + 1 ELSE counter[o] + 1]
      /\ pc' = [pc EXCEPT ![r] = "header"]
      /\ UNCHANGED <<accountVars, books>>

\* The header row, under the unique index on (organization, entry_number).
InsertHeader(r) ==
  /\ pc[r] = "header"
  /\ IF \E e \in OfOrg(tx[r].org) \cup tx[r].written : e.number = tx[r].value
     THEN Rollback(r)
     ELSE /\ pc' = [pc EXCEPT ![r] = "lines"]
          /\ UNCHANGED <<accountVars, books, owner, tx>>

\* One line; the BEFORE INSERT trigger sees the amount already rounded.
InsertLine(r) ==
  /\ pc[r] = "lines"
  /\ ~AllLinesStored(r)
  /\ LET line   == tx[r].draft[Len(tx[r].lines) + 1]
         stored == [line EXCEPT !.amount = ColumnRounded(@)]
     IN  IF Postable(line.account, tx[r].org) /\ stored.amount > 0
         THEN /\ tx' = [tx EXCEPT ![r].lines = Append(@, stored)]
              /\ UNCHANGED <<accountVars, books, owner, pc>>
         ELSE Rollback(r)

\* The handler posts another entry in the same transaction (the depreciation
\* of several assets, a period's provisions); no handler does so after a
\* reversal.
PostAnother(r, d) ==
  /\ AllLinesStored(r)
  /\ tx[r].of = 0
  /\ Cardinality(tx[r].written) + 1 < MaxBatch
  /\ IF ValidateBalance(d)
     THEN /\ tx' = [tx EXCEPT ![r].written = @ \cup {Current(r)},
                              ![r].draft = d, ![r].lines = <<>>, ![r].of = 0]
          /\ pc' = [pc EXCEPT ![r] = "number"]
          /\ UNCHANGED <<accountVars, books, owner>>
     ELSE Rollback(r)

\* Mutant: no deferred balance trigger.
CommitUnchecked(r) ==
  /\ AllLinesStored(r)
  /\ ledger' = ledger \cup tx[r].written \cup {Current(r)}
  /\ counter' = [counter EXCEPT ![tx[r].org] = tx[r].value]
  /\ owner' = [owner EXCEPT ![tx[r].org] = NoRequest]
  /\ pc' = [pc EXCEPT ![r] = "done"]
  /\ tx' = [tx EXCEPT ![r] = NoWork]
  /\ UNCHANGED accountVars

\* COMMIT runs the deferred balance trigger over every entry it wrote.
Commit(r) ==
  LET o     == tx[r].org
      batch == tx[r].written \cup {Current(r)}
  IN  /\ AllLinesStored(r)
      /\ IF \A e \in batch : BalancedInDatabase(e.lines)
         THEN /\ ledger' = ledger \cup batch
              /\ counter' = [counter EXCEPT ![o] = tx[r].value]
              /\ owner' = [owner EXCEPT ![o] = NoRequest]
              /\ pc' = [pc EXCEPT ![r] = "done"]
              /\ tx' = [tx EXCEPT ![r] = NoWork]
              /\ UNCHANGED accountVars
         ELSE Rollback(r)

\* A later error in the handler, the transaction timeout, a lost connection
\* or a crash of the API.
Abort(r) ==
  /\ pc[r] \in Working
  /\ Rollback(r)

-----------------------------------------------------------------------------
(* The chart of accounts: one write statement and its trigger, then commit *)

\* Mutants: no trigger on accounts; an update of an account nobody created.
CreateAccountNoTrigger(a) ==
  /\ a \notin rows
  /\ ParentOf[a] # NoAccount =>
       ParentOf[a] \in rows /\ OrgOf[ParentOf[a]] = OrgOf[a]
  /\ rows' = rows \cup {a}
  /\ active' = active \cup {a}
  /\ analytic' = analytic \cup {a}
  /\ UNCHANGED <<books, owner, pc, tx>>

UpdateAnyAccount(a, isActive) ==
  /\ active' = IF isActive THEN active \cup {a} ELSE active \ {a}
  /\ UNCHANGED <<rows, analytic, books, owner, pc, tx>>

\* create(): a child makes its parent synthetic.
CreateAccount(a) ==
  /\ a \notin rows
  /\ ParentOf[a] # NoAccount =>
       ParentOf[a] \in rows /\ OrgOf[ParentOf[a]] = OrgOf[a]
  /\ rows' = rows \cup {a}
  /\ active' = active \cup {a}
  /\ analytic' = (analytic \cup {a}) \ {ParentOf[a]}
  /\ UNCHANGED <<books, owner, pc, tx>>

\* update(): is_active is the only field the journal reads.
UpdateAccount(a, isActive) ==
  /\ a \in rows
  /\ active' = IF isActive THEN active \cup {a} ELSE active \ {a}
  /\ UNCHANGED <<rows, analytic, books, owner, pc, tx>>

-----------------------------------------------------------------------------

Statement(r) ==
  \/ TakeNumber(r)
  \/ InsertHeader(r)
  \/ InsertLine(r)
  \/ Commit(r)

Begin(r) ==
  \/ \E o \in Orgs, d \in LineLists : BeginPosting(r, o, d)
  \/ \E original \in ledger : BeginReversal(r, original)

Next ==
  \/ \E r \in Requests :
       \/ Begin(r)
       \/ Statement(r)
       \/ \E d \in LineLists : PostAnother(r, d)
       \/ Abort(r)
  \/ \E a \in LedgerAccounts :
       \/ CreateAccount(a)
       \/ \E isActive \in BOOLEAN : UpdateAccount(a, isActive)

Spec == Init /\ [][Next]_vars

-----------------------------------------------------------------------------
(* The journal as the log its readers rely on *)

EntryNumbered(o, n) == CHOOSE e \in OfOrg(o) : e.number = n

\* Entries 1..counter of organization o, without the private fields.
LogOf(o) == [n \in 1 .. counter[o] |->
               [of |-> EntryNumbered(o, n).of, lines |-> EntryNumbered(o, n).lines]]

Log == INSTANCE LedgerLog WITH log <- [o \in Orgs |-> LogOf(o)],
                               Balanced <- BalancedInDatabase,
                               Mirror <- Swapped

-----------------------------------------------------------------------------
(* Properties *)

Tx == [org: Orgs, draft: Seq(LedgerLine), of: Nat, value: Nat,
       lines: Seq(LedgerLine), written: SUBSET Entry]

\* Every variable keeps its type.
TypeOK ==
  /\ rows \subseteq LedgerAccounts /\ analytic \subseteq rows /\ active \subseteq rows
  /\ counter \in [Orgs -> Nat]
  /\ ledger \subseteq Entry
  /\ owner \in [Orgs -> Requests \cup {NoRequest}]
  /\ pc \in [Requests -> Working \cup {"idle", "done", "failed"}]
  /\ tx \in [Requests -> Tx]

\* "Numeração realmente sem buracos": the committed entries of an organization
\* carry exactly the numbers 1..counter, each once, whatever was rolled back.
GapFreeNumbering ==
  \A o \in Orgs :
    /\ {e.number : e \in OfOrg(o)} = 1 .. counter[o]
    /\ \A e, f \in OfOrg(o) : e.number = f.number => e = f

\* Each counter row is locked only by a request of that organization: one
\* tenant's postings never wait for another's.
ContentionStaysInOrg ==
  \A o \in Orgs :
    owner[o] # NoRequest =>
      /\ tx[owner[o]].org = o
      /\ pc[owner[o]] \in Working

\* What is committed balances to the cent, although the application check
\* accepts half a cent and the columns round each line on their own.
CommittedEntriesBalance ==
  \A e \in ledger : BalancedInDatabase(e.lines)

\* A reversal undoes, line by line, an earlier entry that is not itself a
\* reversal.
ReversalMirrorsOriginal ==
  \A e \in ledger :
    e.of # 0 =>
      \E original \in OfOrg(e.org) :
        /\ original.number = e.of
        /\ original.number < e.number
        /\ original.of = 0
        /\ e.lines = Swapped(original.lines)

\* "Só folha recebe lançamento": is_analytic says who has no child.  (With the
\* types.)
AnalyticIsLeaf ==
  /\ TypeOK
  /\ analytic = {a \in rows : \A b \in rows : ParentOf[b] # a}

\* "Este lançamento já foi estornado": an entry has at most one reversal.
ReversedAtMostOnce ==
  \A e, f \in ledger :
    e.org = f.org /\ e.of = f.of /\ e.of # 0 => e = f

(* What the invariants above rest on: the parts of an inductive invariant *)

\* The lines stored so far are the first lines of the draft, rounded.
StoredPrefix ==
  \A r \in Requests :
    /\ Len(tx[r].lines) <= Len(tx[r].draft)
    /\ \A i \in 1 .. Len(tx[r].lines) :
         tx[r].lines[i] = [tx[r].draft[i] EXCEPT !.amount = ColumnRounded(@)]

\* Who has a number holds the counter row it came from.
NumberedHoldsRow ==
  \A r \in Requests : pc[r] \in Locking => owner[tx[r].org] = r

\* The last number whose entry request r has finished writing.
Top(r) == IF pc[r] \in Locking THEN tx[r].value - 1 ELSE tx[r].value

\* Uncommitted entries carry, once each, the numbers that follow the committed
\* counter; only the holder of the row has any.
WrittenFollowCounter ==
  \A r \in Requests :
    LET o == tx[r].org
    IN  /\ \A e \in tx[r].written : e.org = o /\ e.of = 0
        /\ \A e, f \in tx[r].written : e.number = f.number => e = f
        /\ owner[o] # r => tx[r].written = {}
        /\ owner[o] = r =>
             /\ Top(r) >= counter[o]
             /\ \A e \in tx[r].written : e.number \in counter[o] + 1 .. Top(r)
             /\ \A n \in counter[o] + 1 .. Top(r) :
                  \E e \in tx[r].written : e.number = n

WholeCents(lines) ==
  \A i \in 1 .. Len(lines) : ColumnRounded(lines[i].amount) = lines[i].amount

\* Every stored amount is a whole number of cents.
StoredInCents ==
  /\ \A e \in ledger : WholeCents(e.lines)
  /\ \A r \in Requests : \A e \in tx[r].written : WholeCents(e.lines)

\* A request that reverses is writing the mirror image of a committed entry.
PendingMirrorsOriginal ==
  \A r \in Requests :
    tx[r].of # 0 /\ pc[r] \in Working =>
      \E original \in OfOrg(tx[r].org) :
        /\ original.number = tx[r].of
        /\ original.of = 0
        /\ tx[r].draft = Swapped(original.lines)

\* The inductive invariant.
IInv ==
  /\ TypeOK /\ StoredPrefix
  /\ NumberedHoldsRow /\ ContentionStaysInOrg
  /\ WrittenFollowCounter /\ GapFreeNumbering
  /\ CommittedEntriesBalance
  /\ StoredInCents /\ PendingMirrorsOriginal /\ ReversalMirrorsOriginal

\* The journal implements LedgerLog: every commit appends to the log of one
\* organization, in the order of the entry numbers, and changes nothing else.
RefinesLedgerLog == Log!Spec
=============================================================================

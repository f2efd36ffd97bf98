------------------------- MODULE BankReconciliation -------------------------
(***************************************************************************)
(* The reconciliation of one bank account: BankReconciliationService.      *)
(*                                                                         *)
(* An import creates a reconciliation with the lines of a statement, each   *)
(* matched with a journal line where one fits; what is left is matched by   *)
(* hand, adjusted by a new journal entry, or ignored, until the             *)
(* reconciliation is closed or removed.  Every handler reads, checks what   *)
(* it read, and ends with writes that have no condition; those are one step *)
(* with the commit.  Amounts are signed: positive is a debit of the bank's  *)
(* ledger account and a credit on its statement.                            *)
(***************************************************************************)
EXTENDS Integers, Sequences, FiniteSets, FiniteSetsExt, Functions

CONSTANTS
  Statements,     \* statements that may be uploaded
  File,           \* of each: its period (from, to), its closing balance and
                  \* its lines in order, each an amount and a date
  Postings,       \* journal lines other modules may post to the account
  PostingOf,      \* amount and date of each
  Window,         \* days between a statement line and an automatic match
  BankRequests,
  MaxBankOverlapping,  \* bound: requests begun, once some of them overlap
  None

ASSUME BankAssumption ==
  /\ File \in [Statements -> [from : Nat, to : Nat, closing : Int,
                              lines : Seq([amount : Int, date : Nat])]]
  /\ PostingOf \in [Postings -> [amount : Int, date : Nat]]
  /\ Window \in Nat /\ MaxBankOverlapping \in Nat
  /\ None \notin BankRequests \cup Postings

VARIABLES
  statementStatus,   \* of each reconciliation
  rows,     \* the committed statement lines of each: <<>> when it has none
  ledger,   \* journal lines of the account: an id, its amount, date and, for an
            \* adjustment, the statement line it was made for
  bankPc, bankTx,
  bankOverlapped  \* history: something once began while a request was in progress

bankCommitted == <<statementStatus, rows, ledger>>
bankVars == <<bankCommitted, bankPc, bankTx, bankOverlapped>>

-----------------------------------------------------------------------------
(* Rows and requests *)

StatementStatus == {"ABSENT", "OPEN", "CLOSED", "REMOVED"}
LineStatus == {"PENDING", "MATCHED", "IGNORED", "ADJUSTED"}
StatementExists(s) == statementStatus[s] \in {"OPEN", "CLOSED"}

Ids == Postings \cup BankRequests
StatementLines == UNION {{s} \X DOMAIN File[s].lines : s \in Statements}
Row == [status : LineStatus, match : Ids \cup {None}]
Pending == [status |-> "PENDING", match |-> None]
JournalLine == [id : Ids, amount : Int, date : Nat, for : StatementLines \cup {<<>>}]

AmountOf(line) == File[line[1]].lines[line[2]].amount
DateOf(line) == File[line[1]].lines[line[2]].date
RowOf(line) == rows[line[1]][line[2]]
HasRow(line) == line[2] \in DOMAIN rows[line[1]]

\* The journal lines committed statement lines are matched with.
Matched ==
  (UNION {{rows[s][n].match : n \in DOMAIN rows[s]} : s \in Statements}) \ {None}

\* row: what a handler writes on one line; chosen: the matches of an import.
BankWork == [op : {"none", "import", "line", "adjust", "close", "remove"},
             statement : Statements \cup {None}, line : Nat, row : Row,
             chosen : Seq(Ids \cup {None})]
NoBankWork == [op |-> "none", statement |-> None, line |-> 0, row |-> Pending,
               chosen |-> <<>>]

BankWorking == {"match", "balance", "write"}
BankInProgress == {r \in BankRequests : bankPc[r] \in BankWorking}
BankBegun == {r \in BankRequests : bankPc[r] # "idle"}

\* Any request may begin at any time, up to the bound.
MayBeginBank(r) ==
  /\ bankPc[r] = "idle"
  /\ bankOverlapped \/ BankInProgress # {} =>
       Cardinality(BankBegun) < MaxBankOverlapping

BankBegins(r, refused, place, work) ==
  /\ MayBeginBank(r)
  /\ bankPc' = [bankPc EXCEPT ![r] = IF refused THEN "failed" ELSE place]
  /\ bankTx' = [bankTx EXCEPT ![r] = IF refused THEN NoBankWork ELSE work]
  /\ bankOverlapped' = (bankOverlapped \/ BankInProgress # {})
  /\ UNCHANGED bankCommitted

BankEnds(r, outcome) ==
  /\ bankPc' = [bankPc EXCEPT ![r] = outcome]
  /\ bankTx' = [bankTx EXCEPT ![r] = NoBankWork]
  /\ UNCHANGED bankOverlapped

BankRollback(r) == BankEnds(r, "failed") /\ UNCHANGED bankCommitted

-----------------------------------------------------------------------------
(* importStatement() *)

Overlaps(s, t) == File[s].from <= File[t].to /\ File[t].from <= File[s].to

BeginImport(r, s) ==
  /\ statementStatus[s] = "ABSENT"
  /\ \A q \in BankRequests \ {r} : bankTx[q].op = "import" => bankTx[q].statement # s
  /\ BankBegins(r, \E t \in Statements : StatementExists(t) /\ Overlaps(s, t), "match",
                [NoBankWork EXCEPT !.op = "import", !.statement = s])

Distance(line, j) ==
  IF j.date >= DateOf(line) THEN j.date - DateOf(line) ELSE DateOf(line) - j.date

\* Journal lines that fit a statement line and are matched with none.
Candidates(line, taken) ==
  {j \in ledger : /\ j.amount = AmountOf(line)
                  /\ Distance(line, j) <= Window
                  /\ j.id \notin Matched \cup taken}

Nearest(line, taken) ==
  {j \in Candidates(line, taken) :
     \A k \in Candidates(line, taken) : Distance(line, j) <= Distance(line, k)}

\* The next line of the file takes one of the nearest candidates this import
\* has not taken.
MatchNext(r) ==
  LET s     == bankTx[r].statement
      line  == <<s, Len(bankTx[r].chosen) + 1>>
      near  == Nearest(line, Range(bankTx[r].chosen))
  IN  /\ bankPc[r] = "match"
      /\ Len(bankTx[r].chosen) < Len(File[s].lines)
      /\ \E id \in IF near = {} THEN {None} ELSE {j.id : j \in near} :
           bankTx' = [bankTx EXCEPT ![r].chosen = Append(@, id)]
      /\ UNCHANGED <<bankCommitted, bankPc, bankOverlapped>>

\* Mutant: no unique index on the matched journal line.
CommitImportUnindexed(r) ==
  LET s == bankTx[r].statement
  IN  /\ bankPc[r] = "match"
      /\ Len(bankTx[r].chosen) = Len(File[s].lines)
      /\ statementStatus' = [statementStatus EXCEPT ![s] = "OPEN"]
      /\ rows' = [rows EXCEPT ![s] =
           [n \in DOMAIN bankTx[r].chosen |->
              IF bankTx[r].chosen[n] = None THEN Pending
              ELSE [status |-> "MATCHED", match |-> bankTx[r].chosen[n]]]]
      /\ BankEnds(r, "done")
      /\ UNCHANGED ledger

\* The rows are committed, unless another request matched one of the chosen
\* journal lines since: the unique index refuses it.
CommitImport(r) ==
  LET s == bankTx[r].statement
  IN  /\ bankPc[r] = "match"
      /\ Len(bankTx[r].chosen) = Len(File[s].lines)
      /\ IF Range(bankTx[r].chosen) \cap Matched # {}
         THEN BankRollback(r)
         ELSE /\ statementStatus' = [statementStatus EXCEPT ![s] = "OPEN"]
              /\ rows' = [rows EXCEPT ![s] =
                   [n \in DOMAIN bankTx[r].chosen |->
                      IF bankTx[r].chosen[n] = None THEN Pending
                      ELSE [status |-> "MATCHED", match |-> bankTx[r].chosen[n]]]]
              /\ BankEnds(r, "done")
              /\ UNCHANGED ledger

-----------------------------------------------------------------------------
(* Handlers on one line: assertOpen and the status of the line, then a write *)

OnLine(r, line, allowed, op, row) ==
  BankBegins(r, statementStatus[line[1]] # "OPEN" \/ RowOf(line).status \notin allowed, "write",
             [NoBankWork EXCEPT !.op = op, !.statement = line[1], !.line = line[2],
                                !.row = row])

\* The journal line has the amount and the direction, and no match yet.
ManualMatch(r, line, j) ==
  OnLine(r, line,
         IF j.amount # AmountOf(line) \/ j.id \in Matched THEN {} ELSE {"PENDING"},
         "line", [status |-> "MATCHED", match |-> j.id])

\* Mutant: an adjusted line is reset.
ResetAnyLine(r, line) == OnLine(r, line, LineStatus, "line", Pending)

ResetLine(r, line) == OnLine(r, line, {"MATCHED", "IGNORED"}, "line", Pending)

\* The match column is not written: it is left as it is then.
Ignore(r, line) ==
  OnLine(r, line, {"PENDING"}, "line", [status |-> "IGNORED", match |-> None])

Adjust(r, line) ==
  OnLine(r, line, {"PENDING"}, "adjust", [status |-> "ADJUSTED", match |-> r])

\* The row as the UPDATE leaves it.
Written(r) ==
  LET line == <<bankTx[r].statement, bankTx[r].line>>
  IN  IF bankTx[r].row.status = "IGNORED"
      THEN [RowOf(line) EXCEPT !.status = "IGNORED"] ELSE bankTx[r].row

\* An adjustment first posts its entry, on the date and with the amount of the
\* line; then the row is updated, under the unique index.
WriteLine(r) ==
  LET line  == <<bankTx[r].statement, bankTx[r].line>>
      match == Written(r).match
  IN  /\ bankPc[r] = "write" /\ bankTx[r].op \in {"line", "adjust"}
      /\ IF HasRow(line) /\ (match \in Matched => RowOf(line).match = match)
         THEN /\ rows' = [rows EXCEPT ![line[1]][line[2]] = Written(r)]
              /\ ledger' = IF bankTx[r].op = "adjust"
                           THEN ledger \cup {[id |-> r, amount |-> AmountOf(line),
                                              date |-> DateOf(line), for |-> line]}
                           ELSE ledger
              /\ BankEnds(r, "done")
              /\ UNCHANGED statementStatus
         ELSE BankRollback(r)

-----------------------------------------------------------------------------
(* close() and remove() *)

\* getGlBalanceAsOf.
BalanceAsOf(day) ==
  MapThenSumSet(LAMBDA j : j.amount, {j \in ledger : j.date <= day})

\* Mutant: pending lines are not looked at.
BeginCloseAnyway(r, s) ==
  BankBegins(r, statementStatus[s] # "OPEN", "balance",
             [NoBankWork EXCEPT !.op = "close", !.statement = s])

BeginClose(r, s) ==
  BankBegins(r,
             \/ statementStatus[s] # "OPEN"
             \/ \E n \in DOMAIN rows[s] : rows[s][n].status = "PENDING",
             "balance", [NoBankWork EXCEPT !.op = "close", !.statement = s])

\* Statement minus ledger, in cents.
Difference(s) == File[s].closing - BalanceAsOf(File[s].to)

\* A second statement reads the balance.  The difference of the two floating
\* point numbers is compared with 0.01: one of a cent is on either side of it.
CheckBalance(r) ==
  LET difference == Difference(bankTx[r].statement)
  IN  /\ bankPc[r] = "balance"
      /\ \/ /\ difference \in -1 .. 1
            /\ bankPc' = [bankPc EXCEPT ![r] = "write"]
            /\ UNCHANGED <<bankCommitted, bankTx, bankOverlapped>>
         \/ difference # 0 /\ BankRollback(r)

BeginRemoveStatement(r, s) ==
  BankBegins(r, statementStatus[s] # "OPEN", "write",
             [NoBankWork EXCEPT !.op = "remove", !.statement = s])

\* The unconditional update, or the deletion with the lines.
WriteStatement(r) ==
  LET s == bankTx[r].statement
  IN  /\ bankPc[r] = "write" /\ bankTx[r].op \in {"close", "remove"}
      /\ IF StatementExists(s)
         THEN /\ statementStatus' = [statementStatus EXCEPT ![s] =
                              IF bankTx[r].op = "close" THEN "CLOSED" ELSE "REMOVED"]
              /\ rows' = IF bankTx[r].op = "close" THEN rows
                         ELSE [rows EXCEPT ![s] = <<>>]
              /\ BankEnds(r, "done")
              /\ UNCHANGED ledger
         ELSE BankRollback(r)

BankAbort(r) == bankPc[r] \in BankWorking /\ BankRollback(r)

\* Another module posts to the ledger account of the bank, on any date.
Post(p) ==
  /\ \A j \in ledger : j.id # p
  /\ ledger' = ledger \cup {[id |-> p, amount |-> PostingOf[p].amount,
                             date |-> PostingOf[p].date, for |-> <<>>]}
  /\ bankOverlapped' = (bankOverlapped \/ BankInProgress # {})
  /\ UNCHANGED <<statementStatus, rows, bankPc, bankTx>>

-----------------------------------------------------------------------------

BankInit ==
  /\ statementStatus = [s \in Statements |-> "ABSENT"]
  /\ rows = [s \in Statements |-> <<>>]
  /\ ledger = {}
  /\ bankPc = [r \in BankRequests |-> "idle"]
  /\ bankTx = [r \in BankRequests |-> NoBankWork]
  /\ bankOverlapped = FALSE

BankBegin(r) ==
  \/ \E s \in Statements : BeginImport(r, s) \/ BeginClose(r, s) \/ BeginRemoveStatement(r, s)
  \/ \E line \in StatementLines :
       /\ HasRow(line)
       /\ \/ \E j \in ledger : ManualMatch(r, line, j)
          \/ ResetLine(r, line) \/ Ignore(r, line) \/ Adjust(r, line)

BankStatement(r) ==
  MatchNext(r) \/ CommitImport(r) \/ CheckBalance(r) \/ WriteLine(r) \/ WriteStatement(r)

BankNext ==
  \/ \E r \in BankRequests : BankBegin(r) \/ BankStatement(r) \/ BankAbort(r)
  \/ \E p \in Postings : Post(p)

BankSpec == BankInit /\ [][BankNext]_bankVars

-----------------------------------------------------------------------------
(* Properties *)

\* Every variable keeps its type, and an ended request has left nothing.
BankTypeOK ==
  /\ statementStatus \in [Statements -> StatementStatus]
  /\ \A s \in Statements : rows[s] \in Seq(Row)
  /\ ledger \subseteq JournalLine
  /\ bankPc \in [BankRequests -> BankWorking \cup {"idle", "done", "failed"}]
  /\ bankTx \in [BankRequests -> BankWork] /\ bankOverlapped \in BOOLEAN
  /\ \A r \in BankRequests : bankPc[r] \notin BankWorking => bankTx[r] = NoBankWork

\* "Esta linha do extrato já foi tratada": until requests overlap, a statement
\* line is adjusted by at most one entry.
AdjustedOnce ==
  ~bankOverlapped => \A j, k \in ledger : j.for = k.for /\ j.for # <<>> => j = k

\* "Este lançamento já está conciliado com outra linha do extrato": imports and
\* manual matches that choose the same journal line never both keep it.  (With the
\* types, and with AdjustedOnce.)
MatchedOnce ==
  /\ BankTypeOK /\ AdjustedOnce
  /\ \A l, k \in StatementLines :
       HasRow(l) /\ HasRow(k) /\ RowOf(l).match # None
         /\ RowOf(l).match = RowOf(k).match => l = k

StatementStageOf(s) ==
  CASE statementStatus[s] = "ABSENT" -> "absent"
    [] statementStatus[s] = "OPEN"   -> "open"
    [] statementStatus[s] = "CLOSED" -> "frozen"
    [] OTHER                -> "discarded"

ContentOf(s) == {<<n, rows[s][n]>> : n \in DOMAIN rows[s]}

NothingPending(content) == \A c \in content : c[2].status # "PENDING"

StatementStage == [s \in Statements |-> StatementStageOf(s)]
StatementContent == [s \in Statements |-> ContentOf(s)]

StatementCycle == INSTANCE Lifecycle WITH
  Documents <- Statements, Ready <- NothingPending,
  stage <- StatementStage, content <- StatementContent

\* "Fechar exige zero linhas PENDING": until requests overlap, reconciliations
\* implement the life cycle: closed with nothing pending, and unchanged from
\* then on.
BankRefinesLifecycle ==
  /\ StatementCycle!Init
  /\ [][bankOverlapped' \/ StatementCycle!Next]_<<StatementStage, StatementContent>>
=============================================================================

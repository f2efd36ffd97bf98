------------------------------ MODULE OfxParser ------------------------------
(* parseOfx, the scanner of the statement files of banks, and what an import   *)
(* takes from it.  A file is read line by line, with a flag for each aggregate *)
(* that matters.  Of a line its tag counts, whether it closes, and its text,   *)
(* which is None when the tag stands alone; dates are numbers of days.         *)
EXTENDS Integers, Sequences, SequencesExt, FiniteSetsExt

CONSTANTS
  Issued,   \* statements a bank may issue
  None

VARIABLES
  issued,   \* the statement, as the bank means it
  form,     \* OFX 1 ("sgml"): leaves have no closing tag; OFX 2 ("xml"): they do
  unread,   \* lines of the file still to be read
  reading,  \* flags, what is collected, and what is complete
  imported  \* the reconciliation the import creates, {} when it refuses the file

vars == <<issued, form, unread, reading, imported>>

-----------------------------------------------------------------------------
(* Files.  The text of a leaf of OFX 2 runs through its closing tag, which is  *)
(* on the same line.                                                           *)

Opening(tag) == [closes |-> FALSE, tag |-> tag, text |-> None]
Closing(tag) == [closes |-> TRUE, tag |-> tag, text |-> None]

Aggregate(tag, lines) == <<Opening(tag)>> \o lines \o <<Closing(tag)>>

Text(v, f) == [value |-> v, ended |-> f = "xml"]

\* A leaf whose value a bank leaves out is not written.
Leaf(tag, v, f) ==
  IF v = None THEN <<>> ELSE <<[closes |-> FALSE, tag |-> tag, text |-> Text(v, f)]>>

Transaction(t, f) ==
  Aggregate("STMTTRN",
    Leaf("DTPOSTED", t.date, f) \o Leaf("TRNAMT", t.amount, f) \o Leaf("FITID", t.id, f)
      \o Leaf("NAME", t.name, f) \o Leaf("MEMO", t.memo, f)
      \o Aggregate("BANKACCTTO", Leaf("ACCTID", "other", f)))

Written(s, f) ==
  Aggregate("BANKACCTFROM", Leaf("ACCTID", "own", f))
    \o Aggregate("BANKTRANLIST",
         Leaf("DTSTART", s.from, f) \o Leaf("DTEND", s.to, f)
           \o FlattenSeq([k \in DOMAIN s.transactions |-> Transaction(s.transactions[k], f)]))
    \o Aggregate("LEDGERBAL", Leaf("BALAMT", s.closing, f) \o Leaf("DTASOF", s.asOf, f))
    \o Aggregate("AVAILBAL", Leaf("BALAMT", 0, f) \o Leaf("DTASOF", 0, f))

-----------------------------------------------------------------------------
(* The scanner *)

NoTransaction == [fitId |-> None, amount |-> 0, postedAt |-> None, name |-> None, memo |-> None]

Start ==
  [inTransaction |-> FALSE, inLedgerBal |-> FALSE, inAcctFrom |-> FALSE,
   txn |-> NoTransaction, ledgerAmount |-> None, ledgerAsOf |-> None,
   accountNumber |-> None, periodStart |-> None, periodEnd |-> None,
   ledgerBalance |-> None, transactions |-> <<>>]

Init ==
  /\ issued \in Issued /\ form \in {"sgml", "xml"}
  /\ unread = Written(issued, form)
  /\ reading = Start /\ imported = None

\* parseOfxDate and parseOfxAmount read what a text begins with.
ValueIn(text) == text.value

\* What is kept of a transaction: the name goes before the memo.
Completed(t) ==
  [fitId |-> t.fitId, amount |-> t.amount, postedAt |-> t.postedAt,
   description |-> IF t.name # None THEN t.name ELSE t.memo]

\* Mutant: a transaction that has ended is not left.
CloseStaying(tag) ==
  CASE tag = "STMTTRN" /\ reading.inTransaction ->
         [reading EXCEPT !.transactions = Append(@, Completed(reading.txn)), !.txn = NoTransaction]
    [] tag = "LEDGERBAL" /\ reading.inLedgerBal -> [reading EXCEPT !.inLedgerBal = FALSE]
    [] OTHER -> reading

Close(tag) ==
  CASE tag = "STMTTRN" /\ reading.inTransaction ->
         [reading EXCEPT !.transactions = Append(@, Completed(reading.txn)),
                         !.txn = NoTransaction, !.inTransaction = FALSE]
    [] tag = "LEDGERBAL" /\ reading.inLedgerBal ->
         [reading EXCEPT !.inLedgerBal = FALSE,
                         !.ledgerBalance = IF None \in {reading.ledgerAmount, reading.ledgerAsOf}
                                           THEN @ ELSE reading.ledgerAmount]
    [] tag = "BANKACCTFROM" -> [reading EXCEPT !.inAcctFrom = FALSE]
    [] OTHER -> reading

Enter(tag) ==
  CASE tag = "STMTTRN"      -> [reading EXCEPT !.inTransaction = TRUE, !.txn = NoTransaction]
    [] tag = "LEDGERBAL"    -> [reading EXCEPT !.inLedgerBal = TRUE]
    [] tag = "BANKACCTFROM" -> [reading EXCEPT !.inAcctFrom = TRUE]
    [] OTHER                -> reading

InTransaction(tag, text) ==
  CASE tag = "FITID"              -> [reading EXCEPT !.txn.fitId = text]
    [] tag = "TRNAMT"             -> [reading EXCEPT !.txn.amount = ValueIn(text)]
    [] tag = "DTPOSTED"           -> [reading EXCEPT !.txn.postedAt = ValueIn(text)]
    [] tag \in {"NAME", "PAYEE"}  -> [reading EXCEPT !.txn.name = text]
    [] tag = "MEMO"               -> [reading EXCEPT !.txn.memo = text]
    [] OTHER                      -> reading

\* Of the rest the balance of the ledger, the account, and the first period.
Outside(tag, text) ==
  CASE reading.inLedgerBal /\ tag = "BALAMT" -> [reading EXCEPT !.ledgerAmount = ValueIn(text)]
    [] reading.inLedgerBal /\ tag = "DTASOF" -> [reading EXCEPT !.ledgerAsOf = ValueIn(text)]
    [] reading.inLedgerBal                   -> reading
    [] reading.inAcctFrom /\ tag = "ACCTID"  -> [reading EXCEPT !.accountNumber = text]
    [] tag = "DTSTART" /\ reading.periodStart = None ->
         [reading EXCEPT !.periodStart = ValueIn(text)]
    [] tag = "DTEND" /\ reading.periodEnd = None ->
         [reading EXCEPT !.periodEnd = ValueIn(text)]
    [] OTHER -> reading

ReadLine ==
  /\ unread # <<>>
  /\ unread' = Tail(unread)
  /\ LET line == Head(unread) IN
       \/ line.closes /\ reading' = Close(line.tag)
       \/ ~line.closes /\ line.text = None /\ reading' = Enter(line.tag)
       \/ ~line.closes /\ line.text # None
            /\ reading' = IF reading.inTransaction THEN InTransaction(line.tag, line.text)
                          ELSE Outside(line.tag, line.text)
  /\ UNCHANGED <<issued, form, imported>>

-----------------------------------------------------------------------------
(* The import: what importStatement takes *)

Dated == SelectSeq(reading.transactions, LAMBDA t : t.postedAt # None)

\* Mutant: the period is that of the first and the last transaction of the file.
PeriodInFileOrder ==
  <<IF reading.periodStart = None /\ Dated # <<>> THEN Dated[1].postedAt ELSE reading.periodStart,
    IF reading.periodEnd = None /\ Dated # <<>> THEN Dated[Len(Dated)].postedAt
    ELSE reading.periodEnd>>

\* The period of the file, or else that of its transactions.
Period ==
  LET dates == {Dated[k].postedAt : k \in DOMAIN Dated}
  IN <<IF reading.periodStart = None /\ dates # {} THEN Min(dates) ELSE reading.periodStart,
       IF reading.periodEnd = None /\ dates # {} THEN Max(dates) ELSE reading.periodEnd>>

Import ==
  /\ unread = <<>> /\ imported = None
  /\ imported' = IF reading.transactions = <<>> \/ reading.ledgerBalance = None
                      \/ None \in {Period[1], Period[2]}
                 THEN {}
                 ELSE {[from |-> Period[1], to |-> Period[2], closing |-> reading.ledgerBalance,
                        lines |-> Dated]}
  /\ UNCHANGED <<issued, form, unread, reading>>

Next == ReadLine \/ Import

Spec == Init /\ [][Next]_vars

-----------------------------------------------------------------------------
(* Properties *)

\* A text as the bank issued it: its value, and no tag.
AsIssued(v) == IF v = None THEN None ELSE [value |-> v, ended |-> FALSE]

\* The movements of the statement that have a date, as they were issued.
IssuedLines ==
  LET dated == SelectSeq(issued.transactions, LAMBDA t : t.date # None)
  IN  [k \in DOMAIN dated |->
         [fitId |-> AsIssued(dated[k].id), amount |-> dated[k].amount,
          postedAt |-> dated[k].date,
          description |-> AsIssued(IF dated[k].name = None THEN dated[k].memo ELSE dated[k].name)]]

\* Whichever form the bank writes, and whatever it leaves out, a reconciliation
\* has the movements it dates, in their order, its balance and its period (or
\* the least that holds the movements), and is refused when one of these is not
\* to be had.  In OFX 1 its texts too are those of the bank.
ReadAsIssued ==
  imported # None =>
    LET days == {IssuedLines[k].postedAt : k \in DOMAIN IssuedLines}
    IN  /\ imported = {} <=>
             \/ issued.transactions = <<>> \/ None \in {issued.closing, issued.asOf}
             \/ None \in {issued.from, issued.to} /\ IssuedLines = <<>>
        /\ \A i \in imported :
             /\ i.closing = issued.closing
             /\ DOMAIN i.lines = DOMAIN IssuedLines
             /\ \A k \in DOMAIN i.lines :
                  /\ i.lines[k].amount = IssuedLines[k].amount
                  /\ i.lines[k].postedAt = IssuedLines[k].postedAt
                  /\ form = "sgml" => i.lines[k] = IssuedLines[k]
             /\ issued.from # None => i.from = issued.from
             /\ issued.from = None => i.from \in days /\ \A d \in days : i.from <= d
             /\ issued.to # None => i.to = issued.to
             /\ issued.to = None => i.to \in days /\ \A d \in days : d <= i.to

\* "e também compatível com OFX 2.x (XML de verdade, que fecha todas as tags)":
\* in either form the movements have the identifications and the descriptions
\* the bank gave them.
ImportedAsIssued ==
  imported # None => \A i \in imported : i.lines = IssuedLines
=============================================================================

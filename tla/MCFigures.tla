------------------------------ MODULE MCFigures ------------------------------
(* The ledger of MCLedger; or the books of MCBooks; or PayrollCalculation     *)
(* with a small table of each tax, in the proportions of the real ones, and a *)
(* few employees at the edges of the brackets and of the calendar; or the     *)
(* files of a few statements.  One part of the system moves in a behaviour.   *)
EXTENDS MCLedger, MCBooks, PayrollCalculation

VARIABLES
  part,
  statement, form, unread, reading, imported

\* Exact deductions would be 13.7 and 39.5 cents, and 21.8 and 50.1.
MCInssBrackets ==
  <<[min |-> 0,   max |-> 137, rate |-> 1, deduction |-> 0],
    [min |-> 138, max |-> 258, rate |-> 2, deduction |-> 14],
    [min |-> 259, max |-> Open, rate |-> 3, deduction |-> 40]>>
MCIrrfBrackets ==
  <<[min |-> 0,   max |-> 218, rate |-> 0, deduction |-> 0],
    [min |-> 219, max |-> 283, rate |-> 1, deduction |-> 22],
    [min |-> 284, max |-> Open, rate |-> 2, deduction |-> 50]>>

MCSettings ==
  [ceiling |-> 60, dependent |-> 19, fgts |-> 1, employer |-> 3, transport |-> 1,
   fineWithoutCause |-> 4, fineAgreed |-> 2]

MCEmployee(cents, date) ==
  [salary |-> cents, dependents |-> cents % 2, transport |-> 13, meal |-> 35,
   mealRate |-> 2, vested |-> 7, fgts |-> 33, admission |-> date]
MCEmployees ==
  {MCEmployee(s, [month |-> 7, day |-> 17]) : s \in {137, 138, 242, 258, 284, 417}}
  \cup {MCEmployee(s, [month |-> 0, day |-> 31]) : s \in {259, 417}}

ASSUME TablesContinuous ==
  /\ Continuous(InssBrackets, RateScale) /\ Continuous(IrrfBrackets, RateScale)
  /\ Continuous(DEFAULT_INSS_BRACKETS, 1000) /\ Continuous(DEFAULT_IRRF_BRACKETS, 1000)

\* Statements of up to two movements in any order: one with all its texts, one
\* with a memo alone, one of an earlier day, one without a day.  The period and
\* the balance are there, or only in part.
Movement(date, amount, id, name, memo) ==
  [date |-> date, amount |-> amount, id |-> id, name |-> name, memo |-> memo]

Movements ==
  {Movement(5, -150, "1", "shop", "card"), Movement(5, 20, "2", None, "deposit"),
   Movement(3, 7, None, None, None), Movement(None, 9, "4", "bank", None)}

IssuedStatements ==
  {[from |-> p[1], to |-> p[2], closing |-> b[1], asOf |-> b[2], transactions |-> t] :
     p \in {<<1, 9>>, <<None, 9>>, <<None, None>>},
     b \in {<<40, 9>>, <<40, None>>, <<None, None>>},
     t \in {<<>>} \cup {<<m>> : m \in Movements} \cup Movements \X Movements}

File == INSTANCE OfxParser WITH Issued <- IssuedStatements, issued <- statement

fileVars == <<statement, form, unread, reading, imported>>

\* An employee for whom nothing is calculated; no file.
NoFigures ==
  employee = (CHOOSE e \in Employees : TRUE) /\ today = employee.admission /\ event = NoEvent
NoBooks ==
  /\ journal = {} /\ issued = {} /\ configured = None /\ cash = {} /\ edits = 0
  /\ chart = <<>> /\ ask = NoAsk /\ seen = <<>> /\ disturbed = FALSE
NoFile == statement = None /\ form = None /\ unread = <<>> /\ reading = None /\ imported = None

MCInit ==
  /\ part \in {"ledger", "books", "payroll", "file"} /\ Init
  /\ IF part = "books" THEN BooksInit ELSE NoBooks
  /\ \/ part \in {"ledger", "books"} /\ NoFigures /\ NoFile
     \/ part = "payroll" /\ FiguresInit /\ NoFile
     \/ part = "file" /\ File!Init /\ NoFigures

MCNext ==
  /\ part' = part
  /\ \/ part = "ledger" /\ Next /\ UNCHANGED <<bookVars, figureVars, fileVars>>
     \/ part = "books" /\ BooksNext /\ UNCHANGED <<vars, figureVars, fileVars>>
     \/ part = "payroll" /\ FiguresNext /\ UNCHANGED <<vars, bookVars, fileVars>>
     \/ part = "file" /\ File!Next /\ UNCHANGED <<vars, bookVars, figureVars>>

MCSpec == MCInit /\ [][MCNext]_<<part, vars, bookVars, figureVars, fileVars>>

-----------------------------------------------------------------------------
(* The properties of files, stated in their module *)

\* File: a reconciliation has the movements, balance and period of its statement.
ReadAsIssued == part = "file" => File!ReadAsIssued

\* File: and its texts, in OFX 2 as well.
ImportedAsIssued == part = "file" => File!ImportedAsIssued
=============================================================================

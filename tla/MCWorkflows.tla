---------------------------- MODULE MCWorkflows ----------------------------
(* Small instances of Budget, PayrollEvents and BankReconciliation, the       *)
(* documents with the life cycle of Lifecycle: a run of one of them at a      *)
(* time, with a bound of its own.                                             *)
EXTENDS Budget, PayrollEvents, BankReconciliation, TLC

CONSTANTS
  p1, rentJan, rentFeb, rui, may, mayAgain, vacation, leaves,
  june, july, sale, fee, refund,
  r1, r2, r3, r4, r5

VARIABLE part

\* The vacation and the termination are rui's.
MCEmployeeOf == [e \in RowEvents |-> rui]

\* Two runs of one month.
MCCompetenceOf == [e \in PayrollRuns |-> 5]

\* July's statement repeats the last day of June.  Both have a receipt of 5
\* that the sale fits, within the window of one day; the refund has its amount
\* and the other direction.
MCFile ==
  [s \in Statements |-> IF s = june
     THEN [from |-> 1, to |-> 3, closing |-> 3,
           lines |-> <<[amount |-> 5, date |-> 2], [amount |-> -2, date |-> 3]>>]
     ELSE [from |-> 3, to |-> 5, closing |-> 5,
           lines |-> <<[amount |-> 5, date |-> 3]>>]]

MCPostingOf ==
  [p \in Postings |->
     CASE p = sale -> [amount |-> 5, date |-> 2]
       [] p = fee  -> [amount |-> -2, date |-> 3]
       [] OTHER    -> [amount |-> -5, date |-> 3]]

MCInit ==
  /\ part \in {"budget", "payroll", "bank"}
  /\ Init /\ PayrollInit /\ BankInit
  /\ part # "payroll" => \A e \in Employees : \A s \in Salaries : salary[e] <= s

MCNext ==
  /\ part' = part
  /\ \/ part = "budget" /\ Next /\ UNCHANGED <<payrollVars, bankVars>>
     \/ part = "payroll" /\ PayrollNext /\ UNCHANGED <<vars, bankVars>>
     \/ part = "bank" /\ BankNext /\ UNCHANGED <<vars, payrollVars>>

MCSpec == MCInit /\ [][MCNext]_<<part, vars, payrollVars, bankVars>>

RequestSymmetry == Permutations(Requests)
=============================================================================

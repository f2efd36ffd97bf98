-------------------------- MODULE MCPayrollEvents --------------------------
(* A small instance of PayrollEvents. *)
EXTENDS PayrollEvents, TLC

CONSTANTS ana, rui, may, mayAgain, vacation, leaves, r1, r2, r3, r4, r5

RequestSymmetry == Permutations(PayrollRequests)

\* The vacation and the termination are rui's.
MCEmployeeOf == [e \in RowEvents |-> rui]

\* Two runs of one month.
MCCompetenceOf == [e \in PayrollRuns |-> 5]
=============================================================================

----------------------------- MODULE Lifecycle -----------------------------
(***************************************************************************)
(* What the budget plans, the bank reconciliations and the payroll events  *)
(* promise alike ("mesmo raciocínio de BudgetPlan/BankReconciliation"): a  *)
(* document is edited and may be discarded while it is open; it is frozen  *)
(* only when it is ready; from then on nothing of it changes, and it may   *)
(* only be finished.                                                       *)
(***************************************************************************)
CONSTANTS Documents, Ready(_)   \* Ready: the contents that may be frozen

VARIABLES stage, content

Stages == {"absent", "open", "frozen", "finished", "discarded"}

Init ==
  /\ stage = [d \in Documents |-> "absent"]
  /\ content = [d \in Documents |-> {}]

Moves(d, from, to) == stage[d] = from /\ stage' = [stage EXCEPT ![d] = to]

OthersKept(d) == \A e \in Documents \ {d} : content'[e] = content[e]

Create(d) == Moves(d, "absent", "open") /\ OthersKept(d)

Edit(d) == Moves(d, "open", "open") /\ OthersKept(d)

Freeze(d) ==
  /\ Moves(d, "open", "frozen")
  /\ Ready(content[d])
  /\ content' = content

Finish(d) == Moves(d, "frozen", "finished") /\ content' = content

Discard(d) == Moves(d, "open", "discarded") /\ OthersKept(d)

Next ==
  \E d \in Documents :
    Create(d) \/ Edit(d) \/ Freeze(d) \/ Finish(d) \/ Discard(d)

Spec == Init /\ [][Next]_<<stage, content>>
=============================================================================

------------------------------- MODULE Budget -------------------------------
(***************************************************************************)
(* The budget plans of one organization: BudgetService.                    *)
(*                                                                         *)
(* Every handler reads the plan with its lines, checks what it read, and   *)
(* ends with one write that has no condition.  The write is one step with  *)
(* its commit, so no lock is ever held across a step.                      *)
(***************************************************************************)
EXTENDS Integers, FiniteSets

CONSTANTS
  Plans,       \* plans that may be created
  Keys,        \* account, cost center and month of a line
  Amounts,
  Requests,
  MaxOverlapping   \* bound: requests begun, once some of them overlap

ASSUME AmountsAssumption == Amounts \subseteq Nat
ASSUME PlansAssumption == Plans # {}
ASSUME OverlappingAssumption == MaxOverlapping \in Nat

VARIABLES
  status,   \* of each plan row
  lines,    \* the committed budget lines of each plan
  pc, tx,
  overlapped   \* history: a request once began while another was in progress

committed == <<status, lines>>
vars == <<committed, pc, tx, overlapped>>

-----------------------------------------------------------------------------
(* Rows and requests *)

Status == {"ABSENT", "DRAFT", "APPROVED", "CLOSED", "DELETED"}
Exists(p) == status[p] \in {"DRAFT", "APPROVED", "CLOSED"}

\* id: a row keeps the identity of the request that inserted it.
Line == [id: Requests, key: Keys, amount: Nat]

Operations == {"none", "update", "delete", "approve", "close",
               "addLine", "updateLine", "removeLine"}

\* What a request writes: for the operations on lines, the rows it takes away
\* and the rows it puts in.
Work == [op: Operations, plan: Plans, old: SUBSET Line, new: SUBSET Line]
NoWork == [op |-> "none", plan |-> CHOOSE p \in Plans : TRUE,
           old |-> {}, new |-> {}]

InProgress == {r \in Requests : pc[r] = "write"}
Begun == {r \in Requests : pc[r] # "idle"}

\* Any request may begin at any time, up to the bound.
MayBegin(r) ==
  /\ pc[r] = "idle"
  /\ overlapped \/ InProgress # {} => Cardinality(Begun) < MaxOverlapping

\* The read and the checks of a handler.
Begins(r, refused, work) ==
  /\ MayBegin(r)
  /\ pc' = [pc EXCEPT ![r] = IF refused THEN "failed" ELSE "write"]
  /\ tx' = [tx EXCEPT ![r] = IF refused THEN NoWork ELSE work]
  /\ overlapped' = (overlapped \/ InProgress # {})
  /\ UNCHANGED committed

Ends(r, outcome) ==
  /\ pc' = [pc EXCEPT ![r] = outcome]
  /\ tx' = [tx EXCEPT ![r] = NoWork]
  /\ UNCHANGED overlapped

Rollback(r) == Ends(r, "failed") /\ UNCHANGED committed

-----------------------------------------------------------------------------
(* Handlers *)

Create(r, p) ==
  /\ MayBegin(r)
  /\ status[p] = "ABSENT"
  /\ status' = [status EXCEPT ![p] = "DRAFT"]
  /\ pc' = [pc EXCEPT ![r] = "done"]
  /\ overlapped' = (overlapped \/ InProgress # {})
  /\ UNCHANGED <<lines, tx>>

OnPlan(op, p) == [NoWork EXCEPT !.op = op, !.plan = p]
OnLines(op, p, old, new) ==
  [op |-> op, plan |-> p, old |-> old, new |-> new]

\* ensureDraft.
NotDraft(p) == status[p] # "DRAFT"

Update(r, p) == Begins(r, NotDraft(p), OnPlan("update", p))
Delete(r, p) == Begins(r, NotDraft(p), OnPlan("delete", p))

Approve(r, p) == Begins(r, NotDraft(p) \/ lines[p] = {}, OnPlan("approve", p))

Close(r, p) == Begins(r, status[p] # "APPROVED", OnPlan("close", p))

\* Mutant: lines are added to any plan.
AddLineToAny(r, p, key, amount) ==
  Begins(r, ~Exists(p),
         OnLines("addLine", p, {}, {[id |-> r, key |-> key, amount |-> amount]}))

AddLine(r, p, key, amount) ==
  Begins(r, NotDraft(p),
         OnLines("addLine", p, {}, {[id |-> r, key |-> key, amount |-> amount]}))

\* A line that is not among the plan's is refused; it needs no step.
UpdateLine(r, p, line, amount) ==
  Begins(r, NotDraft(p),
         OnLines("updateLine", p, {line}, {[line EXCEPT !.amount = amount]}))

RemoveLine(r, p, line) ==
  Begins(r, NotDraft(p), OnLines("removeLine", p, {line}, {}))

-----------------------------------------------------------------------------
(* Writes *)

\* The write of an operation on the plan row; deleting cascades to its lines.
WritePlan(r) ==
  LET p == tx[r].plan
      after == CASE tx[r].op = "approve" -> "APPROVED"
                 [] tx[r].op = "close"   -> "CLOSED"
                 [] tx[r].op = "delete"  -> "DELETED"
                 [] OTHER                -> status[p]
  IN  /\ pc[r] = "write"
      /\ tx[r].op \in {"update", "delete", "approve", "close"}
      /\ IF Exists(p)
         THEN /\ status' = [status EXCEPT ![p] = after]
              /\ lines' = IF tx[r].op = "delete"
                          THEN [lines EXCEPT ![p] = {}] ELSE lines
              /\ Ends(r, "done")
         ELSE Rollback(r)

\* The rows of the plan an update or a deletion by id still finds.
Found(r) == {l \in lines[tx[r].plan] : \E o \in tx[r].old : o.id = l.id}

\* Mutant: no foreign key to the plan.
WriteLinesOrphaned(r) ==
  LET p == tx[r].plan
  IN  /\ pc[r] = "write"
      /\ tx[r].op \in {"addLine", "updateLine", "removeLine"}
      /\ IF /\ tx[r].old # {} => Found(r) # {}
            /\ \A l \in lines[p] \ Found(r), new \in tx[r].new : l.key # new.key
         THEN /\ lines' = [lines EXCEPT ![p] = (@ \ Found(r)) \cup tx[r].new]
              /\ Ends(r, "done")
              /\ UNCHANGED status
         ELSE Rollback(r)

\* The write of an operation on a line, under the foreign key to the plan and
\* the unique index on (plan, account, cost center, month).
WriteLines(r) ==
  LET p == tx[r].plan
  IN  /\ pc[r] = "write"
      /\ tx[r].op \in {"addLine", "updateLine", "removeLine"}
      /\ IF /\ Exists(p)
            /\ tx[r].old # {} => Found(r) # {}
            /\ \A l \in lines[p] \ Found(r), new \in tx[r].new : l.key # new.key
         THEN /\ lines' = [lines EXCEPT ![p] = (@ \ Found(r)) \cup tx[r].new]
              /\ Ends(r, "done")
              /\ UNCHANGED status
         ELSE Rollback(r)

Abort(r) == pc[r] = "write" /\ Rollback(r)

-----------------------------------------------------------------------------

Init ==
  /\ status = [p \in Plans |-> "ABSENT"]
  /\ lines = [p \in Plans |-> {}]
  /\ pc = [r \in Requests |-> "idle"]
  /\ tx = [r \in Requests |-> NoWork]
  /\ overlapped = FALSE

Begin(r) ==
  \E p \in Plans :
    \/ Create(r, p) \/ Update(r, p) \/ Delete(r, p) \/ Approve(r, p) \/ Close(r, p)
    \/ \E key \in Keys, amount \in Amounts : AddLine(r, p, key, amount)
    \/ \E line \in lines[p] :
         \/ RemoveLine(r, p, line)
         \/ \E amount \in Amounts : UpdateLine(r, p, line, amount)

Next ==
  \E r \in Requests : Begin(r) \/ WritePlan(r) \/ WriteLines(r) \/ Abort(r)

Spec == Init /\ [][Next]_vars

-----------------------------------------------------------------------------
(* Properties *)

\* Every variable keeps its type, and an ended request has left nothing.
TypeOK ==
  /\ status \in [Plans -> Status]
  /\ lines \in [Plans -> SUBSET Line]
  /\ pc \in [Requests -> {"idle", "write", "done", "failed"}]
  /\ tx \in [Requests -> Work] /\ overlapped \in BOOLEAN
  /\ \A r \in Requests : pc[r] # "write" => tx[r] = NoWork

\* Lines added while their plan is being deleted do not outlive it.
LinesHaveTheirPlan == \A p \in Plans : lines[p] # {} => Exists(p)

StageOf(p) ==
  CASE status[p] = "ABSENT"   -> "absent"
    [] status[p] = "DRAFT"    -> "open"
    [] status[p] = "APPROVED" -> "frozen"
    [] status[p] = "CLOSED"   -> "finished"
    [] OTHER                  -> "discarded"

NotEmpty(content) == content # {}

Stage == [p \in Plans |-> StageOf(p)]

Cycle == INSTANCE Lifecycle WITH
  Documents <- Plans, Ready <- NotEmpty, stage <- Stage, content <- lines

\* "Ao ser aprovado (APPROVED) fica imutável": until requests overlap, the plans
\* implement the life cycle: edited as drafts, approved when they have lines,
\* frozen from then on.
RefinesLifecycle ==
  Cycle!Init /\ [][overlapped' \/ Cycle!Next]_<<Stage, lines>>
=============================================================================

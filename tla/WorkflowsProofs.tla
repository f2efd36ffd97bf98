--------------------------- MODULE WorkflowsProofs ---------------------------
(***************************************************************************)
(* Proofs about the documents with a life cycle: the budget plans, the     *)
(* payroll events and the bank reconciliations.  Of each: types and the    *)
(* invariant its handlers rely on, what no interleaving breaks (a line has *)
(* its plan, an employee one line in an event, a journal line one match),  *)
(* and that it implements Lifecycle until requests overlap.                *)
(***************************************************************************)
EXTENDS Budget, PayrollEvents, BankReconciliation, TLAPS

-----------------------------------------------------------------------------
(* Budget plans *)

\* Requests that write the row of a plan, and that write one of its lines.
PlanOperations == {"update", "delete", "approve", "close"}
LineOperations == {"addLine", "updateLine", "removeLine"}

\* What the checks of a handler have established about its work.
Checked(work) ==
  /\ work.op \in PlanOperations \cup LineOperations
  /\ status[work.plan] = IF work.op = "close" THEN "APPROVED" ELSE "DRAFT"
  /\ work.op = "approve" => lines[work.plan] # {}

-----------------------------------------------------------------------------
(* The steps, by what they do to the state *)

\* Beginning a request, whatever the outcome of its checks.
Arrived(r) ==
  /\ pc[r] = "idle"
  /\ overlapped' \in BOOLEAN
  /\ ~overlapped' => ~overlapped /\ InProgress = {}

Created(r, p) ==
  /\ Arrived(r)
  /\ status[p] = "ABSENT" /\ status' = [status EXCEPT ![p] = "DRAFT"]
  /\ pc' = [pc EXCEPT ![r] = "done"]
  /\ lines' = lines /\ tx' = tx

Refused(r) ==
  /\ Arrived(r)
  /\ pc' = [pc EXCEPT ![r] = "failed"]
  /\ tx' = [tx EXCEPT ![r] = NoWork]
  /\ status' = status /\ lines' = lines

Started(r, work) ==
  /\ Arrived(r)
  /\ Checked(work)
  /\ pc' = [pc EXCEPT ![r] = "write"]
  /\ tx' = [tx EXCEPT ![r] = work]
  /\ status' = status /\ lines' = lines

\* Ending a request that was in progress.
Left(r, outcome) ==
  /\ pc[r] = "write"
  /\ pc' = [pc EXCEPT ![r] = outcome]
  /\ tx' = [tx EXCEPT ![r] = NoWork]
  /\ overlapped' = overlapped

PlanWritten(r) ==
  LET p == tx[r].plan
  IN  /\ Left(r, "done")
      /\ tx[r].op \in PlanOperations
      /\ Exists(p)
      /\ status' = [status EXCEPT ![p] =
                      CASE tx[r].op = "approve" -> "APPROVED"
                        [] tx[r].op = "close"   -> "CLOSED"
                        [] tx[r].op = "delete"  -> "DELETED"
                        [] OTHER                -> status[p]]
      /\ lines' = IF tx[r].op = "delete" THEN [lines EXCEPT ![p] = {}] ELSE lines

LinesWritten(r, kept) ==
  LET p == tx[r].plan
  IN  /\ Left(r, "done")
      /\ tx[r].op \in LineOperations
      /\ Exists(p)
      /\ status' = status
      /\ lines' = [lines EXCEPT ![p] = kept \cup tx[r].new]

RolledBack(r) == Left(r, "failed") /\ status' = status /\ lines' = lines

\* A request that has not begun, or has ended, has the empty work, which is a
\* work.
LEMMA NoWorkType == NoWork \in Work /\ NoWork.op = "none"
BY PlansAssumption DEF NoWork, Work, Operations

\* What an operation on the plan row writes is a work.
LEMMA OnPlanType ==
  ASSUME NEW op \in PlanOperations, NEW p \in Plans
  PROVE  /\ OnPlan(op, p) \in Work
         /\ OnPlan(op, p).op = op /\ OnPlan(op, p).plan = p
BY DEF OnPlan, NoWork, Work, Operations, PlanOperations

\* What an operation on lines writes is a work.
LEMMA OnLinesType ==
  ASSUME NEW op \in LineOperations, NEW p \in Plans,
         NEW old \in SUBSET Line, NEW new \in SUBSET Line
  PROVE  /\ OnLines(op, p, old, new) \in Work
         /\ OnLines(op, p, old, new).op = op
         /\ OnLines(op, p, old, new).plan = p
BY DEF OnLines, Work, Operations, LineOperations

\* The history variable after a beginning tells whether anyone was in progress.
LEMMA ArrivedBy ==
  ASSUME NEW r \in Requests, MayBegin(r),
         overlapped' = (overlapped \/ InProgress # {})
  PROVE  Arrived(r)
<1>1. overlapped' \in BOOLEAN
  OBVIOUS
<1>2. ~overlapped' => ~overlapped /\ InProgress = {}
  OBVIOUS
<1>. QED BY <1>1, <1>2 DEF Arrived, MayBegin

\* A handler whose checks refuse fails at once.
LEMMA RefusedBy ==
  ASSUME NEW r \in Requests, NEW work, NEW refused \in BOOLEAN, refused,
         Begins(r, refused, work)
  PROVE  Refused(r)
BY ArrivedBy DEF Begins, Refused, committed

\* A handler whose checks pass goes on to its write.
LEMMA StartedBy ==
  ASSUME NEW r \in Requests, NEW work, NEW refused \in BOOLEAN, ~refused,
         Begins(r, refused, work), Checked(work)
  PROVE  Started(r, work)
BY ArrivedBy DEF Begins, Started, committed

\* Every step is one of the cases above.
LEMMA Steps ==
  ASSUME TypeOK, [Next]_vars
  PROVE  \/ \E r \in Requests, p \in Plans : Created(r, p)
         \/ \E r \in Requests : Refused(r)
         \/ \E r \in Requests, work \in Work : Started(r, work)
         \/ \E r \in Requests : PlanWritten(r)
         \/ \E r \in Requests, kept \in SUBSET Line : LinesWritten(r, kept)
         \/ \E r \in Requests : RolledBack(r)
         \/ UNCHANGED vars
<1> DEFINE Goal == \/ \E r \in Requests, p \in Plans : Created(r, p)
                   \/ \E r \in Requests : Refused(r)
                   \/ \E r \in Requests, work \in Work : Started(r, work)
                   \/ \E r \in Requests : PlanWritten(r)
                   \/ \E r \in Requests, kept \in SUBSET Line : LinesWritten(r, kept)
                   \/ \E r \in Requests : RolledBack(r)
                   \/ UNCHANGED vars
<1> SUFFICES Goal
  OBVIOUS
<1>1. ASSUME NEW r \in Requests, NEW p \in Plans, Create(r, p)
      PROVE  Goal
  <2>1. Created(r, p)
    BY <1>1, ArrivedBy DEF Create, Created
  <2>. QED BY <2>1
<1>2. ASSUME NEW r \in Requests, NEW p \in Plans, NEW op \in {"update", "delete"},
             Begins(r, NotDraft(p), OnPlan(op, p))
      PROVE  Goal
  <2>1. CASE NotDraft(p)
    BY <1>2, <2>1, RefusedBy DEF NotDraft
  <2>2. CASE ~NotDraft(p)
    <3>1. OnPlan(op, p) \in Work /\ Checked(OnPlan(op, p))
      BY <2>2, OnPlanType DEF Checked, NotDraft, PlanOperations
    <3>2. Started(r, OnPlan(op, p))
      BY <1>2, <2>2, <3>1, StartedBy DEF NotDraft
    <3>. QED BY <3>1, <3>2
  <2>. QED BY <2>1, <2>2
<1>3. ASSUME NEW r \in Requests, NEW p \in Plans, Approve(r, p)
      PROVE  Goal
  <2>1. CASE NotDraft(p) \/ lines[p] = {}
    BY <1>3, <2>1, RefusedBy DEF Approve, NotDraft
  <2>2. CASE ~(NotDraft(p) \/ lines[p] = {})
    <3>1. OnPlan("approve", p) \in Work /\ Checked(OnPlan("approve", p))
      BY <2>2, OnPlanType DEF Checked, NotDraft, PlanOperations
    <3>2. Started(r, OnPlan("approve", p))
      BY <1>3, <2>2, <3>1, StartedBy DEF Approve, NotDraft
    <3>. QED BY <3>1, <3>2
  <2>. QED BY <2>1, <2>2
<1>4. ASSUME NEW r \in Requests, NEW p \in Plans, Close(r, p)
      PROVE  Goal
  <2>1. CASE status[p] # "APPROVED"
    BY <1>4, <2>1, RefusedBy DEF Close
  <2>2. CASE status[p] = "APPROVED"
    <3>1. OnPlan("close", p) \in Work /\ Checked(OnPlan("close", p))
      BY <2>2, OnPlanType DEF Checked, PlanOperations
    <3>2. Started(r, OnPlan("close", p))
      BY <1>4, <2>2, <3>1, StartedBy DEF Close
    <3>. QED BY <3>1, <3>2
  <2>. QED BY <2>1, <2>2
<1>5. ASSUME NEW r \in Requests, NEW p \in Plans, NEW op \in LineOperations,
             NEW old \in SUBSET Line, NEW new \in SUBSET Line,
             Begins(r, NotDraft(p), OnLines(op, p, old, new))
      PROVE  Goal
  <2>1. CASE NotDraft(p)
    BY <1>5, <2>1, RefusedBy DEF NotDraft
  <2>2. CASE ~NotDraft(p)
    <3>1. OnLines(op, p, old, new) \in Work /\ Checked(OnLines(op, p, old, new))
      BY <2>2, OnLinesType DEF Checked, NotDraft, LineOperations
    <3>2. Started(r, OnLines(op, p, old, new))
      BY <1>5, <2>2, <3>1, StartedBy DEF NotDraft
    <3>. QED BY <3>1, <3>2
  <2>. QED BY <2>1, <2>2
<1>6. ASSUME NEW r \in Requests, Begin(r)
      PROVE  Goal
  <2>1. PICK p \in Plans :
          \/ Create(r, p) \/ Update(r, p) \/ Delete(r, p) \/ Approve(r, p) \/ Close(r, p)
          \/ \E key \in Keys, amount \in Amounts : AddLine(r, p, key, amount)
          \/ \E line \in lines[p] :
               \/ RemoveLine(r, p, line)
               \/ \E amount \in Amounts : UpdateLine(r, p, line, amount)
    BY <1>6 DEF Begin
  <2>2. CASE Create(r, p) \/ Approve(r, p) \/ Close(r, p)
    BY <2>2, <1>1, <1>3, <1>4
  <2>3. CASE Update(r, p) \/ Delete(r, p)
    BY <2>3, <1>2 DEF Update, Delete
  <2>4. ASSUME NEW key \in Keys, NEW amount \in Amounts, AddLine(r, p, key, amount)
        PROVE  Goal
    <3>1. {[id |-> r, key |-> key, amount |-> amount]} \in SUBSET Line
      BY AmountsAssumption DEF Line
    <3>. QED BY <2>4, <3>1, <1>5 DEF AddLine, LineOperations
  <2>5. ASSUME NEW line \in lines[p], RemoveLine(r, p, line)
        PROVE  Goal
    <3>1. {line} \in SUBSET Line
      BY DEF TypeOK
    <3>. QED BY <2>5, <3>1, <1>5 DEF RemoveLine, LineOperations
  <2>6. ASSUME NEW line \in lines[p], NEW amount \in Amounts,
               UpdateLine(r, p, line, amount)
        PROVE  Goal
    <3>1. line \in Line
      BY DEF TypeOK
    <3>2. {line} \in SUBSET Line /\ {[line EXCEPT !.amount = amount]} \in SUBSET Line
      BY <3>1, AmountsAssumption DEF Line
    <3>. QED BY <2>6, <3>2, <1>5 DEF UpdateLine, LineOperations
  <2>. QED BY <2>1, <2>2, <2>3, <2>4, <2>5, <2>6
<1>7. ASSUME NEW r \in Requests, pc[r] = "write", Rollback(r)
      PROVE  Goal
  BY <1>7 DEF Rollback, Ends, RolledBack, Left, committed
<1>8. ASSUME NEW r \in Requests, WritePlan(r)
      PROVE  Goal
  <2>1. CASE Exists(tx[r].plan)
    <3>1. PlanWritten(r)
      BY <1>8, <2>1 DEF WritePlan, Ends, PlanWritten, Left, PlanOperations
    <3>. QED BY <3>1
  <2>2. CASE ~Exists(tx[r].plan)
    BY <1>7, <1>8, <2>2 DEF WritePlan
  <2>. QED BY <2>1, <2>2
<1>9. ASSUME NEW r \in Requests, WriteLines(r)
      PROVE  Goal
  <2> DEFINE p == tx[r].plan
             kept == lines[p] \ Found(r)
             Accepted == /\ Exists(p)
                         /\ tx[r].old # {} => Found(r) # {}
                         /\ \A l \in kept, new \in tx[r].new : l.key # new.key
  <2>1. CASE Accepted
    <3>1. LinesWritten(r, kept)
      BY <1>9, <2>1 DEF WriteLines, Ends, LinesWritten, Left, LineOperations
    <3>2. kept \in SUBSET Line
      BY DEF TypeOK, Work
    <3>. QED BY <3>1, <3>2
  <2>2. CASE ~Accepted
    BY <1>7, <1>9, <2>2 DEF WriteLines
  <2>. QED BY <2>1, <2>2
<1>10. ASSUME NEW r \in Requests, Abort(r)
       PROVE  Goal
  BY <1>7, <1>10 DEF Abort
<1>. QED BY <1>6, <1>8, <1>9, <1>10 DEF Next

-----------------------------------------------------------------------------
(* Type correctness *)

\* The initial state is well typed.
LEMMA InitType == Init => TypeOK
BY NoWorkType DEF Init, TypeOK, Status

\* Every step keeps the types, and an ended request leaves nothing.
LEMMA NextType ==
  ASSUME TypeOK, [Next]_vars
  PROVE  TypeOK'
<1> USE DEF TypeOK
<1>1. ASSUME NEW r \in Requests, NEW p \in Plans, Created(r, p)
      PROVE  TypeOK'
  BY <1>1 DEF Created, Arrived, Status
<1>2. ASSUME NEW r \in Requests, Refused(r)
      PROVE  TypeOK'
  BY <1>2, NoWorkType DEF Refused, Arrived
<1>3. ASSUME NEW r \in Requests, NEW work \in Work, Started(r, work)
      PROVE  TypeOK'
  BY <1>3 DEF Started, Arrived
<1>4. ASSUME NEW r \in Requests, PlanWritten(r)
      PROVE  TypeOK'
  <2>1. tx[r].plan \in Plans
    BY DEF Work
  <2>2. status' \in [Plans -> Status]
    BY <1>4, <2>1 DEF PlanWritten, Status
  <2>3. lines' \in [Plans -> SUBSET Line]
    BY <1>4, <2>1 DEF PlanWritten
  <2>. QED BY <1>4, <2>2, <2>3, NoWorkType DEF PlanWritten, Left
<1>5. ASSUME NEW r \in Requests, NEW kept \in SUBSET Line, LinesWritten(r, kept)
      PROVE  TypeOK'
  <2>1. tx[r].plan \in Plans /\ tx[r].new \in SUBSET Line
    BY DEF Work
  <2>. QED BY <1>5, <2>1, NoWorkType DEF LinesWritten, Left
<1>6. ASSUME NEW r \in Requests, RolledBack(r)
      PROVE  TypeOK'
  BY <1>6, NoWorkType DEF RolledBack, Left
<1>7. CASE UNCHANGED vars
  BY <1>7 DEF vars, committed
<1>. QED BY <1>1, <1>2, <1>3, <1>4, <1>5, <1>6, <1>7, Steps

\* Every variable keeps its type in every state the plans can reach.
THEOREM TypeCorrect == Spec => []TypeOK
BY InitType, NextType, PTL DEF Spec

-----------------------------------------------------------------------------
(* No orphan lines *)

\* Deleting a plan takes its lines, and the foreign key refuses lines to a
\* plan that is gone.
LEMMA NextOrphanFree ==
  ASSUME TypeOK, LinesHaveTheirPlan, [Next]_vars
  PROVE  LinesHaveTheirPlan'
<1> USE DEF LinesHaveTheirPlan, Exists
<1>1. ASSUME NEW r \in Requests, NEW p \in Plans, Created(r, p)
      PROVE  LinesHaveTheirPlan'
  BY <1>1 DEF Created, TypeOK
<1>2. ASSUME NEW r \in Requests, PlanWritten(r)
      PROVE  LinesHaveTheirPlan'
  <2>1. tx[r].plan \in Plans
    BY DEF TypeOK, Work
  <2>. QED BY <1>2, <2>1 DEF PlanWritten, TypeOK
<1>3. ASSUME NEW r \in Requests, NEW kept \in SUBSET Line, LinesWritten(r, kept)
      PROVE  LinesHaveTheirPlan'
  <2>1. tx[r].plan \in Plans
    BY DEF TypeOK, Work
  <2>. QED BY <1>3, <2>1 DEF LinesWritten, TypeOK
<1>4. CASE UNCHANGED committed
  BY <1>4 DEF committed
<1>. QED BY <1>1, <1>2, <1>3, <1>4, Steps
         DEF Refused, Started, RolledBack, committed, vars

\* However the additions of lines and the deletion of their plan interleave, no
\* line outlives its plan.
THEOREM OrphanFree == Spec => []LinesHaveTheirPlan
<1>1. Init => LinesHaveTheirPlan
  BY DEF Init, LinesHaveTheirPlan
<1>. QED BY <1>1, InitType, NextType, NextOrphanFree, PTL DEF Spec

-----------------------------------------------------------------------------
(* Refinement *)

\* Until requests overlap, at most one is in progress, and what its checks
\* established about the plan still holds when it writes.
Serial ==
  ~overlapped =>
    /\ \A q, r \in InProgress : q = r
    /\ \A r \in InProgress : Checked(tx[r])

\* A request that begins alone has just checked what it read; one that ends
\* leaves nobody in progress.
LEMMA NextSerial ==
  ASSUME TypeOK, Serial, [Next]_vars
  PROVE  Serial'
<1> USE DEF Serial, InProgress, TypeOK
<1>1. ASSUME NEW r \in Requests, NEW p \in Plans, Created(r, p)
      PROVE  Serial'
  BY <1>1 DEF Created, Arrived
<1>2. ASSUME NEW r \in Requests, Refused(r)
      PROVE  Serial'
  BY <1>2 DEF Refused, Arrived
<1>3. ASSUME NEW r \in Requests, NEW work \in Work, Started(r, work)
      PROVE  Serial'
  <2>1. Checked(work)' /\ tx'[r] = work
    BY <1>3 DEF Started, Checked
  <2>2. ~overlapped' => \A q \in Requests : pc'[q] = "write" => q = r
    BY <1>3 DEF Started, Arrived
  <2>. QED BY <2>1, <2>2 DEF Checked
<1>4. ASSUME NEW r \in Requests, NEW outcome \in {"done", "failed"},
             Left(r, outcome)
      PROVE  Serial'
  BY <1>4 DEF Left
<1>5. CASE UNCHANGED vars
  BY <1>5 DEF vars, committed, Checked
<1>. QED BY <1>1, <1>2, <1>3, <1>4, <1>5, Steps
         DEF PlanWritten, LinesWritten, RolledBack

\* Until requests overlap, every step of the plans is a step of the life cycle
\* or leaves it as it is.
LEMMA StepRefines ==
  ASSUME TypeOK, TypeOK', Serial, [Next]_vars, ~overlapped'
  PROVE  Cycle!Next \/ UNCHANGED <<Stage, lines>>
<1> USE DEF TypeOK
<1>0. ASSUME NEW p \in Plans, NEW s \in Status, status' = [status EXCEPT ![p] = s],
             NEW stage,
             stage = (CASE s = "ABSENT" -> "absent"
                        [] s = "DRAFT" -> "open"
                        [] s = "APPROVED" -> "frozen"
                        [] s = "CLOSED" -> "finished"
                        [] OTHER -> "discarded")
      PROVE  Stage' = [Stage EXCEPT ![p] = stage]
  BY <1>0 DEF Stage, StageOf
<1>1. ASSUME NEW r \in Requests, NEW p \in Plans, Created(r, p)
      PROVE  Cycle!Create(p)
  <2>1. Stage' = [Stage EXCEPT ![p] = "open"]
    BY <1>0, <1>1 DEF Created, Status
  <2>2. Stage[p] = "absent"
    BY <1>1 DEF Created, Stage, StageOf
  <2>. QED BY <1>1, <2>1, <2>2 DEF Cycle!Create, Cycle!Moves, Cycle!OthersKept, Created
<1>2. ASSUME NEW r \in Requests, Left(r, "done")
      PROVE  Checked(tx[r]) /\ tx[r].plan \in Plans
  BY <1>2 DEF Left, Serial, InProgress, Work
<1>3. ASSUME NEW r \in Requests, PlanWritten(r)
      PROVE  Cycle!Next
  <2>1. PICK p \in Plans : p = tx[r].plan
    BY <1>2, <1>3 DEF PlanWritten
  <2>2. Checked(tx[r])
    BY <1>2, <1>3 DEF PlanWritten
  <2>3. CASE tx[r].op = "approve"
    <3>1. Stage' = [Stage EXCEPT ![p] = "frozen"] /\ lines' = lines
      BY <1>0, <1>3, <2>1, <2>3 DEF PlanWritten, Status
    <3>2. Stage[p] = "open" /\ NotEmpty(lines[p])
      BY <2>1, <2>2, <2>3 DEF Checked, Stage, StageOf, NotEmpty
    <3>3. Cycle!Freeze(p)
      BY <3>1, <3>2 DEF Cycle!Freeze, Cycle!Moves
    <3>. QED BY <3>3 DEF Cycle!Next
  <2>4. CASE tx[r].op = "close"
    <3>1. Stage' = [Stage EXCEPT ![p] = "finished"] /\ lines' = lines
      BY <1>0, <1>3, <2>1, <2>4 DEF PlanWritten, Status
    <3>2. Stage[p] = "frozen"
      BY <2>1, <2>2, <2>4 DEF Checked, Stage, StageOf
    <3>3. Cycle!Finish(p)
      BY <3>1, <3>2 DEF Cycle!Finish, Cycle!Moves
    <3>. QED BY <3>3 DEF Cycle!Next
  <2>5. CASE tx[r].op = "delete"
    <3>1. Stage' = [Stage EXCEPT ![p] = "discarded"]
      BY <1>0, <1>3, <2>1, <2>5 DEF PlanWritten, Status
    <3>2. Stage[p] = "open"
      BY <2>1, <2>2, <2>5 DEF Checked, Stage, StageOf
    <3>3. Cycle!OthersKept(p)
      BY <1>3, <2>1, <2>5 DEF PlanWritten, Cycle!OthersKept
    <3>4. Cycle!Discard(p)
      BY <3>1, <3>2, <3>3 DEF Cycle!Discard, Cycle!Moves
    <3>. QED BY <3>4 DEF Cycle!Next
  <2>6. CASE tx[r].op = "update"
    <3>1. Stage[p] = "open" /\ status' = status /\ lines' = lines
      BY <1>3, <2>1, <2>2, <2>6 DEF PlanWritten, Checked, Stage, StageOf
    <3>2. Stage' = [Stage EXCEPT ![p] = "open"]
      BY <3>1 DEF Stage, StageOf
    <3>3. Cycle!Edit(p)
      BY <3>1, <3>2 DEF Cycle!Edit, Cycle!Moves, Cycle!OthersKept
    <3>. QED BY <3>3 DEF Cycle!Next
  <2>. QED BY <1>3, <2>3, <2>4, <2>5, <2>6 DEF PlanWritten, PlanOperations
<1>4. ASSUME NEW r \in Requests, NEW kept \in SUBSET Line, LinesWritten(r, kept)
      PROVE  Cycle!Next
  <2>1. PICK p \in Plans : p = tx[r].plan
    BY <1>2, <1>4 DEF LinesWritten
  <2>2. Stage[p] = "open"
    BY <1>2, <1>4, <2>1 DEF LinesWritten, LineOperations, Checked, Stage, StageOf
  <2>3. Stage' = [Stage EXCEPT ![p] = "open"]
    BY <1>4, <2>2 DEF LinesWritten, Stage, StageOf
  <2>4. Cycle!OthersKept(p)
    BY <1>4, <2>1 DEF LinesWritten, Cycle!OthersKept
  <2>5. Cycle!Edit(p)
    BY <2>2, <2>3, <2>4 DEF Cycle!Edit, Cycle!Moves
  <2>. QED BY <2>5 DEF Cycle!Next
<1>5. CASE UNCHANGED committed
  BY <1>5 DEF committed, Stage, StageOf
<1>. QED BY <1>1, <1>3, <1>4, <1>5, Steps
         DEF Refused, Started, RolledBack, committed, vars, Cycle!Next

\* Until two requests overlap, the plans implement the life cycle of documents:
\* edited as drafts, approved when they have lines, frozen from then on.
THEOREM Refinement == Spec => RefinesLifecycle
<1>1. Init => Serial
  BY DEF Init, Serial, InProgress
<1>2. Init => Cycle!Init
  BY DEF Init, Cycle!Init, Stage, StageOf
<1>3. Spec => [](TypeOK /\ Serial)
  BY <1>1, InitType, NextType, NextSerial, PTL DEF Spec
<1>4. ASSUME TypeOK, TypeOK', Serial, [Next]_vars
      PROVE  [overlapped' \/ Cycle!Next]_<<Stage, lines>>
  <2>1. CASE overlapped'
    BY <2>1
  <2>2. CASE ~overlapped'
    BY <1>4, <2>2, StepRefines
  <2>. QED BY <2>1, <2>2
<1>. QED BY <1>2, <1>3, <1>4, PTL DEF Spec, RefinesLifecycle

-----------------------------------------------------------------------------
(* Payroll events *)

\* What a request has calculated has one line of an employee.
OneLineEach(some) == \A l, k \in some : l.employee = k.employee => l = k

\* The lines a rewriting keeps are of other employees.
Apart(some, others) == \A l \in some, k \in others : l.employee # k.employee

\* A calculation of lines holds them from when it has rewritten them ...
Calculates(r) ==
  LET e == payTx[r].event
  IN  /\ payPc[r] \in {"read", "delete", "rewrite", "write"}
      /\ OneLineEach(payTx[r].lines)
      /\ e \in RowEvents => payPc[r] = "write"
      /\ e \in LineEvents /\ payPc[r] = "write" =>
           lineLock[e] = r /\ Apart(payTx[r].lines, LinesLeft(r))

\* ... and what a request holds is what its operation may hold at this point of it.
EventSound(r) ==
  /\ payPc[r] \in PayrollWorking <=> payTx[r].op # "none"
  /\ payTx[r].op = "none" => payTx[r] = NoPayrollWork
  /\ payTx[r].op = "create" => payPc[r] = "insert"
  /\ payTx[r].op = "calculate" => Calculates(r)
  /\ payTx[r].op \in {"post", "remove", "employee"} => payPc[r] = "write"
  /\ payTx[r].op = "employee" => payTx[r].employee \in Employees /\ payTx[r].amount \in Salaries
  /\ \A e \in LineEvents : lineLock[e] = r =>
       payTx[r].op = "calculate" /\ payPc[r] = "write" /\ payTx[r].event = e

\* Until requests overlap, what a handler checked of its event still holds.
EventChecked(r) ==
  LET e == payTx[r].event
  IN  /\ payTx[r].op = "create" => eventStatus[e] = "ABSENT"
      /\ payTx[r].op \in {"calculate", "remove"} => eventStatus[e] \in {"DRAFT", "CALCULATED"}
      /\ payTx[r].op = "post" => /\ eventStatus[e] = "CALCULATED"
                                 /\ eventLines[e] = payTx[r].lines /\ eventLines[e] # {}

\* Until requests overlap, one at a time is in progress.
EventsSerial ==
  ~payOverlapped =>
    /\ \A q, r \in PayrollInProgress : q = r
    /\ \A r \in PayrollRequests : EventChecked(r)

\* No event has two lines of one employee.
LinesApart == \A e \in Events : OneLineEach(eventLines[e])

\* The inductive invariant of the payroll.
EventsInvariant ==
  /\ PayrollTypeOK
  /\ \A r \in PayrollRequests : EventSound(r)
  /\ LinesApart
  /\ EventsSerial
  /\ PostedMatchesEntry

-----------------------------------------------------------------------------
(* What is calculated *)

\* What the first installment paid an employee is a figure of one of its lines.
LEMMA PreviousType ==
  ASSUME eventLines \in [Events -> SUBSET EventLine], NEW m
  PROVE  PreviousOf(m) \in Nat
<1>. DEFINE paid == {l \in eventLines[First] : l.employee = m}
<1>1. paid \subseteq EventLine
  BY DEF Events, LineEvents
<1>2. paid # {} => (CHOOSE l \in paid : TRUE) \in paid
  OBVIOUS
<1>3. paid # {} => (CHOOSE l \in paid : TRUE).figure \in Nat
  BY <1>1, <1>2 DEF EventLine
<1>. QED BY <1>3 DEF PreviousOf

\* A calculation has one line of each employee it is about.
LEMMA CalculatedType ==
  ASSUME PayrollTypeOK, NEW r \in PayrollRequests, NEW e \in Events
  PROVE  Calculated(r, e) \in SUBSET EventLine /\ OneLineEach(Calculated(r, e))
<1>. DEFINE about == IF e \in LineEvents THEN Payable(e) ELSE {EmployeeOf[e]}
            previous(m) == IF e = Second THEN PreviousOf(m) ELSE 0
            line(m) == [employee |-> m, figure |-> salary[m], by |-> r,
                        previous |-> previous(m)]
<1>1. about \subseteq Employees
  BY PayrollAssumption DEF Payable, Events
<1>2. \A m : previous(m) \in Nat
  BY PreviousType DEF PayrollTypeOK
<1>3. \A m \in about : salary[m] \in Nat
  BY <1>1, PayrollAssumption DEF PayrollTypeOK
<1>4. Calculated(r, e) = {line(m) : m \in about}
  BY DEF Calculated
<1>. HIDE DEF about, previous
<1>5. \A m \in about : line(m) \in EventLine /\ line(m).employee = m
  BY <1>1, <1>2, <1>3 DEF EventLine
<1>. HIDE DEF line
<1>. QED BY <1>4, <1>5 DEF OneLineEach

-----------------------------------------------------------------------------
(* Steps that commit nothing *)

\* A step of one request leaves the work of the others alone.
OnlyEventOf(r) ==
  /\ payTx' = [payTx EXCEPT ![r] = payTx'[r]]
  /\ payPc' = [payPc EXCEPT ![r] = payPc'[r]]

\* A request stays sound when its locks, and the lines it holds, stay.
LEMMA EventSoundKept ==
  ASSUME NEW q \in PayrollRequests, EventSound(q), payTx[q] \in PayrollWork,
         payTx'[q] = payTx[q], payPc'[q] = payPc[q],
         \A e \in LineEvents : lineLock'[e] = q <=> lineLock[e] = q,
         \A e \in LineEvents : lineLock[e] = q => eventLines'[e] = eventLines[e]
  PROVE  EventSound(q)'
<1>. DEFINE e == payTx[q].event
<1>1. e \in LineEvents /\ lineLock[e] = q => LinesLeft(q)' = LinesLeft(q)
  BY DEF LinesLeft
<1>2. Calculates(q) => Calculates(q)'
  BY <1>1 DEF Calculates
<1>. QED BY <1>2 DEF EventSound

\* A request that is not at work has nothing, and holds nothing.
LEMMA RestingRequest ==
  ASSUME NEW r, payTx[r] = NoPayrollWork, payPc[r] \notin PayrollWorking,
         \A e \in LineEvents : lineLock[e] # r
  PROVE  EventSound(r) /\ EventChecked(r)
BY DEF EventSound, EventChecked, NoPayrollWork, PayrollWorking

\* The work of a request that is not at work.
LEMMA NoPayrollWorkTyped == NoPayrollWork \in PayrollWork
BY DEF NoPayrollWork, PayrollWork, Events, LineEvents

\* Until requests overlap, nobody works beside a request in progress.
LEMMA OthersIdle ==
  ASSUME EventsInvariant, NEW r \in PayrollInProgress, ~payOverlapped
  PROVE  /\ \A q \in PayrollRequests \ {r} : payTx[q].op = "none"
         /\ EventChecked(r)
BY DEF EventsInvariant, EventsSerial, EventSound, PayrollInProgress

\* A statement that commits nothing keeps the invariant when the work it leaves
\* is sound.
LEMMA PrivateEventStep ==
  ASSUME EventsInvariant, NEW r \in PayrollRequests, UNCHANGED payrollCommitted,
         OnlyEventOf(r), payTx'[r] \in PayrollWork,
         payPc'[r] \in PayrollWorking \cup {"idle", "done", "failed"},
         EventSound(r)',
         lineLock' \in [LineEvents -> PayrollRequests \cup {Nobody}],
         \A e \in LineEvents : \/ lineLock'[e] = lineLock[e]
                               \/ lineLock[e] \in {Nobody, r} /\ lineLock'[e] \in {Nobody, r},
         payOverlapped' \in BOOLEAN,
         ~payOverlapped' =>
           /\ ~payOverlapped
           /\ \A q \in PayrollRequests \ {r} : payTx[q].op = "none"
           /\ EventChecked(r)'
  PROVE  EventsInvariant'
<1>. USE DEF payrollCommitted
<1>1. \A q \in PayrollRequests \ {r} : payTx'[q] = payTx[q] /\ payPc'[q] = payPc[q]
  BY DEF OnlyEventOf, EventsInvariant, PayrollTypeOK
<1>2. Nobody \notin PayrollRequests
  BY PayrollAssumption
<1>3. ASSUME NEW q \in PayrollRequests
      PROVE  EventSound(q)'
  <2>1. CASE q = r
    BY <2>1
  <2>2. CASE q # r
    <3>1. \A e \in LineEvents : lineLock'[e] = q <=> lineLock[e] = q
      BY <1>2, <2>2
    <3>. QED BY <1>1, <2>2, <3>1, EventSoundKept DEF EventsInvariant, PayrollTypeOK
  <2>. QED BY <2>1, <2>2
<1>4. PayrollTypeOK'
  <2>1. /\ payTx' \in [PayrollRequests -> PayrollWork]
        /\ payPc' \in [PayrollRequests -> PayrollWorking \cup {"idle", "done", "failed"}]
    BY DEF OnlyEventOf, EventsInvariant, PayrollTypeOK
  <2>2. \A e \in LineEvents : lineLock'[e] # Nobody =>
          payPc'[lineLock'[e]] = "write" /\ payTx'[lineLock'[e]].event = e
    BY <1>3 DEF EventSound
  <2>. QED BY <2>1, <2>2 DEF EventsInvariant, PayrollTypeOK
<1>5. LinesApart'
  BY DEF EventsInvariant, LinesApart, OneLineEach
<1>6. PostedMatchesEntry'
  BY DEF EventsInvariant, PostedMatchesEntry
<1>7. ASSUME ~payOverlapped'
      PROVE  /\ \A p, q \in PayrollInProgress' : p = q
             /\ \A q \in PayrollRequests : EventChecked(q)'
  <2>1. \A q \in PayrollRequests \ {r} : payTx[q].op = "none"
    BY <1>7
  <2>2. \A p, q \in PayrollInProgress' : p = q
    BY <1>1, <2>1 DEF EventsInvariant, EventSound, PayrollInProgress
  <2>3. ASSUME NEW q \in PayrollRequests \ {r}
        PROVE  EventChecked(q)'
    <3>1. payTx'[q].op = "none"
      BY <1>1, <2>1
    <3>. QED BY <3>1 DEF EventChecked
  <2>. QED BY <1>7, <2>2, <2>3
<1>. QED BY <1>3, <1>4, <1>5, <1>6, <1>7 DEF EventsInvariant, EventsSerial

\* A handler whose checks refuse fails at once; one whose checks pass begins with
\* sound work.
LEMMA EventBeginsStep ==
  ASSUME EventsInvariant, NEW r \in PayrollRequests, NEW refused \in BOOLEAN,
         NEW place \in PayrollWorking, NEW work \in PayrollWork,
         EventBegins(r, refused, place, work),
         ~refused /\ payTx'[r] = work /\ payPc'[r] = place
           /\ (\A e \in LineEvents : lineLock'[e] # r)
             => EventSound(r)' /\ EventChecked(r)'
  PROVE  EventsInvariant'
<1>1. /\ payPc[r] = "idle"
      /\ payPc' = [payPc EXCEPT ![r] = IF refused THEN "failed" ELSE place]
      /\ payTx' = [payTx EXCEPT ![r] = IF refused THEN NoPayrollWork ELSE work]
      /\ payOverlapped' = (payOverlapped \/ PayrollInProgress # {})
      /\ UNCHANGED payrollCommitted /\ lineLock' = lineLock
  BY DEF EventBegins, MayBeginEvent
<1>2. /\ payPc'[r] = IF refused THEN "failed" ELSE place
      /\ payTx'[r] = IF refused THEN NoPayrollWork ELSE work
      /\ OnlyEventOf(r)
  BY <1>1 DEF EventsInvariant, PayrollTypeOK, OnlyEventOf
<1>3. \A e \in LineEvents : lineLock'[e] # r
  BY <1>1 DEF EventsInvariant, EventSound
<1>4. EventSound(r)' /\ EventChecked(r)' /\ payTx'[r] \in PayrollWork
  <2>1. CASE refused
    <3>1. payTx'[r] = NoPayrollWork /\ payPc'[r] \notin PayrollWorking
      BY <1>2, <2>1 DEF PayrollWorking
    <3>2. (payTx[r] = NoPayrollWork /\ payPc[r] \notin PayrollWorking
             /\ (\A e \in LineEvents : lineLock[e] # r)
               => EventSound(r) /\ EventChecked(r))'
      BY RestingRequest, PTL
    <3>. QED BY <1>3, <3>1, <3>2, NoPayrollWorkTyped DEF PayrollWorking
  <2>2. CASE ~refused
    BY <1>2, <1>3, <2>2
  <2>. QED BY <2>1, <2>2
<1>5. ASSUME ~payOverlapped'
      PROVE  ~payOverlapped /\ \A q \in PayrollRequests \ {r} : payTx[q].op = "none"
  BY <1>1, <1>5 DEF EventsInvariant, EventSound, PayrollInProgress
<1>6. payPc'[r] \in PayrollWorking \cup {"idle", "done", "failed"}
  BY <1>2
<1>7. /\ payOverlapped' \in BOOLEAN
      /\ lineLock' \in [LineEvents -> PayrollRequests \cup {Nobody}]
  BY <1>1 DEF EventsInvariant, PayrollTypeOK
<1>. QED BY <1>1, <1>2, <1>4, <1>5, <1>6, <1>7, PrivateEventStep

\* Every handler begins with sound work.
LEMMA PayrollBeginStep ==
  ASSUME EventsInvariant, NEW r \in PayrollRequests, PayrollBegin(r)
  PROVE  EventsInvariant'
<1>0. /\ NoPayrollWork \in PayrollWork
      /\ NoPayrollWork.lines = {} /\ NoPayrollWork.employee = Nobody
  BY NoPayrollWorkTyped DEF NoPayrollWork
<1>1. PayrollTypeOK /\ LinesApart
  BY DEF EventsInvariant
<1>2. PayrollBegin(r) => eventStatus' = eventStatus /\ eventLines' = eventLines
  BY DEF PayrollBegin, BeginCreate, BeginCalculate, BeginPost, BeginRemoveEvent,
         BeginUpdateEmployee, EventBegins, payrollCommitted
<1>3. ASSUME NEW e \in Events, BeginCreate(r, e)
      PROVE  EventsInvariant'
  <2>. DEFINE work == [NoPayrollWork EXCEPT !.op = "create", !.event = e]
  <2>1. work \in PayrollWork /\ work.op = "create" /\ work.event = e
    BY <1>0 DEF PayrollWork
  <2>2. /\ EventBegins(r, e \in RowEvents /\ EmployeeOf[e] \in terminated, "insert", work)
        /\ eventStatus[e] = "ABSENT"
    BY <1>3 DEF BeginCreate
  <2>. HIDE DEF work
  <2>3. ASSUME payTx'[r] = work, payPc'[r] = "insert", \A f \in LineEvents : lineLock'[f] # r
        PROVE  EventSound(r)' /\ EventChecked(r)'
    BY <1>2, <2>1, <2>2, <2>3 DEF EventSound, EventChecked, PayrollWorking
  <2>. QED BY <2>1, <2>2, <2>3, EventBeginsStep DEF PayrollWorking
<1>4. ASSUME NEW e \in Events, BeginCalculate(r, e)
      PROVE  EventsInvariant'
  <2>. DEFINE work == CalculateWork(r, e)
              place == IF e \in LineEvents THEN "read" ELSE "write"
  <2>1. /\ work \in PayrollWork /\ work.op = "calculate" /\ work.event = e
        /\ OneLineEach(work.lines)
    <3>1. Calculated(r, e) \in SUBSET EventLine /\ OneLineEach(Calculated(r, e))
      BY <1>1, CalculatedType
    <3>2. OneLineEach({})
      BY DEF OneLineEach
    <3>3. work.lines = IF e \in RowEvents THEN Calculated(r, e) ELSE {}
      BY <1>0 DEF CalculateWork, PayrollWork
    <3>4. work \in PayrollWork /\ work.op = "calculate" /\ work.event = e
      BY <1>0, <3>1 DEF CalculateWork, PayrollWork
    <3>. QED BY <3>1, <3>2, <3>3, <3>4
  <2>2. EventBegins(r, eventStatus[e] \notin {"DRAFT", "CALCULATED"}, place, work)
    BY <1>4 DEF BeginCalculate
  <2>. HIDE DEF work
  <2>3. ASSUME eventStatus[e] \in {"DRAFT", "CALCULATED"}, payTx'[r] = work,
               payPc'[r] = place, \A f \in LineEvents : lineLock'[f] # r
        PROVE  EventSound(r)' /\ EventChecked(r)'
    <3>1. e \in RowEvents <=> e \notin LineEvents
      BY PayrollAssumption DEF Events
    <3>2. Calculates(r)'
      BY <2>1, <2>3, <3>1 DEF Calculates
    <3>. QED BY <1>2, <1>4, <2>1, <2>3, <3>2 DEF EventSound, EventChecked, PayrollWorking,
                                                PayrollBegin
  <2>4. place \in PayrollWorking
    BY DEF PayrollWorking
  <2>. HIDE DEF place
  <2>. QED BY <2>1, <2>2, <2>3, <2>4, EventBeginsStep
<1>5. ASSUME NEW e \in Events, BeginPost(r, e)
      PROVE  EventsInvariant'
  <2>. DEFINE work == [NoPayrollWork EXCEPT !.op = "post", !.event = e, !.lines = eventLines[e]]
              refused == eventStatus[e] # "CALCULATED" \/ eventLines[e] = {}
                           \/ ~Balanced(eventLines[e])
  <2>1. /\ work \in PayrollWork /\ work.op = "post" /\ work.event = e
        /\ work.lines = eventLines[e]
    BY <1>0, <1>1 DEF PayrollWork, PayrollTypeOK
  <2>2. EventBegins(r, refused, "write", work)
    BY <1>5 DEF BeginPost
  <2>. HIDE DEF work
  <2>3. ASSUME ~refused, payTx'[r] = work, payPc'[r] = "write",
               \A f \in LineEvents : lineLock'[f] # r
        PROVE  EventSound(r)' /\ EventChecked(r)'
    BY <1>2, <1>5, <2>1, <2>3 DEF EventSound, EventChecked, PayrollWorking
  <2>. HIDE DEF refused
  <2>4. refused \in BOOLEAN
    BY DEF refused
  <2>. QED BY <2>1, <2>2, <2>3, <2>4, EventBeginsStep DEF PayrollWorking
<1>6. ASSUME NEW e \in Events, BeginRemoveEvent(r, e)
      PROVE  EventsInvariant'
  <2>. DEFINE work == [NoPayrollWork EXCEPT !.op = "remove", !.event = e]
  <2>1. work \in PayrollWork /\ work.op = "remove" /\ work.event = e
    BY <1>0 DEF PayrollWork
  <2>2. EventBegins(r, eventStatus[e] \notin {"DRAFT", "CALCULATED"}, "write", work)
    BY <1>6 DEF BeginRemoveEvent
  <2>. HIDE DEF work
  <2>3. ASSUME eventStatus[e] \in {"DRAFT", "CALCULATED"}, payTx'[r] = work,
               payPc'[r] = "write", \A f \in LineEvents : lineLock'[f] # r
        PROVE  EventSound(r)' /\ EventChecked(r)'
    BY <1>2, <2>1, <2>3 DEF EventSound, EventChecked, PayrollWorking
  <2>. QED BY <2>1, <2>2, <2>3, EventBeginsStep DEF PayrollWorking
<1>7. ASSUME NEW m \in Employees, NEW amount \in Salaries, BeginUpdateEmployee(r, m, amount)
      PROVE  EventsInvariant'
  <2>. DEFINE work == [NoPayrollWork EXCEPT !.op = "employee", !.employee = m, !.amount = amount]
              refused == m \in terminated
  <2>1. /\ work \in PayrollWork /\ work.op = "employee" /\ work.employee = m
        /\ work.amount = amount
    BY <1>0, PayrollAssumption DEF PayrollWork
  <2>2. EventBegins(r, refused, "write", work)
    BY <1>7 DEF BeginUpdateEmployee
  <2>. HIDE DEF work
  <2>3. ASSUME payTx'[r] = work, payPc'[r] = "write", \A f \in LineEvents : lineLock'[f] # r
        PROVE  EventSound(r)' /\ EventChecked(r)'
    BY <2>1, <2>3 DEF EventSound, EventChecked, PayrollWorking
  <2>4. refused \in BOOLEAN
    OBVIOUS
  <2>. HIDE DEF refused
  <2>. QED BY <2>1, <2>2, <2>3, <2>4, EventBeginsStep DEF PayrollWorking
<1>. QED BY <1>3, <1>4, <1>5, <1>6, <1>7 DEF PayrollBegin

\* The end of a request that commits nothing.
LEMMA EventRollbackStep ==
  ASSUME EventsInvariant, NEW r \in PayrollInProgress, EventRollback(r)
  PROVE  EventsInvariant'
<1>1. /\ UNCHANGED payrollCommitted /\ payOverlapped' = payOverlapped
      /\ payTx' = [payTx EXCEPT ![r] = NoPayrollWork]
      /\ payPc' = [payPc EXCEPT ![r] = "failed"]
      /\ lineLock' = [e \in LineEvents |-> IF lineLock[e] = r THEN Nobody ELSE lineLock[e]]
  BY DEF EventRollback, EventEnds
<1>2. r \in PayrollRequests /\ r # Nobody
  BY PayrollAssumption DEF PayrollInProgress
<1>3. payTx'[r] = NoPayrollWork /\ payPc'[r] = "failed" /\ OnlyEventOf(r)
  BY <1>1, <1>2 DEF EventsInvariant, PayrollTypeOK, OnlyEventOf
<1>4. \A e \in LineEvents : lineLock'[e] # r
  BY <1>1, <1>2
<1>5. (payTx[r] = NoPayrollWork /\ payPc[r] \notin PayrollWorking
         /\ (\A e \in LineEvents : lineLock[e] # r)
           => EventSound(r) /\ EventChecked(r))'
  BY RestingRequest, PTL
<1>6. EventSound(r)' /\ EventChecked(r)'
  BY <1>3, <1>4, <1>5 DEF PayrollWorking
<1>7. /\ payOverlapped' \in BOOLEAN
      /\ lineLock' \in [LineEvents -> PayrollRequests \cup {Nobody}]
      /\ \A e \in LineEvents : \/ lineLock'[e] = lineLock[e]
                               \/ lineLock[e] \in {Nobody, r} /\ lineLock'[e] \in {Nobody, r}
  BY <1>1 DEF EventsInvariant, PayrollTypeOK
<1>8. ~payOverlapped => \A q \in PayrollRequests \ {r} : payTx[q].op = "none"
  BY OthersIdle
<1>. QED BY <1>1, <1>2, <1>3, <1>6, <1>7, <1>8, NoPayrollWorkTyped, PrivateEventStep

\* A calculation computes its lines from the employees ...
LEMMA ReadEmployeesStep ==
  ASSUME EventsInvariant, NEW r \in PayrollRequests, ReadEmployees(r)
  PROVE  EventsInvariant'
<1>. DEFINE some == Calculated(r, payTx[r].event)
            work == [payTx[r] EXCEPT !.lines = some]
<1>1. /\ payPc[r] = "read" /\ UNCHANGED payrollCommitted
      /\ payOverlapped' = payOverlapped /\ lineLock' = lineLock
      /\ payTx' = [payTx EXCEPT ![r].lines = some]
      /\ payPc' = [payPc EXCEPT ![r] = "delete"]
  BY DEF ReadEmployees
<1>2. /\ payTx[r] \in PayrollWork /\ payTx[r].event \in Events /\ EventSound(r)
      /\ r \in PayrollInProgress
  BY <1>1 DEF EventsInvariant, PayrollTypeOK, PayrollWork, PayrollInProgress, PayrollWorking
<1>3. payTx[r].op = "calculate" /\ Calculates(r)
  BY <1>1, <1>2 DEF EventSound, PayrollWork, PayrollWorking
<1>4. some \in SUBSET EventLine /\ OneLineEach(some)
  BY <1>2, CalculatedType DEF EventsInvariant
<1>. HIDE DEF some
<1>5. /\ work \in PayrollWork /\ work.op = "calculate" /\ work.event = payTx[r].event
      /\ work.lines = some
  BY <1>2, <1>3, <1>4 DEF PayrollWork
<1>6. payTx'[r] = work /\ payPc'[r] = "delete" /\ OnlyEventOf(r)
  BY <1>1 DEF EventsInvariant, PayrollTypeOK, OnlyEventOf
<1>. HIDE DEF work
<1>7. Calculates(r)'
  BY <1>1, <1>3, <1>4, <1>5, <1>6 DEF Calculates
<1>8. EventSound(r)'
  BY <1>1, <1>2, <1>5, <1>6, <1>7 DEF EventSound, PayrollWorking
<1>9. ASSUME ~payOverlapped
      PROVE  /\ \A q \in PayrollRequests \ {r} : payTx[q].op = "none"
             /\ EventChecked(r)'
  BY <1>1, <1>2, <1>3, <1>5, <1>6, <1>9, OthersIdle DEF EventChecked, payrollCommitted
<1>10. /\ payOverlapped' \in BOOLEAN
       /\ lineLock' \in [LineEvents -> PayrollRequests \cup {Nobody}]
  BY <1>1 DEF EventsInvariant, PayrollTypeOK
<1>. QED BY <1>1, <1>5, <1>6, <1>8, <1>9, <1>10, PrivateEventStep DEF PayrollWorking

\* ... notes the lines its DELETE statement sees ...
LEMMA DeleteLinesStep ==
  ASSUME EventsInvariant, NEW r \in PayrollRequests, DeleteLines(r)
  PROVE  EventsInvariant'
<1>. DEFINE work == [payTx[r] EXCEPT !.seen = eventLines[payTx[r].event]]
<1>1. /\ payPc[r] = "delete" /\ UNCHANGED payrollCommitted
      /\ payOverlapped' = payOverlapped /\ lineLock' = lineLock
      /\ payTx' = [payTx EXCEPT ![r].seen = eventLines[payTx[r].event]]
      /\ payPc' = [payPc EXCEPT ![r] = "rewrite"]
  BY DEF DeleteLines
<1>2. /\ payTx[r] \in PayrollWork /\ payTx[r].event \in Events /\ EventSound(r)
      /\ r \in PayrollInProgress /\ eventLines[payTx[r].event] \in SUBSET EventLine
  BY <1>1 DEF EventsInvariant, PayrollTypeOK, PayrollWork, PayrollInProgress, PayrollWorking
<1>3. payTx[r].op = "calculate" /\ Calculates(r)
  BY <1>1, <1>2 DEF EventSound, PayrollWork, PayrollWorking
<1>5. /\ work \in PayrollWork /\ work.op = "calculate" /\ work.event = payTx[r].event
      /\ work.lines = payTx[r].lines
  BY <1>2, <1>3 DEF PayrollWork
<1>6. payTx'[r] = work /\ payPc'[r] = "rewrite" /\ OnlyEventOf(r)
  BY <1>1 DEF EventsInvariant, PayrollTypeOK, OnlyEventOf
<1>. HIDE DEF work
<1>7. Calculates(r)'
  BY <1>1, <1>3, <1>5, <1>6 DEF Calculates
<1>8. EventSound(r)'
  BY <1>1, <1>2, <1>5, <1>6, <1>7 DEF EventSound, PayrollWorking
<1>9. ASSUME ~payOverlapped
      PROVE  /\ \A q \in PayrollRequests \ {r} : payTx[q].op = "none"
             /\ EventChecked(r)'
  BY <1>1, <1>2, <1>3, <1>5, <1>6, <1>9, OthersIdle DEF EventChecked, payrollCommitted
<1>10. /\ payOverlapped' \in BOOLEAN
       /\ lineLock' \in [LineEvents -> PayrollRequests \cup {Nobody}]
  BY <1>1 DEF EventsInvariant, PayrollTypeOK
<1>. QED BY <1>1, <1>5, <1>6, <1>8, <1>9, <1>10, PrivateEventStep DEF PayrollWorking

\* ... and takes the lines, unless one it keeps is of an employee it has a line of.
LEMMA RewriteLinesStep ==
  ASSUME EventsInvariant, NEW r \in PayrollRequests, RewriteLines(r)
  PROVE  EventsInvariant'
<1>. DEFINE e == payTx[r].event
<1>1. payPc[r] = "rewrite" /\ lineLock[e] = Nobody
  BY DEF RewriteLines
<1>2. /\ payTx[r] \in PayrollWork /\ e \in Events /\ EventSound(r)
      /\ r \in PayrollInProgress
  BY <1>1 DEF EventsInvariant, PayrollTypeOK, PayrollWork, PayrollInProgress, PayrollWorking
<1>3. payTx[r].op = "calculate" /\ Calculates(r) /\ e \in LineEvents
  BY <1>1, <1>2 DEF EventSound, PayrollWork, PayrollWorking, Calculates, Events
<1>4. CASE EventRollback(r)
  BY <1>2, <1>4, EventRollbackStep
<1>5. CASE ~EventRollback(r)
  <2>1. /\ UNCHANGED payrollCommitted /\ payTx' = payTx /\ payOverlapped' = payOverlapped
        /\ lineLock' = [lineLock EXCEPT ![e] = r]
        /\ payPc' = [payPc EXCEPT ![r] = "write"]
        /\ Apart(payTx[r].lines, LinesLeft(r))
    BY <1>5 DEF RewriteLines, Apart
  <2>. HIDE DEF e
  <2>2. payTx'[r] = payTx[r] /\ payPc'[r] = "write" /\ OnlyEventOf(r)
    BY <2>1 DEF EventsInvariant, PayrollTypeOK, OnlyEventOf
  <2>3. /\ lineLock' \in [LineEvents -> PayrollRequests \cup {Nobody}]
        /\ lineLock'[e] = r /\ \A f \in LineEvents \ {e} : lineLock'[f] = lineLock[f]
        /\ payOverlapped' \in BOOLEAN
    BY <1>3, <2>1 DEF EventsInvariant, PayrollTypeOK
  <2>4. \A f \in LineEvents : lineLock[f] # r
    BY <1>1, <1>2 DEF EventSound
  <2>5. LinesLeft(r)' = LinesLeft(r)
    BY <2>1 DEF LinesLeft, payrollCommitted
  <2>6. Calculates(r)'
    BY <1>3, <2>1, <2>2, <2>3, <2>5 DEF Calculates, e
  <2>7. EventSound(r)'
    BY <1>2, <1>3, <2>2, <2>3, <2>4, <2>6 DEF EventSound, PayrollWorking, e
  <2>8. ASSUME ~payOverlapped
        PROVE  /\ \A q \in PayrollRequests \ {r} : payTx[q].op = "none"
               /\ EventChecked(r)'
    BY <1>2, <2>1, <2>2, <2>8, OthersIdle DEF EventChecked, payrollCommitted
  <2>9. \A f \in LineEvents : \/ lineLock'[f] = lineLock[f]
                              \/ lineLock[f] \in {Nobody, r} /\ lineLock'[f] \in {Nobody, r}
    BY <1>1, <2>3 DEF e
  <2>. QED BY <1>2, <2>1, <2>2, <2>3, <2>7, <2>8, <2>9, PrivateEventStep DEF PayrollWorking
<1>. QED BY <1>4, <1>5

-----------------------------------------------------------------------------
(* Steps that commit *)

\* A statement that ends a request with a commit keeps the invariant when the
\* tables it leaves are sound and no lines another request holds have changed.
LEMMA PublicEventStep ==
  ASSUME EventsInvariant, NEW r \in PayrollInProgress, EventEnds(r, "done"),
         salary' \in [Employees -> Salaries], terminated' \subseteq Employees,
         eventStatus' \in [Events -> EventStatus],
         eventLines' \in [Events -> SUBSET EventLine], entries' \subseteq Entry,
         LinesApart',
         \A e \in LineEvents : lineLock[e] \in PayrollRequests \ {r} => eventLines'[e] = eventLines[e],
         ~payOverlapped =>
           \A n \in entries' : /\ eventStatus'[n.event] = "POSTED" /\ eventLines'[n.event] = n.lines
                               /\ \A k \in entries' : k.event = n.event => k = n
  PROVE  EventsInvariant'
<1>1. /\ payOverlapped' = payOverlapped
      /\ payTx' = [payTx EXCEPT ![r] = NoPayrollWork]
      /\ payPc' = [payPc EXCEPT ![r] = "done"]
      /\ lineLock' = [e \in LineEvents |-> IF lineLock[e] = r THEN Nobody ELSE lineLock[e]]
  BY DEF EventEnds
<1>2. r \in PayrollRequests /\ Nobody \notin PayrollRequests
  BY PayrollAssumption DEF PayrollInProgress
<1>3. /\ payTx'[r] = NoPayrollWork /\ payPc'[r] = "done"
      /\ \A q \in PayrollRequests \ {r} : payTx'[q] = payTx[q] /\ payPc'[q] = payPc[q]
  BY <1>1, <1>2 DEF EventsInvariant, PayrollTypeOK
<1>4. \A e \in LineEvents : lineLock'[e] # r
  BY <1>1, <1>2
<1>5. (payTx[r] = NoPayrollWork /\ payPc[r] \notin PayrollWorking
         /\ (\A e \in LineEvents : lineLock[e] # r)
           => EventSound(r) /\ EventChecked(r))'
  BY RestingRequest, PTL
<1>6. EventSound(r)' /\ EventChecked(r)'
  BY <1>3, <1>4, <1>5 DEF PayrollWorking
<1>7. ASSUME NEW q \in PayrollRequests \ {r}
      PROVE  EventSound(q)'
  <2>1. \A e \in LineEvents : lineLock'[e] = q <=> lineLock[e] = q
    BY <1>1, <1>2
  <2>2. \A e \in LineEvents : lineLock[e] = q => eventLines'[e] = eventLines[e]
    OBVIOUS
  <2>. QED BY <1>3, <2>1, <2>2, EventSoundKept DEF EventsInvariant, PayrollTypeOK
<1>8. PayrollTypeOK'
  <2>1. /\ payTx' \in [PayrollRequests -> PayrollWork]
        /\ payPc' \in [PayrollRequests -> PayrollWorking \cup {"idle", "done", "failed"}]
        /\ lineLock' \in [LineEvents -> PayrollRequests \cup {Nobody}]
    BY <1>1, NoPayrollWorkTyped DEF EventsInvariant, PayrollTypeOK
  <2>2. \A e \in LineEvents : lineLock'[e] # Nobody =>
          payPc'[lineLock'[e]] = "write" /\ payTx'[lineLock'[e]].event = e
    BY <1>6, <1>7, <2>1 DEF EventSound
  <2>. QED BY <1>1, <2>1, <2>2 DEF EventsInvariant, PayrollTypeOK
<1>9. ASSUME ~payOverlapped'
      PROVE  /\ \A p, q \in PayrollInProgress' : p = q
             /\ \A q \in PayrollRequests : EventChecked(q)'
  <2>1. \A q \in PayrollRequests \ {r} : payTx[q].op = "none"
    BY <1>1, <1>9, OthersIdle
  <2>2. \A p, q \in PayrollInProgress' : p = q
    BY <1>3, <2>1 DEF EventsInvariant, EventSound, PayrollInProgress, PayrollWorking
  <2>3. ASSUME NEW q \in PayrollRequests \ {r}
        PROVE  EventChecked(q)'
    <3>1. payTx'[q].op = "none"
      BY <1>3, <2>1
    <3>. QED BY <3>1 DEF EventChecked
  <2>. QED BY <1>6, <2>2, <2>3
<1>10. PostedMatchesEntry'
  BY <1>1 DEF PostedMatchesEntry
<1>. QED BY <1>6, <1>7, <1>8, <1>9, <1>10 DEF EventsInvariant, EventsSerial

\* The insertion of a new event: it has no lines, and nothing is posted for it.
LEMMA InsertEventStep ==
  ASSUME EventsInvariant, NEW r \in PayrollRequests, InsertEvent(r)
  PROVE  EventsInvariant'
<1>. DEFINE e == payTx[r].event
<1>1. payPc[r] = "insert" /\ r \in PayrollInProgress /\ e \in Events /\ PayrollTypeOK
  BY DEF InsertEvent, PayrollInProgress, PayrollWorking, EventsInvariant, PayrollTypeOK,
         PayrollWork
<1>2. CASE EventRollback(r)
  BY <1>1, <1>2, EventRollbackStep
<1>3. CASE ~EventRollback(r)
  <2>1. /\ eventStatus' = [eventStatus EXCEPT ![e] = "DRAFT"] /\ EventEnds(r, "done")
        /\ UNCHANGED <<salary, terminated, eventLines, entries>>
    BY <1>3 DEF InsertEvent
  <2>2. payTx[r].op = "create"
    BY <1>1 DEF EventsInvariant, EventSound, PayrollTypeOK, PayrollWork, PayrollWorking,
                Calculates
  <2>. HIDE DEF e
  <2>3. /\ eventStatus' \in [Events -> EventStatus]
        /\ \A f \in Events \ {e} : eventStatus'[f] = eventStatus[f]
    BY <1>1, <2>1 DEF PayrollTypeOK, EventStatus
  <2>4. LinesApart'
    BY <2>1 DEF EventsInvariant, LinesApart, OneLineEach
  <2>5. ASSUME ~payOverlapped
        PROVE  \A n \in entries' :
                 /\ eventStatus'[n.event] = "POSTED" /\ eventLines'[n.event] = n.lines
                 /\ \A k \in entries' : k.event = n.event => k = n
    <3>1. eventStatus[e] = "ABSENT" /\ PostedMatchesEntry
      BY <1>1, <2>2, <2>5, OthersIdle DEF EventChecked, EventsInvariant, e
    <3>2. \A n \in entries : n.event \in Events \ {e}
      BY <1>1, <2>5, <3>1 DEF PostedMatchesEntry, PayrollTypeOK, Entry
    <3>. QED BY <2>1, <2>3, <2>5, <3>1, <3>2 DEF PostedMatchesEntry
  <2>. QED BY <1>1, <2>1, <2>3, <2>4, <2>5, PublicEventStep DEF PayrollTypeOK
<1>. QED BY <1>2, <1>3

\* Two sets of lines, each with one of an employee, and none of an employee of the
\* other.
LEMMA LinesTogether ==
  ASSUME NEW some, NEW others, OneLineEach(some), OneLineEach(others), Apart(some, others)
  PROVE  OneLineEach(some \cup others)
BY DEF OneLineEach, Apart

\* The end of a calculation: its lines, and those it kept.
LEMMA WriteCalculationStep ==
  ASSUME EventsInvariant, NEW r \in PayrollRequests, WriteCalculation(r)
  PROVE  EventsInvariant'
<1>. DEFINE e == payTx[r].event
            kept == IF e \in LineEvents THEN LinesLeft(r) ELSE {}
            new == payTx[r].lines \cup kept
<1>1. /\ payPc[r] = "write" /\ payTx[r].op = "calculate" /\ r \in PayrollInProgress
      /\ e \in Events /\ payTx[r].lines \in SUBSET EventLine /\ PayrollTypeOK
  BY DEF WriteCalculation, PayrollInProgress, PayrollWorking, EventsInvariant, PayrollTypeOK,
         PayrollWork
<1>2. CASE EventRollback(r)
  BY <1>1, <1>2, EventRollbackStep
<1>3. CASE ~EventRollback(r)
  <2>1. /\ eventStatus' = [eventStatus EXCEPT ![e] = "CALCULATED"] /\ EventEnds(r, "done")
        /\ eventLines' = [eventLines EXCEPT ![e] = new]
        /\ UNCHANGED <<salary, terminated, entries>>
    BY <1>3 DEF WriteCalculation
  <2>2. Calculates(r)
    BY <1>1 DEF EventsInvariant, EventSound
  <2>3. kept \subseteq eventLines[e] /\ Apart(payTx[r].lines, kept)
    BY <1>1, <2>2 DEF Calculates, LinesLeft, Apart
  <2>4. OneLineEach(payTx[r].lines) /\ OneLineEach(kept)
    BY <1>1, <2>2, <2>3 DEF Calculates, EventsInvariant, LinesApart, OneLineEach
  <2>5. new \in SUBSET EventLine /\ OneLineEach(new)
    <3>1. kept \in SUBSET EventLine
      BY <1>1, <2>3 DEF PayrollTypeOK
    <3>. HIDE DEF kept
    <3>. QED BY <1>1, <2>3, <2>4, <3>1, LinesTogether
  <2>. HIDE DEF new
  <2>6. /\ eventLines' \in [Events -> SUBSET EventLine] /\ eventLines'[e] = new
        /\ \A f \in Events \ {e} : eventLines'[f] = eventLines[f]
        /\ eventStatus' \in [Events -> EventStatus]
        /\ \A f \in Events \ {e} : eventStatus'[f] = eventStatus[f]
    <3>. HIDE DEF e
    <3>. QED BY <1>1, <2>1, <2>5 DEF PayrollTypeOK, EventStatus
  <2>7. LinesApart'
    BY <2>5, <2>6 DEF EventsInvariant, LinesApart, OneLineEach
  <2>8. \A f \in LineEvents :
          lineLock[f] \in PayrollRequests \ {r} => eventLines'[f] = eventLines[f]
    BY <1>1, <2>2, <2>6 DEF Calculates, Events
  <2>9. ASSUME ~payOverlapped
        PROVE  \A n \in entries' :
                 /\ eventStatus'[n.event] = "POSTED" /\ eventLines'[n.event] = n.lines
                 /\ \A k \in entries' : k.event = n.event => k = n
    <3>1. eventStatus[e] \in {"DRAFT", "CALCULATED"} /\ PostedMatchesEntry
      BY <1>1, <2>9, OthersIdle DEF EventChecked, EventsInvariant
    <3>2. \A n \in entries : n.event \in Events \ {e}
      BY <1>1, <2>9, <3>1 DEF PostedMatchesEntry, PayrollTypeOK, Entry
    <3>. QED BY <2>1, <2>6, <2>9, <3>1, <3>2 DEF PostedMatchesEntry
  <2>. QED BY <1>1, <2>1, <2>6, <2>7, <2>8, <2>9, PublicEventStep DEF PayrollTypeOK
<1>. QED BY <1>2, <1>3

\* A posting: the entry has the lines of the event, and is its first.
LEMMA WritePostedStep ==
  ASSUME EventsInvariant, NEW r \in PayrollRequests, WritePosted(r)
  PROVE  EventsInvariant'
<1>. DEFINE e == payTx[r].event
            entry == [event |-> e, lines |-> payTx[r].lines, by |-> r]
<1>1. /\ payPc[r] = "write" /\ payTx[r].op = "post" /\ r \in PayrollInProgress
      /\ e \in Events /\ payTx[r].lines \in SUBSET EventLine /\ PayrollTypeOK
  BY DEF WritePosted, PayrollInProgress, PayrollWorking, EventsInvariant, PayrollTypeOK,
         PayrollWork
<1>2. CASE EventRollback(r)
  BY <1>1, <1>2, EventRollbackStep
<1>3. CASE ~EventRollback(r)
  <2>1. /\ eventStatus' = [eventStatus EXCEPT ![e] = "POSTED"] /\ EventEnds(r, "done")
        /\ entries' = entries \cup {entry}
        /\ terminated' = IF e \in Terminations THEN terminated \cup {EmployeeOf[e]} ELSE terminated
        /\ UNCHANGED <<salary, eventLines>>
    BY <1>3 DEF WritePosted
  <2>2. entry \in Entry /\ entry.event = e /\ entry.lines = payTx[r].lines
    BY <1>1 DEF Entry
  <2>3. terminated' \subseteq Employees
    BY <1>1, <2>1, PayrollAssumption DEF PayrollTypeOK, RowEvents
  <2>4. /\ eventStatus' \in [Events -> EventStatus] /\ eventStatus'[e] = "POSTED"
        /\ \A f \in Events \ {e} : eventStatus'[f] = eventStatus[f]
    <3>. HIDE DEF e
    <3>. QED BY <1>1, <2>1 DEF PayrollTypeOK, EventStatus
  <2>5. LinesApart'
    BY <2>1 DEF EventsInvariant, LinesApart, OneLineEach
  <2>. HIDE DEF entry
  <2>6. ASSUME ~payOverlapped
        PROVE  \A n \in entries' :
                 /\ eventStatus'[n.event] = "POSTED" /\ eventLines'[n.event] = n.lines
                 /\ \A k \in entries' : k.event = n.event => k = n
    <3>1. /\ eventStatus[e] = "CALCULATED" /\ eventLines[e] = payTx[r].lines
          /\ PostedMatchesEntry
      BY <1>1, <2>6, OthersIdle DEF EventChecked, EventsInvariant
    <3>2. \A n \in entries : n.event \in Events \ {e}
      BY <1>1, <2>6, <3>1 DEF PostedMatchesEntry, PayrollTypeOK, Entry
    <3>3. \A n \in entries' : n \in entries \/ n = entry
      BY <2>1
    <3>. HIDE DEF e
    <3>4. ASSUME NEW n \in entries
          PROVE  /\ eventStatus'[n.event] = "POSTED" /\ eventLines'[n.event] = n.lines
                 /\ \A k \in entries' : k.event = n.event => k = n
      BY <2>1, <2>2, <2>4, <2>6, <3>1, <3>2, <3>3 DEF PostedMatchesEntry
    <3>5. /\ eventStatus'[entry.event] = "POSTED" /\ eventLines'[entry.event] = entry.lines
          /\ \A k \in entries' : k.event = entry.event => k = entry
      BY <2>1, <2>2, <2>4, <3>1, <3>2, <3>3
    <3>. QED BY <3>3, <3>4, <3>5
  <2>7. entries' \subseteq Entry
    BY <1>1, <2>1, <2>2 DEF PayrollTypeOK
  <2>. QED BY <1>1, <2>1, <2>3, <2>4, <2>5, <2>6, <2>7, PublicEventStep DEF PayrollTypeOK
<1>. QED BY <1>2, <1>3

\* A removal takes the lines of an event that no calculation holds.
LEMMA WriteRemovalStep ==
  ASSUME EventsInvariant, NEW r \in PayrollRequests, WriteRemoval(r)
  PROVE  EventsInvariant'
<1>. DEFINE e == payTx[r].event
<1>1. /\ payPc[r] = "write" /\ payTx[r].op = "remove" /\ r \in PayrollInProgress
      /\ e \in Events /\ PayrollTypeOK
      /\ e \in LineEvents => lineLock[e] = Nobody
  BY DEF WriteRemoval, PayrollInProgress, PayrollWorking, EventsInvariant, PayrollTypeOK,
         PayrollWork
<1>2. CASE EventRollback(r)
  BY <1>1, <1>2, EventRollbackStep
<1>3. CASE ~EventRollback(r)
  <2>1. /\ eventStatus' = [eventStatus EXCEPT ![e] = "REMOVED"] /\ EventEnds(r, "done")
        /\ eventLines' = [eventLines EXCEPT ![e] = {}]
        /\ UNCHANGED <<salary, terminated, entries>>
    BY <1>3 DEF WriteRemoval
  <2>2. /\ eventLines' \in [Events -> SUBSET EventLine] /\ eventLines'[e] = {}
        /\ \A f \in Events \ {e} : eventLines'[f] = eventLines[f]
        /\ eventStatus' \in [Events -> EventStatus]
        /\ \A f \in Events \ {e} : eventStatus'[f] = eventStatus[f]
    <3>. HIDE DEF e
    <3>. QED BY <1>1, <2>1 DEF PayrollTypeOK, EventStatus
  <2>3. LinesApart'
    BY <2>2 DEF EventsInvariant, LinesApart, OneLineEach
  <2>4. \A f \in LineEvents :
          lineLock[f] \in PayrollRequests \ {r} => eventLines'[f] = eventLines[f]
    BY <1>1, <2>2, PayrollAssumption DEF Events
  <2>5. ASSUME ~payOverlapped
        PROVE  \A n \in entries' :
                 /\ eventStatus'[n.event] = "POSTED" /\ eventLines'[n.event] = n.lines
                 /\ \A k \in entries' : k.event = n.event => k = n
    <3>1. eventStatus[e] \in {"DRAFT", "CALCULATED"} /\ PostedMatchesEntry
      BY <1>1, <2>5, OthersIdle DEF EventChecked, EventsInvariant
    <3>2. \A n \in entries : n.event \in Events \ {e}
      BY <1>1, <2>5, <3>1 DEF PostedMatchesEntry, PayrollTypeOK, Entry
    <3>. QED BY <2>1, <2>2, <2>5, <3>1, <3>2 DEF PostedMatchesEntry
  <2>. QED BY <1>1, <2>1, <2>2, <2>3, <2>4, <2>5, PublicEventStep DEF PayrollTypeOK
<1>. QED BY <1>2, <1>3

\* An employee's salary may change while events are calculated from it.
LEMMA WriteEmployeeStep ==
  ASSUME EventsInvariant, NEW r \in PayrollRequests, WriteEmployee(r)
  PROVE  EventsInvariant'
<1>1. /\ payPc[r] = "write" /\ payTx[r].op = "employee" /\ r \in PayrollInProgress
      /\ PayrollTypeOK /\ EventEnds(r, "done")
      /\ salary' = [salary EXCEPT ![payTx[r].employee] = payTx[r].amount]
      /\ UNCHANGED <<terminated, eventStatus, eventLines, entries>>
  BY DEF WriteEmployee, PayrollInProgress, PayrollWorking, EventsInvariant
<1>2. payTx[r].employee \in Employees /\ payTx[r].amount \in Salaries
  BY <1>1 DEF EventsInvariant, EventSound
<1>3. salary' \in [Employees -> Salaries]
  BY <1>1, <1>2 DEF PayrollTypeOK
<1>4. LinesApart'
  BY <1>1 DEF EventsInvariant, LinesApart, OneLineEach
<1>5. ~payOverlapped =>
        \A n \in entries' : /\ eventStatus'[n.event] = "POSTED" /\ eventLines'[n.event] = n.lines
                            /\ \A k \in entries' : k.event = n.event => k = n
  BY <1>1 DEF EventsInvariant, PostedMatchesEntry
<1>. QED BY <1>1, <1>3, <1>4, <1>5, PublicEventStep DEF PayrollTypeOK

-----------------------------------------------------------------------------
(* The invariant *)

\* The payroll starts sound ...
LEMMA PayrollInitStrong == PayrollInit => EventsInvariant
<1>. SUFFICES ASSUME PayrollInit PROVE EventsInvariant
  OBVIOUS
<1>. USE DEF PayrollInit
<1>1. PayrollTypeOK
  BY NoPayrollWorkTyped DEF PayrollTypeOK, EventStatus
<1>2. \A r \in PayrollRequests : EventSound(r) /\ EventChecked(r)
  BY RestingRequest, PayrollAssumption DEF PayrollWorking
<1>. QED BY <1>1, <1>2 DEF EventsInvariant, EventsSerial, LinesApart, OneLineEach,
                           PostedMatchesEntry, PayrollInProgress, PayrollWorking

\* ... and every step keeps it so.
LEMMA PayrollNextStrong == EventsInvariant /\ [PayrollNext]_payrollVars => EventsInvariant'
<1>. SUFFICES ASSUME EventsInvariant, [PayrollNext]_payrollVars PROVE EventsInvariant'
  OBVIOUS
<1>1. ASSUME NEW r \in PayrollRequests, PayrollBegin(r) PROVE EventsInvariant'
  BY <1>1, PayrollBeginStep
<1>2. ASSUME NEW r \in PayrollRequests, PayrollStatement(r) PROVE EventsInvariant'
  BY <1>2, InsertEventStep, ReadEmployeesStep, DeleteLinesStep, RewriteLinesStep,
     WriteCalculationStep, WritePostedStep, WriteRemovalStep, WriteEmployeeStep
     DEF PayrollStatement
<1>3. ASSUME NEW r \in PayrollRequests, EventAbort(r) PROVE EventsInvariant'
  BY <1>3, EventRollbackStep DEF EventAbort, PayrollInProgress
<1>4. CASE UNCHANGED payrollVars
  <2>. USE <1>4 DEF payrollVars, payrollCommitted
  <2>1. PayrollTypeOK' /\ LinesApart' /\ PostedMatchesEntry'
    BY DEF EventsInvariant, PayrollTypeOK, LinesApart, OneLineEach, PostedMatchesEntry
  <2>2. \A r \in PayrollRequests : EventSound(r)'
    BY EventSoundKept DEF EventsInvariant, PayrollTypeOK
  <2>3. EventsSerial'
    BY DEF EventsInvariant, EventsSerial, EventChecked, PayrollInProgress
  <2>. QED BY <2>1, <2>2, <2>3 DEF EventsInvariant
<1>. QED BY <1>1, <1>2, <1>3, <1>4 DEF PayrollNext

\* The invariant of the payroll, for any employees, events and requests.
THEOREM PayrollStrong == PayrollSpec => []EventsInvariant
BY PayrollInitStrong, PayrollNextStrong, PTL DEF PayrollSpec

\* However calculations of an event interleave, and whatever salaries change
\* meanwhile, no event has two lines of an employee.
THEOREM OneLinePerEmployee == PayrollSpec => []LinesOnePerEmployee
<1>1. EventsInvariant => LinesOnePerEmployee
  BY DEF EventsInvariant, LinesOnePerEmployee, LinesApart, OneLineEach
<1>. QED BY <1>1, PayrollStrong, PTL

\* Until two requests overlap, an event is posted once, and keeps the lines its
\* entry was made from.
THEOREM PostedOnce == PayrollSpec => []PostedMatchesEntry
<1>1. EventsInvariant => PostedMatchesEntry
  BY DEF EventsInvariant
<1>. QED BY <1>1, PayrollStrong, PTL

-----------------------------------------------------------------------------
(* Refinement *)

\* A change of the status of one event moves its document to the stage of that
\* status.
LEMMA EventMoves ==
  ASSUME PayrollTypeOK, NEW e \in Events, NEW s \in EventStatus,
         eventStatus' = [eventStatus EXCEPT ![e] = s]
  PROVE  /\ s = "DRAFT" => EventStage' = [EventStage EXCEPT ![e] = "open"]
         /\ s = "CALCULATED" => EventStage' = [EventStage EXCEPT ![e] = "open"]
         /\ s = "POSTED" => EventStage' = [EventStage EXCEPT ![e] = "frozen"]
         /\ s = "REMOVED" => EventStage' = [EventStage EXCEPT ![e] = "discarded"]
BY DEF EventStage, EventStageOf, PayrollTypeOK

\* Until requests overlap, every step of the payroll is a step of the life cycle or
\* leaves it as it is.
LEMMA EventStepRefines ==
  ASSUME EventsInvariant, [PayrollNext]_payrollVars, ~payOverlapped'
  PROVE  EventCycle!Next \/ UNCHANGED <<EventStage, eventLines>>
<1>0. PayrollTypeOK
  BY DEF EventsInvariant
<1>1. ASSUME UNCHANGED <<eventStatus, eventLines>>
      PROVE  UNCHANGED <<EventStage, eventLines>>
  BY <1>1 DEF EventStage, EventStageOf
<1>2. ASSUME NEW r \in PayrollRequests, payPc[r] \in PayrollWorking, EventEnds(r, "done")
      PROVE  /\ EventChecked(r) /\ EventSound(r) /\ payTx[r].event \in Events
             /\ payTx[r].op \in {"none", "create", "calculate", "post", "remove", "employee"}
  <2>1. ~payOverlapped /\ r \in PayrollInProgress
    BY <1>2 DEF EventEnds, PayrollInProgress
  <2>. QED BY <1>0, <2>1, OthersIdle DEF EventsInvariant, PayrollTypeOK, PayrollWork
<1>3. ASSUME NEW r \in PayrollRequests, InsertEvent(r), ~EventRollback(r)
      PROVE  EventCycle!Next
  <2>. DEFINE e == payTx[r].event
  <2>1. /\ payPc[r] = "insert" /\ EventEnds(r, "done")
        /\ eventStatus' = [eventStatus EXCEPT ![e] = "DRAFT"] /\ eventLines' = eventLines
    BY <1>3 DEF InsertEvent
  <2>2. e \in Events /\ eventStatus[e] = "ABSENT"
    BY <1>2, <2>1 DEF PayrollWorking, EventSound, EventChecked, Calculates
  <2>. HIDE DEF e
  <2>3. EventStage' = [EventStage EXCEPT ![e] = "open"] /\ EventStage[e] = "absent"
    BY <1>0, <2>1, <2>2, EventMoves DEF EventStatus, EventStage, EventStageOf
  <2>4. EventCycle!Create(e)
    BY <2>1, <2>3 DEF EventCycle!Create, EventCycle!Moves, EventCycle!OthersKept
  <2>. QED BY <2>2, <2>4 DEF EventCycle!Next
<1>4. ASSUME NEW r \in PayrollRequests, WriteCalculation(r), ~EventRollback(r)
      PROVE  EventCycle!Next
  <2>. DEFINE e == payTx[r].event
  <2>1. /\ payPc[r] = "write" /\ payTx[r].op = "calculate" /\ EventEnds(r, "done")
        /\ eventStatus' = [eventStatus EXCEPT ![e] = "CALCULATED"]
        /\ \E new : eventLines' = [eventLines EXCEPT ![e] = new]
    BY <1>4 DEF WriteCalculation
  <2>2. e \in Events /\ eventStatus[e] \in {"DRAFT", "CALCULATED"}
    BY <1>2, <2>1 DEF PayrollWorking, EventChecked
  <2>. HIDE DEF e
  <2>3. EventStage' = [EventStage EXCEPT ![e] = "open"] /\ EventStage[e] = "open"
    BY <1>0, <2>1, <2>2, EventMoves DEF EventStatus, EventStage, EventStageOf
  <2>4. EventCycle!OthersKept(e)
    BY <1>0, <2>1 DEF EventCycle!OthersKept, PayrollTypeOK
  <2>5. EventCycle!Edit(e)
    BY <2>3, <2>4 DEF EventCycle!Edit, EventCycle!Moves
  <2>. QED BY <2>2, <2>5 DEF EventCycle!Next
<1>5. ASSUME NEW r \in PayrollRequests, WritePosted(r), ~EventRollback(r)
      PROVE  EventCycle!Next
  <2>. DEFINE e == payTx[r].event
  <2>1. /\ payPc[r] = "write" /\ payTx[r].op = "post" /\ EventEnds(r, "done")
        /\ eventStatus' = [eventStatus EXCEPT ![e] = "POSTED"] /\ eventLines' = eventLines
    BY <1>5 DEF WritePosted
  <2>2. e \in Events /\ eventStatus[e] = "CALCULATED" /\ eventLines[e] # {}
    BY <1>2, <2>1 DEF PayrollWorking, EventChecked
  <2>. HIDE DEF e
  <2>3. EventStage' = [EventStage EXCEPT ![e] = "frozen"] /\ EventStage[e] = "open"
    BY <1>0, <2>1, <2>2, EventMoves DEF EventStatus, EventStage, EventStageOf
  <2>4. EventCycle!Freeze(e)
    BY <2>1, <2>2, <2>3 DEF EventCycle!Freeze, EventCycle!Moves, HasLines
  <2>. QED BY <2>2, <2>4 DEF EventCycle!Next
<1>6. ASSUME NEW r \in PayrollRequests, WriteRemoval(r), ~EventRollback(r)
      PROVE  EventCycle!Next
  <2>. DEFINE e == payTx[r].event
  <2>1. /\ payPc[r] = "write" /\ payTx[r].op = "remove" /\ EventEnds(r, "done")
        /\ eventStatus' = [eventStatus EXCEPT ![e] = "REMOVED"]
        /\ eventLines' = [eventLines EXCEPT ![e] = {}]
    BY <1>6 DEF WriteRemoval
  <2>2. e \in Events /\ eventStatus[e] \in {"DRAFT", "CALCULATED"}
    BY <1>2, <2>1 DEF PayrollWorking, EventChecked
  <2>. HIDE DEF e
  <2>3. EventStage' = [EventStage EXCEPT ![e] = "discarded"] /\ EventStage[e] = "open"
    BY <1>0, <2>1, <2>2, EventMoves DEF EventStatus, EventStage, EventStageOf
  <2>4. EventCycle!OthersKept(e)
    BY <1>0, <2>1 DEF EventCycle!OthersKept, PayrollTypeOK
  <2>5. EventCycle!Discard(e)
    BY <2>3, <2>4 DEF EventCycle!Discard, EventCycle!Moves
  <2>. QED BY <2>2, <2>5 DEF EventCycle!Next
<1>7. ASSUME NEW r \in PayrollRequests,
             EventRollback(r) \/ ReadEmployees(r) \/ DeleteLines(r) \/ RewriteLines(r)
               \/ WriteEmployee(r) \/ PayrollBegin(r)
      PROVE  UNCHANGED <<eventStatus, eventLines>>
  BY <1>7 DEF EventRollback, ReadEmployees, DeleteLines, RewriteLines, WriteEmployee,
              PayrollBegin, BeginCreate, BeginCalculate, BeginPost, BeginRemoveEvent,
              BeginUpdateEmployee, EventBegins, payrollCommitted
<1>8. CASE UNCHANGED payrollVars
  BY <1>1, <1>8 DEF payrollVars, payrollCommitted
<1>. QED BY <1>1, <1>3, <1>4, <1>5, <1>6, <1>7, <1>8 DEF PayrollNext, PayrollStatement, EventAbort

\* Until two requests overlap, payroll events implement the life cycle of documents:
\* calculated while they are open, posted when they have lines, frozen from then on.
THEOREM PayrollRefinement == PayrollSpec => PayrollRefinesLifecycle
<1>1. PayrollInit => EventCycle!Init
  BY DEF PayrollInit, EventCycle!Init, EventStage, EventStageOf
<1>2. ASSUME EventsInvariant, [PayrollNext]_payrollVars
      PROVE  [payOverlapped' \/ EventCycle!Next]_<<EventStage, eventLines>>
  <2>1. CASE payOverlapped'
    BY <2>1
  <2>2. CASE ~payOverlapped'
    BY <1>2, <2>2, EventStepRefines
  <2>. QED BY <2>1, <2>2
<1>. QED BY <1>1, <1>2, PayrollStrong, PTL DEF PayrollSpec, PayrollRefinesLifecycle

-----------------------------------------------------------------------------
(* Bank reconciliations *)

\* Two choices of an import differ, unless nothing was chosen.
Distinct(chosen) ==
  \A n, m \in DOMAIN chosen : chosen[n] = chosen[m] /\ chosen[n] # None => n = m

\* What a request holds is what its operation may hold at this point of it.
BankSound(r) ==
  /\ bankPc[r] \in BankWorking <=> bankTx[r].op # "none"
  /\ bankTx[r].op = "none" => bankTx[r] = NoBankWork
  /\ bankTx[r].op # "none" => bankTx[r].statement \in Statements
  /\ bankTx[r].op = "import" => bankPc[r] = "match" /\ Distinct(bankTx[r].chosen)
  /\ bankTx[r].op \in {"line", "adjust"} =>
       /\ bankPc[r] = "write"
       /\ <<bankTx[r].statement, bankTx[r].line>> \in StatementLines
  /\ bankTx[r].op = "adjust" => bankTx[r].row = [status |-> "ADJUSTED", match |-> r]
  /\ bankTx[r].op = "close" => bankPc[r] \in {"balance", "write"}
  /\ bankTx[r].op = "remove" => bankPc[r] = "write"

\* Until requests overlap, what a handler checked of its statement and of its
\* line still holds.
BankChecked(r) ==
  LET s     == bankTx[r].statement
      state == rows[s][bankTx[r].line].status
  IN  /\ bankTx[r].op = "import" => statementStatus[s] = "ABSENT"
      /\ bankTx[r].op \in {"line", "adjust", "close", "remove"} =>
           statementStatus[s] = "OPEN"
      /\ bankTx[r].op = "line" => state # "ADJUSTED"
      /\ bankTx[r].op = "adjust" => state = "PENDING"
      /\ bankTx[r].op = "close" => \A n \in DOMAIN rows[s] : rows[s][n].status # "PENDING"

\* The line an adjustment was posted for stays adjusted, while its statement is
\* there.
Settled(line) ==
  \/ statementStatus[line[1]] = "REMOVED"
  \/ StatementExists(line[1]) /\ HasRow(line) /\ RowOf(line).status = "ADJUSTED"

AdjustmentsSettled ==
  /\ \A j \in ledger : j.for \in StatementLines => Settled(j.for)
  /\ \A j, k \in ledger : j.for = k.for /\ j.for # <<>> => j = k

\* Until requests overlap, one at a time is in progress.
BankSerial ==
  ~bankOverlapped =>
    /\ \A q, r \in BankInProgress : q = r
    /\ \A r \in BankRequests : BankChecked(r)
    /\ AdjustmentsSettled

\* No two committed rows, of one statement or of two, have one match.
MatchesApart ==
  \A s, t \in Statements : \A n \in DOMAIN rows[s], m \in DOMAIN rows[t] :
    rows[s][n].match = rows[t][m].match /\ rows[s][n].match # None => s = t /\ n = m

\* The inductive invariant of the reconciliations.
BankInvariant ==
  /\ BankTypeOK /\ rows \in [Statements -> Seq(Row)]
  /\ \A r \in BankRequests : BankSound(r)
  /\ MatchesApart
  /\ BankSerial

-----------------------------------------------------------------------------
(* Steps that commit nothing *)

\* A step of one request leaves the work of the others alone.
OnlyBankOf(r) ==
  /\ bankTx' = [bankTx EXCEPT ![r] = bankTx'[r]]
  /\ bankPc' = [bankPc EXCEPT ![r] = bankPc'[r]]

\* The work of a request that is not at work.
LEMMA NoBankWorkTyped ==
  /\ NoBankWork \in BankWork /\ NoBankWork.op = "none" /\ Pending \in Row
  /\ NoBankWork.chosen = <<>> /\ NoBankWork.row = Pending /\ NoBankWork.line = 0
<1>1. Pending \in Row
  BY DEF Pending, Row, LineStatus
<1>2. <<>> \in Seq(Ids \cup {None})
  OBVIOUS
<1>. HIDE DEF Pending
<1>. QED BY <1>1, <1>2 DEF NoBankWork, BankWork

\* A request that is not at work is sound.
LEMMA RestingBankRequest ==
  ASSUME NEW r, bankTx[r] = NoBankWork, bankPc[r] \notin BankWorking
  PROVE  BankSound(r) /\ BankChecked(r)
BY NoBankWorkTyped DEF BankSound, BankChecked

\* Until requests overlap, nobody works beside a request in progress.
LEMMA OtherBankIdle ==
  ASSUME BankInvariant, NEW r \in BankInProgress, ~bankOverlapped
  PROVE  /\ \A q \in BankRequests \ {r} : bankTx[q].op = "none"
         /\ BankChecked(r)
BY DEF BankInvariant, BankSerial, BankSound, BankInProgress

\* A request is sound when its work is: nothing else is looked at.
LEMMA BankSoundKept ==
  ASSUME NEW q \in BankRequests, BankSound(q), bankTx'[q] = bankTx[q], bankPc'[q] = bankPc[q]
  PROVE  BankSound(q)'
BY DEF BankSound, StatementLines

\* Everything but the requests is as it was.
LEMMA BankBooksKept ==
  ASSUME BankInvariant, UNCHANGED bankCommitted
  PROVE  /\ rows' \in [Statements -> Seq(Row)]
         /\ MatchesApart' /\ (AdjustmentsSettled => AdjustmentsSettled')
<1>. USE DEF bankCommitted, BankInvariant
<1>1. MatchesApart'
  BY DEF MatchesApart
<1>2. \A line : Settled(line)' <=> Settled(line)
  BY DEF Settled, StatementExists, HasRow, RowOf
<1>3. AdjustmentsSettled => AdjustmentsSettled'
  BY <1>2 DEF AdjustmentsSettled, StatementLines
<1>. QED BY <1>1, <1>3

\* The types, and AdjustedOnce, after a step of one request.
LEMMA BankTypeStep ==
  ASSUME BankInvariant, NEW r \in BankRequests, OnlyBankOf(r), bankTx'[r] \in BankWork,
         bankPc'[r] \in BankWorking \cup {"idle", "done", "failed"},
         \A q \in BankRequests : BankSound(q)',
         statementStatus' \in [Statements -> StatementStatus],
         rows' \in [Statements -> Seq(Row)], ledger' \subseteq JournalLine,
         bankOverlapped' \in BOOLEAN
  PROVE  BankTypeOK'
<1>1. /\ bankTx' \in [BankRequests -> BankWork]
      /\ bankPc' \in [BankRequests -> BankWorking \cup {"idle", "done", "failed"}]
  BY DEF OnlyBankOf, BankInvariant, BankTypeOK
<1>2. \A q \in BankRequests : bankPc'[q] \notin BankWorking => bankTx'[q] = NoBankWork
  BY DEF BankSound
<1>. QED BY <1>1, <1>2 DEF BankTypeOK

\* A statement that commits nothing keeps the invariant when the work it leaves
\* is sound.
LEMMA PrivateBankStep ==
  ASSUME BankInvariant, NEW r \in BankRequests, UNCHANGED bankCommitted,
         OnlyBankOf(r), bankTx'[r] \in BankWork,
         bankPc'[r] \in BankWorking \cup {"idle", "done", "failed"},
         BankSound(r)', bankOverlapped' \in BOOLEAN,
         ~bankOverlapped' =>
           /\ ~bankOverlapped
           /\ \A q \in BankRequests \ {r} : bankTx[q].op = "none"
           /\ BankChecked(r)'
  PROVE  BankInvariant'
<1>1. \A q \in BankRequests \ {r} : bankTx'[q] = bankTx[q] /\ bankPc'[q] = bankPc[q]
  BY DEF OnlyBankOf, BankInvariant, BankTypeOK
<1>2. ASSUME NEW q \in BankRequests
      PROVE  BankSound(q)'
  <2>1. CASE q = r
    BY <2>1
  <2>2. CASE q # r
    BY <1>1, <2>2, BankSoundKept DEF BankInvariant
  <2>. QED BY <2>1, <2>2
<1>3. BankTypeOK'
  BY <1>2, BankTypeStep DEF bankCommitted, BankInvariant, BankTypeOK
<1>4. ASSUME ~bankOverlapped'
      PROVE  /\ \A p, q \in BankInProgress' : p = q
             /\ \A q \in BankRequests : BankChecked(q)'
             /\ AdjustmentsSettled'
  <2>1. \A q \in BankRequests \ {r} : bankTx[q].op = "none"
    BY <1>4
  <2>2. \A p, q \in BankInProgress' : p = q
    BY <1>1, <2>1 DEF BankInvariant, BankSound, BankInProgress
  <2>3. ASSUME NEW q \in BankRequests \ {r}
        PROVE  BankChecked(q)'
    <3>1. bankTx'[q].op = "none"
      BY <1>1, <2>1
    <3>. QED BY <3>1 DEF BankChecked
  <2>4. AdjustmentsSettled'
    BY <1>4, BankBooksKept DEF BankInvariant, BankSerial
  <2>. QED BY <1>4, <2>2, <2>3, <2>4
<1>5. rows' \in [Statements -> Seq(Row)] /\ MatchesApart'
  BY BankBooksKept
<1>. QED BY <1>2, <1>3, <1>4, <1>5 DEF BankInvariant, BankSerial

\* A handler whose checks refuse fails at once; one whose checks pass begins with
\* sound work.
LEMMA BankBeginsStep ==
  ASSUME BankInvariant, NEW r \in BankRequests, NEW refused \in BOOLEAN,
         NEW place \in BankWorking, NEW work \in BankWork,
         BankBegins(r, refused, place, work),
         ~refused /\ bankTx'[r] = work /\ bankPc'[r] = place
             => BankSound(r)' /\ BankChecked(r)'
  PROVE  BankInvariant'
<1>1. /\ bankPc' = [bankPc EXCEPT ![r] = IF refused THEN "failed" ELSE place]
      /\ bankTx' = [bankTx EXCEPT ![r] = IF refused THEN NoBankWork ELSE work]
      /\ bankOverlapped' = (bankOverlapped \/ BankInProgress # {})
      /\ UNCHANGED bankCommitted
  BY DEF BankBegins
<1>2. /\ bankPc'[r] = IF refused THEN "failed" ELSE place
      /\ bankTx'[r] = IF refused THEN NoBankWork ELSE work
      /\ OnlyBankOf(r)
  BY <1>1 DEF BankInvariant, BankTypeOK, OnlyBankOf
<1>4. BankSound(r)' /\ BankChecked(r)' /\ bankTx'[r] \in BankWork
  <2>1. CASE refused
    <3>1. bankTx'[r] = NoBankWork /\ bankPc'[r] \notin BankWorking
      BY <1>2, <2>1 DEF BankWorking
    <3>2. (bankTx[r] = NoBankWork /\ bankPc[r] \notin BankWorking
               => BankSound(r) /\ BankChecked(r))'
      BY RestingBankRequest, PTL
    <3>. QED BY <3>1, <3>2, NoBankWorkTyped DEF BankWorking
  <2>2. CASE ~refused
    BY <1>2, <2>2
  <2>. QED BY <2>1, <2>2
<1>5. ASSUME ~bankOverlapped'
      PROVE  ~bankOverlapped /\ \A q \in BankRequests \ {r} : bankTx[q].op = "none"
  BY <1>1, <1>5 DEF BankInvariant, BankSound, BankInProgress
<1>6. bankPc'[r] \in BankWorking \cup {"idle", "done", "failed"}
  BY <1>2
<1>7. bankOverlapped' \in BOOLEAN
  BY <1>1 DEF BankInvariant, BankTypeOK
<1>. QED BY <1>1, <1>2, <1>4, <1>5, <1>6, <1>7, PrivateBankStep

\* The end of a request that commits nothing.
LEMMA BankRollbackStep ==
  ASSUME BankInvariant, NEW r \in BankInProgress, BankRollback(r)
  PROVE  BankInvariant'
<1>1. /\ UNCHANGED bankCommitted /\ bankOverlapped' = bankOverlapped
      /\ bankTx' = [bankTx EXCEPT ![r] = NoBankWork]
      /\ bankPc' = [bankPc EXCEPT ![r] = "failed"]
  BY DEF BankRollback, BankEnds
<1>2. r \in BankRequests
  BY DEF BankInProgress
<1>3. bankTx'[r] = NoBankWork /\ bankPc'[r] = "failed" /\ OnlyBankOf(r)
  BY <1>1, <1>2 DEF BankInvariant, BankTypeOK, OnlyBankOf
<1>4. (bankTx[r] = NoBankWork /\ bankPc[r] \notin BankWorking
           => BankSound(r) /\ BankChecked(r))'
  BY RestingBankRequest, PTL
<1>5. BankSound(r)' /\ BankChecked(r)'
  BY <1>3, <1>4 DEF BankWorking
<1>6. bankOverlapped' \in BOOLEAN
  BY <1>1 DEF BankInvariant, BankTypeOK
<1>7. ~bankOverlapped => \A q \in BankRequests \ {r} : bankTx[q].op = "none"
  BY OtherBankIdle
<1>. QED BY <1>1, <1>2, <1>3, <1>5, <1>6, <1>7, NoBankWorkTyped, PrivateBankStep

-----------------------------------------------------------------------------
(* The handlers *)

\* A line of a file is a place in the file of its statement.
LEMMA PlaceOfLine ==
  ASSUME NEW line \in StatementLines
  PROVE  /\ line[1] \in Statements /\ line[2] \in Nat
         /\ line = <<line[1], line[2]>>
         /\ AmountOf(line) \in Int /\ DateOf(line) \in Nat
<1>1. PICK s \in Statements : line \in {s} \X DOMAIN File[s].lines
  BY DEF StatementLines
<1>2. File[s].lines \in Seq([amount : Int, date : Nat])
  BY BankAssumption
<1>3. DOMAIN File[s].lines = 1 .. Len(File[s].lines) /\ Len(File[s].lines) \in Nat
  BY <1>2
<1>4. line[1] = s /\ line[2] \in DOMAIN File[s].lines
  BY <1>1
<1>5. File[s].lines[line[2]] \in [amount : Int, date : Nat]
  <2>1. \A S, q : q \in Seq(S) => \A n \in DOMAIN q : q[n] \in S
    OBVIOUS
  <2>. QED BY <1>2, <1>4, <2>1
<1>. QED BY <1>1, <1>3, <1>4, <1>5 DEF AmountOf, DateOf

\* A handler on one line begins with sound work, when it writes what the state of
\* the line allows.
LEMMA OnLineStep ==
  ASSUME BankInvariant, NEW r \in BankRequests, NEW line \in StatementLines,
         NEW allowed, NEW op \in {"line", "adjust"}, NEW row \in Row,
         OnLine(r, line, allowed, op, row),
         op = "adjust" => row = [status |-> "ADJUSTED", match |-> r],
         op = "line" => "ADJUSTED" \notin allowed,
         op = "adjust" => allowed \subseteq {"PENDING"}
  PROVE  BankInvariant'
<1>. DEFINE refused == \/ statementStatus[line[1]] # "OPEN"
                       \/ RowOf(line).status \notin allowed
            work == [NoBankWork EXCEPT !.op = op, !.statement = line[1], !.line = line[2],
                                       !.row = row]
<1>1. /\ work \in BankWork /\ work.op = op /\ work.statement = line[1]
      /\ work.line = line[2] /\ work.row = row
  BY NoBankWorkTyped, PlaceOfLine DEF BankWork
<1>2. BankBegins(r, refused, "write", work)
  BY DEF OnLine
<1>3. statementStatus' = statementStatus /\ rows' = rows
  BY <1>2 DEF BankBegins, bankCommitted
<1>. HIDE DEF work
<1>4. ASSUME ~refused, bankTx'[r] = work, bankPc'[r] = "write"
      PROVE  BankSound(r)' /\ BankChecked(r)'
  <2>1. BankSound(r)'
    BY <1>1, <1>4, PlaceOfLine DEF BankSound, BankWorking, StatementLines
  <2>2. BankChecked(r)'
    BY <1>1, <1>3, <1>4 DEF BankChecked, RowOf
  <2>. QED BY <2>1, <2>2
<1>5. refused \in BOOLEAN
  OBVIOUS
<1>. HIDE DEF refused
<1>. QED BY <1>1, <1>2, <1>4, <1>5, BankBeginsStep DEF BankWorking

\* Every handler begins with sound work.
LEMMA BankBeginStep ==
  ASSUME BankInvariant, NEW r \in BankRequests, BankBegin(r)
  PROVE  BankInvariant'
<1>0. BankTypeOK
  BY DEF BankInvariant
<1>1. ASSUME NEW s \in Statements, BeginImport(r, s)
      PROVE  BankInvariant'
  <2>. DEFINE work == [NoBankWork EXCEPT !.op = "import", !.statement = s]
              refused == \E t \in Statements : StatementExists(t) /\ Overlaps(s, t)
  <2>1. work \in BankWork /\ work.op = "import" /\ work.statement = s /\ work.chosen = <<>>
    BY NoBankWorkTyped DEF BankWork
  <2>2. BankBegins(r, refused, "match", work) /\ statementStatus[s] = "ABSENT"
    BY <1>1 DEF BeginImport
  <2>. HIDE DEF work
  <2>3. statementStatus' = statementStatus
    BY <2>2 DEF BankBegins, bankCommitted
  <2>4. ASSUME bankTx'[r] = work, bankPc'[r] = "match"
        PROVE  BankSound(r)' /\ BankChecked(r)'
    BY <2>1, <2>2, <2>3, <2>4 DEF BankSound, BankChecked, BankWorking, Distinct
  <2>5. refused \in BOOLEAN
    OBVIOUS
  <2>. HIDE DEF refused
  <2>. QED BY <2>1, <2>2, <2>4, <2>5, BankBeginsStep DEF BankWorking
<1>2. ASSUME NEW s \in Statements, BeginClose(r, s)
      PROVE  BankInvariant'
  <2>. DEFINE work == [NoBankWork EXCEPT !.op = "close", !.statement = s]
              refused == \/ statementStatus[s] # "OPEN"
                         \/ \E n \in DOMAIN rows[s] : rows[s][n].status = "PENDING"
  <2>1. work \in BankWork /\ work.op = "close" /\ work.statement = s
    BY NoBankWorkTyped DEF BankWork
  <2>2. BankBegins(r, refused, "balance", work)
    BY <1>2 DEF BeginClose
  <2>. HIDE DEF work
  <2>3. statementStatus' = statementStatus /\ rows' = rows
    BY <2>2 DEF BankBegins, bankCommitted
  <2>4. ASSUME ~refused, bankTx'[r] = work, bankPc'[r] = "balance"
        PROVE  BankSound(r)' /\ BankChecked(r)'
    BY <2>1, <2>3, <2>4 DEF BankSound, BankChecked, BankWorking
  <2>5. refused \in BOOLEAN
    OBVIOUS
  <2>. HIDE DEF refused
  <2>. QED BY <2>1, <2>2, <2>4, <2>5, BankBeginsStep DEF BankWorking
<1>3. ASSUME NEW s \in Statements, BeginRemoveStatement(r, s)
      PROVE  BankInvariant'
  <2>. DEFINE work == [NoBankWork EXCEPT !.op = "remove", !.statement = s]
  <2>1. work \in BankWork /\ work.op = "remove" /\ work.statement = s
    BY NoBankWorkTyped DEF BankWork
  <2>2. BankBegins(r, statementStatus[s] # "OPEN", "write", work)
    BY <1>3 DEF BeginRemoveStatement
  <2>. HIDE DEF work
  <2>3. statementStatus' = statementStatus
    BY <2>2 DEF BankBegins, bankCommitted
  <2>4. ASSUME statementStatus[s] = "OPEN", bankTx'[r] = work, bankPc'[r] = "write"
        PROVE  BankSound(r)' /\ BankChecked(r)'
    BY <2>1, <2>3, <2>4 DEF BankSound, BankChecked, BankWorking
  <2>. QED BY <2>1, <2>2, <2>4, BankBeginsStep DEF BankWorking
<1>4. ASSUME NEW line \in StatementLines, NEW j \in ledger, ManualMatch(r, line, j)
      PROVE  BankInvariant'
  <2>. DEFINE allowed == IF j.amount # AmountOf(line) \/ j.id \in Matched
                         THEN {} ELSE {"PENDING"}
              row == [status |-> "MATCHED", match |-> j.id]
  <2>1. row \in Row
    BY <1>0 DEF BankTypeOK, JournalLine, Row, LineStatus
  <2>2. OnLine(r, line, allowed, "line", row)
    BY <1>4 DEF ManualMatch
  <2>3. "ADJUSTED" \notin allowed
    OBVIOUS
  <2>. HIDE DEF allowed, row
  <2>. QED BY <2>1, <2>2, <2>3, OnLineStep
<1>5. ASSUME NEW line \in StatementLines, ResetLine(r, line)
      PROVE  BankInvariant'
  <2>1. "ADJUSTED" \notin {"MATCHED", "IGNORED"}
    OBVIOUS
  <2>. QED BY <1>5, <2>1, OnLineStep, NoBankWorkTyped DEF ResetLine
<1>6. ASSUME NEW line \in StatementLines, Ignore(r, line)
      PROVE  BankInvariant'
  <2>. DEFINE row == [status |-> "IGNORED", match |-> None]
  <2>1. row \in Row /\ "ADJUSTED" \notin {"PENDING"}
    BY DEF Row, LineStatus
  <2>2. OnLine(r, line, {"PENDING"}, "line", row)
    BY <1>6 DEF Ignore
  <2>. HIDE DEF row
  <2>. QED BY <2>1, <2>2, OnLineStep
<1>7. ASSUME NEW line \in StatementLines, Adjust(r, line)
      PROVE  BankInvariant'
  <2>. DEFINE row == [status |-> "ADJUSTED", match |-> r]
  <2>1. row \in Row
    BY DEF Row, LineStatus, Ids
  <2>2. OnLine(r, line, {"PENDING"}, "adjust", row)
    BY <1>7 DEF Adjust
  <2>. QED BY <2>1, <2>2, OnLineStep
<1>. QED BY <1>1, <1>2, <1>3, <1>4, <1>5, <1>6, <1>7 DEF BankBegin

\* An import chooses journal lines it has not chosen yet.
LEMMA MatchNextStep ==
  ASSUME BankInvariant, NEW r \in BankRequests, MatchNext(r)
  PROVE  BankInvariant'
<1>. DEFINE chosen == bankTx[r].chosen
            near == Nearest(<<bankTx[r].statement, Len(chosen) + 1>>, Range(chosen))
<1>1. /\ bankPc[r] = "match" /\ UNCHANGED <<bankCommitted, bankPc, bankOverlapped>>
      /\ BankTypeOK /\ r \in BankInProgress /\ BankSound(r)
      /\ bankTx[r] \in BankWork /\ chosen \in Seq(Ids \cup {None})
  BY DEF MatchNext, BankInvariant, BankTypeOK, BankInProgress, BankWorking, BankWork
<1>2. bankTx[r].op = "import" /\ Distinct(chosen)
  BY <1>1 DEF BankSound, BankWorking, BankWork
<1>3. PICK id \in IF near = {} THEN {None} ELSE {j.id : j \in near} :
        bankTx' = [bankTx EXCEPT ![r].chosen = Append(chosen, id)]
  BY DEF MatchNext
<1>4. id \in Ids \cup {None} /\ (id # None => id \notin Range(chosen))
  <2>1. near \subseteq {j \in ledger : j.id \notin Range(chosen)}
    BY DEF Nearest, Candidates
  <2>2. \A j \in ledger : j.id \in Ids
    BY <1>1 DEF BankTypeOK, JournalLine
  <2>. HIDE DEF near
  <2>. QED BY <2>1, <2>2
<1>5. /\ Append(chosen, id) \in Seq(Ids \cup {None})
      /\ Distinct(Append(chosen, id))
  <2>. HIDE DEF near, chosen
  <2>1. id # None => \A n \in 1 .. Len(chosen) : chosen[n] # id
    BY <1>1, <1>4 DEF Range
  <2>2. /\ Append(chosen, id) \in Seq(Ids \cup {None}) /\ Len(chosen) \in Nat
        /\ DOMAIN Append(chosen, id) = 1 .. Len(chosen) + 1
        /\ Append(chosen, id)[Len(chosen) + 1] = id
        /\ \A n \in 1 .. Len(chosen) : Append(chosen, id)[n] = chosen[n]
    BY <1>1, <1>4
  <2>3. \A n, m \in 1 .. Len(chosen) : chosen[n] = chosen[m] /\ chosen[n] # None => n = m
    BY <1>1, <1>2 DEF Distinct
  <2>. HIDE DEF chosen
  <2>. QED BY <2>1, <2>2, <2>3 DEF Distinct
<1>. DEFINE work == [bankTx[r] EXCEPT !.chosen = Append(chosen, id)]
<1>6. /\ work \in BankWork /\ work.op = "import" /\ work.statement = bankTx[r].statement
      /\ work.chosen = Append(chosen, id)
  BY <1>1, <1>2, <1>5 DEF BankWork
<1>7. bankTx'[r] = work /\ bankPc'[r] = "match" /\ OnlyBankOf(r)
  BY <1>1, <1>3 DEF BankTypeOK, OnlyBankOf
<1>. HIDE DEF work, near
<1>8. BankSound(r)'
  BY <1>1, <1>2, <1>5, <1>6, <1>7 DEF BankSound, BankWorking
<1>9. ASSUME ~bankOverlapped
      PROVE  /\ \A q \in BankRequests \ {r} : bankTx[q].op = "none"
             /\ BankChecked(r)'
  BY <1>1, <1>2, <1>6, <1>7, <1>9, OtherBankIdle DEF BankChecked, bankCommitted
<1>. HIDE DEF chosen
<1>10. bankOverlapped' \in BOOLEAN /\ bankOverlapped' = bankOverlapped
  BY <1>1 DEF BankTypeOK
<1>. QED BY <1>1, <1>6, <1>7, <1>8, <1>9, <1>10, PrivateBankStep DEF BankWorking

\* A closing reads the balance of the ledger, and goes on to close.
LEMMA CheckBalanceStep ==
  ASSUME BankInvariant, NEW r \in BankRequests, CheckBalance(r)
  PROVE  BankInvariant'
<1>1. /\ bankPc[r] = "balance" /\ BankTypeOK /\ r \in BankInProgress /\ BankSound(r)
      /\ bankTx[r] \in BankWork
  BY DEF CheckBalance, BankInvariant, BankTypeOK, BankInProgress, BankWorking
<1>2. CASE BankRollback(r)
  BY <1>1, <1>2, BankRollbackStep
<1>3. CASE ~BankRollback(r)
  <2>1. /\ bankPc' = [bankPc EXCEPT ![r] = "write"]
        /\ UNCHANGED <<bankCommitted, bankTx, bankOverlapped>>
    BY <1>3 DEF CheckBalance
  <2>2. bankTx[r].op = "close"
    BY <1>1 DEF BankSound, BankWorking, BankWork
  <2>3. bankTx'[r] = bankTx[r] /\ bankPc'[r] = "write" /\ OnlyBankOf(r)
    BY <1>1, <2>1 DEF BankTypeOK, OnlyBankOf
  <2>4. BankSound(r)'
    BY <1>1, <2>2, <2>3 DEF BankSound, BankWorking
  <2>5. ASSUME ~bankOverlapped
        PROVE  /\ \A q \in BankRequests \ {r} : bankTx[q].op = "none"
               /\ BankChecked(r)'
    BY <1>1, <2>1, <2>2, <2>5, OtherBankIdle DEF BankChecked, bankCommitted
  <2>6. bankOverlapped' \in BOOLEAN /\ bankOverlapped' = bankOverlapped
    BY <1>1, <2>1 DEF BankTypeOK
  <2>. QED BY <1>1, <2>1, <2>3, <2>4, <2>5, <2>6, PrivateBankStep DEF BankWorking
<1>. QED BY <1>2, <1>3

-----------------------------------------------------------------------------
(* Steps that commit *)

\* What is matched is in a committed row.
LEMMA MatchedIds ==
  ASSUME NEW id
  PROVE  id \in Matched <=>
           id # None /\ \E s \in Statements : \E n \in DOMAIN rows[s] : rows[s][n].match = id
BY DEF Matched

\* The commit of a request keeps the invariant when what it leaves of the rows
\* and of the ledger does.
LEMMA PublicBankStep ==
  ASSUME BankInvariant, NEW r \in BankInProgress, BankEnds(r, "done"),
         statementStatus' \in [Statements -> StatementStatus],
         rows' \in [Statements -> Seq(Row)], ledger' \subseteq JournalLine,
         MatchesApart', ~bankOverlapped => AdjustmentsSettled'
  PROVE  BankInvariant'
<1>1. /\ bankPc' = [bankPc EXCEPT ![r] = "done"]
      /\ bankTx' = [bankTx EXCEPT ![r] = NoBankWork]
      /\ bankOverlapped' = bankOverlapped
  BY DEF BankEnds
<1>2. r \in BankRequests
  BY DEF BankInProgress
<1>3. bankTx'[r] = NoBankWork /\ bankPc'[r] = "done" /\ OnlyBankOf(r)
  BY <1>1, <1>2 DEF BankInvariant, BankTypeOK, OnlyBankOf
<1>4. \A q \in BankRequests \ {r} : bankTx'[q] = bankTx[q] /\ bankPc'[q] = bankPc[q]
  BY <1>1 DEF BankInvariant, BankTypeOK
<1>5. (bankTx[r] = NoBankWork /\ bankPc[r] \notin BankWorking
           => BankSound(r) /\ BankChecked(r))'
  BY RestingBankRequest, PTL
<1>6. BankSound(r)' /\ BankChecked(r)'
  BY <1>3, <1>5 DEF BankWorking
<1>7. ASSUME NEW q \in BankRequests
      PROVE  BankSound(q)'
  <2>1. CASE q = r
    BY <1>6, <2>1
  <2>2. CASE q # r
    BY <1>4, <2>2, BankSoundKept DEF BankInvariant
  <2>. QED BY <2>1, <2>2
<1>8. BankTypeOK'
  <2>1. bankOverlapped' \in BOOLEAN
    BY <1>1 DEF BankInvariant, BankTypeOK
  <2>2. bankTx'[r] \in BankWork /\ bankPc'[r] \in BankWorking \cup {"idle", "done", "failed"}
    BY <1>3, NoBankWorkTyped
  <2>. QED BY <1>2, <1>3, <1>7, <2>1, <2>2, BankTypeStep
<1>9. ASSUME ~bankOverlapped'
      PROVE  /\ \A p, q \in BankInProgress' : p = q
             /\ \A q \in BankRequests : BankChecked(q)'
             /\ AdjustmentsSettled'
  <2>1. \A q \in BankRequests \ {r} : bankTx[q].op = "none"
    BY <1>1, <1>9, OtherBankIdle
  <2>2. \A p, q \in BankInProgress' : p = q
    BY <1>3, <1>4, <2>1 DEF BankInvariant, BankSound, BankInProgress, BankWorking
  <2>3. ASSUME NEW q \in BankRequests \ {r}
        PROVE  BankChecked(q)'
    <3>1. bankTx'[q].op = "none"
      BY <1>4, <2>1
    <3>. QED BY <3>1 DEF BankChecked
  <2>. QED BY <1>1, <1>6, <1>9, <2>2, <2>3
<1>. QED BY <1>7, <1>8, <1>9 DEF BankInvariant, BankSerial

\* An import commits its rows when none of its journal lines was matched meanwhile.
LEMMA CommitImportStep ==
  ASSUME BankInvariant, NEW r \in BankRequests, CommitImport(r)
  PROVE  BankInvariant'
<1>. DEFINE s == bankTx[r].statement
            chosen == bankTx[r].chosen
            row(n) == IF chosen[n] = None THEN Pending
                      ELSE [status |-> "MATCHED", match |-> chosen[n]]
            new == [n \in DOMAIN chosen |-> row(n)]
<1>1. /\ bankPc[r] = "match" /\ BankTypeOK /\ r \in BankInProgress /\ BankSound(r)
      /\ bankTx[r] \in BankWork /\ rows \in [Statements -> Seq(Row)] /\ MatchesApart
  BY DEF CommitImport, BankInvariant, BankTypeOK, BankInProgress, BankWorking
<1>2. bankTx[r].op = "import" /\ Distinct(chosen) /\ s \in Statements
  BY <1>1 DEF BankSound, BankWorking, BankWork
<1>3. CASE BankRollback(r)
  BY <1>1, <1>3, BankRollbackStep
<1>4. CASE ~BankRollback(r)
  <2>1. /\ Range(chosen) \cap Matched = {} /\ BankEnds(r, "done") /\ ledger' = ledger
        /\ statementStatus' = [statementStatus EXCEPT ![s] = "OPEN"]
        /\ rows' = [rows EXCEPT ![s] = new]
    BY <1>4 DEF CommitImport
  <2>2. chosen \in Seq(Ids \cup {None})
    BY <1>1 DEF BankWork
  <2>3. /\ \A n \in DOMAIN chosen : row(n) \in Row /\ row(n).match = chosen[n]
        /\ Len(chosen) \in Nat /\ DOMAIN chosen = 1 .. Len(chosen)
    BY <2>2, NoBankWorkTyped DEF Row, LineStatus, Pending
  <2>. HIDE DEF s, chosen, row
  <2>4. new \in Seq(Row) /\ DOMAIN new = DOMAIN chosen
    BY <2>3
  <2>5. \A n \in DOMAIN chosen : new[n].match = chosen[n]
    BY <2>3
  <2>. HIDE DEF new
  <2>6. /\ rows'[s] = new /\ statementStatus'[s] = "OPEN"
        /\ \A t \in Statements \ {s} : rows'[t] = rows[t] /\ statementStatus'[t] = statementStatus[t]
    BY <1>1, <1>2, <2>1 DEF BankTypeOK
  <2>7. MatchesApart'
    <3>1. \A n, m \in DOMAIN new : new[n].match = new[m].match /\ new[n].match # None => n = m
      BY <1>2, <2>4, <2>5 DEF Distinct
    <3>2. ASSUME NEW t \in Statements \ {s}, NEW n \in DOMAIN new, NEW m \in DOMAIN rows[t],
                 new[n].match = rows[t][m].match
          PROVE  new[n].match = None
      BY <2>1, <2>4, <2>5, <3>2, MatchedIds DEF Range
    <3>. QED BY <1>1, <2>6, <3>1, <3>2 DEF MatchesApart
  <2>8. ASSUME ~bankOverlapped PROVE AdjustmentsSettled'
    <3>1. statementStatus[s] = "ABSENT" /\ AdjustmentsSettled
      BY <1>1, <1>2, <2>8, OtherBankIdle DEF BankChecked, BankInvariant, BankSerial, s
    <3>2. ASSUME NEW line \in StatementLines, Settled(line)
          PROVE  Settled(line)'
      <4>1. line[1] \in Statements \ {s}
        BY <3>1, <3>2, PlaceOfLine DEF Settled, StatementExists
      <4>. QED BY <2>6, <3>2, <4>1 DEF Settled, StatementExists, HasRow, RowOf
    <3>. QED BY <2>1, <3>1, <3>2 DEF AdjustmentsSettled, StatementLines
  <2>9. rows' \in [Statements -> Seq(Row)] /\ statementStatus' \in [Statements -> StatementStatus]
    BY <1>1, <2>1, <2>4 DEF BankTypeOK, StatementStatus
  <2>. QED BY <1>1, <2>1, <2>7, <2>8, <2>9, PublicBankStep DEF BankTypeOK
<1>. QED BY <1>3, <1>4

\* A handler on one line writes it, unless its match was taken meanwhile.
LEMMA WriteLineStep ==
  ASSUME BankInvariant, NEW r \in BankRequests, WriteLine(r)
  PROVE  BankInvariant'
<1>0. PICK line : line = <<bankTx[r].statement, bankTx[r].line>>
  OBVIOUS
<1>. DEFINE s == line[1]
            i == line[2]
<1>1. /\ bankPc[r] = "write" /\ BankTypeOK /\ r \in BankInProgress /\ BankSound(r)
      /\ bankTx[r] \in BankWork /\ rows \in [Statements -> Seq(Row)] /\ MatchesApart
      /\ bankTx[r].op \in {"line", "adjust"} /\ line \in StatementLines
  BY <1>0 DEF WriteLine, BankInvariant, BankTypeOK, BankInProgress, BankWorking, BankSound
<1>2. CASE BankRollback(r)
  BY <1>1, <1>2, BankRollbackStep
<1>3. CASE ~BankRollback(r)
  <2>0. PICK new : new = Written(r)
    OBVIOUS
  <2>. DEFINE posted == [id |-> r, amount |-> AmountOf(line), date |-> DateOf(line),
                         for |-> line]
  <2>1. /\ HasRow(line) /\ (new.match \in Matched => RowOf(line).match = new.match)
        /\ rows' = [rows EXCEPT ![s][i] = new]
        /\ ledger' = IF bankTx[r].op = "adjust" THEN ledger \cup {posted} ELSE ledger
        /\ BankEnds(r, "done") /\ statementStatus' = statementStatus
    BY <1>0, <1>3, <2>0 DEF WriteLine
  <2>2. s \in Statements /\ i \in DOMAIN rows[s] /\ RowOf(line) = rows[s][i]
    BY <1>1, <2>1, PlaceOfLine DEF HasRow, RowOf
  <2>3. new \in Row /\ (bankTx[r].op = "adjust" => new.status = "ADJUSTED")
    <3>1. rows[s][i] \in Row /\ bankTx[r].row \in Row
      BY <1>1, <2>2 DEF BankWork
    <3>2. Written(r) = IF bankTx[r].row.status = "IGNORED"
                       THEN [rows[s][i] EXCEPT !.status = "IGNORED"] ELSE bankTx[r].row
      BY <1>0, <2>2 DEF Written
    <3>3. bankTx[r].op = "adjust" => bankTx[r].row.status = "ADJUSTED"
      BY <1>1 DEF BankSound
    <3>. HIDE DEF s, i
    <3>. QED BY <2>0, <3>1, <3>2, <3>3 DEF Row, LineStatus
  <2>4. posted \in JournalLine
    BY <1>1, PlaceOfLine DEF JournalLine, Ids, BankInProgress
  <2>5. line = <<s, i>>
    BY <1>1, PlaceOfLine
  <2>. HIDE DEF s, i
  <2>6. /\ rows' \in [Statements -> Seq(Row)]
        /\ \A t \in Statements : DOMAIN rows'[t] = DOMAIN rows[t]
        /\ \A t \in Statements : \A n \in DOMAIN rows[t] :
             rows'[t][n] = IF t = s /\ n = i THEN new ELSE rows[t][n]
    BY <1>1, <2>1, <2>2, <2>3
  <2>7. MatchesApart'
    <3>1. ASSUME NEW t \in Statements, NEW n \in DOMAIN rows[t], rows[t][n].match = new.match,
                 new.match # None
          PROVE  t = s /\ n = i
      <4>1. rows[s][i].match = new.match
        BY <2>1, <2>2, <3>1, MatchedIds
      <4>. QED BY <1>1, <2>2, <3>1, <4>1 DEF MatchesApart
    <3>. QED BY <1>1, <2>6, <3>1 DEF MatchesApart
  <2>8. ASSUME ~bankOverlapped PROVE AdjustmentsSettled'
    <3>1. AdjustmentsSettled /\ BankChecked(r) /\ statementStatus[s] = "OPEN"
          /\ rows[s][i].status # "ADJUSTED"
      BY <1>0, <1>1, <2>8, OtherBankIdle DEF BankChecked, BankInvariant, BankSerial, s, i
    <3>2. ASSUME NEW k \in StatementLines, Settled(k)
          PROVE  k # line /\ Settled(k)'
      <4>1. k[1] \in Statements /\ k = <<k[1], k[2]>>
        BY PlaceOfLine
      <4>2. k # line
        BY <2>2, <3>1, <3>2 DEF Settled, RowOf, HasRow, s
      <4>3. ~(k[1] = s /\ k[2] = i)
        BY <2>5, <4>1, <4>2
      <4>. QED BY <2>1, <2>6, <3>2, <4>1, <4>2, <4>3 DEF Settled, StatementExists, HasRow, RowOf
    <3>3. \A j \in ledger : j.for \in StatementLines => j.for # line /\ Settled(j.for)'
      BY <3>1, <3>2 DEF AdjustmentsSettled
    <3>4. CASE bankTx[r].op = "line"
      BY <2>1, <3>1, <3>3, <3>4 DEF AdjustmentsSettled, StatementLines
    <3>5. CASE bankTx[r].op = "adjust"
      <4>1. Settled(line)'
        BY <1>1, <2>1, <2>2, <2>3, <2>5, <2>6, <3>1, <3>5
           DEF Settled, StatementExists, HasRow, RowOf, s, i
      <4>2. posted.for = line /\ ledger' = ledger \cup {posted}
        BY <2>1, <3>5
      <4>. HIDE DEF posted
      <4>3. \A j \in ledger' : j.for \in StatementLines => Settled(j.for)'
        BY <3>3, <4>1, <4>2
      <4>4. \A j, k \in ledger' : j.for = k.for /\ j.for # <<>> => j = k
        BY <1>1, <3>1, <3>3, <4>2 DEF AdjustmentsSettled
      <4>. QED BY <4>3, <4>4 DEF AdjustmentsSettled, StatementLines
    <3>. QED BY <1>1, <3>4, <3>5
  <2>9. statementStatus' \in [Statements -> StatementStatus] /\ ledger' \subseteq JournalLine
    BY <1>1, <2>1, <2>4 DEF BankTypeOK
  <2>. QED BY <1>1, <2>1, <2>6, <2>7, <2>8, <2>9, PublicBankStep
<1>. QED BY <1>2, <1>3

\* A reconciliation is closed, or removed with its rows.
LEMMA WriteStatementStep ==
  ASSUME BankInvariant, NEW r \in BankRequests, WriteStatement(r)
  PROVE  BankInvariant'
<1>. DEFINE s == bankTx[r].statement
            kept == bankTx[r].op = "close"
<1>1. /\ bankPc[r] = "write" /\ BankTypeOK /\ r \in BankInProgress /\ BankSound(r)
      /\ bankTx[r] \in BankWork /\ rows \in [Statements -> Seq(Row)] /\ MatchesApart
      /\ bankTx[r].op \in {"close", "remove"} /\ s \in Statements
  BY DEF WriteStatement, BankInvariant, BankTypeOK, BankInProgress, BankWorking, BankSound
<1>2. CASE BankRollback(r)
  BY <1>1, <1>2, BankRollbackStep
<1>3. CASE ~BankRollback(r)
  <2>1. /\ StatementExists(s) /\ BankEnds(r, "done") /\ ledger' = ledger
        /\ statementStatus' = [statementStatus EXCEPT ![s] =
                                 IF kept THEN "CLOSED" ELSE "REMOVED"]
        /\ rows' = IF kept THEN rows ELSE [rows EXCEPT ![s] = <<>>]
    BY <1>3 DEF WriteStatement
  <2>2. kept \in BOOLEAN /\ <<>> \in Seq(Row) /\ DOMAIN <<>> = {}
    OBVIOUS
  <2>. HIDE DEF s, kept
  <2>3. /\ statementStatus'[s] = IF kept THEN "CLOSED" ELSE "REMOVED"
        /\ kept => rows' = rows
        /\ ~kept => DOMAIN rows'[s] = {}
        /\ \A t \in Statements \ {s} : rows'[t] = rows[t] /\ statementStatus'[t] = statementStatus[t]
        /\ rows' \in [Statements -> Seq(Row)]
        /\ statementStatus' \in [Statements -> StatementStatus]
    BY <1>1, <2>1, <2>2 DEF BankTypeOK, StatementStatus
  <2>4. MatchesApart'
    BY <1>1, <2>3 DEF MatchesApart
  <2>5. ASSUME ~bankOverlapped PROVE AdjustmentsSettled'
    <3>1. AdjustmentsSettled /\ statementStatus[s] = "OPEN"
      BY <1>1, <2>5, OtherBankIdle DEF BankChecked, BankInvariant, BankSerial, s
    <3>2. ASSUME NEW line \in StatementLines, Settled(line)
          PROVE  Settled(line)'
      <4>1. line[1] \in Statements
        BY PlaceOfLine
      <4>2. CASE line[1] = s
        BY <2>2, <2>3, <3>1, <3>2, <4>2 DEF Settled, StatementExists, HasRow, RowOf
      <4>3. CASE line[1] # s
        BY <2>3, <3>2, <4>1, <4>3 DEF Settled, StatementExists, HasRow, RowOf
      <4>. QED BY <4>2, <4>3
    <3>. QED BY <2>1, <3>1, <3>2 DEF AdjustmentsSettled, StatementLines
  <2>. QED BY <1>1, <2>1, <2>3, <2>4, <2>5, PublicBankStep DEF BankTypeOK
<1>. QED BY <1>2, <1>3

\* Another module posts to the account: no row and no request is touched.
LEMMA PostStep ==
  ASSUME BankInvariant, NEW p \in Postings, Post(p)
  PROVE  BankInvariant'
<1>. DEFINE posted == [id |-> p, amount |-> PostingOf[p].amount,
                       date |-> PostingOf[p].date, for |-> <<>>]
<1>1. /\ ledger' = ledger \cup {posted}
      /\ bankOverlapped' = (bankOverlapped \/ BankInProgress # {})
      /\ UNCHANGED <<statementStatus, rows, bankPc, bankTx>>
  BY DEF Post
<1>2. posted \in JournalLine
  BY BankAssumption DEF JournalLine, Ids
<1>3. BankTypeOK'
  BY <1>1, <1>2 DEF BankInvariant, BankTypeOK
<1>4. /\ \A r \in BankRequests : BankSound(r)'
      /\ MatchesApart' /\ rows' \in [Statements -> Seq(Row)]
  BY <1>1, BankSoundKept DEF BankInvariant, MatchesApart
<1>5. ASSUME ~bankOverlapped'
      PROVE  /\ \A q, r \in BankInProgress' : q = r
             /\ \A r \in BankRequests : BankChecked(r)'
             /\ AdjustmentsSettled'
  <2>1. ~bankOverlapped /\ BankInProgress' = BankInProgress /\ BankSerial
    BY <1>1, <1>5 DEF BankInProgress, BankInvariant
  <2>2. \A r \in BankRequests : BankChecked(r)'
    BY <1>1, <2>1 DEF BankSerial, BankChecked
  <2>3. \A line \in StatementLines : Settled(line)' <=> Settled(line)
    BY <1>1 DEF Settled, StatementExists, HasRow, RowOf
  <2>4. posted.for = <<>> /\ posted.for \notin StatementLines
    <3>1. <<>> \notin StatementLines
      BY DEF StatementLines
    <3>. QED BY <3>1
  <2>. HIDE DEF posted
  <2>5. AdjustmentsSettled'
    BY <1>1, <2>1, <2>3, <2>4 DEF BankSerial, AdjustmentsSettled, StatementLines
  <2>. QED BY <2>1, <2>2, <2>5 DEF BankSerial
<1>. QED BY <1>3, <1>4, <1>5 DEF BankInvariant, BankSerial

-----------------------------------------------------------------------------
(* The reconciliations stay sound *)

\* The reconciliations start sound ...
LEMMA BankInitStrong == BankInit => BankInvariant
<1>. SUFFICES ASSUME BankInit PROVE BankInvariant
  OBVIOUS
<1>. USE DEF BankInit
<1>1. /\ BankTypeOK /\ rows \in [Statements -> Seq(Row)]
  <2>1. <<>> \in Seq(Row)
    OBVIOUS
  <2>. QED BY <2>1, NoBankWorkTyped DEF BankTypeOK, StatementStatus
<1>2. \A r \in BankRequests : BankSound(r) /\ BankChecked(r)
  BY RestingBankRequest DEF BankWorking
<1>3. MatchesApart
  <2>1. \A s \in Statements : DOMAIN rows[s] = {}
    OBVIOUS
  <2>. QED BY <2>1 DEF MatchesApart
<1>4. AdjustmentsSettled /\ BankInProgress = {}
  BY DEF AdjustmentsSettled, BankInProgress, BankWorking
<1>. QED BY <1>1, <1>2, <1>3, <1>4 DEF BankInvariant, BankSerial

\* ... and every step keeps them so.
LEMMA BankNextStrong == BankInvariant /\ [BankNext]_bankVars => BankInvariant'
<1>. SUFFICES ASSUME BankInvariant, [BankNext]_bankVars PROVE BankInvariant'
  OBVIOUS
<1>1. ASSUME NEW r \in BankRequests, BankBegin(r) PROVE BankInvariant'
  BY <1>1, BankBeginStep
<1>2. ASSUME NEW r \in BankRequests, BankStatement(r) PROVE BankInvariant'
  BY <1>2, MatchNextStep, CommitImportStep, CheckBalanceStep, WriteLineStep,
     WriteStatementStep DEF BankStatement
<1>3. ASSUME NEW r \in BankRequests, BankAbort(r) PROVE BankInvariant'
  BY <1>3, BankRollbackStep DEF BankAbort, BankInProgress
<1>4. ASSUME NEW p \in Postings, Post(p) PROVE BankInvariant'
  BY <1>4, PostStep
<1>5. CASE UNCHANGED bankVars
  <2>. USE <1>5 DEF bankVars
  <2>1. rows' \in [Statements -> Seq(Row)] /\ MatchesApart'
        /\ (AdjustmentsSettled => AdjustmentsSettled')
    BY BankBooksKept
  <2>2. \A r \in BankRequests : BankSound(r)'
    BY BankSoundKept DEF BankInvariant
  <2>3. BankTypeOK'
    BY DEF BankInvariant, BankTypeOK, bankCommitted
  <2>4. BankSerial'
    BY <2>1 DEF BankInvariant, BankSerial, BankChecked, BankInProgress, bankCommitted
  <2>. QED BY <2>1, <2>2, <2>3, <2>4 DEF BankInvariant
<1>. QED BY <1>1, <1>2, <1>3, <1>4, <1>5 DEF BankNext

\* The invariant of the reconciliations, for any statements, postings and requests.
THEOREM BankStrong == BankSpec => []BankInvariant
BY BankInitStrong, BankNextStrong, PTL DEF BankSpec

\* However imports, manual matches and adjustments interleave, no journal line is
\* matched with two statement lines; and until requests overlap, no statement line is
\* adjusted twice.
THEOREM MatchedAlwaysOnce == BankSpec => []MatchedOnce
<1>1. BankInvariant => MatchedOnce
  <2>. SUFFICES ASSUME BankInvariant PROVE MatchedOnce
    OBVIOUS
  <2>1. BankTypeOK /\ AdjustedOnce
    BY DEF BankInvariant, BankSerial, AdjustmentsSettled, AdjustedOnce
  <2>2. ASSUME NEW l \in StatementLines, NEW k \in StatementLines, HasRow(l), HasRow(k),
               RowOf(l).match # None, RowOf(l).match = RowOf(k).match
        PROVE  l = k
    <3>1. l[1] = k[1] /\ l[2] = k[2]
      BY <2>2, PlaceOfLine DEF BankInvariant, MatchesApart, HasRow, RowOf
    <3>. QED BY <3>1, PlaceOfLine
  <2>. QED BY <2>1, <2>2 DEF MatchedOnce
<1>. QED BY <1>1, BankStrong, PTL

-----------------------------------------------------------------------------
(* Refinement *)

\* A change of the status of one statement moves its document to the stage of that
\* status.
LEMMA StatementMoves ==
  ASSUME BankTypeOK, NEW s \in Statements, NEW new \in StatementStatus,
         statementStatus' = [statementStatus EXCEPT ![s] = new]
  PROVE  /\ new = "OPEN" => StatementStage' = [StatementStage EXCEPT ![s] = "open"]
         /\ new = "CLOSED" => StatementStage' = [StatementStage EXCEPT ![s] = "frozen"]
         /\ new = "REMOVED" => StatementStage' = [StatementStage EXCEPT ![s] = "discarded"]
BY DEF StatementStage, StatementStageOf, BankTypeOK

\* The content of a document is made of its rows alone.
LEMMA ContentKept ==
  ASSUME NEW s \in Statements
  PROVE  /\ rows' = rows => StatementContent' = StatementContent
         /\ (\A t \in Statements \ {s} : rows'[t] = rows[t]) => StatementCycle!OthersKept(s)
BY DEF StatementContent, ContentOf, StatementCycle!OthersKept

\* Until requests overlap, every step of the reconciliations is a step of the life
\* cycle or leaves it as it is.
LEMMA BankStepRefines ==
  ASSUME BankInvariant, [BankNext]_bankVars, ~bankOverlapped'
  PROVE  StatementCycle!Next \/ UNCHANGED <<StatementStage, StatementContent>>
<1>0. BankTypeOK /\ rows \in [Statements -> Seq(Row)]
  BY DEF BankInvariant
<1>1. ASSUME UNCHANGED <<statementStatus, rows>>
      PROVE  UNCHANGED <<StatementStage, StatementContent>>
  BY <1>1 DEF StatementStage, StatementStageOf, StatementContent, ContentOf
<1>2. ASSUME NEW r \in BankRequests, bankPc[r] \in BankWorking, BankEnds(r, "done")
      PROVE  BankChecked(r) /\ BankSound(r) /\ bankTx[r].statement \in Statements
  <2>1. ~bankOverlapped /\ r \in BankInProgress
    BY <1>2 DEF BankEnds, BankInProgress
  <2>. QED BY <1>2, <2>1, OtherBankIdle DEF BankInvariant, BankSound
<1>3. ASSUME NEW r \in BankRequests, CommitImport(r), ~BankRollback(r)
      PROVE  StatementCycle!Next
  <2>1. PICK s : s = bankTx[r].statement
    OBVIOUS
  <2>2. /\ bankPc[r] = "match" /\ BankEnds(r, "done")
        /\ statementStatus' = [statementStatus EXCEPT ![s] = "OPEN"]
        /\ \E new : rows' = [rows EXCEPT ![s] = new]
    BY <1>3, <2>1 DEF CommitImport
  <2>3. s \in Statements /\ statementStatus[s] = "ABSENT"
    <3>1. bankTx[r].op = "import"
      BY <1>0, <1>2, <2>2 DEF BankSound, BankWorking, BankTypeOK, BankWork
    <3>. QED BY <1>2, <2>1, <2>2, <3>1 DEF BankChecked, BankWorking
  <2>4. StatementStage' = [StatementStage EXCEPT ![s] = "open"] /\ StatementStage[s] = "absent"
    BY <1>0, <2>2, <2>3, StatementMoves DEF StatementStatus, StatementStage, StatementStageOf
  <2>5. StatementCycle!OthersKept(s)
    BY <1>0, <2>2, <2>3, ContentKept
  <2>6. StatementCycle!Create(s)
    BY <2>4, <2>5 DEF StatementCycle!Create, StatementCycle!Moves
  <2>. QED BY <2>3, <2>6 DEF StatementCycle!Next
<1>4. ASSUME NEW r \in BankRequests, WriteLine(r), ~BankRollback(r)
      PROVE  StatementCycle!Next
  <2>1. PICK s : s = bankTx[r].statement
    OBVIOUS
  <2>2. PICK n : n = bankTx[r].line
    OBVIOUS
  <2>3. /\ bankPc[r] = "write" /\ bankTx[r].op \in {"line", "adjust"} /\ BankEnds(r, "done")
        /\ statementStatus' = statementStatus
        /\ \E new : rows' = [rows EXCEPT ![s][n] = new]
    BY <1>4, <2>1, <2>2 DEF WriteLine
  <2>4. s \in Statements /\ statementStatus[s] = "OPEN"
    BY <1>2, <2>1, <2>3 DEF BankChecked, BankWorking
  <2>5. StatementStage' = [StatementStage EXCEPT ![s] = "open"] /\ StatementStage[s] = "open"
    BY <2>3, <2>4 DEF StatementStage, StatementStageOf
  <2>6. StatementCycle!OthersKept(s)
    BY <1>0, <2>3, <2>4, ContentKept
  <2>7. StatementCycle!Edit(s)
    BY <2>5, <2>6 DEF StatementCycle!Edit, StatementCycle!Moves
  <2>. QED BY <2>4, <2>7 DEF StatementCycle!Next
<1>5. ASSUME NEW r \in BankRequests, WriteStatement(r), ~BankRollback(r)
      PROVE  StatementCycle!Next
  <2>1. PICK s : s = bankTx[r].statement
    OBVIOUS
  <2>2. /\ bankPc[r] = "write" /\ bankTx[r].op \in {"close", "remove"} /\ BankEnds(r, "done")
        /\ statementStatus' = [statementStatus EXCEPT ![s] =
                                 IF bankTx[r].op = "close" THEN "CLOSED" ELSE "REMOVED"]
        /\ rows' = IF bankTx[r].op = "close" THEN rows ELSE [rows EXCEPT ![s] = <<>>]
    BY <1>5, <2>1 DEF WriteStatement
  <2>3. s \in Statements /\ statementStatus[s] = "OPEN" /\ StatementStage[s] = "open"
    BY <1>2, <2>1, <2>2 DEF BankChecked, BankWorking, StatementStage, StatementStageOf
  <2>4. CASE bankTx[r].op = "close"
    <3>1. StatementStage' = [StatementStage EXCEPT ![s] = "frozen"]
      BY <1>0, <2>2, <2>3, <2>4, StatementMoves DEF StatementStatus
    <3>2. \A n \in DOMAIN rows[s] : rows[s][n].status # "PENDING"
      BY <1>2, <2>1, <2>2, <2>4 DEF BankChecked, BankWorking
    <3>3. NothingPending(StatementContent[s])
      BY <2>3, <3>2 DEF NothingPending, StatementContent, ContentOf
    <3>4. StatementContent' = StatementContent
      BY <2>2, <2>3, <2>4, ContentKept
    <3>5. StatementCycle!Freeze(s)
      BY <2>3, <3>1, <3>3, <3>4 DEF StatementCycle!Freeze, StatementCycle!Moves
    <3>. QED BY <2>3, <3>5 DEF StatementCycle!Next
  <2>5. CASE bankTx[r].op = "remove"
    <3>1. StatementStage' = [StatementStage EXCEPT ![s] = "discarded"]
      BY <1>0, <2>2, <2>3, <2>5, StatementMoves DEF StatementStatus
    <3>2. StatementCycle!OthersKept(s)
      BY <1>0, <2>2, <2>3, <2>5, ContentKept
    <3>3. StatementCycle!Discard(s)
      BY <2>3, <3>1, <3>2 DEF StatementCycle!Discard, StatementCycle!Moves
    <3>. QED BY <2>3, <3>3 DEF StatementCycle!Next
  <2>. QED BY <2>2, <2>4, <2>5
<1>6. ASSUME NEW r \in BankRequests,
             BankRollback(r) \/ MatchNext(r) \/ CheckBalance(r) \/ BankBegin(r)
      PROVE  UNCHANGED <<statementStatus, rows>>
  BY <1>6 DEF BankRollback, MatchNext, CheckBalance, BankBegin, BeginImport, BeginClose,
              BeginRemoveStatement, ManualMatch, ResetLine, Ignore, Adjust, OnLine,
              BankBegins, bankCommitted
<1>7. ASSUME NEW p \in Postings, Post(p)
      PROVE  UNCHANGED <<statementStatus, rows>>
  BY <1>7 DEF Post
<1>8. CASE UNCHANGED bankVars
  BY <1>1, <1>8 DEF bankVars, bankCommitted
<1>. QED BY <1>1, <1>3, <1>4, <1>5, <1>6, <1>7, <1>8 DEF BankNext, BankStatement, BankAbort

\* Until two requests overlap, reconciliations implement the life cycle of documents:
\* closed with nothing pending, and frozen from then on.
THEOREM BankRefinement == BankSpec => BankRefinesLifecycle
<1>1. BankInit => StatementCycle!Init
  BY DEF BankInit, StatementCycle!Init, StatementStage, StatementStageOf, StatementContent,
         ContentOf
<1>2. ASSUME BankInvariant, [BankNext]_bankVars
      PROVE  [bankOverlapped' \/ StatementCycle!Next]_<<StatementStage, StatementContent>>
  <2>1. CASE bankOverlapped'
    BY <2>1
  <2>2. CASE ~bankOverlapped'
    BY <1>2, <2>2, BankStepRefines
  <2>. QED BY <2>1, <2>2
<1>. QED BY <1>1, <1>2, BankStrong, PTL DEF BankSpec, BankRefinesLifecycle
=============================================================================

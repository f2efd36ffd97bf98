--------------------------- MODULE PayrollEvents ---------------------------
(***************************************************************************)
(* The payroll events of one organization: monthly runs and thirteenth-    *)
(* salary runs, which keep one line per employee, and vacations and         *)
(* terminations, which are single rows.  Each is created as a draft,        *)
(* calculated from the employees (any number of times), posted to the       *)
(* journal, or removed.                                                    *)
(*                                                                         *)
(* A request is one READ COMMITTED transaction.  The statements of a       *)
(* handler that follow its last wait are one step with its commit: they can *)
(* neither block nor be seen apart.  What is calculated is abstracted to    *)
(* the salary it was calculated from.                                      *)
(***************************************************************************)
EXTENDS Integers, FiniteSets

CONSTANTS
  Employees, Salaries,
  PayrollRuns, Vacations, Terminations,  \* events that may be created
  First, Second,     \* the two installments of one thirteenth salary
  EmployeeOf,        \* the employee of each vacation and termination
  CompetenceOf,      \* the month of each payroll run
  PayrollRequests,
  MaxEventsOverlapping,  \* bound: requests begun, once some of them overlap
  Nobody

LineEvents == PayrollRuns \cup {First, Second}
RowEvents == Vacations \cup Terminations
Events == LineEvents \cup RowEvents

ASSUME PayrollAssumption ==
  /\ Salaries \subseteq Nat \ {0} /\ EmployeeOf \in [RowEvents -> Employees]
  /\ LineEvents \cap RowEvents = {} /\ Vacations \cap Terminations = {}
  /\ MaxEventsOverlapping \in Nat /\ Nobody \notin PayrollRequests \cup Employees

\* Two rows a unique index keeps apart: runs of one month, terminations of one
\* employee.  Vacations have no such index.
Excludes(e, f) ==
  \/ {e, f} \subseteq PayrollRuns /\ CompetenceOf[e] = CompetenceOf[f]
  \/ {e, f} \subseteq Terminations /\ EmployeeOf[e] = EmployeeOf[f]

VARIABLES
  salary,       \* base salary of each employee
  terminated,   \* employees with status TERMINATED
  eventStatus,       \* status of each event row
  eventLines,        \* committed lines: the employee, what was calculated and by whom
  entries,      \* committed journal entries
  lineLock,     \* who has rewritten the lines of each event
  payPc, payTx,
  payOverlapped \* history: a request once began while another was in progress

payrollCommitted == <<salary, terminated, eventStatus, eventLines, entries>>
payrollVars == <<payrollCommitted, lineLock, payPc, payTx, payOverlapped>>

-----------------------------------------------------------------------------

EventStatus == {"ABSENT", "DRAFT", "CALCULATED", "POSTED", "REMOVED"}
EventExists(e) == eventStatus[e] \in {"DRAFT", "CALCULATED", "POSTED"}

\* previous: what the second installment subtracts.
EventLine == [employee: Employees, figure: Nat, previous: Nat, by: PayrollRequests]
Entry == [event: Events, lines: SUBSET EventLine, by: PayrollRequests]

\* employee, amount: what update() writes; lines: what calculate() computed or
\* post() read; seen: the lines its DELETE statement saw.
NoPayrollWork == [op |-> "none", event |-> First, employee |-> Nobody, amount |-> 0,
           lines |-> {}, seen |-> {}]

PayrollWork == [op : {"none", "create", "calculate", "post", "remove", "employee"},
         event : Events, employee : Employees \cup {Nobody},
         amount : Nat, lines : SUBSET EventLine, seen : SUBSET EventLine]

PayrollWorking == {"insert", "read", "delete", "rewrite", "write"}
PayrollInProgress == {r \in PayrollRequests : payPc[r] \in PayrollWorking}
PayrollBegun == {r \in PayrollRequests : payPc[r] # "idle"}

\* Any request may begin at any time, up to the bound.
MayBeginEvent(r) ==
  /\ payPc[r] = "idle"
  /\ payOverlapped \/ PayrollInProgress # {} =>
       Cardinality(PayrollBegun) < MaxEventsOverlapping

\* A handler's opening read: the request is refused, or goes on to place.
EventBegins(r, refused, place, work) ==
  /\ MayBeginEvent(r)
  /\ payPc' = [payPc EXCEPT ![r] = IF refused THEN "failed" ELSE place]
  /\ payTx' = [payTx EXCEPT ![r] = IF refused THEN NoPayrollWork ELSE work]
  /\ payOverlapped' = (payOverlapped \/ PayrollInProgress # {})
  /\ UNCHANGED <<payrollCommitted, lineLock>>

EventEnds(r, outcome) ==
  /\ payPc' = [payPc EXCEPT ![r] = outcome]
  /\ payTx' = [payTx EXCEPT ![r] = NoPayrollWork]
  /\ lineLock' = [e \in LineEvents |->
                    IF lineLock[e] = r THEN Nobody ELSE lineLock[e]]
  /\ UNCHANGED payOverlapped

EventRollback(r) == EventEnds(r, "failed") /\ UNCHANGED payrollCommitted

\* The rows of one employee have one figure, so the sum is the figure.
PreviousOf(employee) ==
  LET paid == {l \in eventLines[First] : l.employee = employee}
  IN  IF paid = {} THEN 0 ELSE (CHOOSE l \in paid : TRUE).figure

\* Who has a line in a run: the thirteenth salary is for active employees; a
\* monthly run also has those who left during the month.
Payable(e) == IF e \in PayrollRuns THEN Employees ELSE Employees \ terminated

Calculated(r, e) ==
  {[employee |-> m, figure |-> salary[m], by |-> r,
    previous |-> IF e = Second THEN PreviousOf(m) ELSE 0] :
     m \in IF e \in LineEvents THEN Payable(e) ELSE {EmployeeOf[e]}}

-----------------------------------------------------------------------------
(* create(): the employee is checked, then the row is inserted *)

BeginCreate(r, e) ==
  /\ eventStatus[e] = "ABSENT"
  /\ \A q \in PayrollRequests \ {r} :  \* a new id
       payTx[q].op = "create" => payTx[q].event # e
  /\ EventBegins(r, e \in RowEvents /\ EmployeeOf[e] \in terminated, "insert",
            [NoPayrollWork EXCEPT !.op = "create", !.event = e])

InsertEvent(r) ==
  LET e == payTx[r].event
  IN  /\ payPc[r] = "insert"
      /\ IF \E f \in Events : EventExists(f) /\ Excludes(e, f)
         THEN EventRollback(r)
         ELSE /\ eventStatus' = [eventStatus EXCEPT ![e] = "DRAFT"]
              /\ EventEnds(r, "done")
              /\ UNCHANGED <<salary, terminated, eventLines, entries>>

-----------------------------------------------------------------------------
(* calculate(): the status is checked, the employees are read, the lines are *)
(* deleted and inserted again, and the row is marked                        *)

\* A single row is calculated from the employee read together with it.
CalculateWork(r, e) ==
  [NoPayrollWork EXCEPT !.op = "calculate", !.event = e,
     !.lines = IF e \in RowEvents THEN Calculated(r, e) ELSE {}]

\* Mutant: no assertNotPosted.
BeginCalculateAny(r, e) ==
  EventBegins(r, ~EventExists(e), IF e \in LineEvents THEN "read" ELSE "write",
              CalculateWork(r, e))

BeginCalculate(r, e) ==
  EventBegins(r, eventStatus[e] \notin {"DRAFT", "CALCULATED"},
              IF e \in LineEvents THEN "read" ELSE "write", CalculateWork(r, e))

ReadEmployees(r) ==
  /\ payPc[r] = "read"
  /\ payTx' = [payTx EXCEPT ![r].lines = Calculated(r, payTx[r].event)]
  /\ payPc' = [payPc EXCEPT ![r] = "delete"]
  /\ UNCHANGED <<payrollCommitted, lineLock, payOverlapped>>

\* The DELETE statement sees the lines committed when it starts.
DeleteLines(r) ==
  /\ payPc[r] = "delete"
  /\ payTx' = [payTx EXCEPT ![r].seen = eventLines[payTx[r].event]]
  /\ payPc' = [payPc EXCEPT ![r] = "rewrite"]
  /\ UNCHANGED <<payrollCommitted, lineLock, payOverlapped>>

\* Lines another calculation committed after that statement began stay.
LinesLeft(r) == eventLines[payTx[r].event] \ payTx[r].seen

\* Mutant: no unique index.
RewriteLinesUnindexed(r) ==
  /\ payPc[r] = "rewrite"
  /\ lineLock[payTx[r].event] = Nobody
  /\ lineLock' = [lineLock EXCEPT ![payTx[r].event] = r]
  /\ payPc' = [payPc EXCEPT ![r] = "write"]
  /\ UNCHANGED <<payrollCommitted, payTx, payOverlapped>>

\* Deleting and inserting waits for another calculation that has rewritten the
\* lines, and fails on the unique index (event, employee) if that one commits.
RewriteLines(r) ==
  LET e == payTx[r].event
  IN  /\ payPc[r] = "rewrite"
      /\ lineLock[e] = Nobody
      /\ IF \/ ~EventExists(e)
            \/ \E new \in payTx[r].lines, old \in LinesLeft(r) :
                 new.employee = old.employee
         THEN EventRollback(r)
         ELSE /\ lineLock' = [lineLock EXCEPT ![e] = r]
              /\ payPc' = [payPc EXCEPT ![r] = "write"]
              /\ UNCHANGED <<payrollCommitted, payTx, payOverlapped>>

\* The last update, without a condition, and the commit.
WriteCalculation(r) ==
  LET e == payTx[r].event
  IN  /\ payPc[r] = "write" /\ payTx[r].op = "calculate"
      /\ IF ~EventExists(e)
         THEN EventRollback(r)
         ELSE /\ eventStatus' = [eventStatus EXCEPT ![e] = "CALCULATED"]
              /\ eventLines' = [eventLines EXCEPT ![e] =
                   payTx[r].lines \cup (IF e \in LineEvents THEN LinesLeft(r) ELSE {})]
              /\ EventEnds(r, "done")
              /\ UNCHANGED <<salary, terminated, entries>>

-----------------------------------------------------------------------------
(* post() *)

\* What validateBalance() says of the entry made of these lines: the expense is
\* all that was earned, the pay is less what a first installment paid, and no
\* line of the entry stands for that.
Balanced(calculated) == \A l \in calculated : l.previous = 0

\* Mutant: only removed events are refused.
BeginPostAny(r, e) ==
  EventBegins(r, ~EventExists(e) \/ eventLines[e] = {} \/ ~Balanced(eventLines[e]),
              "write",
              [NoPayrollWork EXCEPT !.op = "post", !.event = e, !.lines = eventLines[e]])

\* The event and its lines are read and checked.
BeginPost(r, e) ==
  EventBegins(r, \/ eventStatus[e] # "CALCULATED"
                 \/ eventLines[e] = {} \/ ~Balanced(eventLines[e]),
              "write",
              [NoPayrollWork EXCEPT !.op = "post", !.event = e, !.lines = eventLines[e]])

\* The posting (once the journal counter is free), the row, and for a
\* termination the employee.
WritePosted(r) ==
  LET e == payTx[r].event
  IN  /\ payPc[r] = "write" /\ payTx[r].op = "post"
      /\ IF ~EventExists(e)
         THEN EventRollback(r)
         ELSE /\ entries' = entries \cup {[event |-> e, lines |-> payTx[r].lines,
                                           by |-> r]}
              /\ eventStatus' = [eventStatus EXCEPT ![e] = "POSTED"]
              /\ terminated' = IF e \in Terminations
                               THEN terminated \cup {EmployeeOf[e]} ELSE terminated
              /\ EventEnds(r, "done")
              /\ UNCHANGED <<eventLines, salary>>

-----------------------------------------------------------------------------
(* remove(): assertNotPosted, then the lines and the row *)

BeginRemoveEvent(r, e) ==
  EventBegins(r, eventStatus[e] \notin {"DRAFT", "CALCULATED"}, "write",
              [NoPayrollWork EXCEPT !.op = "remove", !.event = e])

\* The row goes, and its lines by the delete or the cascade; a calculation
\* that has inserted lines keeps the row from going until it ends.
WriteRemoval(r) ==
  LET e == payTx[r].event
  IN  /\ payPc[r] = "write" /\ payTx[r].op = "remove"
      /\ e \in LineEvents => lineLock[e] = Nobody
      /\ IF ~EventExists(e)
         THEN EventRollback(r)
         ELSE /\ eventStatus' = [eventStatus EXCEPT ![e] = "REMOVED"]
              /\ eventLines' = [eventLines EXCEPT ![e] = {}]
              /\ EventEnds(r, "done")
              /\ UNCHANGED <<salary, terminated, entries>>

-----------------------------------------------------------------------------
(* EmployeesService.update(): the status is checked, then the row is written *)

BeginUpdateEmployee(r, m, amount) ==
  EventBegins(r, m \in terminated, "write",
              [NoPayrollWork EXCEPT !.op = "employee", !.employee = m, !.amount = amount])

WriteEmployee(r) ==
  /\ payPc[r] = "write" /\ payTx[r].op = "employee"
  /\ salary' = [salary EXCEPT ![payTx[r].employee] = payTx[r].amount]
  /\ EventEnds(r, "done")
  /\ UNCHANGED <<terminated, eventStatus, eventLines, entries>>

EventAbort(r) == payPc[r] \in PayrollWorking /\ EventRollback(r)

-----------------------------------------------------------------------------

PayrollInit ==
  /\ salary \in [Employees -> Salaries]
  /\ terminated = {}
  /\ eventStatus = [e \in Events |-> "ABSENT"]
  /\ eventLines = [e \in Events |-> {}]
  /\ entries = {}
  /\ lineLock = [e \in LineEvents |-> Nobody]
  /\ payPc = [r \in PayrollRequests |-> "idle"]
  /\ payTx = [r \in PayrollRequests |-> NoPayrollWork]
  /\ payOverlapped = FALSE

PayrollBegin(r) ==
  \/ \E e \in Events :
       BeginCreate(r, e) \/ BeginCalculate(r, e) \/ BeginPost(r, e) \/ BeginRemoveEvent(r, e)
  \/ \E m \in Employees, amount \in Salaries : BeginUpdateEmployee(r, m, amount)

PayrollStatement(r) ==
  \/ InsertEvent(r)
  \/ ReadEmployees(r) \/ DeleteLines(r) \/ RewriteLines(r) \/ WriteCalculation(r)
  \/ WritePosted(r) \/ WriteRemoval(r) \/ WriteEmployee(r)

PayrollNext ==
  \E r \in PayrollRequests : PayrollBegin(r) \/ PayrollStatement(r) \/ EventAbort(r)

PayrollSpec == PayrollInit /\ [][PayrollNext]_payrollVars

-----------------------------------------------------------------------------
(* Properties *)

\* Every variable keeps its type, and a lock on lines is held by a request that
\* is rewriting them.
PayrollTypeOK ==
  /\ salary \in [Employees -> Salaries] /\ terminated \subseteq Employees
  /\ eventStatus \in [Events -> EventStatus] /\ eventLines \in [Events -> SUBSET EventLine]
  /\ entries \subseteq Entry
  /\ lineLock \in [LineEvents -> PayrollRequests \cup {Nobody}]
  /\ payPc \in [PayrollRequests -> PayrollWorking \cup {"idle", "done", "failed"}]
  /\ payTx \in [PayrollRequests -> PayrollWork] /\ payOverlapped \in BOOLEAN
  /\ \A e \in LineEvents : lineLock[e] # Nobody =>
       payPc[lineLock[e]] = "write" /\ payTx[lineLock[e]].event = e

\* Recalculating, even twice at once, never leaves two lines of an employee.
\* (With the types.)
LinesOnePerEmployee ==
  /\ PayrollTypeOK
  /\ \A e \in Events : \A l, k \in eventLines[e] : l.employee = k.employee => l = k

\* "A folha precisa estar calculada antes de ser postada": until requests
\* overlap, an event is posted to the journal once, and its lines stay the ones
\* its entry was made from.
PostedMatchesEntry ==
  ~payOverlapped =>
    \A n \in entries : /\ eventStatus[n.event] = "POSTED" /\ eventLines[n.event] = n.lines
                       /\ \A k \in entries : k.event = n.event => k = n

\* "a 1ª parcela já paga só é abatida do líquido final" (thirteenth-salary-run): an
\* event that is calculated, with lines, makes an entry that balances.
CalculatedCanBePosted ==
  \A e \in Events : eventStatus[e] = "CALCULATED" => Balanced(eventLines[e])

EventStageOf(e) ==
  CASE eventStatus[e] = "ABSENT"                  -> "absent"
    [] eventStatus[e] \in {"DRAFT", "CALCULATED"} -> "open"
    [] eventStatus[e] = "POSTED"                    -> "frozen"
    [] OTHER                                        -> "discarded"

HasLines(content) == content # {}

EventStage == [e \in Events |-> EventStageOf(e)]

EventCycle == INSTANCE Lifecycle WITH
  Documents <- Events, Ready <- HasLines, stage <- EventStage, content <- eventLines

\* Until requests overlap, payroll events implement the life cycle: calculated
\* while they are open, posted when they have lines, frozen from then on.
PayrollRefinesLifecycle ==
  EventCycle!Init /\ [][payOverlapped' \/ EventCycle!Next]_<<EventStage, eventLines>>
=============================================================================

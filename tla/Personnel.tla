------------------------------- MODULE Personnel -------------------------------
(* The register of employees and the events for eSocial.  Employees and events *)
(* are numbered by counter rows of the organization, as journal entries are:   *)
(* an upsert takes the next number and holds the row to the end of the         *)
(* transaction, so that a request that fails leaves no gap.  What employees    *)
(* are paid is in PayrollEvents.                                               *)
EXTENDS Integers, FiniteSets

CONSTANTS
  Requests,
  Taxpayers,       \* CPFs
  MaxEmployees,    \* bound: employees of a run
  Nobody

\* What an event needs of an employee: its PIS, its category, everything else.
Fields == {"pis", "category", "others"}
Fillings == {{"pis"}, Fields}

\* What an event needs of the organization: its CNPJ and, of the registration,
\* the figures of the employer and the address.
CompanyFields == {"cnpj", "employer", "address"}

\* Assumed by the modules that instantiate this one.
PersonnelAssumption == Nobody \notin Requests /\ Taxpayers # {} /\ MaxEmployees \in Nat

VARIABLES
  employees,   \* committed employees: number, CPF, fields that are filled
  terminated,  \* numbers of those with status TERMINATED
  company,     \* fields of the organization that are filled
  runLines,    \* numbers of the employees with a line in the payroll run
  events,      \* committed events: number, whose, and who generated them
  sent,        \* numbers of those with a protocol of submission
  counter,     \* committed sequence_counters rows
  holder,      \* who holds the lock of each
  pc, tx,      \* how far each request is, and its uncommitted work
  crossed      \* history: employees terminated while they were being edited

records == <<employees, terminated, company, runLines, events, sent, counter, crossed>>
personnelVars == <<records, holder, pc, tx>>

Keys == {"employee", "esocial_evento"}

NoWork == [op |-> "none", targets |-> {}, value |-> 0, new |-> {}, fields |-> {}]

NumbersOf(rows) == {row.number : row \in rows}
EmployeeNumbered(n) == CHOOSE e \in employees : e.number = n

\* The counter whose number a request takes.
KeyOf(r) == IF tx[r].op = "create" THEN "employee" ELSE "esocial_evento"

Running(r) == pc[r] \notin {"idle", "ended"}

-----------------------------------------------------------------------------
PersonnelInit ==
  /\ employees \in {{}, {[number |-> 1, cpf |-> CHOOSE cpf \in Taxpayers : TRUE, fields |-> Fields]}}
  /\ terminated = {} /\ runLines = {} /\ events = {} /\ sent = {} /\ crossed = {}
  /\ company \in {{}, {"cnpj"}}
  /\ counter = [k \in Keys |-> IF k = "employee" THEN Cardinality(employees) ELSE 0]
  /\ holder = [k \in Keys |-> Nobody]
  /\ pc = [r \in Requests |-> "idle"]
  /\ tx = [r \in Requests |-> NoWork]

Goes(r, to, work) ==
  /\ pc' = [pc EXCEPT ![r] = to]
  /\ tx' = [tx EXCEPT ![r] = work]

\* A check before the first write: a refusal ends the request.
GoesIf(accepted, r, to, work) ==
  IF accepted THEN Goes(r, to, work) ELSE Goes(r, "ended", NoWork)

Released(r) == [k \in Keys |-> IF holder[k] = r THEN Nobody ELSE holder[k]]

\* Mutant: the counter keeps the number a failed request has drawn.
RollbackKeepsNumber(r) ==
  /\ Goes(r, "ended", NoWork)
  /\ holder' = Released(r)
  /\ counter' = [k \in Keys |-> IF holder[k] = r THEN tx[r].value ELSE counter[k]]
  /\ UNCHANGED <<employees, terminated, company, runLines, events, sent, crossed>>

Rollback(r) ==
  /\ Goes(r, "ended", NoWork)
  /\ holder' = Released(r)
  /\ UNCHANGED records

(* EmployeesService *)

BeginCreate(r) ==
  /\ pc[r] = "idle"
  /\ \E cpf \in Taxpayers, fields \in Fillings :
       Goes(r, "draw", [NoWork EXCEPT !.op = "create", !.targets = {cpf}, !.fields = fields])
  /\ UNCHANGED <<records, holder>>

\* The insertion, under the unique index on the CPF.
InsertEmployee(r) ==
  /\ pc[r] = "store" /\ tx[r].op = "create"
  /\ IF \E e \in employees : e.cpf \in tx[r].targets
     THEN Rollback(r)
     ELSE /\ \E cpf \in tx[r].targets :
               Goes(r, "written", [tx[r] EXCEPT !.new =
                 {[number |-> tx[r].value, cpf |-> cpf, fields |-> tx[r].fields]}])
          /\ UNCHANGED <<records, holder>>

\* Mutant: the status is not looked at.
BeginUpdateOfAny(r) ==
  /\ pc[r] = "idle"
  /\ \E n \in NumbersOf(employees), fields \in Fillings :
       Goes(r, "edit", [NoWork EXCEPT !.op = "update", !.targets = {n}, !.fields = fields])
  /\ UNCHANGED <<records, holder>>

\* update(): a terminated employee is no longer edited.
BeginUpdate(r) ==
  /\ pc[r] = "idle"
  /\ \E n \in NumbersOf(employees), fields \in Fillings :
       GoesIf(n \notin terminated, r, "edit",
              [NoWork EXCEPT !.op = "update", !.targets = {n}, !.fields = fields])
  /\ UNCHANGED <<records, holder>>

\* The row is written under its lock.
WriteUpdate(r) ==
  /\ pc[r] = "edit"
  /\ \A q \in Requests \ {r} : ~(pc[q] = "written" /\ tx[q].op = "update"
                                   /\ tx[q].targets = tx[r].targets)
  /\ Goes(r, "written", tx[r])
  /\ UNCHANGED <<records, holder>>

(* EsocialEventosService: each generator reads, checks, and stores events *)

\* The kinds of events, what they need of the company and of the employee, and
\* whom they may be about.  S-2299 reads a termination in whatever status, and
\* has a code for each of the four types.
Kinds == {"S-1000", "S-1005", "S-2200", "S-2230", "S-2299", "S-1200"}

NeedsOfCompany(kind) ==
  CASE kind = "S-1000" -> {"cnpj", "employer"}
    [] kind = "S-1005" -> {"cnpj", "address"}
    [] OTHER           -> {"cnpj"}

NeedsOfEmployee(kind) ==
  CASE kind = "S-2200" -> Fields
    [] kind = "S-2230" -> {"pis"}
    [] kind = "S-1200" -> {"category"}
    [] OTHER           -> {}

\* Each choice is a set: the employees the events of one request are about.
Targets(kind) ==
  CASE kind \in {"S-1000", "S-1005"} -> {{Nobody}}
    [] kind = "S-1200" -> {runLines}
    [] OTHER           -> {{n} : n \in NumbersOf(employees)}

BeginGenerate(r) ==
  /\ pc[r] = "idle"
  /\ \E kind \in Kinds : \E targets \in Targets(kind) :
       LET accepted == /\ NeedsOfCompany(kind) \subseteq company
                       /\ targets # {}
                       /\ \A n \in targets \ {Nobody} :
                            NeedsOfEmployee(kind) \subseteq EmployeeNumbered(n).fields
       IN  GoesIf(accepted, r, "draw", [NoWork EXCEPT !.op = "generate", !.targets = targets])
  /\ UNCHANGED <<records, holder>>

\* Mutant: the row of the counter is free again after each number.
TakeNumberAndFree(r) ==
  LET k == KeyOf(r) IN
  /\ pc[r] = "draw" /\ holder[k] \in {Nobody, r}
  /\ Goes(r, "store", [tx[r] EXCEPT !.value = counter[k] + 1])
  /\ counter' = [counter EXCEPT ![k] = @ + 1]
  /\ UNCHANGED <<employees, terminated, company, runLines, events, sent, crossed, holder>>

\* The upsert of the counter: waits for the row, and keeps it.
TakeNumber(r) ==
  LET k == KeyOf(r) IN
  /\ pc[r] = "draw" /\ holder[k] \in {Nobody, r}
  /\ holder' = [holder EXCEPT ![k] = r]
  /\ Goes(r, "store", [tx[r] EXCEPT !.value = IF holder[k] = r THEN @ + 1 ELSE counter[k] + 1])
  /\ UNCHANGED records

\* One event; a payroll run has one for each of its lines.
StoreEvent(r) ==
  /\ pc[r] = "store" /\ tx[r].op = "generate"
  /\ \E n \in tx[r].targets :
       Goes(r, IF tx[r].targets = {n} THEN "written" ELSE "draw",
            [tx[r] EXCEPT !.targets = @ \ {n},
                          !.new = @ \cup {[number |-> tx[r].value, of |-> n, by |-> r]}])
  /\ UNCHANGED <<records, holder>>

Commit(r) ==
  /\ pc[r] = "written"
  /\ holder' = Released(r)
  /\ counter' = [k \in Keys |-> IF holder[k] = r THEN tx[r].value ELSE counter[k]]
  /\ employees' = CASE tx[r].op = "create" -> employees \cup tx[r].new
                    [] tx[r].op = "update" ->
                         {IF e.number \in tx[r].targets THEN [e EXCEPT !.fields = tx[r].fields]
                          ELSE e : e \in employees}
                    [] OTHER -> employees
  /\ events' = IF tx[r].op = "generate" THEN events \cup tx[r].new ELSE events
  /\ Goes(r, "ended", NoWork)
  /\ UNCHANGED <<terminated, company, runLines, sent, crossed>>

Abort(r) == Running(r) /\ Rollback(r)

\* setSubmissionProtocol, whatever the status of the event.
SetSubmissionProtocol(number) ==
  /\ number \in NumbersOf(events) \ sent
  /\ sent' = sent \cup {number}
  /\ UNCHANGED <<employees, terminated, company, runLines, events, counter, crossed, holder, pc, tx>>

(* Of other modules: the posting of a termination, which waits for the row of *)
(* the employee; the calculation of a payroll run; the data of the company    *)

Editors(n) == {r \in Requests : tx[r].op = "update" /\ tx[r].targets = {n}}

Terminate(n) ==
  /\ n \notin terminated
  /\ \A r \in Editors(n) : pc[r] # "written"
  /\ terminated' = terminated \cup {n}
  /\ crossed' = IF \E r \in Editors(n) : Running(r) THEN crossed \cup {n} ELSE crossed
  /\ UNCHANGED <<employees, company, runLines, events, sent, counter, holder, pc, tx>>

\* Who was admitted after the month or left before it is not paid in it.
CalculateRun ==
  /\ \E paid \in SUBSET NumbersOf(employees) : runLines' = paid
  /\ runLines' # runLines
  /\ UNCHANGED <<employees, terminated, company, events, sent, counter, crossed, holder, pc, tx>>

RegisterCompany ==
  /\ company # CompanyFields /\ company' = CompanyFields
  /\ UNCHANGED <<employees, terminated, runLines, events, sent, counter, crossed, holder, pc, tx>>

PersonnelNext ==
  \/ \E r \in Requests :
       \/ Cardinality(employees) < MaxEmployees /\ BeginCreate(r)
       \/ BeginUpdate(r) \/ BeginGenerate(r)
       \/ TakeNumber(r) \/ InsertEmployee(r) \/ WriteUpdate(r) \/ StoreEvent(r)
       \/ Commit(r) \/ Abort(r)
  \/ \E n \in NumbersOf(employees) : Terminate(n)
  \/ \E number \in NumbersOf(events) : SetSubmissionProtocol(number)
  \/ CalculateRun \/ RegisterCompany

PersonnelSpec == PersonnelInit /\ [][PersonnelNext]_personnelVars

-----------------------------------------------------------------------------
(* Properties *)

\* Types, proved in PersonnelProofs.
Employee == [number: Nat, cpf: Taxpayers, fields: SUBSET Fields]
Event    == [number: Nat, of: Nat \cup {Nobody}, by: Requests]
Work     == [op: {"none", "create", "update", "generate"},
             targets: SUBSET (Taxpayers \cup Nat \cup {Nobody}), value: Nat,
             new: SUBSET (Employee \cup Event), fields: SUBSET Fields]

TypeOK ==
  /\ employees \subseteq Employee /\ events \subseteq Event
  /\ terminated \cup crossed \cup runLines \subseteq NumbersOf(employees)
  /\ sent \subseteq NumbersOf(events) /\ company \subseteq CompanyFields
  /\ counter \in [Keys -> Nat]
  /\ holder \in [Keys -> Requests \cup {Nobody}]
  /\ pc \in [Requests -> {"idle", "draw", "store", "edit", "written", "ended"}]
  /\ tx \in [Requests -> Work]

\* Rows with the numbers 1 .. n, each once.
Numbered(rows, n) == NumbersOf(rows) = 1 .. n /\ Cardinality(rows) = n

\* Numbers of employees and of events have no gap and no repeat, whatever
\* conflicts and failures interleave; a payroll run has one event for each
\* employee, and no other event has a number among theirs.
NumbersWithoutGap ==
  /\ Numbered(employees, counter["employee"])
  /\ Numbered(events, counter["esocial_evento"])
  /\ \A v, w \in events : v.by = w.by =>
       /\ v.of = w.of => v = w
       /\ \A x \in events : x.number \in v.number .. w.number => x.by = v.by

\* "Funcionário desligado; cadastro não pode mais ser editado": the record of
\* an employee stays as it was when the termination was posted, unless an
\* update was on its way.
KeepsRecord ==
  \A n \in terminated \ crossed :
    {e \in employees' : e.number = n} = {e \in employees : e.number = n}
TerminatedKeepsRecord == [][KeepsRecord]_personnelVars
=============================================================================

------------------------ MODULE AdministrationProofs -------------------------
(***************************************************************************)
(* Proofs about Personnel, Auth, TaxSettings and FiscalDocuments.  Of the  *)
(* register of employees: types, that the numbers of employees and of      *)
(* events have no gap, and that the record of a terminated employee stays. *)
(* Of sessions and access control: that a session has one refresh token in *)
(* use, that an access token whose stamp is current carries its user's     *)
(* permissions, and that replacing roles or permissions leaves those asked *)
(* for.  Of the settings: that they stay whole however requests interleave.*)
(* Of fiscal documents: that each is stored with an entry that follows it. *)
(***************************************************************************)
EXTENDS Auth, Personnel, FiscalDocuments, SumTheorems, FunctionTheorems, TLAPS

Draws == {"create", "generate"}

\* Rows with the numbers 1 .. n, each once, without a word on cardinality.
Apart(rows) == \A v, w \in rows : v.number = w.number => v = w
CountsTo(rows, n) == NumbersOf(rows) = 1 .. n /\ Apart(rows)

(* What is true of a request at a phase with its work.  All of it is the     *)
(* strengthening of NumbersWithoutGap and TerminatedKeepsRecord.             *)

\* How far a request is tells what it does.
Fits(phase, w) ==
  /\ phase \in {"idle", "ended"} => w = NoWork
  /\ phase \in {"draw", "store"} => w.op \in Draws
  /\ phase = "edit" => w.op = "update"
  /\ phase = "written" => w.op # "none"
  /\ w.op = "update" => phase \in {"edit", "written"} /\ w.new = {}

\* A creation stores one employee, a generator events of its own, at most one
\* for each target and none for those it still has to do.
StoresOwn(r, phase, w) ==
  /\ w.op = "create" =>
       /\ w.targets \subseteq Taxpayers /\ w.new \subseteq Employee
       /\ phase # "written" => w.new = {}
  /\ w.op = "generate" =>
       /\ w.targets \subseteq Nat \cup {Nobody} /\ w.new \subseteq Event
       /\ \A v \in w.new : v.by = r /\ v.of \notin w.targets
       /\ \A v, x \in w.new : v.of = x.of => v = x

\* An update is of one employee, who is not terminated unless that is known to
\* have crossed it.
EditsOne(w) ==
  w.op = "update" =>
    \E n \in NumbersOf(employees) :
      w.targets = {n} /\ (n \in terminated => n \in crossed)

Key(w) == IF w.op = "create" THEN "employee" ELSE "esocial_evento"

\* The numbers a request has drawn follow the committed counter, and the rows
\* it has stored have them, once each; who does not hold the counter has none.
Drawn(r, phase, w) ==
  IF w.op \in Draws /\ holder[Key(w)] = r
  THEN /\ w.value > counter[Key(w)]
       /\ NumbersOf(w.new) =
            (counter[Key(w)] + 1) .. (IF phase = "store" THEN w.value - 1 ELSE w.value)
       /\ Apart(w.new)
  ELSE /\ phase # "store" /\ w.new = {}
       /\ phase = "written" => w.op = "update"

RequestInv(r, phase, w) ==
  Fits(phase, w) /\ StoresOwn(r, phase, w) /\ EditsOne(w) /\ Drawn(r, phase, w)

\* Who holds a counter draws from it and has not ended.
HoldersDraw ==
  \A k \in Keys : holder[k] # Nobody =>
    LET r == holder[k] IN
      tx[r].op \in Draws /\ Key(tx[r]) = k /\ pc[r] \in {"draw", "store", "written"}

\* Events are numbered run by run, one for each target, by requests that ended.
EventsOfRuns ==
  /\ \A v \in events : pc[v.by] = "ended"
  /\ \A v, w \in events : v.by = w.by =>
       /\ v.of = w.of => v = w
       /\ \A x \in events : x.number \in v.number .. w.number => x.by = v.by

Counted ==
  /\ CountsTo(employees, counter["employee"])
  /\ CountsTo(events, counter["esocial_evento"])

IInv ==
  /\ TypeOK /\ Counted /\ EventsOfRuns /\ HoldersDraw
  /\ \A r \in Requests : RequestInv(r, pc[r], tx[r])

-----------------------------------------------------------------------------
(* Rows and their numbers *)

\* Rows numbered 1 .. n, each once, are n rows.
LEMMA CountedRows ==
  ASSUME NEW rows, NEW n \in Nat, CountsTo(rows, n)
  PROVE  Numbered(rows, n)
<1>. DEFINE f == [m \in 1 .. n |-> CHOOSE v \in rows : v.number = m]
<1>1. \A m \in 1 .. n : f[m] \in rows /\ f[m].number = m
  BY DEF CountsTo, NumbersOf
<1>2. \A v \in rows : v.number \in 1 .. n /\ f[v.number] = v
  BY <1>1 DEF CountsTo, NumbersOf, Apart
<1>3. f \in Bijection(1 .. n, rows)
  <2>1. f \in [1 .. n -> rows]
    BY <1>1
  <2>2. \A a, b \in 1 .. n : f[a] = f[b] => a = b
    BY <1>1
  <2>3. \A v \in rows : \E m \in 1 .. n : f[m] = v
    BY <1>2
  <2>. HIDE DEF f
  <2>. QED BY <2>1, <2>2, <2>3, Fun_IsBij
<1>4. ExistsBijection(1 .. n, rows)
  BY <1>3 DEF ExistsBijection
<1>5. IsFiniteSet(1 .. n) /\ Cardinality(1 .. n) = n
  BY FS_Interval
<1>. QED BY <1>4, <1>5, FS_Bijection DEF CountsTo, Numbered

\* Rows with the numbers that follow extend the count.
LEMMA ExtendedCount ==
  ASSUME NEW rows, NEW new, NEW n \in Nat, NEW m \in Nat, n <= m,
         CountsTo(rows, n), NumbersOf(new) = (n + 1) .. m, Apart(new)
  PROVE  CountsTo(rows \cup new, m)
<1>1. \A v \in rows : v.number \in 1 .. n
  BY DEF CountsTo, NumbersOf
<1>2. \A v \in new : v.number \in (n + 1) .. m
  BY DEF NumbersOf
<1>3. Apart(rows \cup new)
  BY <1>1, <1>2 DEF CountsTo, Apart
<1>4. NumbersOf(rows \cup new) = NumbersOf(rows) \cup NumbersOf(new)
  BY DEF NumbersOf
<1>5. (1 .. n) \cup ((n + 1) .. m) = 1 .. m
  OBVIOUS
<1>. QED BY <1>3, <1>4, <1>5 DEF CountsTo


-----------------------------------------------------------------------------
(* Steps *)

Phases == {"idle", "draw", "store", "edit", "written", "ended"}

\* The empty work is a work, and is that of a request without phase.
LEMMA NoWorkFits ==
  ASSUME NEW r, NEW phase \in {"idle", "ended"}
  PROVE  NoWork \in Work /\ NoWork.op = "none" /\ RequestInv(r, phase, NoWork)
BY DEF NoWork, Work, RequestInv, Fits, StoresOwn, EditsOne, Drawn, Draws

\* The key of a request is one of the two, and is that of its work.
LEMMA KeyOfWork ==
  ASSUME NEW r \in Requests
  PROVE  KeyOf(r) = Key(tx[r]) /\ Key(tx[r]) \in Keys
BY DEF KeyOf, Key, Keys

\* A request that goes on by itself, publishing and locking nothing.
LEMMA PrivateStep ==
  ASSUME IInv, PersonnelAssumption, NEW r \in Requests, NEW phase \in Phases, NEW w \in Work,
         Goes(r, phase, w), UNCHANGED <<records, holder>>,
         pc[r] # "ended", RequestInv(r, phase, w),
         \A k \in Keys : holder[k] = r =>
           w.op \in Draws /\ Key(w) = k /\ phase \in {"draw", "store", "written"}
  PROVE  IInv'
<1>. USE DEF IInv, Goes, records
<1>1. TypeOK'
  BY DEF TypeOK, Phases
<1>2. Counted'
  BY DEF Counted
<1>3. EventsOfRuns'
  <2>. SUFFICES ASSUME NEW v \in events
                PROVE  pc'[v.by] = "ended"
    BY DEF EventsOfRuns
  <2>. QED BY DEF EventsOfRuns, TypeOK
<1>4. HoldersDraw'
  <2>. SUFFICES ASSUME NEW k \in Keys, holder[k] # Nobody, NEW q, q = holder[k]
                PROVE  /\ tx'[q].op \in Draws /\ Key(tx'[q]) = k
                       /\ pc'[q] \in {"draw", "store", "written"}
    BY DEF HoldersDraw, Key
  <2>1. q \in Requests
    BY DEF TypeOK
  <2>2. CASE q = r
    <3>1. pc'[q] = phase /\ tx'[q] = w
      BY <2>2 DEF TypeOK
    <3>. QED BY <2>2, <3>1
  <2>3. CASE q # r
    BY <2>1, <2>3 DEF HoldersDraw, TypeOK
  <2>. QED BY <2>2, <2>3
<1>5. ASSUME NEW q \in Requests
      PROVE  RequestInv(q, pc[q], tx[q])'
  <2>1. CASE q = r
    <3>1. pc'[q] = phase /\ tx'[q] = w
      BY <2>1 DEF TypeOK
    <3>. QED
      BY <2>1, <3>1 DEF RequestInv, Fits, StoresOwn, EditsOne, Drawn, Key
  <2>2. CASE q # r
    <3>1. pc'[q] = pc[q] /\ tx'[q] = tx[q]
      BY <2>2 DEF TypeOK
    <3>2. RequestInv(q, pc[q], tx[q])
      OBVIOUS
    <3>. QED
      BY <3>1, <3>2 DEF RequestInv, Fits, StoresOwn, EditsOne, Drawn, Key
  <2>. QED BY <2>1, <2>2
<1>. QED BY <1>1, <1>2, <1>3, <1>4, <1>5


\* A request that ends without a trace: what it held is free again.
LEMMA RollbackStep ==
  ASSUME IInv, PersonnelAssumption, NEW r \in Requests, Rollback(r)
  PROVE  IInv'
<1>. USE DEF IInv, Rollback, Goes, records
<1>0. /\ pc'[r] = "ended" /\ tx'[r] = NoWork
      /\ \A q \in Requests \ {r} : pc'[q] = pc[q] /\ tx'[q] = tx[q]
      /\ \A k \in Keys : holder'[k] = IF holder[k] = r THEN Nobody ELSE holder[k]
  BY DEF TypeOK, Released
<1>1. TypeOK'
  BY NoWorkFits DEF TypeOK, Released
<1>2. Counted'
  BY DEF Counted
<1>3. EventsOfRuns'
  BY <1>0 DEF EventsOfRuns, TypeOK, Event
<1>4. HoldersDraw'
  <2>. SUFFICES ASSUME NEW k \in Keys, holder'[k] # Nobody, NEW q, q = holder'[k]
                PROVE  /\ tx'[q].op \in Draws /\ Key(tx'[q]) = k
                       /\ pc'[q] \in {"draw", "store", "written"}
    BY DEF HoldersDraw, Key
  <2>1. q \in Requests \ {r} /\ holder[k] = q
    BY <1>0 DEF TypeOK
  <2>. QED BY <1>0, <2>1 DEF HoldersDraw, TypeOK
<1>5. ASSUME NEW q \in Requests
      PROVE  RequestInv(q, pc[q], tx[q])'
  <2>1. CASE q = r
    BY <1>0, <2>1, NoWorkFits DEF RequestInv, Fits, StoresOwn, EditsOne, Drawn, NoWork, Draws
  <2>2. CASE q # r
    <3>1. pc'[q] = pc[q] /\ tx'[q] = tx[q]
      BY <1>0, <2>2
    <3>2. RequestInv(q, pc[q], tx[q])
      OBVIOUS
    <3>3. Key(tx[q]) \in Keys
      BY DEF Key, Keys
    <3>4. holder'[Key(tx[q])] = q <=> holder[Key(tx[q])] = q
      BY <1>0, <2>2, <3>3 DEF PersonnelAssumption
    <3>. QED
      BY <3>1, <3>2, <3>4 DEF RequestInv, Fits, StoresOwn, EditsOne, Drawn, Key
  <2>. QED BY <2>1, <2>2
<1>. QED BY <1>1, <1>2, <1>3, <1>4, <1>5

\* A number is drawn: the counter is held from here on.
LEMMA TakeNumberStep ==
  ASSUME IInv, PersonnelAssumption, NEW r \in Requests, TakeNumber(r)
  PROVE  IInv'
<1>. DEFINE k == Key(tx[r])
            value == IF holder[k] = r THEN tx[r].value + 1 ELSE counter[k] + 1
            w == [tx[r] EXCEPT !.value = value]
<1>. USE DEF IInv
<1>0. /\ k \in Keys /\ pc[r] = "draw" /\ holder[k] \in {Nobody, r}
      /\ holder' = [holder EXCEPT ![k] = r]
      /\ pc' = [pc EXCEPT ![r] = "store"] /\ tx' = [tx EXCEPT ![r] = w]
      /\ UNCHANGED records
  BY KeyOfWork DEF TakeNumber, Goes
<1>a. /\ tx[r] \in Work /\ counter[k] \in Nat /\ tx[r].value \in Nat
      /\ tx[r].op \in Draws
      /\ RequestInv(r, "draw", tx[r])
  <2>1. RequestInv(r, pc[r], tx[r])
    OBVIOUS
  <2>. QED BY <1>0, <2>1 DEF TypeOK, Work, RequestInv, Fits
<1>b. /\ w \in Work /\ w.op = tx[r].op /\ w.targets = tx[r].targets /\ w.new = tx[r].new
      /\ w.value = value /\ value \in Nat /\ Key(w) = k
  BY <1>a DEF Work, Key
<1>. HIDE DEF w
<1>c. /\ pc'[r] = "store" /\ tx'[r] = w /\ holder'[k] = r
      /\ \A q \in Requests \ {r} : pc'[q] = pc[q] /\ tx'[q] = tx[q]
      /\ \A l \in Keys \ {k} : holder'[l] = holder[l]
  BY <1>0 DEF TypeOK
<1>1. TypeOK'
  BY <1>0, <1>b DEF TypeOK, records
<1>2. Counted'
  BY <1>0 DEF Counted, records
<1>3. EventsOfRuns'
  BY <1>0, <1>c DEF EventsOfRuns, TypeOK, Event, records
<1>4. HoldersDraw'
  <2>. SUFFICES ASSUME NEW l \in Keys, holder'[l] # Nobody, NEW q, q = holder'[l]
                PROVE  /\ tx'[q].op \in Draws /\ Key(tx'[q]) = l
                       /\ pc'[q] \in {"draw", "store", "written"}
    BY DEF HoldersDraw, Key
  <2>1. CASE q = r
    <3>1. l = k
      BY <1>c, <2>1 DEF HoldersDraw, PersonnelAssumption
    <3>. QED BY <1>a, <1>b, <1>c, <2>1, <3>1
  <2>2. CASE q # r
    <3>1. l # k /\ holder[l] = q /\ q \in Requests
      BY <1>c, <2>2 DEF TypeOK
    <3>. QED BY <1>c, <2>2, <3>1 DEF HoldersDraw
  <2>. QED BY <2>1, <2>2
<1>5. ASSUME NEW q \in Requests
      PROVE  RequestInv(q, pc[q], tx[q])'
  <2>1. CASE q = r
    <3>1. Fits("store", w) /\ StoresOwn(r, "store", w) /\ EditsOne(w)
      BY <1>a, <1>b DEF RequestInv, Fits, StoresOwn, EditsOne, Draws
    <3>2. /\ value > counter[k] /\ Apart(w.new)
          /\ NumbersOf(w.new) = (counter[k] + 1) .. (value - 1)
      <4>1. CASE holder[k] = r
        BY <1>a, <1>b, <4>1 DEF RequestInv, Drawn
      <4>2. CASE holder[k] # r
        BY <1>a, <1>b, <4>2 DEF RequestInv, Drawn, NumbersOf, Apart
      <4>. QED BY <4>1, <4>2
    <3>. HIDE DEF value
    <3>. QED
      BY <1>0, <1>a, <1>b, <1>c, <2>1, <3>1, <3>2
      DEF RequestInv, Fits, StoresOwn, EditsOne, Drawn, Key, records
  <2>2. CASE q # r
    <3>1. pc'[q] = pc[q] /\ tx'[q] = tx[q]
      BY <1>c, <2>2
    <3>2. RequestInv(q, pc[q], tx[q])
      OBVIOUS
    <3>3. Key(tx[q]) \in Keys
      BY DEF Key, Keys
    <3>4. holder'[Key(tx[q])] = q <=> holder[Key(tx[q])] = q
      BY <1>0, <1>c, <2>2, <3>3 DEF PersonnelAssumption
    <3>. QED
      BY <1>0, <3>1, <3>2, <3>4 DEF RequestInv, Fits, StoresOwn, EditsOne, Drawn, Key, records
  <2>. QED BY <2>1, <2>2
<1>. QED BY <1>1, <1>2, <1>3, <1>4, <1>5


\* A request that has not begun holds nothing.
LEMMA IdleHoldsNothing ==
  ASSUME IInv, PersonnelAssumption, NEW r \in Requests, pc[r] \in {"idle", "edit", "ended"}
  PROVE  \A k \in Keys : holder[k] # r
BY DEF IInv, HoldersDraw, TypeOK, PersonnelAssumption

\* Beginnings: a creation, an update, a generator, or the refusal of one.
LEMMA BeginStep ==
  ASSUME IInv, PersonnelAssumption, NEW r \in Requests,
         BeginCreate(r) \/ BeginUpdate(r) \/ BeginGenerate(r)
  PROVE  IInv'
<1>. USE DEF IInv
<1>0. pc[r] = "idle" /\ UNCHANGED <<records, holder>>
  BY DEF BeginCreate, BeginUpdate, BeginGenerate
<1>1. \A k \in Keys : holder[k] # r
  BY <1>0, IdleHoldsNothing
<1>2. ASSUME Goes(r, "ended", NoWork)
      PROVE  IInv'
  BY <1>0, <1>1, <1>2, NoWorkFits, PrivateStep DEF Phases
<1>3. CASE BeginCreate(r)
  <2>1. PICK cpf \in Taxpayers, fields \in Fillings :
          Goes(r, "draw", [NoWork EXCEPT !.op = "create", !.targets = {cpf}, !.fields = fields])
    BY <1>3 DEF BeginCreate
  <2>. DEFINE w == [NoWork EXCEPT !.op = "create", !.targets = {cpf}, !.fields = fields]
  <2>2. w \in Work /\ w.op = "create" /\ w.targets = {cpf} /\ w.new = {}
    BY DEF NoWork, Work, Fillings, Fields
  <2>. HIDE DEF w
  <2>3. RequestInv(r, "draw", w)
    BY <1>1, <2>2 DEF RequestInv, Fits, StoresOwn, EditsOne, Drawn, Draws, Key, Keys
  <2>. QED BY <1>0, <1>1, <2>1, <2>2, <2>3, PrivateStep DEF Phases, w
<1>4. CASE BeginUpdate(r)
  <2>1. PICK n \in NumbersOf(employees), fields \in Fillings :
          GoesIf(n \notin terminated, r, "edit",
                 [NoWork EXCEPT !.op = "update", !.targets = {n}, !.fields = fields])
    BY <1>4 DEF BeginUpdate
  <2>. DEFINE w == [NoWork EXCEPT !.op = "update", !.targets = {n}, !.fields = fields]
  <2>2. n \in Nat
    BY DEF TypeOK, NumbersOf, Employee
  <2>3. w \in Work /\ w.op = "update" /\ w.targets = {n} /\ w.new = {}
    BY <2>2 DEF NoWork, Work, Fillings, Fields
  <2>. HIDE DEF w
  <2>4. CASE n \notin terminated
    <3>1. RequestInv(r, "edit", w)
      BY <2>3, <2>4 DEF RequestInv, Fits, StoresOwn, EditsOne, Drawn, Draws
    <3>2. Goes(r, "edit", w)
      BY <2>1, <2>4 DEF GoesIf, w
    <3>. QED BY <1>0, <1>1, <2>3, <3>1, <3>2, PrivateStep DEF Phases
  <2>5. CASE n \in terminated
    BY <1>2, <2>1, <2>5 DEF GoesIf
  <2>. QED BY <2>4, <2>5
<1>5. CASE BeginGenerate(r)
  <2>1. PICK kind \in Kinds : \E targets \in Targets(kind) : \E accepted \in BOOLEAN :
          GoesIf(accepted, r, "draw",
                 [NoWork EXCEPT !.op = "generate", !.targets = targets])
    BY <1>5 DEF BeginGenerate
  <2>2. PICK targets \in Targets(kind) : \E accepted \in BOOLEAN :
          GoesIf(accepted, r, "draw",
                 [NoWork EXCEPT !.op = "generate", !.targets = targets])
    BY <2>1
  <2>. DEFINE w == [NoWork EXCEPT !.op = "generate", !.targets = targets]
  <2>3. targets \subseteq Nat \cup {Nobody}
    BY DEF Targets, TypeOK, NumbersOf, Employee
  <2>4. w \in Work /\ w.op = "generate" /\ w.targets = targets /\ w.new = {}
    BY <2>3 DEF NoWork, Work
  <2>. HIDE DEF w
  <2>5. RequestInv(r, "draw", w)
    BY <1>1, <2>3, <2>4 DEF RequestInv, Fits, StoresOwn, EditsOne, Drawn, Draws, Key, Keys
  <2>6. CASE Goes(r, "draw", w)
    BY <1>0, <1>1, <2>4, <2>5, <2>6, PrivateStep DEF Phases
  <2>7. CASE Goes(r, "ended", NoWork)
    BY <1>2, <2>7
  <2>. QED BY <2>2, <2>6, <2>7 DEF GoesIf, w
<1>. QED BY <1>3, <1>4, <1>5

\* Who holds a counter holds that of its own work.
LEMMA HoldsOwnKey ==
  ASSUME IInv, PersonnelAssumption, NEW r \in Requests, NEW k \in Keys, holder[k] = r
  PROVE  tx[r].op \in Draws /\ Key(tx[r]) = k
BY DEF IInv, HoldersDraw, PersonnelAssumption

\* The insertion of an employee fills the number drawn, or fails.
LEMMA InsertEmployeeStep ==
  ASSUME IInv, PersonnelAssumption, NEW r \in Requests, InsertEmployee(r)
  PROVE  IInv'
<1>. USE DEF IInv
<1>0. pc[r] = "store" /\ tx[r].op = "create" /\ tx[r] \in Work
      /\ RequestInv(r, "store", tx[r])
  BY DEF InsertEmployee, TypeOK
<1>1. CASE Rollback(r)
  BY <1>1, RollbackStep
<1>2. CASE ~Rollback(r)
  <2>1. UNCHANGED <<records, holder>>
    BY <1>2 DEF InsertEmployee
  <2>2. PICK cpf \in tx[r].targets :
          Goes(r, "written", [tx[r] EXCEPT !.new =
                 {[number |-> tx[r].value, cpf |-> cpf, fields |-> tx[r].fields]}])
    BY <1>2 DEF InsertEmployee
  <2>. DEFINE e == [number |-> tx[r].value, cpf |-> cpf, fields |-> tx[r].fields]
              w == [tx[r] EXCEPT !.new = {e}]
  <2>3. e \in Employee /\ e.number = tx[r].value
    BY <1>0 DEF RequestInv, StoresOwn, Employee, Work
  <2>4. /\ w \in Work /\ w.new = {e} /\ w.op = "create" /\ w.targets = tx[r].targets
        /\ w.value = tx[r].value /\ Key(w) = Key(tx[r])
    BY <1>0, <2>3 DEF Work, Key
  <2>. HIDE DEF e, w
  <2>5. /\ tx[r].new = {} /\ holder[Key(w)] = r
        /\ NumbersOf({}) = (counter[Key(w)] + 1) .. (tx[r].value - 1)
        /\ tx[r].value > counter[Key(w)]
    BY <1>0, <2>4 DEF RequestInv, StoresOwn, Drawn, Draws
  <2>6. NumbersOf(w.new) = (counter[Key(w)] + 1) .. w.value /\ Apart(w.new)
    <3>1. counter[Key(w)] \in Nat /\ tx[r].value \in Nat
      BY <1>0 DEF TypeOK, Key, Keys, Work
    <3>2. (counter[Key(w)] + 1) .. (tx[r].value - 1) = {}
      BY <2>5 DEF NumbersOf
    <3>3. tx[r].value = counter[Key(w)] + 1
      BY <2>5, <3>1, <3>2
    <3>4. NumbersOf(w.new) = {tx[r].value}
      BY <2>3, <2>4 DEF NumbersOf
    <3>5. \A m \in Nat : m .. m = {m}
      OBVIOUS
    <3>6. Apart(w.new)
      BY <2>4 DEF Apart
    <3>. QED BY <2>4, <3>1, <3>3, <3>4, <3>5, <3>6
  <2>7. RequestInv(r, "written", w)
    <3>1. StoresOwn(r, "written", w)
      BY <1>0, <2>3, <2>4 DEF RequestInv, StoresOwn
    <3>2. Drawn(r, "written", w)
      BY <2>4, <2>5, <2>6 DEF Drawn, Draws
    <3>. QED BY <2>4, <3>1, <3>2 DEF RequestInv, Fits, EditsOne
  <2>8. \A k \in Keys : holder[k] = r => Key(w) = k
    BY <2>4, HoldsOwnKey
  <2>9. Goes(r, "written", w) /\ "written" \in Phases /\ w.op \in Draws /\ pc[r] # "ended"
    BY <1>0, <2>2, <2>4 DEF e, w, Phases, Draws
  <2>. QED BY <2>1, <2>4, <2>7, <2>8, <2>9, PrivateStep
<1>. QED BY <1>1, <1>2

\* An update writes its row under the lock.
LEMMA WriteUpdateStep ==
  ASSUME IInv, PersonnelAssumption, NEW r \in Requests, WriteUpdate(r)
  PROVE  IInv'
<1>. USE DEF IInv
<1>0. /\ pc[r] = "edit" /\ Goes(r, "written", tx[r]) /\ UNCHANGED <<records, holder>>
      /\ tx[r] \in Work /\ RequestInv(r, "edit", tx[r])
  BY DEF WriteUpdate, TypeOK
<1>1. \A k \in Keys : holder[k] # r
  BY <1>0, IdleHoldsNothing
<1>2. tx[r].op = "update"
  BY <1>0 DEF RequestInv, Fits
<1>3. RequestInv(r, "written", tx[r])
  BY <1>0, <1>2 DEF RequestInv, Fits, StoresOwn, EditsOne, Drawn, Draws
<1>. QED BY <1>0, <1>1, <1>3, PrivateStep DEF Phases

\* An event takes the number drawn and one of the targets.
LEMMA StoreEventStep ==
  ASSUME IInv, PersonnelAssumption, NEW r \in Requests, StoreEvent(r)
  PROVE  IInv'
<1>. USE DEF IInv
<1>0. /\ pc[r] = "store" /\ tx[r].op = "generate" /\ tx[r] \in Work
      /\ RequestInv(r, "store", tx[r]) /\ UNCHANGED <<records, holder>>
  BY DEF StoreEvent, TypeOK
<1>1. PICK n \in tx[r].targets :
        Goes(r, IF tx[r].targets = {n} THEN "written" ELSE "draw",
             [tx[r] EXCEPT !.targets = @ \ {n},
                           !.new = @ \cup {[number |-> tx[r].value, of |-> n, by |-> r]}])
  BY DEF StoreEvent
<1>. DEFINE v == [number |-> tx[r].value, of |-> n, by |-> r]
            w == [tx[r] EXCEPT !.targets = @ \ {n}, !.new = @ \cup {v}]
            phase == IF tx[r].targets = {n} THEN "written" ELSE "draw"
<1>2. /\ v \in Event /\ v.number = tx[r].value /\ v.of = n /\ v.by = r
  BY <1>0 DEF RequestInv, StoresOwn, Event, Work
<1>3. /\ w \in Work /\ w.new = tx[r].new \cup {v} /\ w.op = "generate"
      /\ w.targets = tx[r].targets \ {n} /\ w.value = tx[r].value /\ Key(w) = Key(tx[r])
  BY <1>0, <1>2 DEF Work, Key
<1>. HIDE DEF v, w
<1>4. /\ holder[Key(w)] = r /\ tx[r].value > counter[Key(w)]
      /\ NumbersOf(tx[r].new) = (counter[Key(w)] + 1) .. (tx[r].value - 1)
      /\ Apart(tx[r].new)
  BY <1>0, <1>3 DEF RequestInv, Drawn, Draws
<1>5. counter[Key(w)] \in Nat /\ tx[r].value \in Nat
  BY <1>0 DEF TypeOK, Key, Keys, Work
<1>6. NumbersOf(w.new) = (counter[Key(w)] + 1) .. w.value
  <2>1. NumbersOf(w.new) = NumbersOf(tx[r].new) \cup {tx[r].value}
    BY <1>2, <1>3 DEF NumbersOf
  <2>2. \A c, m \in Nat : m > c => ((c + 1) .. (m - 1)) \cup {m} = (c + 1) .. m
    OBVIOUS
  <2>3. ((counter[Key(w)] + 1) .. (tx[r].value - 1)) \cup {tx[r].value}
          = (counter[Key(w)] + 1) .. tx[r].value
    BY <1>4, <1>5, <2>2
  <2>. QED BY <1>3, <1>4, <2>1, <2>3
<1>7. Apart(w.new)
  <2>1. \A x \in tx[r].new : x.number \in (counter[Key(w)] + 1) .. (tx[r].value - 1)
    BY <1>4 DEF NumbersOf
  <2>2. \A x \in tx[r].new : x.number # tx[r].value
    BY <1>5, <2>1
  <2>. QED BY <1>2, <1>3, <1>4, <2>2 DEF Apart
<1>8. RequestInv(r, phase, w)
  <2>1. StoresOwn(r, phase, w)
    BY <1>0, <1>2, <1>3 DEF RequestInv, StoresOwn
  <2>2. Drawn(r, phase, w)
    BY <1>3, <1>4, <1>6, <1>7 DEF Drawn, Draws
  <2>. QED BY <1>3, <2>1, <2>2 DEF RequestInv, Fits, EditsOne, Draws
<1>9. \A k \in Keys : holder[k] = r => Key(w) = k
  BY <1>3, HoldsOwnKey
<1>10. Goes(r, phase, w) /\ phase \in Phases /\ w.op \in Draws /\ pc[r] # "ended"
  BY <1>0, <1>1, <1>3 DEF v, w, Phases, Draws
<1>11. phase \in {"draw", "store", "written"}
  OBVIOUS
<1>. HIDE DEF phase
<1>. QED BY <1>0, <1>3, <1>8, <1>9, <1>10, <1>11, PrivateStep


\* A commit publishes the rows and the counter together.
LEMMA CommitStep ==
  ASSUME IInv, PersonnelAssumption, NEW r \in Requests, Commit(r)
  PROVE  IInv'
<1>. DEFINE k == Key(tx[r])
            rows == IF tx[r].op = "create" THEN tx[r].new ELSE {}
            runs == IF tx[r].op = "generate" THEN tx[r].new ELSE {}
<1>. USE DEF IInv
<1>0. /\ pc[r] = "written" /\ tx[r] \in Work /\ RequestInv(r, "written", tx[r])
      /\ k \in Keys
      /\ UNCHANGED <<terminated, company, runLines, sent, crossed>>
  BY KeyOfWork DEF Commit, TypeOK
<1>1. /\ pc'[r] = "ended" /\ tx'[r] = NoWork
      /\ \A q \in Requests \ {r} : pc'[q] = pc[q] /\ tx'[q] = tx[q]
      /\ \A l \in Keys : holder'[l] = IF holder[l] = r THEN Nobody ELSE holder[l]
      /\ \A l \in Keys : counter'[l] = IF holder[l] = r THEN tx[r].value ELSE counter[l]
  BY DEF Commit, Goes, Released, TypeOK
<1>2. \A l \in Keys : holder[l] = r => l = k /\ tx[r].op \in Draws
  BY HoldsOwnKey
<1>3. /\ tx[r].op \in {"create", "update", "generate"}
      /\ tx[r].op \in Draws => holder[k] = r /\ tx[r].value > counter[k]
      /\ tx[r].op \in Draws => NumbersOf(tx[r].new) = (counter[k] + 1) .. tx[r].value
      /\ tx[r].op \in Draws => Apart(tx[r].new)
      /\ tx[r].op = "update" => \A l \in Keys : counter'[l] = counter[l]
  BY <1>0, <1>1, <1>2 DEF RequestInv, Fits, Drawn, Draws, Work
<1>4. /\ tx[r].value \in Nat /\ \A l \in Keys : counter[l] \in Nat
      /\ rows \subseteq Employee /\ runs \subseteq Event
      /\ \A v \in runs : v.by = r
      /\ \A v, w \in runs : v.of = w.of => v = w
  BY <1>0 DEF RequestInv, StoresOwn, TypeOK, Work
<1>5. \/ tx[r].op # "update" /\ employees' = employees \cup rows
      \/ /\ tx[r].op = "update" /\ rows = {}
         /\ employees' = {IF e.number \in tx[r].targets THEN [e EXCEPT !.fields = tx[r].fields]
                          ELSE e : e \in employees}
  BY <1>3 DEF Commit
<1>6. events' = events \cup runs
  BY DEF Commit
<1>. HIDE DEF rows, runs
<1>7. employees' \subseteq Employee /\ NumbersOf(employees) \subseteq NumbersOf(employees')
  <2>1. tx[r].fields \in SUBSET Fields /\ employees \subseteq Employee
    BY <1>0 DEF TypeOK, Work
  <2>2. \A e \in Employee : [e EXCEPT !.fields = tx[r].fields] \in Employee
                              /\ [e EXCEPT !.fields = tx[r].fields].number = e.number
    BY <2>1 DEF Employee
  <2>. QED BY <1>4, <1>5, <2>1, <2>2 DEF NumbersOf
<1>8. TypeOK'
  <2>1. counter' \in [Keys -> Nat] /\ holder' \in [Keys -> Requests \cup {Nobody}]
    BY <1>4 DEF Commit, Released, TypeOK
  <2>2. pc' \in [Requests -> Phases] /\ tx' \in [Requests -> Work]
    BY NoWorkFits DEF Commit, Goes, TypeOK, Phases
  <2>3. NumbersOf(events) \subseteq NumbersOf(events') /\ events' \subseteq Event
    BY <1>4, <1>6 DEF NumbersOf, TypeOK
  <2>. QED BY <1>0, <1>7, <2>1, <2>2, <2>3 DEF TypeOK, Phases
<1>9. Counted'
  <2>1. CountsTo(employees, counter["employee"])'
    <3>1. CASE tx[r].op = "create"
      <4>1. k = "employee" /\ counter'[k] = tx[r].value /\ rows = tx[r].new
        BY <1>0, <1>1, <1>3, <3>1 DEF Key, Draws, rows
      <4>2. CountsTo(employees, counter[k]) /\ counter[k] <= tx[r].value
        BY <1>0, <1>3, <1>4, <3>1, <4>1 DEF Counted, Draws
      <4>3. CountsTo(employees \cup rows, tx[r].value)
        BY <1>0, <1>3, <1>4, <3>1, <4>1, <4>2, ExtendedCount DEF Draws
      <4>. QED BY <1>5, <3>1, <4>1, <4>3
    <3>2. CASE tx[r].op = "generate"
      <4>1. k # "employee" /\ "employee" \in Keys /\ rows = {}
        BY <3>2 DEF Key, Keys, rows
      <4>. QED BY <1>1, <1>2, <1>5, <3>2, <4>1 DEF Counted
    <3>3. CASE tx[r].op = "update"
      <4>1. counter'["employee"] = counter["employee"]
        BY <1>3, <3>3 DEF Keys
      <4>. DEFINE edited(e) == IF e.number \in tx[r].targets
                               THEN [e EXCEPT !.fields = tx[r].fields] ELSE e
      <4>2. \A e \in employees : edited(e).number = e.number
        BY DEF TypeOK, Employee
      <4>3. employees' = {edited(e) : e \in employees}
        BY <1>5, <3>3
      <4>. HIDE DEF edited
      <4>4. NumbersOf(employees') = NumbersOf(employees)
        BY <4>2, <4>3 DEF NumbersOf
      <4>5. Apart(employees')
        BY <4>2, <4>3 DEF Apart, Counted, CountsTo
      <4>. QED BY <4>1, <4>4, <4>5 DEF Counted, CountsTo
    <3>. QED BY <1>3, <3>1, <3>2, <3>3
  <2>2. CountsTo(events, counter["esocial_evento"])'
    <3>1. CASE tx[r].op = "generate"
      <4>1. k = "esocial_evento" /\ counter'[k] = tx[r].value /\ runs = tx[r].new
        BY <1>0, <1>1, <1>3, <3>1 DEF Key, Draws, runs
      <4>. QED BY <1>0, <1>3, <1>4, <1>6, <3>1, <4>1, ExtendedCount DEF Counted, Draws
    <3>2. CASE tx[r].op # "generate"
      <4>1. runs = {} /\ "esocial_evento" \in Keys
        BY <3>2 DEF runs, Keys
      <4>2. counter'["esocial_evento"] = counter["esocial_evento"]
        BY <1>1, <1>2, <1>3, <3>2, <4>1 DEF Key, Draws
      <4>. QED BY <1>6, <4>1, <4>2 DEF Counted
    <3>. QED BY <3>1, <3>2
  <2>. QED BY <2>1, <2>2 DEF Counted
<1>10. EventsOfRuns'
  <2>1. \A v \in events : v.by # r /\ v.by \in Requests /\ pc[v.by] = "ended"
    BY <1>0 DEF EventsOfRuns, TypeOK, Event
  <2>2. \A v \in events' : pc'[v.by] = "ended"
    BY <1>1, <1>4, <1>6, <2>1
  <2>3. \A v, w \in events' : v.by = w.by /\ v.of = w.of => v = w
    BY <1>4, <1>6, <2>1 DEF EventsOfRuns
  <2>4. ASSUME NEW v \in events', NEW w \in events', NEW x \in events',
               v.by = w.by, x.number \in v.number .. w.number
        PROVE  x.by = v.by
    <3>. DEFINE n == counter["esocial_evento"]
    <3>1. \A y \in events : y.number \in 1 .. n
      BY DEF Counted, CountsTo, NumbersOf
    <3>2. \A y \in runs : y.number > n /\ y.number \in Nat
      <4>1. CASE tx[r].op = "generate"
        BY <1>3, <1>4, <4>1 DEF runs, Key, Keys, Draws, NumbersOf
      <4>. QED BY <4>1 DEF runs
    <3>3. n \in Nat
      BY <1>4 DEF Keys
    <3>. HIDE DEF n
    <3>4. CASE v \in runs
      BY <1>4, <1>6, <2>1, <2>4, <3>1, <3>2, <3>3, <3>4
    <3>5. CASE v \in events
      <4>1. w \in events
        BY <1>4, <1>6, <2>1, <2>4, <3>5
      <4>2. x \in events
        BY <1>6, <2>4, <3>1, <3>2, <3>3, <4>1, <3>5
      <4>. QED BY <2>4, <3>5, <4>1, <4>2 DEF EventsOfRuns
    <3>. QED BY <1>6, <3>4, <3>5
  <2>. QED BY <2>2, <2>3, <2>4 DEF EventsOfRuns
<1>11. HoldersDraw'
  <2>. SUFFICES ASSUME NEW l \in Keys, holder'[l] # Nobody, NEW q, q = holder'[l]
                PROVE  /\ tx'[q].op \in Draws /\ Key(tx'[q]) = l
                       /\ pc'[q] \in {"draw", "store", "written"}
    BY DEF HoldersDraw, Key
  <2>1. q \in Requests \ {r} /\ holder[l] = q
    BY <1>1 DEF TypeOK
  <2>. QED BY <1>1, <2>1 DEF HoldersDraw, TypeOK
<1>12. ASSUME NEW q \in Requests
       PROVE  RequestInv(q, pc[q], tx[q])'
  <2>1. CASE q = r
    BY <1>1, <2>1, NoWorkFits DEF RequestInv, Fits, StoresOwn, EditsOne, Drawn, NoWork, Draws
  <2>2. CASE q # r
    <3>1. pc'[q] = pc[q] /\ tx'[q] = tx[q]
      BY <1>1, <2>2
    <3>2. RequestInv(q, pc[q], tx[q])
      OBVIOUS
    <3>3. Key(tx[q]) \in Keys
      BY DEF Key, Keys
    <3>4. /\ holder'[Key(tx[q])] = q <=> holder[Key(tx[q])] = q
          /\ holder[Key(tx[q])] = q => counter'[Key(tx[q])] = counter[Key(tx[q])]
      BY <1>1, <2>2, <3>3 DEF PersonnelAssumption
    <3>5. Fits(pc[q], tx[q])' /\ StoresOwn(q, pc[q], tx[q])'
      BY <3>1, <3>2 DEF RequestInv, Fits, StoresOwn
    <3>6. EditsOne(tx[q])'
      BY <1>0, <1>7, <3>1, <3>2 DEF RequestInv, EditsOne
    <3>7. Drawn(q, pc[q], tx[q])'
      BY <3>1, <3>2, <3>4 DEF RequestInv, Drawn, Key
    <3>. QED BY <3>5, <3>6, <3>7 DEF RequestInv
  <2>. QED BY <2>1, <2>2
<1>. QED BY <1>8, <1>9, <1>10, <1>11, <1>12

\* What other modules do leaves the requests and the numbers alone, and a
\* termination that finds an update on its way is known to have crossed it.
LEMMA ForeignStep ==
  ASSUME IInv, PersonnelAssumption,
         \/ \E n \in NumbersOf(employees) : Terminate(n)
         \/ \E n \in NumbersOf(events) : SetSubmissionProtocol(n)
         \/ CalculateRun \/ RegisterCompany
  PROVE  IInv'
<1>. USE DEF IInv
<1>1. UNCHANGED <<employees, events, counter, holder, pc, tx>>
  BY DEF Terminate, SetSubmissionProtocol, CalculateRun, RegisterCompany
<1>2. TypeOK'
  <2>1. CASE \E n \in NumbersOf(employees) : Terminate(n)
    BY <2>1 DEF Terminate, TypeOK
  <2>2. CASE \E n \in NumbersOf(events) : SetSubmissionProtocol(n)
    BY <2>2 DEF SetSubmissionProtocol, TypeOK
  <2>3. CASE CalculateRun
    BY <2>3 DEF CalculateRun, TypeOK
  <2>4. CASE RegisterCompany
    BY <2>4 DEF RegisterCompany, TypeOK
  <2>. QED BY <2>1, <2>2, <2>3, <2>4
<1>3. Counted' /\ EventsOfRuns' /\ HoldersDraw'
  BY <1>1 DEF Counted, EventsOfRuns, HoldersDraw, Key
<1>4. ASSUME NEW q \in Requests
      PROVE  RequestInv(q, pc[q], tx[q])'
  <2>1. RequestInv(q, pc[q], tx[q]) /\ pc'[q] = pc[q] /\ tx'[q] = tx[q]
    BY <1>1
  <2>2. EditsOne(tx[q])'
    <3>1. CASE UNCHANGED <<terminated, crossed>>
      BY <1>1, <2>1, <3>1 DEF RequestInv, EditsOne
    <3>2. ASSUME NEW n \in NumbersOf(employees), Terminate(n)
          PROVE  EditsOne(tx[q])'
      <4>. SUFFICES ASSUME tx[q].op = "update"
                    PROVE  \E m \in NumbersOf(employees) :
                             tx[q].targets = {m} /\ (m \in terminated' => m \in crossed')
        BY <1>1 DEF EditsOne
      <4>1. PICK m \in NumbersOf(employees) :
              tx[q].targets = {m} /\ (m \in terminated => m \in crossed)
        BY <2>1 DEF RequestInv, EditsOne
      <4>2. CASE m = n
        <5>1. Running(q)
          BY <2>1 DEF RequestInv, Fits, Running
        <5>2. q \in Editors(n)
          BY <4>1, <4>2 DEF Editors
        <5>. QED BY <3>2, <4>1, <4>2, <5>1, <5>2 DEF Terminate
      <4>3. CASE m # n
        BY <3>2, <4>1, <4>3 DEF Terminate
      <4>. QED BY <4>2, <4>3
    <3>. QED BY <3>1, <3>2 DEF SetSubmissionProtocol, CalculateRun, RegisterCompany
  <2>. QED BY <1>1, <2>1, <2>2 DEF RequestInv, Fits, StoresOwn, Drawn, Key
<1>. QED BY <1>2, <1>3, <1>4


\* The strengthening holds at first ...
LEMMA InitStrong ==
  ASSUME PersonnelAssumption, PersonnelInit
  PROVE  IInv
<1>1. PICK cpf \in Taxpayers :
        employees \in {{}, {[number |-> 1, cpf |-> cpf, fields |-> Fields]}}
  BY DEF PersonnelInit, PersonnelAssumption
<1>2. counter \in [Keys -> Nat] /\ counter["esocial_evento"] = 0 /\ CountsTo(employees, counter["employee"])
  <2>. DEFINE n == Cardinality(employees)
  <2>1. counter = [k \in Keys |-> IF k = "employee" THEN n ELSE 0]
    BY DEF PersonnelInit
  <2>2. ASSUME n \in Nat
        PROVE  /\ counter \in [Keys -> Nat] /\ counter["esocial_evento"] = 0
               /\ counter["employee"] = n
    <3>. HIDE DEF n
    <3>. QED BY <2>1, <2>2 DEF Keys
  <2>3. CASE employees = {}
    <3>1. n = 0
      BY <2>3, FS_EmptySet
    <3>2. CountsTo({}, 0)
      BY DEF CountsTo, NumbersOf, Apart
    <3>. HIDE DEF n
    <3>. QED BY <2>2, <2>3, <3>1, <3>2
  <2>4. CASE employees = {[number |-> 1, cpf |-> cpf, fields |-> Fields]}
    <3>. DEFINE e == [number |-> 1, cpf |-> cpf, fields |-> Fields]
    <3>1. e.number = 1
      OBVIOUS
    <3>. HIDE DEF e
    <3>2. n = 1
      BY <2>4, FS_Singleton DEF e
    <3>3. CountsTo({e}, 1)
      BY <3>1 DEF CountsTo, NumbersOf, Apart
    <3>4. employees = {e}
      BY <2>4 DEF e
    <3>. HIDE DEF n
    <3>. QED BY <2>2, <3>2, <3>3, <3>4
  <2>. QED BY <1>1, <2>3, <2>4
<1>3. employees \subseteq Employee
  BY <1>1 DEF Employee
<1>4. TypeOK
  BY <1>2, <1>3, NoWorkFits DEF PersonnelInit, TypeOK, CompanyFields, NumbersOf
<1>5. Counted
  <2>1. CountsTo({}, 0)
    BY DEF CountsTo, NumbersOf, Apart
  <2>. QED BY <1>2, <2>1 DEF Counted, PersonnelInit
<1>6. EventsOfRuns /\ HoldersDraw
  BY DEF PersonnelInit, EventsOfRuns, HoldersDraw
<1>7. \A r \in Requests : RequestInv(r, pc[r], tx[r])
  BY NoWorkFits DEF PersonnelInit
<1>. QED BY <1>4, <1>5, <1>6, <1>7 DEF IInv

\* ... and every step keeps it.
LEMMA NextStrong ==
  ASSUME PersonnelAssumption, IInv, [PersonnelNext]_personnelVars
  PROVE  IInv'
<1>1. ASSUME NEW r \in Requests, BeginCreate(r) \/ BeginUpdate(r) \/ BeginGenerate(r)
      PROVE  IInv'
  BY <1>1, BeginStep
<1>2. ASSUME NEW r \in Requests,
             TakeNumber(r) \/ InsertEmployee(r) \/ WriteUpdate(r) \/ StoreEvent(r)
      PROVE  IInv'
  BY <1>2, TakeNumberStep, InsertEmployeeStep, WriteUpdateStep, StoreEventStep
<1>3. ASSUME NEW r \in Requests, Commit(r) \/ Abort(r)
      PROVE  IInv'
  BY <1>3, CommitStep, RollbackStep DEF Abort
<1>4. CASE UNCHANGED personnelVars
  BY <1>4 DEF personnelVars, records, IInv, TypeOK, Counted, EventsOfRuns, HoldersDraw, Key,
              RequestInv, Fits, StoresOwn, EditsOne, Drawn
<1>. QED BY <1>1, <1>2, <1>3, <1>4, ForeignStep DEF PersonnelNext

-----------------------------------------------------------------------------
(* Theorems *)

\* The strengthening holds in every behaviour: each request is where its work
\* says, what it has drawn follows what is committed, and who holds a counter
\* draws from it.
THEOREM Strong ==
  ASSUME PersonnelAssumption
  PROVE  PersonnelSpec => []IInv
<1>1. PersonnelInit => IInv
  BY InitStrong
<1>2. IInv /\ [PersonnelNext]_personnelVars => IInv'
  BY NextStrong
<1>. QED BY <1>1, <1>2, PTL DEF PersonnelSpec

\* Every variable keeps its type, in every behaviour.
THEOREM TypeCorrect ==
  ASSUME PersonnelAssumption
  PROVE  PersonnelSpec => []TypeOK
<1>1. IInv => TypeOK
  BY DEF IInv
<1>. QED BY <1>1, Strong, PTL

\* Employees and events are numbered without gap or repeat, and the events of a
\* payroll run one after the other (the counters of NumberingService, which
\* employees.service.ts and esocial-eventos.service.ts draw from).
THEOREM GapFree ==
  ASSUME PersonnelAssumption
  PROVE  PersonnelSpec => []NumbersWithoutGap
<1>1. IInv => NumbersWithoutGap
  <2>. SUFFICES ASSUME IInv PROVE NumbersWithoutGap
    OBVIOUS
  <2>1. counter["employee"] \in Nat /\ counter["esocial_evento"] \in Nat
    BY DEF IInv, TypeOK, Keys
  <2>2. Numbered(employees, counter["employee"]) /\ Numbered(events, counter["esocial_evento"])
    BY <2>1, CountedRows DEF IInv, Counted
  <2>. QED BY <2>2 DEF NumbersWithoutGap, IInv, EventsOfRuns
<1>. QED BY <1>1, Strong, PTL

\* The record of an employee who has left stays as it was, unless the posting of
\* the termination crossed an update (the check of EmployeesService.update).
THEOREM RecordKept ==
  ASSUME PersonnelAssumption
  PROVE  PersonnelSpec => TerminatedKeepsRecord
<1>1. IInv /\ [PersonnelNext]_personnelVars => [KeepsRecord]_personnelVars
  <2>. SUFFICES ASSUME IInv, PersonnelNext, NEW n \in terminated \ crossed
                PROVE  {e \in employees' : e.number = n} = {e \in employees : e.number = n}
    BY DEF KeepsRecord
  <2>1. CASE employees' = employees
    BY <2>1
  <2>2. ASSUME NEW r \in Requests, Commit(r), employees' # employees
        PROVE  {e \in employees' : e.number = n} = {e \in employees : e.number = n}
    <3>1. RequestInv(r, "written", tx[r])
      BY <2>2 DEF IInv, Commit
    <3>2. CASE tx[r].op = "create"
      <4>1. employees' = employees \cup tx[r].new
        BY <2>2, <3>2 DEF Commit
      <4>2. n \in 1 .. counter["employee"]
        BY DEF IInv, TypeOK, Counted, CountsTo
      <4>3. Key(tx[r]) = "employee" /\ tx[r].op \in Draws /\ tx[r].op # "update"
        BY <3>2 DEF Key, Draws
      <4>4. counter["employee"] \in Nat /\ tx[r].value \in Nat
        BY DEF IInv, TypeOK, Keys, Work
      <4>5. NumbersOf(tx[r].new) = (counter["employee"] + 1) .. tx[r].value
        BY <3>1, <4>3 DEF RequestInv, Drawn
      <4>6. \A e \in tx[r].new : e.number \in (counter["employee"] + 1) .. tx[r].value
        BY <4>5 DEF NumbersOf
      <4>. QED BY <4>1, <4>2, <4>4, <4>6
    <3>3. CASE tx[r].op = "update"
      <4>1. n \notin tx[r].targets
        BY <3>1, <3>3 DEF RequestInv, EditsOne
      <4>. DEFINE edited(e) == IF e.number \in tx[r].targets
                               THEN [e EXCEPT !.fields = tx[r].fields] ELSE e
      <4>2. employees' = {edited(e) : e \in employees}
        BY <2>2, <3>3 DEF Commit
      <4>3. \A e \in employees : /\ edited(e).number = e.number
                                 /\ e.number = n => edited(e) = e
        BY <4>1 DEF IInv, TypeOK, Employee
      <4>. HIDE DEF edited
      <4>. QED BY <4>2, <4>3
    <3>. QED BY <2>2, <3>2, <3>3 DEF Commit
  <2>3. CASE \E r \in Requests : Commit(r)
    BY <2>1, <2>2, <2>3
  <2>4. CASE ~ \E r \in Requests : Commit(r)
    <3>1. employees' = employees
      BY <2>4 DEF PersonnelNext, BeginCreate, BeginUpdate, BeginGenerate, TakeNumber,
                  InsertEmployee, WriteUpdate, StoreEvent, Abort, Rollback, Terminate,
                  SetSubmissionProtocol, CalculateRun, RegisterCompany, records
    <3>. QED BY <3>1
  <2>. QED BY <2>3, <2>4
<1>. QED BY <1>1, Strong, PTL DEF PersonnelSpec, TerminatedKeepsRecord

-----------------------------------------------------------------------------
(* Sessions and access control *)

\* The operations on the rows of a user, and on those of a role.
UserOperations == {"set_roles", "create_user", "update_user"}
RoleOperations == {"set_permissions", "create_role", "delete_role"}

Operations == {"none", "login"} \cup TokenOperations \cup AdminOperations
Labels == {"idle", "user", "rotate", "roles", "grants", "issue", "revoke", "see", "drop",
           "add", "users", "bump", "delete", "commit", "ended"}

\* What a request may hold.
AuthWork ==
  [op: Operations, owner: Users \cup Roles \cup {Nothing}, wanted: SUBSET Links,
   seen: SUBSET (Links \cup Tokens), dropped: SUBSET Links, added: SUBSET Links,
   bump: SUBSET Users, bumped: SUBSET Users, active: BOOLEAN,
   token: Tokens \cup {Nothing}, fresh: Tokens \cup {Nothing}, stamp: 0..MaxStamp,
   held: SUBSET Roles, permissions: SUBSET Permissions,
   locks: SUBSET (Users \cup Roles \cup Links \cup Tokens)]

\* Rows, and what requests hold, have their types.
AuthTyped ==
  /\ AuthTypeOK
  /\ authTx \in [AuthRequests -> AuthWork] /\ authPc \in [AuthRequests -> Labels]

\* A request that reads for an access token.
SessionShape(w, label) ==
  /\ w.op = "login" => label \in {"roles", "grants", "issue"} /\ w.fresh = Nothing
  /\ w.op = "refresh" =>
       /\ label \in {"user", "rotate", "roles", "grants", "issue"}
       /\ label \in {"user", "rotate"} <=> w.fresh = Nothing
  /\ w.op = "logout" => label = "revoke"
  /\ w.op \in {"login", "refresh"} => w.owner \in Users
  /\ w.op \in {"refresh", "logout"} => w.token \in Tokens
  /\ w.op # "refresh" => w.fresh = Nothing

\* The links an administrative request has dropped and added are its owner's.
LinksAreItsOwn(w) ==
  /\ \A l \in w.wanted \cup w.added : l[1] = w.owner
  /\ \A l \in w.dropped : IF w.op = "delete_role" THEN w.owner \in {l[1], l[2]}
                          ELSE l[1] = w.owner

\* How far an administrative request is tells what it has read, dropped and added, and
\* which stamps it has still to increment.
AdminShape(w, label) ==
  w.op \in AdminOperations =>
    /\ label \in {"see", "drop", "add", "users", "bump", "delete", "commit"}
    /\ w.owner \in IF w.op \in UserOperations THEN Users ELSE Roles
    /\ LinksAreItsOwn(w)
    /\ w.op = "delete_role" => w.added = {} /\ w.wanted = {}
    /\ label \in {"see", "drop"} => w.dropped = {}
    /\ label = "drop" => \A l \in w.seen : l[1] = w.owner
    /\ label \in {"see", "drop", "add"} =>
         /\ w.op \notin {"update_user", "delete_role"} /\ w.bumped = {} /\ w.added = {}
         /\ w.bump = IF w.op \in UserOperations THEN {w.owner} ELSE {}
    /\ label = "users" => w.op \in RoleOperations /\ w.bumped = {}
    /\ label = "delete" => w.op = "delete_role"
    /\ label \in {"delete", "commit"} => w.bump = {}
    /\ label \in {"users", "bump", "delete"} /\ w.op = "delete_role" => w.dropped = {}
    /\ w.op = "update_user" => w.dropped = {} /\ w.added = {}

\* What a request holds is what its operation may hold at this point of it.
AuthShape(w, label) ==
  /\ label \in {"idle", "ended"} <=> w.op = "none"
  /\ w.op = "none" => w = NoAuthWork
  /\ SessionShape(w, label) /\ AdminShape(w, label)
  /\ w.bumped \subseteq w.locks
  /\ w.op \notin AdminOperations => w.bumped = {}

\* Until requests of a group overlap, one of them at a time is in progress.
OneOfEachGroup ==
  \A g \in Groups \ authOverlapped : \A q, r \in AuthRequests :
    authTx[q].op \in g /\ authTx[r].op \in g => q = r

-----------------------------------------------------------------------------
(* Tokens *)

\* The token of a request is issued, and its next one is not.
TokensHeld(w) ==
  /\ w.op \in TokenOperations => w.token \in Issued
  /\ w.fresh # Nothing => w.fresh \notin Issued

\* What a request found in use still is.
TokensChecked(w) ==
  /\ w.op = "refresh" => refreshTokens[w.token].live
  /\ w.op = "logout" => w.seen = Live(refreshTokens[w.token].family)

\* A session has one token in use, and none once it has logged out.
OneInUse ==
  /\ \A f \in Tokens : \A s, t \in Live(f) : s = t
  /\ \A f \in loggedOut : Live(f) = {}

\* Two requests do not have the next token in common.
FreshApart ==
  \A q, r \in AuthRequests :
    authTx[q].fresh = authTx[r].fresh /\ authTx[r].fresh # Nothing => q = r

\* What is said of tokens: of their rows always, of their use until requests overlap.
TokensSound ==
  /\ \A t \in Issued : refreshTokens[t].family \in Issued
  /\ loggedOut \subseteq Issued
  /\ FreshApart
  /\ \A r \in AuthRequests : TokensHeld(authTx[r])
  /\ TokenOperations \notin authOverlapped =>
       OneInUse /\ \A r \in AuthRequests : TokensChecked(authTx[r])

-----------------------------------------------------------------------------
(* Stamps *)

\* A stamp that was read is not ahead of its user's; one that is to be incremented
\* can be.
StampsHeld(w, label) ==
  /\ w.op \in {"login", "refresh"} /\ label # "user" => w.stamp <= users[w.owner].stamp
  /\ \A u \in w.bumped : users[u].stamp < MaxStamp

\* The users whose permissions an administrative request changes.
Touches(w, u) ==
  /\ w.dropped \cup w.added # {} \/ w.op = "delete_role"
  /\ IF w.op \in UserOperations THEN u = w.owner ELSE w.owner \in HeldBy(u)

\* What was read of the links still holds, as long as the stamp does.
ReadsHold(w, label) ==
  label \in {"grants", "issue"} /\ w.stamp = users[w.owner].stamp =>
    /\ label = "grants" => w.held = HeldBy(w.owner)
    /\ label = "issue" => w.permissions = PermissionsOf(w.owner)

\* The links of the owner are those that were dropped, and whom a request touches
\* has been bumped, or is to be.
LinksChecked(w, label) ==
  w.op \in AdminOperations =>
    /\ label = "drop" => w.seen = LinksOf(w.owner)
    /\ label = "add" => w.dropped = LinksOf(w.owner)
    /\ label \in {"users", "bump", "commit"} /\ w.op \in {"set_roles", "set_permissions"} =>
         w.dropped = LinksOf(w.owner) /\ w.added = w.wanted
    /\ label \in {"bump", "delete", "commit"} =>
         \A u \in Users : Touches(w, u) => u \in w.bump \cup w.bumped

\* The permissions of access tokens, while their stamp is their user's.
AccessHolds ==
  \A a \in access : a.stamp = users[a.user].stamp => a.permissions = PermissionsOf(a.user)

\* What is said of stamps: that they only grow always, that they vouch for permissions
\* until requests overlap.
StampsSound ==
  /\ \A a \in access : a.stamp <= users[a.user].stamp
  /\ \A r \in AuthRequests : StampsHeld(authTx[r], authPc[r])
  /\ AdminOperations \notin authOverlapped =>
       /\ AccessHolds
       /\ \A r \in AuthRequests :
            ReadsHold(authTx[r], authPc[r]) /\ LinksChecked(authTx[r], authPc[r])

\* The inductive invariant of sessions and access control.
AuthInvariant ==
  /\ AuthTyped
  /\ \A r \in AuthRequests : AuthShape(authTx[r], authPc[r])
  /\ OneOfEachGroup
  /\ TokensSound
  /\ StampsSound

-----------------------------------------------------------------------------
(* Links *)

\* The links of a user are to roles, those of a role to permissions.
LEMMA LinkTyped ==
  ASSUME NEW l \in Links
  PROVE  /\ l[1] \in Users => l[2] \in Roles
         /\ l[1] \in Roles => l[2] \in Permissions /\ l[1] \notin Users
         /\ l[1] \in Users \cup Roles
BY AuthAssumption DEF Links

\* What a user holds are roles.
LEMMA HeldTyped ==
  ASSUME links \subseteq Links, NEW u \in Users
  PROVE  HeldBy(u) \subseteq Roles
BY LinkTyped DEF HeldBy, LinksOf

\* What some roles grant are permissions.
LEMMA GrantedTyped ==
  ASSUME links \subseteq Links, NEW some \in SUBSET Roles
  PROVE  GrantedBy(some) \subseteq Permissions
<1>1. \A l \in links : l[1] \in some => l[2] \in Permissions
  BY LinkTyped
<1>. QED BY <1>1 DEF GrantedBy

-----------------------------------------------------------------------------
(* Requests *)

\* A request that is not at work has nothing.
LEMMA NoAuthWorkTyped ==
  /\ NoAuthWork \in AuthWork
  /\ NoAuthWork.op = "none" /\ NoAuthWork.owner = Nothing /\ NoAuthWork.wanted = {}
  /\ NoAuthWork.seen = {} /\ NoAuthWork.dropped = {} /\ NoAuthWork.added = {}
  /\ NoAuthWork.bump = {} /\ NoAuthWork.bumped = {} /\ NoAuthWork.token = Nothing
  /\ NoAuthWork.fresh = Nothing /\ NoAuthWork.locks = {}
BY AuthAssumption DEF NoAuthWork, AuthWork, Operations

\* Nor does it break anything.
LEMMA NoAuthWorkSound ==
  ASSUME NEW label \in {"idle", "ended"}
  PROVE  /\ AuthShape(NoAuthWork, label) /\ TokensHeld(NoAuthWork)
         /\ TokensChecked(NoAuthWork) /\ StampsHeld(NoAuthWork, label)
         /\ ReadsHold(NoAuthWork, label) /\ LinksChecked(NoAuthWork, label)
BY NoAuthWorkTyped DEF AuthShape, SessionShape, AdminShape, TokensHeld, TokensChecked, StampsHeld,
   ReadsHold, LinksChecked, TokenOperations, AdminOperations

\* What a step of a request does to the requests.
LEMMA GoesStep ==
  ASSUME AuthTyped, NEW r \in AuthRequests, NEW label \in Labels, NEW work \in AuthWork,
         AuthGoes(r, label, work)
  PROVE  /\ authTx'[r] = work /\ authPc'[r] = label
         /\ \A q \in AuthRequests \ {r} : authTx'[q] = authTx[q] /\ authPc'[q] = authPc[q]
         /\ authTx' \in [AuthRequests -> AuthWork] /\ authPc' \in [AuthRequests -> Labels]
         /\ authOverlapped \subseteq authOverlapped' /\ authOverlapped' \subseteq Groups
BY DEF AuthGoes, AuthTyped, AuthTypeOK, OverlappingNow

\* A request does not change the group it belongs to.
Continues(r, work) ==
  \/ authPc[r] = "idle"
  \/ work.op = authTx[r].op
  \/ work.op = "none"

\* A request that begins in a group another one is at work in has them overlap.
LEMMA GroupsKept ==
  ASSUME AuthTyped, OneOfEachGroup, NEW r \in AuthRequests, NEW label \in Labels,
         NEW work \in AuthWork, AuthGoes(r, label, work), Continues(r, work)
  PROVE  OneOfEachGroup'
<1>1. /\ authTx'[r] = work
      /\ \A q \in AuthRequests \ {r} : authTx'[q] = authTx[q]
      /\ authOverlapped \subseteq authOverlapped'
  BY GoesStep
<1>2. ASSUME NEW g \in Groups \ authOverlapped', work.op \in g,
             NEW q \in AuthRequests \ {r}, authTx[q].op \in g
      PROVE  FALSE
  <2>1. g \notin authOverlapped /\ "none" \notin g
    BY <1>1, <1>2 DEF Groups, AdminOperations, TokenOperations
  <2>2. CASE authPc[r] = "idle"
    <3>1. g \in OverlappingNow(work.op)
      BY <1>2 DEF OverlappingNow
    <3>. QED BY <1>2, <2>2, <3>1 DEF AuthGoes
  <2>3. CASE work.op = authTx[r].op
    BY <1>2, <2>1, <2>3 DEF OneOfEachGroup
  <2>. QED BY <1>2, <2>1, <2>2, <2>3 DEF Continues
<1>3. \A g \in Groups \ authOverlapped' : g \in Groups \ authOverlapped
  BY <1>1
<1>. QED BY <1>1, <1>2, <1>3 DEF OneOfEachGroup

\* The rows a request locks are locked by no other.
LEMMA LocksKept ==
  ASSUME AuthTyped, NEW r \in AuthRequests, NEW label \in Labels, NEW work \in AuthWork,
         AuthGoes(r, label, work),
         \A q \in AuthRequests \ {r} : work.locks \cap authTx[q].locks = {}
  PROVE  \A p, q \in AuthRequests : p # q => authTx'[p].locks \cap authTx'[q].locks = {}
<1>1. authTx'[r] = work /\ \A q \in AuthRequests \ {r} : authTx'[q] = authTx[q]
  BY GoesStep
<1>2. \A p, q \in AuthRequests : p # q => authTx[p].locks \cap authTx[q].locks = {}
  BY DEF AuthTyped, AuthTypeOK
<1>3. ASSUME NEW p \in AuthRequests, NEW q \in AuthRequests, p # q
      PROVE  authTx'[p].locks \cap authTx'[q].locks = {}
  <2>1. CASE p = r
    BY <1>1, <1>3, <2>1
  <2>2. CASE q = r
    BY <1>1, <1>3, <2>2
  <2>3. CASE p # r /\ q # r
    BY <1>1, <1>2, <1>3, <2>3
  <2>. QED BY <2>1, <2>2, <2>3
<1>. QED BY <1>3

-----------------------------------------------------------------------------
(* What is said of one request, and what it looks at *)

\* What is said of tokens looks at their rows.
LEMMA TokensLookAt ==
  ASSUME UNCHANGED refreshTokens
  PROVE  /\ Issued' = Issued /\ \A f : Live(f)' = Live(f)
         /\ \A w : TokensHeld(w)' <=> TokensHeld(w)
         /\ \A w : TokensChecked(w)' <=> TokensChecked(w)
<1>1. Issued' = Issued /\ \A f : Live(f)' = Live(f)
  BY DEF Issued, Live, Family
<1>. QED BY <1>1 DEF TokensHeld, TokensChecked

\* What is said of stamps looks at the rows of users and links.
LEMMA StampsLookAt ==
  ASSUME UNCHANGED <<users, links>>
  PROVE  /\ \A u : HeldBy(u)' = HeldBy(u) /\ PermissionsOf(u)' = PermissionsOf(u)
         /\ \A w, label : StampsHeld(w, label)' <=> StampsHeld(w, label)
         /\ \A w, label : ReadsHold(w, label)' <=> ReadsHold(w, label)
         /\ \A w, label : LinksChecked(w, label)' <=> LinksChecked(w, label)
<1>1. \A u : LinksOf(u)' = LinksOf(u) /\ HeldBy(u)' = HeldBy(u)
  BY DEF LinksOf, HeldBy
<1>2. \A u : PermissionsOf(u)' = PermissionsOf(u)
  BY <1>1 DEF PermissionsOf, GrantedBy
<1>3. \A w, u : Touches(w, u)' <=> Touches(w, u)
  BY <1>1 DEF Touches
<1>. QED BY <1>1, <1>2, <1>3 DEF StampsHeld, ReadsHold, LinksChecked

-----------------------------------------------------------------------------
(* Steps that change no row *)

\* A step that leaves sound work keeps the invariant.
LEMMA PrivateAuthStep ==
  ASSUME AuthInvariant, NEW r \in AuthRequests, NEW label \in Labels, NEW work \in AuthWork,
         AuthGoes(r, label, work), Continues(r, work), UNCHANGED <<accounts, sessions>>,
         \A q \in AuthRequests \ {r} : work.locks \cap authTx[q].locks = {},
         AuthShape(work, label), TokensHeld(work), StampsHeld(work, label),
         \A q \in AuthRequests \ {r} : work.fresh # Nothing => work.fresh # authTx[q].fresh,
         TokenOperations \notin authOverlapped => TokensChecked(work),
         AdminOperations \notin authOverlapped =>
           ReadsHold(work, label) /\ LinksChecked(work, label)
  PROVE  AuthInvariant'
<1>. USE DEF accounts, sessions
<1>0. /\ AuthTyped /\ OneOfEachGroup /\ TokensSound /\ StampsSound
      /\ \A q \in AuthRequests : AuthShape(authTx[q], authPc[q])
  BY DEF AuthInvariant
<1>1. /\ authTx'[r] = work /\ authPc'[r] = label
      /\ \A q \in AuthRequests \ {r} : authTx'[q] = authTx[q] /\ authPc'[q] = authPc[q]
      /\ authTx' \in [AuthRequests -> AuthWork] /\ authPc' \in [AuthRequests -> Labels]
      /\ authOverlapped \subseteq authOverlapped' /\ authOverlapped' \subseteq Groups
  BY <1>0, GoesStep
<1>2. /\ Issued' = Issued /\ \A f : Live(f)' = Live(f)
      /\ \A w : TokensHeld(w)' <=> TokensHeld(w)
      /\ \A w : TokensChecked(w)' <=> TokensChecked(w)
  BY TokensLookAt
<1>3. /\ \A u : HeldBy(u)' = HeldBy(u) /\ PermissionsOf(u)' = PermissionsOf(u)
      /\ \A w, l : StampsHeld(w, l)' <=> StampsHeld(w, l)
      /\ \A w, l : ReadsHold(w, l)' <=> ReadsHold(w, l)
      /\ \A w, l : LinksChecked(w, l)' <=> LinksChecked(w, l)
  BY StampsLookAt
<1>4. AuthTyped'
  <2>1. \A p, q \in AuthRequests : p # q => authTx'[p].locks \cap authTx'[q].locks = {}
    BY <1>0, LocksKept
  <2>. QED BY <1>0, <1>1, <1>2, <2>1 DEF AuthTyped, AuthTypeOK
<1>5. \A q \in AuthRequests : AuthShape(authTx'[q], authPc'[q])
  BY <1>0, <1>1
<1>6. OneOfEachGroup'
  BY <1>0, GroupsKept
<1>7. TokensSound'
  <2>1. FreshApart'
    BY <1>0, <1>1 DEF TokensSound, FreshApart
  <2>2. \A q \in AuthRequests : TokensHeld(authTx'[q])
    BY <1>0, <1>1 DEF TokensSound
  <2>3. TokenOperations \notin authOverlapped' =>
          OneInUse /\ \A q \in AuthRequests : TokensChecked(authTx'[q])
    BY <1>0, <1>1 DEF TokensSound
  <2>4. OneInUse => OneInUse'
    BY <1>2 DEF OneInUse
  <2>. QED BY <1>0, <1>2, <2>1, <2>2, <2>3, <2>4 DEF TokensSound
<1>8. StampsSound'
  <2>1. \A q \in AuthRequests : StampsHeld(authTx'[q], authPc'[q])
    BY <1>0, <1>1 DEF StampsSound
  <2>2. AdminOperations \notin authOverlapped' =>
          /\ AccessHolds
          /\ \A q \in AuthRequests :
               ReadsHold(authTx'[q], authPc'[q]) /\ LinksChecked(authTx'[q], authPc'[q])
    BY <1>0, <1>1 DEF StampsSound
  <2>3. AccessHolds => AccessHolds'
    BY <1>3 DEF AccessHolds
  <2>. QED BY <1>0, <1>3, <2>1, <2>2, <2>3 DEF StampsSound
<1>. QED BY <1>4, <1>5, <1>6, <1>7, <1>8 DEF AuthInvariant, AuthShape, SessionShape, AdminShape,
                                            LinksAreItsOwn

\* A step of an administrative request: what it locks is free, and what it has
\* changed of the links is accounted for.
LEMMA AdminPrivateStep ==
  ASSUME AuthInvariant, NEW r \in AuthRequests, NEW label \in Labels, NEW work \in AuthWork,
         AuthGoes(r, label, work), Continues(r, work), UNCHANGED <<accounts, sessions>>,
         work.op \in AdminOperations, work.fresh = Nothing,
         \A q \in AuthRequests \ {r} : work.locks \cap authTx[q].locks = {},
         AdminShape(work, label), work.bumped \subseteq work.locks,
         \A u \in work.bumped : users[u].stamp < MaxStamp,
         AdminOperations \notin authOverlapped => LinksChecked(work, label)
  PROVE  AuthInvariant'
<1>1. work.op \notin {"none", "login", "refresh", "logout"}
  BY DEF AdminOperations
<1>2. label \notin {"idle", "ended", "grants", "issue"}
  BY DEF AdminShape
<1>3. AuthShape(work, label)
  BY <1>1, <1>2 DEF AuthShape, SessionShape
<1>4. /\ TokensHeld(work) /\ TokensChecked(work) /\ StampsHeld(work, label)
      /\ ReadsHold(work, label)
  BY <1>1, <1>2 DEF TokensHeld, TokensChecked, StampsHeld, ReadsHold, TokenOperations
<1>. QED BY <1>3, <1>4, PrivateAuthStep

\* The end of a request that changes nothing.
LEMMA AuthAbortStep ==
  ASSUME AuthInvariant, NEW r \in AuthRequests, Ends(r), UNCHANGED <<accounts, sessions>>
  PROVE  AuthInvariant'
<1>1. AuthGoes(r, "ended", NoAuthWork) /\ "ended" \in Labels
  BY DEF Ends, Labels
<1>2. Continues(r, NoAuthWork)
  BY NoAuthWorkTyped DEF Continues
<1>3. /\ AuthShape(NoAuthWork, "ended") /\ TokensHeld(NoAuthWork)
      /\ TokensChecked(NoAuthWork) /\ StampsHeld(NoAuthWork, "ended")
      /\ ReadsHold(NoAuthWork, "ended") /\ LinksChecked(NoAuthWork, "ended")
  BY NoAuthWorkSound
<1>. QED BY <1>1, <1>2, <1>3, NoAuthWorkTyped, PrivateAuthStep

-----------------------------------------------------------------------------
(* Administrative requests *)

\* The links to what a user is to hold, or a role to grant.
LEMMA WantedTyped ==
  /\ \A u \in Users : \A held \in SUBSET Roles :
       {u} \X held \subseteq Links /\ \A l \in {u} \X held : l[1] = u
  /\ \A role \in Roles : \A granted \in SUBSET Permissions :
       {role} \X granted \subseteq Links /\ \A l \in {role} \X granted : l[1] = role
BY DEF Links

\* A request that is idle has locked nothing; one that begins may lock a free row.
LEMMA BeginLocks ==
  ASSUME AuthInvariant, NEW r \in AuthRequests, NEW row, Free(r, row)
  PROVE  \A q \in AuthRequests \ {r} : {row} \cap authTx[q].locks = {}
BY DEF Free

\* Every administrative handler begins with sound work.
LEMMA AdminBeginStep ==
  ASSUME AuthInvariant, NEW r \in AuthRequests, authPc[r] = "idle"
  PROVE  /\ \A u \in Users, held \in SUBSET Roles : BeginSetRoles(r, u, held) => AuthInvariant'
         /\ \A u \in Users, held \in SUBSET Roles : BeginCreateUser(r, u, held) => AuthInvariant'
         /\ \A u \in Users, active \in BOOLEAN :
              BeginUpdateUser(r, u, active) => AuthInvariant'
         /\ \A role \in Roles, granted \in SUBSET Permissions :
              BeginSetPermissions(r, role, granted) => AuthInvariant'
         /\ \A role \in Roles, granted \in SUBSET Permissions :
              BeginCreateRole(r, role, granted) => AuthInvariant'
         /\ \A role \in Roles : BeginDeleteRole(r, role) => AuthInvariant'
<1>0. \A work : Continues(r, work)
  BY DEF Continues
<1>1. ASSUME NEW u \in Users, NEW held \in SUBSET Roles, BeginSetRoles(r, u, held)
      PROVE  AuthInvariant'
  <2>1. PICK work : work = Replaces("set_roles", u, {u} \X held, {u})
    OBVIOUS
  <2>2. /\ work \in AuthWork /\ work.op = "set_roles" /\ work.owner = u
        /\ work.wanted = {u} \X held /\ work.bump = {u} /\ work.bumped = {}
        /\ work.dropped = {} /\ work.added = {} /\ work.fresh = Nothing /\ work.locks = {}
    <3>1. /\ "set_roles" \in AdminOperations /\ u \in Users \cup Roles
          /\ {u} \X held \in SUBSET Links /\ {u} \in SUBSET Users
      BY WantedTyped DEF AdminOperations
    <3>. QED BY <2>1, <3>1, NoAuthWorkTyped DEF Replaces, AuthWork, Operations
  <2>3. AuthGoes(r, "see", work) /\ UNCHANGED <<accounts, sessions>>
    BY <1>1, <2>1 DEF BeginSetRoles
  <2>4. AdminShape(work, "see")
    BY <2>2, WantedTyped DEF AdminShape, LinksAreItsOwn, UserOperations
  <2>5. LinksChecked(work, "see")
    BY DEF LinksChecked
  <2>. QED BY <1>0, <2>2, <2>3, <2>4, <2>5, AdminPrivateStep DEF Labels, AdminOperations
<1>2. ASSUME NEW u \in Users, NEW held \in SUBSET Roles, BeginCreateUser(r, u, held)
      PROVE  AuthInvariant'
  <2>1. PICK bump : bump = IF held = {} THEN {} ELSE {u}
    OBVIOUS
  <2>2. PICK first : first = Replaces("create_user", u, {u} \X held, bump)
    OBVIOUS
  <2>3. PICK work : work = [first EXCEPT !.locks = {u}]
    OBVIOUS
  <2>4. /\ first \in AuthWork /\ first.op = "create_user" /\ first.owner = u
        /\ first.wanted = {u} \X held /\ first.bump = bump /\ first.bumped = {}
        /\ first.dropped = {} /\ first.added = {} /\ first.fresh = Nothing
    <3>1. /\ "create_user" \in AdminOperations /\ u \in Users \cup Roles
          /\ {u} \X held \in SUBSET Links /\ bump \in SUBSET Users
      BY <2>1, WantedTyped DEF AdminOperations
    <3>. QED BY <2>2, <3>1, NoAuthWorkTyped DEF Replaces, AuthWork, Operations
  <2>5. /\ work \in AuthWork /\ work.op = "create_user" /\ work.owner = u
        /\ work.wanted = {u} \X held /\ work.bump = bump /\ work.bumped = {}
        /\ work.dropped = {} /\ work.added = {} /\ work.fresh = Nothing /\ work.locks = {u}
    BY <2>3, <2>4 DEF AuthWork
  <2>6. PICK label : label = IF held = {} THEN "commit" ELSE "see"
    OBVIOUS
  <2>7. /\ AuthGoes(r, label, work) /\ UNCHANGED <<accounts, sessions>> /\ Free(r, u)
    BY <1>2, <2>1, <2>2, <2>3, <2>6 DEF BeginCreateUser
  <2>8. AdminShape(work, label)
    <3>1. LinksAreItsOwn(work)
      BY <2>5, WantedTyped DEF LinksAreItsOwn
    <3>. QED BY <2>1, <2>5, <2>6, <3>1 DEF AdminShape, UserOperations
  <2>9. LinksChecked(work, label)
    BY <2>5, <2>6 DEF LinksChecked, Touches
  <2>10. label \in Labels /\ work.op \in AdminOperations
    BY <2>5, <2>6 DEF Labels, AdminOperations
  <2>. QED BY <1>0, <2>5, <2>7, <2>8, <2>9, <2>10, AdminPrivateStep, BeginLocks
<1>3. ASSUME NEW u \in Users, NEW active \in BOOLEAN, BeginUpdateUser(r, u, active)
      PROVE  AuthInvariant'
  <2>1. PICK first : first = Replaces("update_user", u, {}, {u})
    OBVIOUS
  <2>2. PICK work : work = [first EXCEPT !.active = active]
    OBVIOUS
  <2>3. /\ first \in AuthWork /\ first.op = "update_user" /\ first.owner = u
        /\ first.wanted = {} /\ first.bump = {u} /\ first.bumped = {}
        /\ first.dropped = {} /\ first.added = {} /\ first.fresh = Nothing /\ first.locks = {}
    <3>1. /\ "update_user" \in AdminOperations /\ u \in Users \cup Roles
          /\ {} \in SUBSET Links /\ {u} \in SUBSET Users
      BY WantedTyped DEF AdminOperations
    <3>. QED BY <2>1, <3>1, NoAuthWorkTyped DEF Replaces, AuthWork, Operations
  <2>4. /\ work \in AuthWork /\ work.op = "update_user" /\ work.owner = u
        /\ work.wanted = {} /\ work.bump = {u} /\ work.bumped = {}
        /\ work.dropped = {} /\ work.added = {} /\ work.fresh = Nothing /\ work.locks = {}
    BY <2>2, <2>3 DEF AuthWork
  <2>5. AuthGoes(r, "bump", work) /\ UNCHANGED <<accounts, sessions>>
    BY <1>3, <2>1, <2>2 DEF BeginUpdateUser
  <2>6. AdminShape(work, "bump")
    BY <2>4 DEF AdminShape, LinksAreItsOwn, UserOperations
  <2>7. LinksChecked(work, "bump")
    BY <2>4 DEF LinksChecked, Touches
  <2>. QED BY <1>0, <2>4, <2>5, <2>6, <2>7, AdminPrivateStep DEF Labels, AdminOperations
<1>4. ASSUME NEW role \in Roles, NEW granted \in SUBSET Permissions,
             BeginSetPermissions(r, role, granted)
      PROVE  AuthInvariant'
  <2>1. PICK work : work = Replaces("set_permissions", role, {role} \X granted, {})
    OBVIOUS
  <2>2. /\ work \in AuthWork /\ work.op = "set_permissions" /\ work.owner = role
        /\ work.wanted = {role} \X granted /\ work.bump = {} /\ work.bumped = {}
        /\ work.dropped = {} /\ work.added = {} /\ work.fresh = Nothing /\ work.locks = {}
    <3>1. /\ "set_permissions" \in AdminOperations /\ role \in Users \cup Roles
          /\ {role} \X granted \in SUBSET Links /\ {} \in SUBSET Users
      BY WantedTyped DEF AdminOperations
    <3>. QED BY <2>1, <3>1, NoAuthWorkTyped DEF Replaces, AuthWork, Operations
  <2>3. AuthGoes(r, "see", work) /\ UNCHANGED <<accounts, sessions>>
    BY <1>4, <2>1 DEF BeginSetPermissions
  <2>4. AdminShape(work, "see")
    BY <2>2, WantedTyped DEF AdminShape, LinksAreItsOwn, UserOperations
  <2>5. LinksChecked(work, "see")
    BY DEF LinksChecked
  <2>. QED BY <1>0, <2>2, <2>3, <2>4, <2>5, AdminPrivateStep DEF Labels, AdminOperations
<1>5. ASSUME NEW role \in Roles, NEW granted \in SUBSET Permissions,
             BeginCreateRole(r, role, granted)
      PROVE  AuthInvariant'
  <2>1. PICK first : first = Replaces("create_role", role, {role} \X granted, {})
    OBVIOUS
  <2>2. PICK work : work = [first EXCEPT !.locks = {role}]
    OBVIOUS
  <2>3. /\ first \in AuthWork /\ first.op = "create_role" /\ first.owner = role
        /\ first.wanted = {role} \X granted /\ first.bump = {} /\ first.bumped = {}
        /\ first.dropped = {} /\ first.added = {} /\ first.fresh = Nothing
    <3>1. /\ "create_role" \in AdminOperations /\ role \in Users \cup Roles
          /\ {role} \X granted \in SUBSET Links /\ {} \in SUBSET Users
      BY WantedTyped DEF AdminOperations
    <3>. QED BY <2>1, <3>1, NoAuthWorkTyped DEF Replaces, AuthWork, Operations
  <2>4. /\ work \in AuthWork /\ work.op = "create_role" /\ work.owner = role
        /\ work.wanted = {role} \X granted /\ work.bump = {} /\ work.bumped = {}
        /\ work.dropped = {} /\ work.added = {} /\ work.fresh = Nothing /\ work.locks = {role}
    BY <2>2, <2>3 DEF AuthWork
  <2>5. PICK label : label = IF granted = {} THEN "commit" ELSE "see"
    OBVIOUS
  <2>6. AuthGoes(r, label, work) /\ UNCHANGED <<accounts, sessions>> /\ Free(r, role)
    BY <1>5, <2>1, <2>2, <2>5 DEF BeginCreateRole
  <2>7. AdminShape(work, label)
    <3>1. LinksAreItsOwn(work)
      BY <2>4, WantedTyped DEF LinksAreItsOwn
    <3>. QED BY <2>4, <2>5, <3>1 DEF AdminShape, UserOperations
  <2>8. LinksChecked(work, label)
    BY <2>4, <2>5 DEF LinksChecked, Touches
  <2>9. label \in Labels /\ work.op \in AdminOperations
    BY <2>4, <2>5 DEF Labels, AdminOperations
  <2>. QED BY <1>0, <2>4, <2>6, <2>7, <2>8, <2>9, AdminPrivateStep, BeginLocks
<1>6. ASSUME NEW role \in Roles, BeginDeleteRole(r, role)
      PROVE  AuthInvariant'
  <2>1. PICK work : work = Replaces("delete_role", role, {}, {})
    OBVIOUS
  <2>2. /\ work \in AuthWork /\ work.op = "delete_role" /\ work.owner = role
        /\ work.wanted = {} /\ work.bump = {} /\ work.bumped = {}
        /\ work.dropped = {} /\ work.added = {} /\ work.fresh = Nothing /\ work.locks = {}
    <3>1. /\ "delete_role" \in AdminOperations /\ role \in Users \cup Roles
          /\ {} \in SUBSET Links /\ {} \in SUBSET Users
      BY WantedTyped DEF AdminOperations
    <3>. QED BY <2>1, <3>1, NoAuthWorkTyped DEF Replaces, AuthWork, Operations
  <2>3. AuthGoes(r, "users", work) /\ UNCHANGED <<accounts, sessions>>
    BY <1>6, <2>1 DEF BeginDeleteRole
  <2>4. AdminShape(work, "users")
    BY <2>2 DEF AdminShape, LinksAreItsOwn, UserOperations, RoleOperations
  <2>5. LinksChecked(work, "users")
    BY <2>2 DEF LinksChecked
  <2>. QED BY <1>0, <2>2, <2>3, <2>4, <2>5, AdminPrivateStep DEF Labels, AdminOperations
<1>. QED BY <1>1, <1>2, <1>3, <1>4, <1>5, <1>6

\* Where an administrative request may be.
AdminLabels == {"see", "drop", "add", "users", "bump", "delete", "commit"}

\* What holds of an administrative request once it has begun.
LEMMA AdminAtWork ==
  ASSUME AuthInvariant, NEW r \in AuthRequests, authPc[r] \in AdminLabels
  PROVE  /\ authTx[r] \in AuthWork /\ authTx[r].op \in AdminOperations
         /\ authTx[r].fresh = Nothing
         /\ AdminShape(authTx[r], authPc[r]) /\ authTx[r].bumped \subseteq authTx[r].locks
         /\ \A u \in authTx[r].bumped : users[u].stamp < MaxStamp
         /\ \A q \in AuthRequests \ {r} : authTx[r].locks \cap authTx[q].locks = {}
         /\ AdminOperations \notin authOverlapped => LinksChecked(authTx[r], authPc[r])
<1>1. authTx[r] \in AuthWork /\ AuthShape(authTx[r], authPc[r])
  BY DEF AuthInvariant, AuthTyped
<1>2. authTx[r].op \in Operations
  BY <1>1 DEF AuthWork
<1>3. authTx[r].op \in AdminOperations
  BY <1>1, <1>2 DEF AdminLabels, AuthShape, SessionShape, Operations, TokenOperations
<1>4. authTx[r].fresh = Nothing
  BY <1>1, <1>3 DEF AuthShape, SessionShape, AdminOperations
<1>5. \A q \in AuthRequests \ {r} : authTx[r].locks \cap authTx[q].locks = {}
  BY DEF AuthInvariant, AuthTyped, AuthTypeOK
<1>6. /\ \A u \in authTx[r].bumped : users[u].stamp < MaxStamp
      /\ AdminOperations \notin authOverlapped => LinksChecked(authTx[r], authPc[r])
  BY DEF AuthInvariant, StampsSound, StampsHeld
<1>. QED BY <1>1, <1>3, <1>4, <1>5, <1>6 DEF AuthShape

\* The step of an administrative request that goes on with its operation, once it has
\* locked some rows more.
LEMMA AdminGoesOn ==
  ASSUME AuthInvariant, NEW r \in AuthRequests, authPc[r] \in AdminLabels,
         NEW label \in AdminLabels, NEW work \in AuthWork, NEW rows, AllFree(r, rows),
         AuthGoes(r, label, work), UNCHANGED <<accounts, sessions>>,
         work.op = authTx[r].op, work.fresh = authTx[r].fresh,
         work.locks = authTx[r].locks \cup rows, work.bumped \subseteq work.locks,
         \A u \in work.bumped : u \in authTx[r].bumped \/ users[u].stamp < MaxStamp,
         AdminShape(authTx[r], authPc[r]) => AdminShape(work, label),
         LinksChecked(authTx[r], authPc[r]) => LinksChecked(work, label)
  PROVE  AuthInvariant'
<1>1. /\ authTx[r].op \in AdminOperations /\ authTx[r].fresh = Nothing
      /\ AdminShape(authTx[r], authPc[r])
      /\ \A u \in authTx[r].bumped : users[u].stamp < MaxStamp
      /\ \A q \in AuthRequests \ {r} : authTx[r].locks \cap authTx[q].locks = {}
      /\ AdminOperations \notin authOverlapped => LinksChecked(authTx[r], authPc[r])
  BY AdminAtWork
<1>2. \A q \in AuthRequests \ {r} : work.locks \cap authTx[q].locks = {}
  BY <1>1 DEF AllFree, Free
<1>3. Continues(r, work) /\ label \in Labels
  BY DEF Continues, AdminLabels, Labels
<1>4. AdminShape(work, label) /\ \A u \in work.bumped : users[u].stamp < MaxStamp
  BY <1>1
<1>5. AdminOperations \notin authOverlapped => LinksChecked(work, label)
  BY <1>1
<1>6. work.op \in AdminOperations /\ work.fresh = Nothing
  BY <1>1
<1>. QED BY <1>2, <1>3, <1>4, <1>5, <1>6, AdminPrivateStep

\* The deleteMany reads the links of the owner.
LEMMA SeeLinksStep ==
  ASSUME AuthInvariant, NEW r \in AuthRequests, SeeLinks(r)
  PROVE  AuthInvariant'
<1>1. PICK w : w = authTx[r]
  OBVIOUS
<1>2. PICK work : work = [w EXCEPT !.seen = LinksOf(w.owner)]
  OBVIOUS
<1>3. /\ authPc[r] = "see" /\ AuthGoes(r, "drop", work)
      /\ UNCHANGED <<accounts, sessions>>
  BY <1>1, <1>2 DEF SeeLinks
<1>4. authPc[r] \in AdminLabels /\ "drop" \in AdminLabels
  BY <1>3 DEF AdminLabels
<1>5. w \in AuthWork /\ w.op \in AdminOperations /\ w.bumped \subseteq w.locks
  BY <1>1, <1>4, AdminAtWork
<1>6. LinksOf(w.owner) \subseteq Links
  BY DEF AuthInvariant, AuthTyped, AuthTypeOK, LinksOf
<1>7. work \in AuthWork /\ work = [w EXCEPT !.seen = work.seen] /\ work.seen = LinksOf(w.owner)
  BY <1>2, <1>5, <1>6 DEF AuthWork
<1>8. AdminShape(w, "see") => AdminShape(work, "drop")
  BY <1>2, <1>5, <1>7 DEF AdminShape, LinksAreItsOwn, LinksOf, AuthWork
<1>9. LinksChecked(work, "drop")
  BY <1>2, <1>5, <1>7 DEF LinksChecked, AuthWork
<1>10. /\ work.op = w.op /\ work.fresh = w.fresh /\ work.locks = w.locks \cup {}
       /\ work.bumped = w.bumped
  BY <1>2, <1>5 DEF AuthWork
<1>11. AllFree(r, {})
  BY DEF AllFree
<1>. QED BY <1>1, <1>3, <1>4, <1>5, <1>7, <1>8, <1>9, <1>10, <1>11, AdminGoesOn

\* It takes those that are left: they are still the owner's.
LEMMA DropLinksStep ==
  ASSUME AuthInvariant, NEW r \in AuthRequests, DropLinks(r)
  PROVE  AuthInvariant'
<1>1. PICK w : w = authTx[r]
  OBVIOUS
<1>2. PICK dropped : dropped = w.seen \cap links
  OBVIOUS
<1>3. PICK work : work = [w EXCEPT !.dropped = dropped, !.locks = w.locks \cup dropped]
  OBVIOUS
<1>4. /\ authPc[r] = "drop" /\ AuthGoes(r, "add", work)
      /\ UNCHANGED <<accounts, sessions>> /\ AllFree(r, dropped)
  BY <1>1, <1>2, <1>3 DEF DropLinks, AllFree
<1>5. authPc[r] \in AdminLabels /\ "add" \in AdminLabels
  BY <1>4 DEF AdminLabels
<1>6. w \in AuthWork /\ w.op \in AdminOperations /\ w.bumped \subseteq w.locks
  BY <1>1, <1>5, AdminAtWork
<1>7. dropped \subseteq Links
  BY <1>2 DEF AuthInvariant, AuthTyped, AuthTypeOK
<1>8. /\ work \in AuthWork /\ work.dropped = dropped /\ work.locks = w.locks \cup dropped
      /\ work.op = w.op /\ work.fresh = w.fresh /\ work.bumped = w.bumped
      /\ work.owner = w.owner /\ work.wanted = w.wanted /\ work.added = w.added
      /\ work.bump = w.bump
  BY <1>3, <1>6, <1>7 DEF AuthWork
<1>9. AdminShape(w, "drop") => AdminShape(work, "add")
  BY <1>2, <1>6, <1>8 DEF AdminShape, LinksAreItsOwn
<1>10. LinksChecked(w, "drop") => LinksChecked(work, "add")
  BY <1>2, <1>6, <1>8 DEF LinksChecked, LinksOf
<1>. QED BY <1>1, <1>4, <1>5, <1>6, <1>8, <1>9, <1>10, AdminGoesOn

\* The createMany adds what was asked for.
LEMMA AddLinksStep ==
  ASSUME AuthInvariant, NEW r \in AuthRequests, AddLinks(r)
  PROVE  AuthInvariant'
<1>1. PICK w : w = authTx[r]
  OBVIOUS
<1>2. PICK work : work = [w EXCEPT !.added = w.wanted, !.locks = w.locks \cup w.wanted]
  OBVIOUS
<1>3. PICK label : label = IF w.bump = {} THEN "users" ELSE "bump"
  OBVIOUS
<1>4. /\ authPc[r] = "add" /\ AuthGoes(r, label, work)
      /\ UNCHANGED <<accounts, sessions>> /\ AllFree(r, w.wanted)
  BY <1>1, <1>2, <1>3 DEF AddLinks
<1>5. authPc[r] \in AdminLabels /\ label \in AdminLabels
  BY <1>3, <1>4 DEF AdminLabels
<1>6. w \in AuthWork /\ w.op \in AdminOperations /\ w.bumped \subseteq w.locks
      /\ AdminShape(w, "add")
  BY <1>1, <1>4, <1>5, AdminAtWork
<1>7. /\ work \in AuthWork /\ work.dropped = w.dropped /\ work.locks = w.locks \cup w.wanted
      /\ work.op = w.op /\ work.fresh = w.fresh /\ work.bumped = w.bumped
      /\ work.owner = w.owner /\ work.wanted = w.wanted /\ work.added = w.wanted
      /\ work.bump = w.bump
  BY <1>2, <1>6 DEF AuthWork
<1>8. w.bump = {} => w.op \in RoleOperations
  BY <1>6 DEF AdminShape, AdminOperations, UserOperations, RoleOperations
<1>9. AdminShape(work, label)
  BY <1>3, <1>6, <1>7, <1>8 DEF AdminShape, LinksAreItsOwn
<1>10. LinksChecked(w, "add") => LinksChecked(work, label)
  <2>1. label = "bump" => w.op \in UserOperations /\ w.bump = {w.owner}
    BY <1>3, <1>6 DEF AdminShape
  <2>. QED BY <1>3, <1>6, <1>7, <2>1 DEF LinksChecked, Touches
<1>. QED BY <1>1, <1>4, <1>5, <1>6, <1>7, <1>9, <1>10, AdminGoesOn

\* The users that hold the role are those whose permissions it changes.
LEMMA ReadUsersStep ==
  ASSUME AuthInvariant, NEW r \in AuthRequests, ReadUsers(r)
  PROVE  AuthInvariant'
<1>1. PICK w : w = authTx[r]
  OBVIOUS
<1>2. PICK holders : holders = {u \in Users : w.owner \in HeldBy(u)}
  OBVIOUS
<1>3. PICK work : work = [w EXCEPT !.bump = holders]
  OBVIOUS
<1>4. PICK label : label = Bumping(w.op, holders)
  OBVIOUS
<1>5. /\ authPc[r] = "users" /\ AuthGoes(r, label, work)
      /\ UNCHANGED <<accounts, sessions>>
  BY <1>1, <1>2, <1>3, <1>4 DEF ReadUsers
<1>6. /\ authPc[r] \in AdminLabels /\ label \in {"bump", "delete", "commit"}
      /\ label \in AdminLabels
  BY <1>4, <1>5 DEF AdminLabels, Bumping
<1>7. w \in AuthWork /\ w.op \in AdminOperations /\ w.bumped \subseteq w.locks
      /\ AdminShape(w, "users")
  BY <1>1, <1>5, <1>6, AdminAtWork
<1>8. /\ work \in AuthWork /\ work.dropped = w.dropped /\ work.locks = w.locks \cup {}
      /\ work.op = w.op /\ work.fresh = w.fresh /\ work.bumped = w.bumped
      /\ work.owner = w.owner /\ work.wanted = w.wanted /\ work.added = w.added
      /\ work.bump = holders
  BY <1>2, <1>3, <1>7 DEF AuthWork
<1>9. AdminShape(work, label)
  BY <1>4, <1>6, <1>7, <1>8 DEF AdminShape, LinksAreItsOwn, Bumping
<1>10. LinksChecked(w, "users") => LinksChecked(work, label)
  <2>1. \A u \in Users : Touches(work, u) => u \in holders
    BY <1>2, <1>7, <1>8 DEF Touches, AdminShape, UserOperations, RoleOperations
  <2>. QED BY <1>6, <1>7, <1>8, <2>1 DEF LinksChecked
<1>11. AllFree(r, {})
  BY DEF AllFree
<1>. QED BY <1>1, <1>5, <1>6, <1>7, <1>8, <1>9, <1>10, <1>11, AdminGoesOn

\* The increment of a stamp locks the row of its user.
LEMMA BumpStep ==
  ASSUME AuthInvariant, NEW r \in AuthRequests, Bump(r)
  PROVE  AuthInvariant'
<1>1. PICK w : w = authTx[r]
  OBVIOUS
<1>2. PICK u \in w.bump :
        /\ Free(r, u) /\ users[u].stamp < MaxStamp
        /\ AuthGoes(r, Bumping(w.op, w.bump \ {u}),
                    [w EXCEPT !.bump = @ \ {u}, !.bumped = @ \cup {u}, !.locks = @ \cup {u}])
  BY <1>1 DEF Bump
<1>3. PICK work : work = [w EXCEPT !.bump = @ \ {u}, !.bumped = @ \cup {u},
                                   !.locks = @ \cup {u}]
  OBVIOUS
<1>4. PICK label : label = Bumping(w.op, w.bump \ {u})
  OBVIOUS
<1>5. /\ authPc[r] = "bump" /\ AuthGoes(r, label, work)
      /\ UNCHANGED <<accounts, sessions>>
  BY <1>2, <1>3, <1>4 DEF Bump
<1>6. /\ authPc[r] \in AdminLabels /\ label \in {"bump", "delete", "commit"}
      /\ label \in AdminLabels
  BY <1>4, <1>5 DEF AdminLabels, Bumping
<1>7. w \in AuthWork /\ w.op \in AdminOperations /\ w.bumped \subseteq w.locks
      /\ AdminShape(w, "bump")
  BY <1>1, <1>5, <1>6, AdminAtWork
<1>8. u \in Users
  BY <1>2, <1>7 DEF AuthWork
<1>9. /\ work \in AuthWork /\ work.dropped = w.dropped /\ work.locks = w.locks \cup {u}
      /\ work.op = w.op /\ work.fresh = w.fresh /\ work.bumped = w.bumped \cup {u}
      /\ work.owner = w.owner /\ work.wanted = w.wanted /\ work.added = w.added
      /\ work.bump = w.bump \ {u}
  BY <1>3, <1>7, <1>8 DEF AuthWork
<1>10. AdminShape(work, label)
  BY <1>4, <1>6, <1>7, <1>9 DEF AdminShape, LinksAreItsOwn, Bumping
<1>11. LinksChecked(w, "bump") => LinksChecked(work, label)
  <2>1. \A v : Touches(work, v) => Touches(w, v)
    BY <1>9 DEF Touches
  <2>2. work.bump \cup work.bumped = w.bump \cup w.bumped
    BY <1>2, <1>9
  <2>. QED BY <1>6, <1>7, <1>9, <2>1, <2>2 DEF LinksChecked
<1>12. AllFree(r, {u})
  BY <1>2 DEF AllFree
<1>. QED BY <1>1, <1>2, <1>5, <1>6, <1>7, <1>9, <1>10, <1>11, <1>12, AdminGoesOn

\* The cascade drops the links that name the role, its holders being bumped.
LEMMA DeleteRoleStep ==
  ASSUME AuthInvariant, NEW r \in AuthRequests, DeleteRole(r)
  PROVE  AuthInvariant'
<1>1. PICK w : w = authTx[r]
  OBVIOUS
<1>2. PICK naming : naming = {l \in links : w.owner \in {l[1], l[2]}}
  OBVIOUS
<1>3. PICK rows : rows = naming \cup {w.owner}
  OBVIOUS
<1>4. PICK work : work = [w EXCEPT !.dropped = naming, !.locks = @ \cup naming \cup {w.owner}]
  OBVIOUS
<1>5. /\ authPc[r] = "delete" /\ AuthGoes(r, "commit", work) /\ w.owner \in roles
      /\ UNCHANGED <<accounts, sessions>> /\ AllFree(r, rows)
  BY <1>1, <1>2, <1>3, <1>4 DEF DeleteRole, AllFree
<1>6. authPc[r] \in AdminLabels /\ "commit" \in AdminLabels
  BY <1>5 DEF AdminLabels
<1>7. w \in AuthWork /\ w.op \in AdminOperations /\ w.bumped \subseteq w.locks
      /\ AdminShape(w, "delete")
  BY <1>1, <1>5, <1>6, AdminAtWork
<1>8. naming \subseteq Links /\ w.owner \in Roles
  BY <1>2, <1>5 DEF AuthInvariant, AuthTyped, AuthTypeOK
<1>9. /\ work \in AuthWork /\ work.dropped = naming /\ work.locks = w.locks \cup rows
      /\ work.op = w.op /\ work.fresh = w.fresh /\ work.bumped = w.bumped
      /\ work.owner = w.owner /\ work.wanted = w.wanted /\ work.added = w.added
      /\ work.bump = w.bump
  BY <1>3, <1>4, <1>7, <1>8 DEF AuthWork
<1>10. w.op = "delete_role"
  BY <1>7 DEF AdminShape
<1>11. AdminShape(work, "commit")
  BY <1>2, <1>7, <1>9, <1>10 DEF AdminShape, LinksAreItsOwn
<1>12. LinksChecked(w, "delete") => LinksChecked(work, "commit")
  <2>1. \A v : Touches(work, v) => Touches(w, v)
    BY <1>9, <1>10 DEF Touches
  <2>. QED BY <1>7, <1>9, <1>10, <2>1 DEF LinksChecked
<1>. QED BY <1>1, <1>5, <1>6, <1>7, <1>9, <1>11, <1>12, AdminGoesOn

-----------------------------------------------------------------------------
(* Requests of a session *)

\* Where a request of a session may be, and what it does.
SessionLabels == {"user", "rotate", "roles", "grants", "issue", "revoke"}
SessionOperations == {"login", "refresh", "logout"}

\* What holds of a request of a session once it has begun.
LEMMA SessionAtWork ==
  ASSUME AuthInvariant, NEW r \in AuthRequests, authPc[r] \in SessionLabels
  PROVE  /\ authTx[r] \in AuthWork /\ authTx[r].op \in SessionOperations
         /\ SessionShape(authTx[r], authPc[r]) /\ authTx[r].bumped = {}
         /\ TokensHeld(authTx[r]) /\ StampsHeld(authTx[r], authPc[r])
         /\ \A q \in AuthRequests \ {r} : authTx[r].locks \cap authTx[q].locks = {}
         /\ \A q \in AuthRequests \ {r} :
              authTx[r].fresh # Nothing => authTx[r].fresh # authTx[q].fresh
         /\ TokenOperations \notin authOverlapped => TokensChecked(authTx[r])
         /\ AdminOperations \notin authOverlapped => ReadsHold(authTx[r], authPc[r])
<1>1. authTx[r] \in AuthWork /\ AuthShape(authTx[r], authPc[r])
  BY DEF AuthInvariant, AuthTyped
<1>2. authTx[r].op \in Operations
  BY <1>1 DEF AuthWork
<1>3. authTx[r].op \in SessionOperations
  BY <1>1, <1>2 DEF SessionLabels, SessionOperations, AuthShape, AdminShape, Operations,
                    TokenOperations
<1>4. authTx[r].bumped = {}
  BY <1>1, <1>3 DEF AuthShape, SessionOperations, AdminOperations
<1>5. \A q \in AuthRequests \ {r} : authTx[r].locks \cap authTx[q].locks = {}
  BY DEF AuthInvariant, AuthTyped, AuthTypeOK
<1>6. /\ TokensHeld(authTx[r]) /\ StampsHeld(authTx[r], authPc[r])
      /\ TokenOperations \notin authOverlapped => TokensChecked(authTx[r])
      /\ AdminOperations \notin authOverlapped => ReadsHold(authTx[r], authPc[r])
  BY DEF AuthInvariant, TokensSound, StampsSound
<1>7. \A q \in AuthRequests \ {r} :
        authTx[r].fresh # Nothing => authTx[r].fresh # authTx[q].fresh
  BY DEF AuthInvariant, TokensSound, FreshApart
<1>. QED BY <1>1, <1>3, <1>4, <1>5, <1>6, <1>7 DEF AuthShape

\* A step of a request of a session.
LEMMA SessionPrivateStep ==
  ASSUME AuthInvariant, NEW r \in AuthRequests, NEW label \in SessionLabels,
         NEW work \in AuthWork, AuthGoes(r, label, work), UNCHANGED <<accounts, sessions>>,
         authPc[r] = "idle" \/ work.op = authTx[r].op,
         work.op \in SessionOperations, SessionShape(work, label), work.bumped = {},
         \A q \in AuthRequests \ {r} : work.locks \cap authTx[q].locks = {},
         TokensHeld(work), StampsHeld(work, label),
         \A q \in AuthRequests \ {r} : work.fresh # Nothing => work.fresh # authTx[q].fresh,
         TokenOperations \notin authOverlapped => TokensChecked(work),
         AdminOperations \notin authOverlapped => ReadsHold(work, label)
  PROVE  AuthInvariant'
<1>1. work.op \notin AdminOperations \cup {"none"} /\ label \notin {"idle", "ended"}
  BY DEF SessionOperations, AdminOperations, SessionLabels
<1>2. AuthShape(work, label) /\ LinksChecked(work, label)
  BY <1>1 DEF AuthShape, AdminShape, LinksChecked
<1>3. label \in Labels /\ Continues(r, work)
  BY DEF SessionLabels, Labels, Continues
<1>. QED BY <1>2, <1>3, PrivateAuthStep

\* A login reads the stamp with the rest of the user.
LEMMA BeginLoginStep ==
  ASSUME AuthInvariant, NEW r \in AuthRequests, NEW u \in Users, BeginLogin(r, u)
  PROVE  AuthInvariant'
<1>1. PICK stamp : stamp = users[u].stamp
  OBVIOUS
<1>2. PICK work : work = [NoAuthWork EXCEPT !.op = "login", !.owner = u, !.stamp = stamp]
  OBVIOUS
<1>3. /\ authPc[r] = "idle" /\ AuthGoes(r, "roles", work)
      /\ UNCHANGED <<accounts, sessions>>
  BY <1>1, <1>2 DEF BeginLogin, Starts
<1>4. stamp \in 0..MaxStamp
  BY <1>1 DEF AuthInvariant, AuthTyped, AuthTypeOK
<1>5. /\ work \in AuthWork /\ work.op = "login" /\ work.owner = u /\ work.stamp = stamp
      /\ work.fresh = Nothing /\ work.locks = {} /\ work.bumped = {}
  BY <1>2, <1>4, NoAuthWorkTyped DEF AuthWork, Operations
<1>6. /\ SessionShape(work, "roles") /\ TokensHeld(work) /\ TokensChecked(work)
      /\ ReadsHold(work, "roles")
  BY <1>5 DEF SessionShape, TokensHeld, TokensChecked, ReadsHold, TokenOperations
<1>7. StampsHeld(work, "roles")
  BY <1>1, <1>4, <1>5, AuthAssumption DEF StampsHeld
<1>8. "roles" \in SessionLabels /\ work.op \in SessionOperations
  BY <1>5 DEF SessionLabels, SessionOperations
<1>. QED BY <1>3, <1>5, <1>6, <1>7, <1>8, SessionPrivateStep

\* A refresh begins with a token in use.
LEMMA BeginRefreshStep ==
  ASSUME AuthInvariant, NEW r \in AuthRequests, NEW t \in Tokens, BeginRefresh(r, t)
  PROVE  AuthInvariant'
<1>1. PICK u : u = refreshTokens[t].user
  OBVIOUS
<1>2. PICK work : work = [NoAuthWork EXCEPT !.op = "refresh", !.token = t, !.owner = u]
  OBVIOUS
<1>3. /\ authPc[r] = "idle" /\ AuthGoes(r, "user", work) /\ t \in Issued
      /\ refreshTokens[t].live /\ UNCHANGED <<accounts, sessions>>
  BY <1>1, <1>2 DEF BeginRefresh, Starts
<1>4. u \in Users
  BY <1>1, <1>3 DEF AuthInvariant, AuthTyped, AuthTypeOK, Issued, Token
<1>5. /\ work \in AuthWork /\ work.op = "refresh" /\ work.owner = u /\ work.token = t
      /\ work.fresh = Nothing /\ work.locks = {} /\ work.bumped = {}
  BY <1>2, <1>4, NoAuthWorkTyped DEF AuthWork, Operations, TokenOperations
<1>6. /\ SessionShape(work, "user") /\ TokensHeld(work) /\ TokensChecked(work)
      /\ ReadsHold(work, "user") /\ StampsHeld(work, "user")
  BY <1>3, <1>4, <1>5 DEF SessionShape, TokensHeld, TokensChecked, ReadsHold, StampsHeld
<1>7. "user" \in SessionLabels /\ work.op \in SessionOperations
  BY <1>5 DEF SessionLabels, SessionOperations
<1>. QED BY <1>3, <1>5, <1>6, <1>7, SessionPrivateStep

\* A logout finds the tokens of the family that are in use.
LEMMA BeginLogoutStep ==
  ASSUME AuthInvariant, NEW r \in AuthRequests, NEW t \in Tokens, BeginLogout(r, t)
  PROVE  AuthInvariant'
<1>1. PICK seen : seen = Live(refreshTokens[t].family)
  OBVIOUS
<1>2. PICK work : work = [NoAuthWork EXCEPT !.op = "logout", !.token = t, !.seen = seen]
  OBVIOUS
<1>3. /\ authPc[r] = "idle" /\ AuthGoes(r, "revoke", work) /\ t \in Issued
      /\ UNCHANGED <<accounts, sessions>>
  BY <1>1, <1>2 DEF BeginLogout, Starts
<1>4. seen \subseteq Tokens
  BY <1>1 DEF Live, Family, Issued
<1>5. /\ work \in AuthWork /\ work.op = "logout" /\ work.seen = seen /\ work.token = t
      /\ work.fresh = Nothing /\ work.locks = {} /\ work.bumped = {}
  BY <1>2, <1>4, NoAuthWorkTyped DEF AuthWork, Operations, TokenOperations
<1>6. /\ SessionShape(work, "revoke") /\ TokensHeld(work) /\ TokensChecked(work)
      /\ ReadsHold(work, "revoke") /\ StampsHeld(work, "revoke")
  BY <1>1, <1>3, <1>5 DEF SessionShape, TokensHeld, TokensChecked, ReadsHold, StampsHeld
<1>7. "revoke" \in SessionLabels /\ work.op \in SessionOperations
  BY <1>5 DEF SessionLabels, SessionOperations
<1>. QED BY <1>3, <1>5, <1>6, <1>7, SessionPrivateStep

\* A refresh reads the stamp before the links.
LEMMA ReadUserStep ==
  ASSUME AuthInvariant, NEW r \in AuthRequests, ReadUser(r)
  PROVE  AuthInvariant'
<1>1. PICK w : w = authTx[r]
  OBVIOUS
<1>2. PICK stamp : stamp = users[w.owner].stamp
  OBVIOUS
<1>3. PICK work : work = [w EXCEPT !.stamp = stamp]
  OBVIOUS
<1>4. /\ authPc[r] = "user" /\ AuthGoes(r, "rotate", work)
      /\ UNCHANGED <<accounts, sessions>>
  BY <1>1, <1>2, <1>3 DEF ReadUser
<1>5. /\ w \in AuthWork /\ w.op \in SessionOperations /\ SessionShape(w, "user")
      /\ w.bumped = {} /\ TokensHeld(w)
      /\ \A q \in AuthRequests \ {r} : w.locks \cap authTx[q].locks = {}
      /\ TokenOperations \notin authOverlapped => TokensChecked(w)
  BY <1>1, <1>4, SessionAtWork DEF SessionLabels
<1>6. w.op = "refresh" /\ w.owner \in Users /\ w.fresh = Nothing
  BY <1>5 DEF SessionShape, SessionOperations
<1>7. stamp \in 0..MaxStamp
  BY <1>2, <1>6 DEF AuthInvariant, AuthTyped, AuthTypeOK
<1>8. /\ work \in AuthWork /\ work.op = w.op /\ work.owner = w.owner /\ work.stamp = stamp
      /\ work.fresh = Nothing /\ work.locks = w.locks /\ work.bumped = {}
      /\ work.token = w.token
  BY <1>3, <1>5, <1>6, <1>7 DEF AuthWork
<1>9. SessionShape(work, "rotate") /\ TokensHeld(work) /\ ReadsHold(work, "rotate")
  BY <1>5, <1>6, <1>8 DEF SessionShape, TokensHeld, ReadsHold
<1>10. StampsHeld(work, "rotate")
  BY <1>2, <1>7, <1>8, AuthAssumption DEF StampsHeld
<1>11. TokenOperations \notin authOverlapped => TokensChecked(work)
  BY <1>5, <1>6, <1>8 DEF TokensChecked
<1>12. "rotate" \in SessionLabels
  BY DEF SessionLabels
<1>. QED BY <1>1, <1>4, <1>5, <1>8, <1>9, <1>10, <1>11, <1>12, SessionPrivateStep

\* The token that is to follow is one that nobody else has.
LEMMA RotateStep ==
  ASSUME AuthInvariant, NEW r \in AuthRequests, Rotate(r)
  PROVE  AuthInvariant'
<1>1. PICK w : w = authTx[r]
  OBVIOUS
<1>2. PICK s \in Fresh :
        AuthGoes(r, "roles", [w EXCEPT !.fresh = s, !.locks = {w.token}])
  BY <1>1 DEF Rotate
<1>3. PICK work : work = [w EXCEPT !.fresh = s, !.locks = {w.token}]
  OBVIOUS
<1>4. /\ authPc[r] = "rotate" /\ AuthGoes(r, "roles", work) /\ Free(r, w.token)
      /\ UNCHANGED <<accounts, sessions>>
  BY <1>1, <1>2, <1>3 DEF Rotate
<1>5. /\ w \in AuthWork /\ w.op \in SessionOperations /\ SessionShape(w, "rotate")
      /\ w.bumped = {} /\ TokensHeld(w) /\ StampsHeld(w, "rotate")
      /\ TokenOperations \notin authOverlapped => TokensChecked(w)
  BY <1>1, <1>4, SessionAtWork DEF SessionLabels
<1>6. w.op = "refresh" /\ w.owner \in Users /\ w.token \in Tokens
  BY <1>5 DEF SessionShape, SessionOperations
<1>7. s \in Tokens /\ s \notin Issued /\ \A q \in AuthRequests : authTx[q].fresh # s
  BY DEF Fresh
<1>8. s # Nothing
  BY <1>7, AuthAssumption
<1>9. /\ work \in AuthWork /\ work.op = "refresh" /\ work.owner = w.owner
      /\ work.stamp = w.stamp /\ work.fresh = s /\ work.locks = {w.token}
      /\ work.bumped = {} /\ work.token = w.token
  BY <1>3, <1>5, <1>6, <1>7 DEF AuthWork
<1>10. SessionShape(work, "roles") /\ TokensHeld(work) /\ ReadsHold(work, "roles")
  BY <1>5, <1>6, <1>7, <1>8, <1>9 DEF SessionShape, TokensHeld, ReadsHold, TokenOperations
<1>11. StampsHeld(work, "roles")
  BY <1>5, <1>6, <1>9 DEF StampsHeld
<1>12. TokenOperations \notin authOverlapped => TokensChecked(work)
  BY <1>5, <1>6, <1>9 DEF TokensChecked
<1>13. \A q \in AuthRequests \ {r} : work.locks \cap authTx[q].locks = {}
  BY <1>4, <1>9 DEF Free
<1>14. "roles" \in SessionLabels /\ work.op \in SessionOperations /\ work.op = w.op
  BY <1>6, <1>9 DEF SessionLabels, SessionOperations
<1>. QED BY <1>1, <1>4, <1>7, <1>9, <1>10, <1>11, <1>12, <1>13, <1>14, SessionPrivateStep

\* The roles are read after the stamp.
LEMMA ReadRolesStep ==
  ASSUME AuthInvariant, NEW r \in AuthRequests, ReadRoles(r)
  PROVE  AuthInvariant'
<1>1. PICK w : w = authTx[r]
  OBVIOUS
<1>2. PICK held : held = HeldBy(w.owner)
  OBVIOUS
<1>3. PICK work : work = [w EXCEPT !.held = held]
  OBVIOUS
<1>4. /\ authPc[r] = "roles" /\ AuthGoes(r, "grants", work)
      /\ UNCHANGED <<accounts, sessions>>
  BY <1>1, <1>2, <1>3 DEF ReadRoles
<1>5. /\ w \in AuthWork /\ w.op \in SessionOperations /\ SessionShape(w, "roles")
      /\ w.bumped = {} /\ TokensHeld(w) /\ StampsHeld(w, "roles")
      /\ \A q \in AuthRequests \ {r} : w.locks \cap authTx[q].locks = {}
      /\ \A q \in AuthRequests \ {r} : w.fresh # Nothing => w.fresh # authTx[q].fresh
      /\ TokenOperations \notin authOverlapped => TokensChecked(w)
  BY <1>1, <1>4, SessionAtWork DEF SessionLabels
<1>6. w.op \in {"login", "refresh"} /\ w.owner \in Users
  BY <1>5 DEF SessionShape, SessionOperations
<1>7. held \subseteq Roles
  BY <1>2, <1>6, HeldTyped DEF AuthInvariant, AuthTyped, AuthTypeOK
<1>8. /\ work \in AuthWork /\ work.op = w.op /\ work.owner = w.owner
      /\ work.stamp = w.stamp /\ work.fresh = w.fresh /\ work.locks = w.locks
      /\ work.bumped = {} /\ work.token = w.token /\ work.held = held
  BY <1>3, <1>5, <1>7 DEF AuthWork
<1>9. SessionShape(work, "grants") /\ TokensHeld(work) /\ ReadsHold(work, "grants")
  BY <1>2, <1>5, <1>6, <1>8 DEF SessionShape, TokensHeld, ReadsHold, TokenOperations
<1>10. StampsHeld(work, "grants")
  BY <1>5, <1>6, <1>8 DEF StampsHeld
<1>11. TokenOperations \notin authOverlapped => TokensChecked(work)
  BY <1>5, <1>6, <1>8 DEF TokensChecked
<1>12. "grants" \in SessionLabels
  BY DEF SessionLabels
<1>. QED BY <1>1, <1>4, <1>5, <1>8, <1>9, <1>10, <1>11, <1>12, SessionPrivateStep

\* What the roles grant is what the user may do, if the stamp has not changed.
LEMMA ReadGrantsStep ==
  ASSUME AuthInvariant, NEW r \in AuthRequests, ReadGrants(r)
  PROVE  AuthInvariant'
<1>1. PICK w : w = authTx[r]
  OBVIOUS
<1>2. PICK granted : granted = GrantedBy(w.held)
  OBVIOUS
<1>3. PICK work : work = [w EXCEPT !.permissions = granted]
  OBVIOUS
<1>4. /\ authPc[r] = "grants" /\ AuthGoes(r, "issue", work)
      /\ UNCHANGED <<accounts, sessions>>
  BY <1>1, <1>2, <1>3 DEF ReadGrants
<1>5. /\ w \in AuthWork /\ w.op \in SessionOperations /\ SessionShape(w, "grants")
      /\ w.bumped = {} /\ TokensHeld(w) /\ StampsHeld(w, "grants")
      /\ \A q \in AuthRequests \ {r} : w.locks \cap authTx[q].locks = {}
      /\ \A q \in AuthRequests \ {r} : w.fresh # Nothing => w.fresh # authTx[q].fresh
      /\ TokenOperations \notin authOverlapped => TokensChecked(w)
      /\ AdminOperations \notin authOverlapped => ReadsHold(w, "grants")
  BY <1>1, <1>4, SessionAtWork DEF SessionLabels
<1>6. w.op \in {"login", "refresh"} /\ w.owner \in Users
  BY <1>5 DEF SessionShape, SessionOperations
<1>7. granted \subseteq Permissions
  BY <1>2, <1>5, GrantedTyped DEF AuthInvariant, AuthTyped, AuthTypeOK, AuthWork
<1>8. /\ work \in AuthWork /\ work.op = w.op /\ work.owner = w.owner
      /\ work.stamp = w.stamp /\ work.fresh = w.fresh /\ work.locks = w.locks
      /\ work.bumped = {} /\ work.token = w.token /\ work.permissions = granted
  BY <1>3, <1>5, <1>7 DEF AuthWork
<1>9. SessionShape(work, "issue") /\ TokensHeld(work)
  BY <1>5, <1>6, <1>8 DEF SessionShape, TokensHeld, TokenOperations
<1>10. StampsHeld(work, "issue")
  BY <1>5, <1>6, <1>8 DEF StampsHeld
<1>11. TokenOperations \notin authOverlapped => TokensChecked(work)
  BY <1>5, <1>6, <1>8 DEF TokensChecked
<1>12. AdminOperations \notin authOverlapped => ReadsHold(work, "issue")
  BY <1>2, <1>5, <1>8 DEF ReadsHold, PermissionsOf
<1>13. "issue" \in SessionLabels
  BY DEF SessionLabels
<1>. QED BY <1>1, <1>4, <1>5, <1>8, <1>9, <1>10, <1>11, <1>12, <1>13, SessionPrivateStep

-----------------------------------------------------------------------------
(* Steps that change the rows of tokens *)

\* What the end of a request leaves, whatever rows it has changed.
LEMMA EndsStep ==
  ASSUME AuthInvariant, NEW r \in AuthRequests, Ends(r)
  PROVE  /\ authTx'[r] = NoAuthWork /\ authPc'[r] = "ended"
         /\ \A q \in AuthRequests \ {r} : authTx'[q] = authTx[q] /\ authPc'[q] = authPc[q]
         /\ authTx' \in [AuthRequests -> AuthWork] /\ authPc' \in [AuthRequests -> Labels]
         /\ authOverlapped \subseteq authOverlapped' /\ authOverlapped' \subseteq Groups
         /\ \A p, q \in AuthRequests : p # q => authTx'[p].locks \cap authTx'[q].locks = {}
         /\ (\A q \in AuthRequests : AuthShape(authTx[q], authPc[q]))'
         /\ OneOfEachGroup' /\ FreshApart'
<1>1. AuthTyped /\ OneOfEachGroup /\ FreshApart
  BY DEF AuthInvariant, TokensSound
<1>2. AuthGoes(r, "ended", NoAuthWork) /\ "ended" \in Labels
  BY DEF Ends, Labels
<1>3. /\ authTx'[r] = NoAuthWork /\ authPc'[r] = "ended"
      /\ \A q \in AuthRequests \ {r} : authTx'[q] = authTx[q] /\ authPc'[q] = authPc[q]
      /\ authTx' \in [AuthRequests -> AuthWork] /\ authPc' \in [AuthRequests -> Labels]
      /\ authOverlapped \subseteq authOverlapped' /\ authOverlapped' \subseteq Groups
  BY <1>1, <1>2, GoesStep, NoAuthWorkTyped
<1>4. \A p, q \in AuthRequests : p # q => authTx'[p].locks \cap authTx'[q].locks = {}
  BY <1>1, <1>2, LocksKept, NoAuthWorkTyped
<1>5. \A q \in AuthRequests : AuthShape(authTx'[q], authPc'[q])
  BY <1>3, NoAuthWorkSound DEF AuthInvariant
<1>6. (\A q \in AuthRequests : AuthShape(authTx[q], authPc[q]))'
  BY <1>5 DEF AuthShape, SessionShape, AdminShape, LinksAreItsOwn
<1>7. OneOfEachGroup'
  BY <1>1, <1>2, GroupsKept, NoAuthWorkTyped DEF Continues
<1>8. FreshApart'
  BY <1>1, <1>3, NoAuthWorkTyped DEF FreshApart
<1>. QED BY <1>3, <1>4, <1>6, <1>7, <1>8

\* What is said of stamps, when the rows of users and links stay and the access tokens
\* that are added vouch for their permissions.
LEMMA StampsKept ==
  ASSUME AuthInvariant, NEW r \in AuthRequests, Ends(r), UNCHANGED accounts,
         \A a \in access' : a \in access \/
           /\ a.stamp <= users[a.user].stamp
           /\ AdminOperations \notin authOverlapped /\ a.stamp = users[a.user].stamp =>
                a.permissions = PermissionsOf(a.user)
  PROVE  StampsSound'
<1>. USE DEF accounts
<1>1. /\ authTx'[r] = NoAuthWork /\ authPc'[r] = "ended"
      /\ \A q \in AuthRequests \ {r} : authTx'[q] = authTx[q] /\ authPc'[q] = authPc[q]
      /\ authOverlapped \subseteq authOverlapped'
  BY EndsStep
<1>2. /\ \A u : HeldBy(u)' = HeldBy(u) /\ PermissionsOf(u)' = PermissionsOf(u)
      /\ \A w, l : StampsHeld(w, l)' <=> StampsHeld(w, l)
      /\ \A w, l : ReadsHold(w, l)' <=> ReadsHold(w, l)
      /\ \A w, l : LinksChecked(w, l)' <=> LinksChecked(w, l)
  BY StampsLookAt
<1>3. /\ StampsHeld(NoAuthWork, "ended") /\ ReadsHold(NoAuthWork, "ended")
      /\ LinksChecked(NoAuthWork, "ended")
  BY NoAuthWorkSound
<1>4. StampsSound
  BY DEF AuthInvariant
<1>5. \A a \in access' : a.stamp <= users[a.user].stamp
  BY <1>4 DEF StampsSound
<1>6. \A q \in AuthRequests : StampsHeld(authTx'[q], authPc'[q])
  BY <1>1, <1>3, <1>4 DEF StampsSound
<1>7. ASSUME AdminOperations \notin authOverlapped'
      PROVE  /\ \A a \in access' :
                  a.stamp = users[a.user].stamp => a.permissions = PermissionsOf(a.user)
             /\ \A q \in AuthRequests :
                  ReadsHold(authTx'[q], authPc'[q]) /\ LinksChecked(authTx'[q], authPc'[q])
  BY <1>1, <1>3, <1>4, <1>7 DEF StampsSound, AccessHolds
<1>. QED BY <1>2, <1>5, <1>6, <1>7 DEF StampsSound, AccessHolds

\* What is said of tokens, when their rows stay.
LEMMA TokensKept ==
  ASSUME AuthInvariant, NEW r \in AuthRequests, Ends(r),
         UNCHANGED <<refreshTokens, loggedOut>>
  PROVE  TokensSound'
<1>1. /\ authTx'[r] = NoAuthWork /\ FreshApart'
      /\ \A q \in AuthRequests \ {r} : authTx'[q] = authTx[q]
      /\ authOverlapped \subseteq authOverlapped'
  BY EndsStep
<1>2. /\ Issued' = Issued /\ \A f : Live(f)' = Live(f)
      /\ \A w : TokensHeld(w)' <=> TokensHeld(w)
      /\ \A w : TokensChecked(w)' <=> TokensChecked(w)
  BY TokensLookAt
<1>3. TokensHeld(NoAuthWork) /\ TokensChecked(NoAuthWork)
  BY NoAuthWorkSound
<1>4. TokensSound
  BY DEF AuthInvariant
<1>5. \A q \in AuthRequests : TokensHeld(authTx'[q])
  BY <1>1, <1>3, <1>4 DEF TokensSound
<1>6. TokenOperations \notin authOverlapped' =>
        OneInUse /\ \A q \in AuthRequests : TokensChecked(authTx'[q])
  BY <1>1, <1>3, <1>4 DEF TokensSound
<1>7. OneInUse => OneInUse'
  BY <1>2 DEF OneInUse
<1>. QED BY <1>1, <1>2, <1>4, <1>5, <1>6, <1>7 DEF TokensSound

\* The token a user is given names the user, and the rest of the tokens do.
LEMMA IssuedTyped ==
  ASSUME AuthInvariant
  PROVE  /\ refreshTokens \in [Tokens -> Token \cup {NoToken}]
         /\ \A t \in Issued : /\ t \in Tokens /\ refreshTokens[t] \in Token
                              /\ refreshTokens[t].family \in Issued
         /\ NoToken \notin Token /\ NoToken.live = FALSE
<1>1. refreshTokens \in [Tokens -> Token \cup {NoToken}]
  BY DEF AuthInvariant, AuthTyped, AuthTypeOK
<1>2. \A t \in Issued : refreshTokens[t].family \in Issued
  BY DEF AuthInvariant, TokensSound
<1>3. NoToken \notin Token /\ NoToken.live = FALSE
  BY AuthAssumption DEF NoToken, Token
<1>. QED BY <1>1, <1>2, <1>3 DEF Issued

\* The access token a request issues carries what its user had when its stamp was read.
LEMMA IssuesAccess ==
  ASSUME AuthInvariant, NEW r \in AuthRequests, authPc[r] = "issue", NEW a, a = AccessToken(r)
  PROVE  /\ a \in [user: Users, stamp: 0..MaxStamp, permissions: SUBSET Permissions]
         /\ a.stamp <= users[a.user].stamp
         /\ AdminOperations \notin authOverlapped /\ a.stamp = users[a.user].stamp =>
              a.permissions = PermissionsOf(a.user)
<1>1. PICK w : w = authTx[r]
  OBVIOUS
<1>2. /\ w \in AuthWork /\ w.op \in SessionOperations /\ SessionShape(w, "issue")
      /\ StampsHeld(w, "issue")
      /\ AdminOperations \notin authOverlapped => ReadsHold(w, "issue")
  BY <1>1, SessionAtWork DEF SessionLabels
<1>3. w.op \in {"login", "refresh"} /\ w.owner \in Users
  BY <1>2 DEF SessionShape, SessionOperations
<1>4. a = [user |-> w.owner, stamp |-> w.stamp, permissions |-> w.permissions]
  BY <1>1 DEF AccessToken
<1>5. w.stamp \in 0..MaxStamp /\ w.permissions \subseteq Permissions
  BY <1>2 DEF AuthWork
<1>6. w.stamp <= users[w.owner].stamp
  BY <1>2, <1>3 DEF StampsHeld
<1>7. AdminOperations \notin authOverlapped /\ w.stamp = users[w.owner].stamp =>
        w.permissions = PermissionsOf(w.owner)
  BY <1>2 DEF ReadsHold
<1>. QED BY <1>3, <1>4, <1>5, <1>6, <1>7

\* A login issues the first token of a session.
LEMMA IssueLoginStep ==
  ASSUME AuthInvariant, NEW r \in AuthRequests, IssueLogin(r)
  PROVE  AuthInvariant'
<1>1. PICK w : w = authTx[r]
  OBVIOUS
<1>2. PICK s \in Fresh : refreshTokens' = [refreshTokens EXCEPT ![s] =
        [user |-> w.owner, family |-> s, live |-> TRUE, replacedBy |-> Nothing]]
  BY <1>1 DEF IssueLogin
<1>3. PICK a : a = AccessToken(r)
  OBVIOUS
<1>4. /\ authPc[r] = "issue" /\ w.op = "login" /\ Ends(r) /\ UNCHANGED accounts
      /\ access' = access \cup {a} /\ expired' = expired /\ loggedOut' = loggedOut
  BY <1>1, <1>3 DEF IssueLogin
<1>5. w.owner \in Users
  BY <1>1, <1>4, SessionAtWork DEF SessionLabels, SessionShape
<1>6. s \in Tokens /\ s \notin Issued /\ \A q \in AuthRequests : authTx[q].fresh # s
  BY DEF Fresh
<1>7. PICK row : row = [user |-> w.owner, family |-> s, live |-> TRUE, replacedBy |-> Nothing]
  OBVIOUS
<1>8. row \in Token /\ row.family = s
  BY <1>5, <1>6, <1>7 DEF Token
<1>9. /\ refreshTokens \in [Tokens -> Token \cup {NoToken}]
      /\ \A t \in Issued : refreshTokens[t].family \in Issued /\ t \in Tokens
      /\ NoToken \notin Token
  BY IssuedTyped
<1>10. /\ refreshTokens' \in [Tokens -> Token \cup {NoToken}] /\ refreshTokens'[s] = row
       /\ \A t \in Tokens \ {s} : refreshTokens'[t] = refreshTokens[t]
  BY <1>2, <1>6, <1>7, <1>8, <1>9
<1>11. Issued' = Issued \cup {s}
  BY <1>6, <1>8, <1>9, <1>10 DEF Issued, NoToken
<1>12. \A f \in Issued : Live(f)' = Live(f)
  BY <1>6, <1>8, <1>9, <1>10, <1>11 DEF Live, Family
<1>13. \A f \in Tokens \ {s} : Live(f)' = Live(f)
  BY <1>6, <1>8, <1>9, <1>10, <1>11 DEF Live, Family
<1>14. Live(s)' \subseteq {s}
  BY <1>6, <1>8, <1>9, <1>10, <1>11 DEF Live, Family
<1>15. /\ authTx'[r] = NoAuthWork /\ authPc'[r] = "ended"
       /\ \A q \in AuthRequests \ {r} : authTx'[q] = authTx[q] /\ authPc'[q] = authPc[q]
       /\ authTx' \in [AuthRequests -> AuthWork] /\ authPc' \in [AuthRequests -> Labels]
       /\ authOverlapped \subseteq authOverlapped' /\ authOverlapped' \subseteq Groups
       /\ \A p, q \in AuthRequests : p # q => authTx'[p].locks \cap authTx'[q].locks = {}
       /\ (\A q \in AuthRequests : AuthShape(authTx[q], authPc[q]))'
       /\ OneOfEachGroup' /\ FreshApart'
  BY <1>4, EndsStep
<1>16. AuthTyped'
  <2>1. a \in [user: Users, stamp: 0..MaxStamp, permissions: SUBSET Permissions]
    BY <1>3, <1>4, IssuesAccess
  <2>. QED BY <1>4, <1>10, <1>11, <1>15, <2>1 DEF AuthInvariant, AuthTyped, AuthTypeOK, accounts
<1>17. TokensSound'
  <2>1. TokensSound
    BY DEF AuthInvariant
  <2>2. \A t \in Issued' : refreshTokens'[t].family \in Issued'
    BY <1>6, <1>8, <1>9, <1>10, <1>11
  <2>3. ASSUME NEW q \in AuthRequests
        PROVE  TokensHeld(authTx[q])'
    <3>1. CASE q = r
      BY <1>15, <3>1, NoAuthWorkTyped DEF TokensHeld, TokenOperations
    <3>2. CASE q # r
      BY <1>6, <1>11, <1>15, <2>1, <3>2 DEF TokensSound, TokensHeld
    <3>. QED BY <3>1, <3>2
  <2>4. ASSUME TokenOperations \notin authOverlapped'
        PROVE  OneInUse' /\ \A q \in AuthRequests : TokensChecked(authTx[q])'
    <3>1. OneInUse /\ \A q \in AuthRequests : TokensChecked(authTx[q])
      BY <1>15, <2>1, <2>4 DEF TokensSound
    <3>2. OneInUse'
      <4>1. \A f \in loggedOut : f \in Issued
        BY <2>1 DEF TokensSound
      <4>. QED BY <1>4, <1>12, <1>13, <1>14, <3>1, <4>1 DEF OneInUse
    <3>3. ASSUME NEW q \in AuthRequests \ {r}
          PROVE  TokensChecked(authTx[q])'
      <4>1. authTx'[q] = authTx[q] /\ TokensHeld(authTx[q]) /\ TokensChecked(authTx[q])
        BY <1>15, <2>1, <3>1 DEF TokensSound
      <4>2. authTx[q].op \in TokenOperations =>
              /\ refreshTokens'[authTx[q].token] = refreshTokens[authTx[q].token]
              /\ refreshTokens[authTx[q].token].family \in Issued
        BY <1>6, <1>9, <1>10, <4>1 DEF TokensHeld
      <4>. QED BY <1>12, <4>1, <4>2 DEF TokensChecked, TokenOperations
    <3>4. TokensChecked(authTx[r])'
      BY <1>15, NoAuthWorkTyped DEF TokensChecked
    <3>5. \A q \in AuthRequests : TokensChecked(authTx[q])'
      BY <3>3, <3>4
    <3>. QED BY <3>2, <3>5
  <2>5. loggedOut' \subseteq Issued'
    BY <1>4, <1>11, <2>1 DEF TokensSound
  <2>. QED BY <1>15, <2>2, <2>3, <2>4, <2>5 DEF TokensSound
<1>18. StampsSound'
  <2>1. /\ a.stamp <= users[a.user].stamp
        /\ AdminOperations \notin authOverlapped /\ a.stamp = users[a.user].stamp =>
             a.permissions = PermissionsOf(a.user)
    BY <1>3, <1>4, IssuesAccess
  <2>. QED BY <1>4, <2>1, StampsKept
<1>. QED BY <1>15, <1>16, <1>17, <1>18 DEF AuthInvariant

\* A refresh replaces the one token in use of its session.
LEMMA IssueRefreshStep ==
  ASSUME AuthInvariant, NEW r \in AuthRequests, IssueRefresh(r)
  PROVE  AuthInvariant'
<1>1. PICK w : w = authTx[r]
  OBVIOUS
<1>2. PICK t : t = w.token
  OBVIOUS
<1>3. PICK s : s = w.fresh
  OBVIOUS
<1>4. PICK f : f = refreshTokens[t].family
  OBVIOUS
<1>5. PICK row : row = [user |-> w.owner, family |-> f, live |-> TRUE, replacedBy |-> Nothing]
  OBVIOUS
<1>6. PICK spent : spent = [refreshTokens[t] EXCEPT !.live = FALSE, !.replacedBy = s]
  OBVIOUS
<1>7. PICK a : a = AccessToken(r)
  OBVIOUS
<1>8. /\ authPc[r] = "issue" /\ w.op = "refresh" /\ Ends(r) /\ UNCHANGED accounts
      /\ access' = access \cup {a} /\ expired' = expired /\ loggedOut' = loggedOut
      /\ refreshTokens' = [refreshTokens EXCEPT ![t].live = FALSE, ![t].replacedBy = s,
                                                ![s] = row]
  BY <1>1, <1>2, <1>3, <1>4, <1>5, <1>7 DEF IssueRefresh
<1>9. /\ w \in AuthWork /\ SessionShape(w, "issue") /\ TokensHeld(w)
      /\ TokenOperations \notin authOverlapped => TokensChecked(w)
      /\ \A q \in AuthRequests \ {r} : s # Nothing => s # authTx[q].fresh
  BY <1>1, <1>3, <1>8, SessionAtWork DEF SessionLabels
<1>10. w.owner \in Users /\ s \in Tokens /\ s # Nothing
  BY <1>3, <1>8, <1>9 DEF SessionShape, AuthWork
<1>11. t \in Issued /\ s \notin Issued /\ s # t
  BY <1>2, <1>3, <1>8, <1>9, <1>10 DEF TokensHeld, TokenOperations
<1>12. /\ refreshTokens \in [Tokens -> Token \cup {NoToken}]
       /\ \A k \in Issued : refreshTokens[k].family \in Issued /\ k \in Tokens
                            /\ refreshTokens[k] \in Token
       /\ NoToken \notin Token
  BY IssuedTyped
<1>13. t \in Tokens /\ refreshTokens[t] \in Token /\ f \in Issued /\ f \in Tokens
  BY <1>4, <1>11, <1>12
<1>14. spent \in Token /\ spent.family = f /\ spent.live = FALSE
  BY <1>4, <1>6, <1>10, <1>13 DEF Token
<1>15. row \in Token /\ row.family = f /\ row.live = TRUE
  BY <1>5, <1>10, <1>13 DEF Token
<1>16. /\ refreshTokens' \in [Tokens -> Token \cup {NoToken}]
       /\ refreshTokens'[s] = row /\ refreshTokens'[t] = spent
       /\ \A k \in Tokens \ {s, t} : refreshTokens'[k] = refreshTokens[k]
  <2>1. refreshTokens' = [k \in Tokens |-> IF k = s THEN row ELSE IF k = t THEN spent
                                           ELSE refreshTokens[k]]
    BY <1>6, <1>8, <1>10, <1>11, <1>12, <1>13
  <2>. QED BY <1>10, <1>11, <1>12, <1>13, <1>14, <1>15, <2>1
<1>17. Issued' = Issued \cup {s}
  <2>1. \A k \in Tokens \ {s, t} : k \in Issued' <=> k \in Issued
    BY <1>16 DEF Issued, NoToken
  <2>2. s \in Issued' /\ t \in Issued'
    BY <1>10, <1>12, <1>13, <1>14, <1>15, <1>16 DEF Issued, NoToken
  <2>. QED BY <1>11, <2>1, <2>2 DEF Issued
<1>18. \A k : k # f => Live(k)' = Live(k)
  <2>1. ASSUME NEW k, k # f
        PROVE  Live(k)' = Live(k)
    <3>1. \A m : m \in Live(k)' <=> m \in Issued' /\ refreshTokens'[m].family = k
                                    /\ refreshTokens'[m].live
      BY DEF Live, Family
    <3>2. \A m : m \in Live(k) <=> m \in Issued /\ refreshTokens[m].family = k
                                   /\ refreshTokens[m].live
      BY DEF Live, Family
    <3>3. s \notin Live(k)' /\ t \notin Live(k)'
      BY <1>14, <1>15, <1>16, <2>1, <3>1
    <3>4. s \notin Live(k) /\ t \notin Live(k)
      BY <1>4, <1>11, <2>1, <3>2
    <3>5. \A m \in Tokens \ {s, t} : m \in Live(k)' <=> m \in Live(k)
      BY <1>16, <1>17, <3>1, <3>2
    <3>. QED BY <1>12, <3>3, <3>4, <3>5 DEF Live, Family, Issued
  <2>. QED BY <2>1
<1>19. Live(f)' \subseteq {s} \cup (Live(f) \ {t})
  <2>1. ASSUME NEW m \in Live(f)', m # s
        PROVE  m \in Live(f) \ {t}
    <3>1. m \in Issued' /\ refreshTokens'[m].family = f /\ refreshTokens'[m].live
      BY DEF Live, Family
    <3>2. m \in Issued /\ m # t /\ refreshTokens'[m] = refreshTokens[m]
      BY <1>12, <1>14, <1>16, <1>17, <2>1, <3>1
    <3>. QED BY <3>1, <3>2 DEF Live, Family
  <2>. QED BY <2>1
<1>20. /\ authTx'[r] = NoAuthWork /\ authPc'[r] = "ended"
       /\ \A q \in AuthRequests \ {r} : authTx'[q] = authTx[q] /\ authPc'[q] = authPc[q]
       /\ authTx' \in [AuthRequests -> AuthWork] /\ authPc' \in [AuthRequests -> Labels]
       /\ authOverlapped \subseteq authOverlapped' /\ authOverlapped' \subseteq Groups
       /\ \A p, q \in AuthRequests : p # q => authTx'[p].locks \cap authTx'[q].locks = {}
       /\ (\A q \in AuthRequests : AuthShape(authTx[q], authPc[q]))'
       /\ OneOfEachGroup' /\ FreshApart'
  BY <1>8, EndsStep
<1>21. AuthTyped'
  <2>1. a \in [user: Users, stamp: 0..MaxStamp, permissions: SUBSET Permissions]
    BY <1>7, <1>8, IssuesAccess
  <2>. QED BY <1>8, <1>16, <1>17, <1>20, <2>1 DEF AuthInvariant, AuthTyped, AuthTypeOK, accounts
<1>22. TokensSound'
  <2>1. TokensSound
    BY DEF AuthInvariant
  <2>2. \A k \in Issued' : refreshTokens'[k].family \in Issued'
    BY <1>11, <1>12, <1>13, <1>14, <1>15, <1>16, <1>17
  <2>3. ASSUME NEW q \in AuthRequests
        PROVE  TokensHeld(authTx[q])'
    <3>1. CASE q = r
      BY <1>20, <3>1, NoAuthWorkTyped DEF TokensHeld, TokenOperations
    <3>2. CASE q # r
      BY <1>9, <1>10, <1>17, <1>20, <2>1, <3>2 DEF TokensSound, TokensHeld
    <3>. QED BY <3>1, <3>2
  <2>4. ASSUME TokenOperations \notin authOverlapped'
        PROVE  OneInUse' /\ \A q \in AuthRequests : TokensChecked(authTx[q])'
    <3>1. OneInUse /\ refreshTokens[t].live
      BY <1>2, <1>8, <1>9, <1>20, <2>1, <2>4 DEF TokensSound, TokensChecked
    <3>2. t \in Live(f)
      BY <1>4, <1>11, <3>1 DEF Live, Family
    <3>3. Live(f) = {t} /\ f \notin loggedOut
      BY <1>13, <3>1, <3>2 DEF OneInUse
    <3>4. Live(f)' \subseteq {s}
      BY <1>19, <3>3
    <3>5. OneInUse'
      BY <1>8, <1>18, <3>1, <3>3, <3>4 DEF OneInUse
    <3>6. \A q \in AuthRequests \ {r} : authTx[q].op \notin TokenOperations
      <4>1. OneOfEachGroup /\ TokenOperations \in Groups \ authOverlapped
        BY <1>20, <2>4 DEF AuthInvariant, Groups
      <4>2. authTx[r].op \in TokenOperations
        BY <1>1, <1>8 DEF TokenOperations
      <4>. QED BY <4>1, <4>2 DEF OneOfEachGroup
    <3>7. \A q \in AuthRequests : authTx'[q].op \notin {"refresh", "logout"}
      BY <1>20, <3>6, NoAuthWorkTyped DEF TokenOperations
    <3>. QED BY <3>5, <3>7 DEF TokensChecked
  <2>5. loggedOut' \subseteq Issued'
    BY <1>8, <1>17, <2>1 DEF TokensSound
  <2>. QED BY <1>20, <2>2, <2>3, <2>4, <2>5 DEF TokensSound
<1>23. StampsSound'
  <2>1. /\ a.stamp <= users[a.user].stamp
        /\ AdminOperations \notin authOverlapped /\ a.stamp = users[a.user].stamp =>
             a.permissions = PermissionsOf(a.user)
    BY <1>7, <1>8, IssuesAccess
  <2>. QED BY <1>8, <2>1, StampsKept
<1>. QED BY <1>20, <1>21, <1>22, <1>23 DEF AuthInvariant

\* A logout leaves its session no token in use.
LEMMA RevokeFamilyStep ==
  ASSUME AuthInvariant, NEW r \in AuthRequests, RevokeFamily(r)
  PROVE  AuthInvariant'
<1>1. PICK w : w = authTx[r]
  OBVIOUS
<1>2. PICK f : f = refreshTokens[w.token].family
  OBVIOUS
<1>3. /\ authPc[r] = "revoke" /\ Ends(r) /\ UNCHANGED accounts
      /\ access' = access /\ expired' = expired /\ loggedOut' = loggedOut \cup {f}
      /\ refreshTokens' = [t \in Tokens |->
           IF t \in w.seen THEN [refreshTokens[t] EXCEPT !.live = FALSE] ELSE refreshTokens[t]]
  BY <1>1, <1>2 DEF RevokeFamily
<1>4. /\ w \in AuthWork /\ w.op \in SessionOperations /\ SessionShape(w, "revoke")
      /\ TokensHeld(w)
      /\ TokenOperations \notin authOverlapped => TokensChecked(w)
  BY <1>1, <1>3, SessionAtWork DEF SessionLabels
<1>5. w.op = "logout" /\ w.token \in Issued
  BY <1>4 DEF SessionShape, SessionOperations, TokensHeld, TokenOperations
<1>6. /\ refreshTokens \in [Tokens -> Token \cup {NoToken}]
      /\ \A t \in Issued : t \in Tokens /\ refreshTokens[t] \in Token
                           /\ refreshTokens[t].family \in Issued
      /\ NoToken \notin Token
  BY IssuedTyped
<1>7. f \in Issued /\ f \in Tokens
  BY <1>2, <1>5, <1>6
<1>8. \A t \in Tokens :
        /\ refreshTokens'[t] \in Token \cup {NoToken}
        /\ refreshTokens'[t] = NoToken <=> refreshTokens[t] = NoToken
        /\ refreshTokens'[t].family = refreshTokens[t].family
        /\ refreshTokens'[t].live => refreshTokens[t].live /\ t \notin w.seen
  <2>1. \A t \in Tokens : refreshTokens[t] \in Token =>
          /\ [refreshTokens[t] EXCEPT !.live = FALSE] \in Token
          /\ [refreshTokens[t] EXCEPT !.live = FALSE].family = refreshTokens[t].family
          /\ [refreshTokens[t] EXCEPT !.live = FALSE].live = FALSE
    BY DEF Token
  <2>2. NoToken.live = FALSE /\ [NoToken EXCEPT !.live = NoToken.live] = NoToken
    BY DEF NoToken
  <2>. QED BY <1>3, <1>6, <2>1, <2>2
<1>9. Issued' = Issued
  BY <1>8 DEF Issued, NoToken
<1>10. \A k : Live(k)' \subseteq Live(k) \ w.seen
  BY <1>8, <1>9, <1>6 DEF Live, Family
<1>11. /\ authTx'[r] = NoAuthWork /\ authPc'[r] = "ended"
       /\ \A q \in AuthRequests \ {r} : authTx'[q] = authTx[q] /\ authPc'[q] = authPc[q]
       /\ authTx' \in [AuthRequests -> AuthWork] /\ authPc' \in [AuthRequests -> Labels]
       /\ authOverlapped \subseteq authOverlapped' /\ authOverlapped' \subseteq Groups
       /\ \A p, q \in AuthRequests : p # q => authTx'[p].locks \cap authTx'[q].locks = {}
       /\ (\A q \in AuthRequests : AuthShape(authTx[q], authPc[q]))'
       /\ OneOfEachGroup' /\ FreshApart'
  BY <1>3, EndsStep
<1>12. AuthTyped'
  <2>1. refreshTokens' \in [Tokens -> Token \cup {NoToken}]
    BY <1>3, <1>8
  <2>. QED BY <1>3, <1>9, <1>11, <2>1 DEF AuthInvariant, AuthTyped, AuthTypeOK, accounts
<1>13. TokensSound'
  <2>1. TokensSound
    BY DEF AuthInvariant
  <2>2. \A t \in Issued' : refreshTokens'[t].family \in Issued'
    BY <1>6, <1>8, <1>9
  <2>3. ASSUME NEW q \in AuthRequests
        PROVE  TokensHeld(authTx[q])'
    <3>1. CASE q = r
      BY <1>11, <3>1, NoAuthWorkTyped DEF TokensHeld, TokenOperations
    <3>2. CASE q # r
      BY <1>9, <1>11, <2>1, <3>2 DEF TokensSound, TokensHeld
    <3>. QED BY <3>1, <3>2
  <2>4. ASSUME TokenOperations \notin authOverlapped'
        PROVE  OneInUse' /\ \A q \in AuthRequests : TokensChecked(authTx[q])'
    <3>1. OneInUse /\ w.seen = Live(f)
      BY <1>2, <1>4, <1>5, <1>11, <2>1, <2>4 DEF TokensSound, TokensChecked
    <3>2. Live(f)' = {}
      BY <1>10, <3>1
    <3>3. OneInUse'
      BY <1>3, <1>10, <3>1, <3>2 DEF OneInUse
    <3>4. \A q \in AuthRequests \ {r} : authTx[q].op \notin TokenOperations
      <4>1. OneOfEachGroup /\ TokenOperations \in Groups \ authOverlapped
        BY <1>11, <2>4 DEF AuthInvariant, Groups
      <4>2. authTx[r].op \in TokenOperations
        BY <1>1, <1>5 DEF TokenOperations
      <4>. QED BY <4>1, <4>2 DEF OneOfEachGroup
    <3>5. \A q \in AuthRequests : authTx'[q].op \notin {"refresh", "logout"}
      BY <1>11, <3>4, NoAuthWorkTyped DEF TokenOperations
    <3>. QED BY <3>3, <3>5 DEF TokensChecked
  <2>5. loggedOut' \subseteq Issued'
    BY <1>3, <1>7, <1>9, <2>1 DEF TokensSound
  <2>. QED BY <1>11, <2>2, <2>3, <2>4, <2>5 DEF TokensSound
<1>14. StampsSound'
  BY <1>3, StampsKept
<1>. QED BY <1>11, <1>12, <1>13, <1>14 DEF AuthInvariant

\* Expiry changes what no request looks at again.
LEMMA ExpireStep ==
  ASSUME AuthInvariant, NEW t \in Tokens, Expire(t)
  PROVE  AuthInvariant'
<1>1. /\ t \in Issued /\ expired' = expired \cup {t}
      /\ UNCHANGED <<users, roles, links, refreshTokens, access, loggedOut, authPc, authTx,
                     authOverlapped>>
  BY DEF Expire, accounts
<1>2. AuthTyped'
  BY <1>1 DEF AuthInvariant, AuthTyped, AuthTypeOK, Issued
<1>3. (\A r \in AuthRequests : AuthShape(authTx[r], authPc[r]))'
  <2>1. \A r \in AuthRequests : AuthShape(authTx'[r], authPc'[r])
    BY <1>1 DEF AuthInvariant
  <2>. QED BY <2>1 DEF AuthShape, SessionShape, AdminShape, LinksAreItsOwn
<1>4. OneOfEachGroup'
  BY <1>1 DEF AuthInvariant, OneOfEachGroup
<1>5. TokensSound'
  <2>1. /\ Issued' = Issued /\ \A f : Live(f)' = Live(f)
        /\ \A w : TokensHeld(w)' <=> TokensHeld(w)
        /\ \A w : TokensChecked(w)' <=> TokensChecked(w)
    BY <1>1, TokensLookAt
  <2>. QED BY <1>1, <2>1 DEF AuthInvariant, TokensSound, FreshApart, OneInUse
<1>6. StampsSound'
  <2>1. /\ \A u : HeldBy(u)' = HeldBy(u) /\ PermissionsOf(u)' = PermissionsOf(u)
        /\ \A w, label : StampsHeld(w, label)' <=> StampsHeld(w, label)
        /\ \A w, label : ReadsHold(w, label)' <=> ReadsHold(w, label)
        /\ \A w, label : LinksChecked(w, label)' <=> LinksChecked(w, label)
    BY <1>1, StampsLookAt
  <2>. QED BY <1>1, <2>1 DEF AuthInvariant, StampsSound, AccessHolds
<1>. QED BY <1>2, <1>3, <1>4, <1>5, <1>6 DEF AuthInvariant

-----------------------------------------------------------------------------
(* The commit of an administrative request *)

\* Who is not touched by a request keeps the roles and the permissions held.
LEMMA UntouchedKept ==
  ASSUME links \subseteq Links, NEW w \in AuthWork, w.op \in AdminOperations,
         AdminShape(w, "commit"), NEW u \in Users, ~Touches(w, u),
         links' = (links \ w.dropped) \cup w.added
  PROVE  HeldBy(u)' = HeldBy(u) /\ PermissionsOf(u)' = PermissionsOf(u)
<1>1. LinksAreItsOwn(w) /\ w.owner \in (IF w.op \in UserOperations THEN Users ELSE Roles)
      /\ (w.op = "delete_role" => w.added = {})
  BY DEF AdminShape
<1>2. HeldBy(u) \subseteq Roles
  BY HeldTyped
<1>3. CASE links' = links
  BY <1>3 DEF HeldBy, LinksOf, PermissionsOf, GrantedBy
<1>4. CASE /\ w.op \in UserOperations /\ u # w.owner
  <2>1. \A l \in w.dropped \cup w.added : l[1] = w.owner /\ w.owner \in Users
    BY <1>1, <1>4 DEF LinksAreItsOwn, UserOperations
  <2>2. LinksOf(u)' = LinksOf(u)
    BY <1>4, <2>1 DEF LinksOf
  <2>3. HeldBy(u)' = HeldBy(u)
    BY <2>2 DEF HeldBy
  <2>4. \A l \in w.dropped \cup w.added : l[1] \notin HeldBy(u)
    BY <1>2, <2>1, AuthAssumption
  <2>5. PermissionsOf(u)' = PermissionsOf(u)
    BY <2>3, <2>4 DEF PermissionsOf, GrantedBy
  <2>. QED BY <2>3, <2>5
<1>5. CASE w.op \notin UserOperations \cup {"delete_role"} /\ w.owner \notin HeldBy(u)
  <2>1. \A l \in w.dropped \cup w.added : l[1] = w.owner /\ w.owner \in Roles
    BY <1>1, <1>5 DEF LinksAreItsOwn
  <2>2. LinksOf(u)' = LinksOf(u)
    BY <2>1, AuthAssumption DEF LinksOf
  <2>3. HeldBy(u)' = HeldBy(u)
    BY <2>2 DEF HeldBy
  <2>4. PermissionsOf(u)' = PermissionsOf(u)
    BY <1>5, <2>1, <2>3 DEF PermissionsOf, GrantedBy
  <2>. QED BY <2>3, <2>4
<1>6. CASE w.op = "delete_role" /\ w.owner \notin HeldBy(u)
  <2>1. /\ \A l \in w.dropped : w.owner \in {l[1], l[2]}
        /\ w.owner \in Roles /\ w.added = {}
    BY <1>1, <1>6 DEF LinksAreItsOwn, UserOperations
  <2>2. \A l \in LinksOf(u) : l \notin w.dropped
    BY <1>6, <2>1, AuthAssumption DEF HeldBy, LinksOf
  <2>3. LinksOf(u)' = LinksOf(u)
    BY <2>1, <2>2 DEF LinksOf
  <2>4. HeldBy(u)' = HeldBy(u)
    BY <2>3 DEF HeldBy
  <2>5. \A l \in links : l[1] \in HeldBy(u) => l \notin w.dropped
    <3>1. \A l \in links : l[1] \in HeldBy(u) => l[2] \in Permissions
      BY <1>2, LinkTyped
    <3>. QED BY <1>6, <2>1, <3>1, AuthAssumption
  <2>6. PermissionsOf(u)' = PermissionsOf(u)
    BY <2>1, <2>4, <2>5 DEF PermissionsOf, GrantedBy
  <2>. QED BY <2>4, <2>6
<1>7. \/ links' = links
      \/ w.op \in UserOperations /\ u # w.owner
      \/ w.op \notin UserOperations /\ w.owner \notin HeldBy(u)
  BY DEF Touches
<1>8. "delete_role" \notin UserOperations
  BY DEF UserOperations
<1>. QED BY <1>3, <1>4, <1>5, <1>6, <1>7, <1>8

\* A commit publishes the links, and the stamps of all whose permissions they change.
LEMMA AuthCommitStep ==
  ASSUME AuthInvariant, NEW r \in AuthRequests, AuthCommit(r)
  PROVE  AuthInvariant'
<1>1. PICK w : w = authTx[r]
  OBVIOUS
<1>2. /\ authPc[r] = "commit" /\ Ends(r)
      /\ UNCHANGED <<refreshTokens, expired, access, loggedOut>>
      /\ links' = (links \ w.dropped) \cup w.added
      /\ roles' = CASE w.op = "create_role" -> roles \cup {w.owner}
                    [] w.op = "delete_role" -> roles \ {w.owner}
                    [] OTHER -> roles
      /\ users' = [u \in Users |->
           [exists |-> users[u].exists \/ (w.op = "create_user" /\ u = w.owner),
            active |-> IF w.op = "update_user" /\ u = w.owner THEN w.active
                       ELSE users[u].active,
            stamp |-> users[u].stamp + (IF u \in w.bumped THEN 1 ELSE 0)]]
  BY <1>1 DEF AuthCommit, sessions
<1>3. /\ w \in AuthWork /\ w.op \in AdminOperations /\ AdminShape(w, "commit")
      /\ w.bumped \subseteq w.locks
      /\ \A u \in w.bumped : users[u].stamp < MaxStamp
      /\ \A q \in AuthRequests \ {r} : w.locks \cap authTx[q].locks = {}
      /\ AdminOperations \notin authOverlapped => LinksChecked(w, "commit")
  BY <1>1, <1>2, AdminAtWork DEF AdminLabels
<1>4. AuthTypeOK /\ TokensSound /\ StampsSound
  BY DEF AuthInvariant, AuthTyped
<1>5. /\ authTx'[r] = NoAuthWork /\ authPc'[r] = "ended"
      /\ \A q \in AuthRequests \ {r} : authTx'[q] = authTx[q] /\ authPc'[q] = authPc[q]
      /\ authTx' \in [AuthRequests -> AuthWork] /\ authPc' \in [AuthRequests -> Labels]
      /\ authOverlapped \subseteq authOverlapped' /\ authOverlapped' \subseteq Groups
      /\ \A p, q \in AuthRequests : p # q => authTx'[p].locks \cap authTx'[q].locks = {}
      /\ (\A q \in AuthRequests : AuthShape(authTx[q], authPc[q]))'
      /\ OneOfEachGroup' /\ FreshApart'
  BY <1>2, EndsStep
<1>6. \A u \in Users :
        /\ users[u].stamp \in 0..MaxStamp /\ users'[u].stamp \in 0..MaxStamp
        /\ u \in w.bumped => users'[u].stamp = users[u].stamp + 1
        /\ u \notin w.bumped => users'[u].stamp = users[u].stamp
  <2>1. \A u \in Users : users[u].stamp \in 0..MaxStamp
    BY <1>4 DEF AuthTypeOK
  <2>2. \A u \in Users : users'[u].stamp = users[u].stamp + (IF u \in w.bumped THEN 1 ELSE 0)
    BY <1>2
  <2>. QED BY <1>3, <2>1, <2>2, AuthAssumption
<1>7. AuthTyped'
  <2>1. users' \in [Users -> [exists: BOOLEAN, active: BOOLEAN, stamp: 0..MaxStamp]]
    <3>1. w.active \in BOOLEAN
      BY <1>3 DEF AuthWork
    <3>2. ASSUME NEW u \in Users
          PROVE  users'[u] \in [exists: BOOLEAN, active: BOOLEAN, stamp: 0..MaxStamp]
      <4>1. users[u].exists \in BOOLEAN /\ users[u].active \in BOOLEAN
        BY <1>4 DEF AuthTypeOK
      <4>2. users'[u] = [exists |-> users[u].exists \/ (w.op = "create_user" /\ u = w.owner),
                         active |-> IF w.op = "update_user" /\ u = w.owner THEN w.active
                                    ELSE users[u].active,
                         stamp |-> users'[u].stamp]
        BY <1>2
      <4>3. PICK exists : exists = (users[u].exists \/ (w.op = "create_user" /\ u = w.owner))
        OBVIOUS
      <4>4. PICK active : active = IF w.op = "update_user" /\ u = w.owner THEN w.active
                                   ELSE users[u].active
        OBVIOUS
      <4>5. exists \in BOOLEAN /\ active \in BOOLEAN
        BY <3>1, <4>1, <4>3, <4>4
      <4>6. users'[u] = [exists |-> exists, active |-> active, stamp |-> users'[u].stamp]
        BY <4>2, <4>3, <4>4
      <4>. QED BY <1>6, <4>5, <4>6
    <3>3. users' = [u \in Users |-> users'[u]]
      BY <1>2
    <3>. QED BY <3>2, <3>3
  <2>2. links' \subseteq Links
    BY <1>2, <1>3, <1>4 DEF AuthTypeOK, AuthWork
  <2>3. roles' \subseteq Roles
    <3>1. w.op = "create_role" => w.owner \in Roles
      BY <1>3 DEF AdminShape, UserOperations
    <3>. QED BY <1>2, <1>4, <3>1 DEF AuthTypeOK
  <2>4. Issued' = Issued
    BY <1>2 DEF Issued
  <2>. QED BY <1>2, <1>4, <1>5, <2>1, <2>2, <2>3, <2>4 DEF AuthTyped, AuthTypeOK
<1>8. TokensSound'
  BY <1>2, TokensKept
<1>9. StampsSound'
  <2>1. \A a \in access : a.user \in Users /\ a.stamp \in Nat
    BY <1>4, AuthAssumption DEF AuthTypeOK
  <2>2. \A a \in access' : a.stamp <= users'[a.user].stamp
    BY <1>2, <1>4, <1>6, <2>1, AuthAssumption DEF StampsSound
  <2>3. ASSUME AdminOperations \notin authOverlapped, NEW u \in Users,
               users'[u].stamp <= users[u].stamp
        PROVE  HeldBy(u)' = HeldBy(u) /\ PermissionsOf(u)' = PermissionsOf(u)
    <3>1. u \notin w.bumped
      BY <1>6, <2>3, AuthAssumption
    <3>2. ~Touches(w, u)
      BY <1>3, <2>3, <3>1 DEF LinksChecked, AdminShape
    <3>. QED BY <1>2, <1>3, <1>4, <3>2, UntouchedKept DEF AuthTypeOK
  <2>4. ASSUME NEW q \in AuthRequests \ {r}, NEW p, p = authTx[q], NEW label,
               label = authPc[q], p.op \in {"login", "refresh"}, label # "user"
        PROVE  p.owner \in Users /\ p.stamp \in Nat /\ p.stamp <= users[p.owner].stamp
    <3>1. p \in AuthWork /\ AuthShape(p, label)
      BY <2>4 DEF AuthInvariant, AuthTyped
    <3>2. p.owner \in Users /\ p.stamp \in Nat
      BY <2>4, <3>1, AuthAssumption DEF AuthShape, SessionShape, AuthWork
    <3>. QED BY <1>4, <2>4, <3>2 DEF StampsSound, StampsHeld
  <2>5. ASSUME NEW q \in AuthRequests
        PROVE  StampsHeld(authTx[q], authPc[q])'
    <3>1. CASE q = r
      BY <1>5, <3>1, NoAuthWorkTyped DEF StampsHeld
    <3>2. CASE q # r
      <4>1. PICK p : p = authTx[q]
        OBVIOUS
      <4>2. PICK label : label = authPc[q]
        OBVIOUS
      <4>3. p.op \in {"login", "refresh"} /\ label # "user" => p.stamp <= users'[p.owner].stamp
        BY <1>6, <2>4, <3>2, <4>1, <4>2, AuthAssumption
      <4>4. p \in AuthWork /\ p.bumped \subseteq p.locks
            /\ \A u \in p.bumped : users[u].stamp < MaxStamp
        BY <1>4, <4>1 DEF AuthInvariant, AuthTyped, AuthShape, StampsSound, StampsHeld
      <4>5. \A u \in p.bumped : u \in Users /\ u \notin w.bumped
        BY <1>3, <3>2, <4>1, <4>4 DEF AuthWork
      <4>6. \A u \in p.bumped : users'[u].stamp < MaxStamp
        BY <1>6, <4>4, <4>5
      <4>7. authTx'[q] = p /\ authPc'[q] = label
        BY <1>5, <3>2, <4>1, <4>2
      <4>. QED BY <4>3, <4>6, <4>7 DEF StampsHeld
    <3>. QED BY <3>1, <3>2
  <2>6. ASSUME AdminOperations \notin authOverlapped'
        PROVE  /\ AccessHolds'
               /\ \A q \in AuthRequests :
                    ReadsHold(authTx[q], authPc[q])' /\ LinksChecked(authTx[q], authPc[q])'
    <3>1. /\ AdminOperations \notin authOverlapped /\ AccessHolds
          /\ \A q \in AuthRequests : ReadsHold(authTx[q], authPc[q])
      BY <1>4, <1>5, <2>6 DEF StampsSound
    <3>2. AccessHolds'
      <4>1. SUFFICES ASSUME NEW a \in access, a.stamp = users'[a.user].stamp
                     PROVE  a.permissions = PermissionsOf(a.user)'
        BY <1>2 DEF AccessHolds
      <4>2. a.user \in Users /\ a.stamp <= users[a.user].stamp
        BY <1>4, <2>1 DEF StampsSound
      <4>3. a.stamp = users[a.user].stamp
        BY <1>6, <2>1, <4>1, <4>2, AuthAssumption
      <4>4. PermissionsOf(a.user)' = PermissionsOf(a.user)
        BY <2>3, <3>1, <4>1, <4>2
      <4>. QED BY <3>1, <4>3, <4>4 DEF AccessHolds
    <3>3. ASSUME NEW q \in AuthRequests
          PROVE  ReadsHold(authTx[q], authPc[q])'
      <4>1. CASE q = r
        BY <1>5, <4>1 DEF ReadsHold
      <4>2. CASE q # r
        <5>1. PICK p : p = authTx[q]
          OBVIOUS
        <5>2. PICK label : label = authPc[q]
          OBVIOUS
        <5>3. authTx'[q] = p /\ authPc'[q] = label
          BY <1>5, <4>2, <5>1, <5>2
        <5>4. ASSUME label \in {"grants", "issue"}, p.stamp = users'[p.owner].stamp
              PROVE  /\ label = "grants" => p.held = HeldBy(p.owner)'
                     /\ label = "issue" => p.permissions = PermissionsOf(p.owner)'
          <6>1. p \in AuthWork /\ AuthShape(p, label)
            BY <5>1, <5>2 DEF AuthInvariant, AuthTyped
          <6>2. p.op \in {"login", "refresh"}
            BY <5>4, <6>1 DEF AuthShape, SessionShape, AdminShape, AuthWork, Operations,
                              TokenOperations
          <6>3. p.owner \in Users /\ p.stamp \in Nat /\ p.stamp <= users[p.owner].stamp
            BY <2>4, <4>2, <5>1, <5>2, <5>4, <6>2
          <6>4. p.stamp = users[p.owner].stamp /\ users'[p.owner].stamp <= users[p.owner].stamp
            BY <1>6, <5>4, <6>3, AuthAssumption
          <6>5. /\ HeldBy(p.owner)' = HeldBy(p.owner)
                /\ PermissionsOf(p.owner)' = PermissionsOf(p.owner)
            BY <2>3, <3>1, <6>3, <6>4
          <6>. QED BY <3>1, <5>1, <5>2, <5>4, <6>4, <6>5 DEF ReadsHold
        <5>. QED BY <5>3, <5>4 DEF ReadsHold
      <4>. QED BY <4>1, <4>2
    <3>4. \A q \in AuthRequests : authTx'[q].op \notin AdminOperations
      <4>1. OneOfEachGroup /\ AdminOperations \in Groups \ authOverlapped
        BY <3>1 DEF AuthInvariant, Groups
      <4>2. \A q \in AuthRequests \ {r} : authTx[q].op \notin AdminOperations
        BY <1>1, <1>3, <4>1 DEF OneOfEachGroup
      <4>3. NoAuthWork.op \notin AdminOperations
        BY NoAuthWorkTyped DEF AdminOperations
      <4>. QED BY <1>5, <4>2, <4>3
    <3>. QED BY <3>2, <3>3, <3>4 DEF LinksChecked
  <2>. QED BY <2>2, <2>5, <2>6 DEF StampsSound
<1>. QED BY <1>5, <1>7, <1>8, <1>9 DEF AuthInvariant

-----------------------------------------------------------------------------
(* The theorems *)

\* What registerOrganization leaves.
LEMMA AuthInvariantInit ==
  AuthInit => AuthInvariant
<1>. SUFFICES ASSUME AuthInit PROVE AuthInvariant
  OBVIOUS
<1>1. /\ Issued = {} /\ \A f : Live(f) = {}
      /\ \A r \in AuthRequests : authTx[r] = NoAuthWork /\ authPc[r] = "idle"
  BY DEF AuthInit, Issued, Live, Family
<1>2. AuthTyped
  <2>1. FirstRoles \subseteq Roles /\ 0 \in 0..MaxStamp
    BY AuthAssumption DEF FirstRoles
  <2>2. authTx \in [AuthRequests -> AuthWork] /\ authPc \in [AuthRequests -> Labels]
    BY NoAuthWorkTyped DEF AuthInit, Labels
  <2>3. users \in [Users -> [exists: BOOLEAN, active: BOOLEAN, stamp: 0..MaxStamp]]
    BY <2>1 DEF AuthInit
  <2>4. refreshTokens \in [Tokens -> Token \cup {NoToken}]
    BY DEF AuthInit
  <2>5. \A r, q \in AuthRequests : r # q => authTx[r].locks \cap authTx[q].locks = {}
    BY <1>1, NoAuthWorkTyped
  <2>6. /\ roles \subseteq Roles /\ links \subseteq Links /\ access = {} /\ expired = {}
        /\ authOverlapped = {}
    BY <2>1, AuthAssumption DEF AuthInit
  <2>. QED BY <2>2, <2>3, <2>4, <2>5, <2>6 DEF AuthTyped, AuthTypeOK
<1>3. \A r \in AuthRequests :
        /\ AuthShape(authTx[r], authPc[r]) /\ TokensHeld(authTx[r])
        /\ TokensChecked(authTx[r]) /\ StampsHeld(authTx[r], authPc[r])
        /\ ReadsHold(authTx[r], authPc[r]) /\ LinksChecked(authTx[r], authPc[r])
  BY <1>1, NoAuthWorkSound
<1>4. OneOfEachGroup
  BY <1>1, NoAuthWorkTyped DEF OneOfEachGroup, Groups, AdminOperations, TokenOperations
<1>5. TokensSound
  BY <1>1, <1>3, NoAuthWorkTyped DEF TokensSound, FreshApart, OneInUse, AuthInit
<1>6. StampsSound
  BY <1>3 DEF StampsSound, AccessHolds, AuthInit
<1>. QED BY <1>2, <1>3, <1>4, <1>5, <1>6 DEF AuthInvariant

\* A step that leaves every variable.
LEMMA AuthStutter ==
  ASSUME AuthInvariant, UNCHANGED authVars
  PROVE  AuthInvariant'
<1>. USE DEF authVars, accounts, sessions
<1>1. AuthTyped'
  BY DEF AuthInvariant, AuthTyped, AuthTypeOK, Issued
<1>2. (\A r \in AuthRequests : AuthShape(authTx[r], authPc[r]))'
  <2>1. \A r \in AuthRequests : AuthShape(authTx'[r], authPc'[r])
    BY DEF AuthInvariant
  <2>. QED BY <2>1 DEF AuthShape, SessionShape, AdminShape, LinksAreItsOwn
<1>3. OneOfEachGroup'
  BY DEF AuthInvariant, OneOfEachGroup
<1>4. TokensSound'
  BY TokensLookAt DEF AuthInvariant, TokensSound, FreshApart, OneInUse
<1>5. StampsSound'
  BY StampsLookAt DEF AuthInvariant, StampsSound, AccessHolds
<1>. QED BY <1>1, <1>2, <1>3, <1>4, <1>5 DEF AuthInvariant

\* Every handler keeps the invariant.
LEMMA AuthInvariantStep ==
  AuthInvariant /\ [AuthNext]_authVars => AuthInvariant'
<1>. SUFFICES ASSUME AuthInvariant, [AuthNext]_authVars
              PROVE  AuthInvariant'
  OBVIOUS
<1>1. ASSUME NEW r \in AuthRequests, SessionStep(r)
      PROVE  AuthInvariant'
  <2>1. ASSUME NEW t \in Tokens, RejectReuse(r, t)
        PROVE  AuthInvariant'
    BY <2>1, AuthAbortStep DEF RejectReuse, sessions
  <2>. QED BY <1>1, <2>1, BeginLoginStep, BeginRefreshStep, BeginLogoutStep, ReadUserStep,
              RotateStep, ReadRolesStep, ReadGrantsStep, IssueLoginStep, IssueRefreshStep,
              RevokeFamilyStep DEF SessionStep
<1>2. ASSUME NEW r \in AuthRequests, AdminStep(r)
      PROVE  AuthInvariant'
  <2>1. ASSUME NEW u \in Users, NEW held \in SUBSET Roles,
               BeginSetRoles(r, u, held) \/ BeginCreateUser(r, u, held)
        PROVE  AuthInvariant'
    BY <2>1, AdminBeginStep DEF BeginSetRoles, BeginCreateUser, Starts
  <2>2. ASSUME NEW u \in Users, NEW active \in BOOLEAN, BeginUpdateUser(r, u, active)
        PROVE  AuthInvariant'
    BY <2>2, AdminBeginStep DEF BeginUpdateUser, Starts
  <2>3. ASSUME NEW role \in Roles, NEW granted \in SUBSET Permissions,
               BeginSetPermissions(r, role, granted) \/ BeginCreateRole(r, role, granted)
        PROVE  AuthInvariant'
    BY <2>3, AdminBeginStep DEF BeginSetPermissions, BeginCreateRole, Starts
  <2>4. ASSUME NEW role \in Roles, BeginDeleteRole(r, role)
        PROVE  AuthInvariant'
    BY <2>4, AdminBeginStep DEF BeginDeleteRole, Starts
  <2>. QED BY <1>2, <2>1, <2>2, <2>3, <2>4, SeeLinksStep, DropLinksStep, AddLinksStep,
              ReadUsersStep, BumpStep, DeleteRoleStep, AuthCommitStep DEF AdminStep
<1>3. ASSUME NEW r \in AuthRequests, AuthAbort(r)
      PROVE  AuthInvariant'
  BY <1>3, AuthAbortStep DEF AuthAbort
<1>. QED BY <1>1, <1>2, <1>3, ExpireStep, AuthStutter DEF AuthNext

\* Whatever the requests of sessions and of administrators do, at any number of users,
\* roles, tokens and requests, the inductive invariant holds (AuthService, UsersService,
\* RolesService).
THEOREM AuthStrong ==
  AuthSpec => []AuthInvariant
BY AuthInvariantInit, AuthInvariantStep, PTL DEF AuthSpec

\* A session has one refresh token in use, and none once it has logged out, until its
\* refreshes and logouts overlap (AuthService.refresh and logout, auth.service.ts).
THEOREM SingleUse ==
  AuthSpec => []OneLiveToken
<1>1. AuthInvariant => OneLiveToken
  <2>. SUFFICES ASSUME AuthInvariant PROVE OneLiveToken
    OBVIOUS
  <2>1. AuthTypeOK
    BY DEF AuthInvariant, AuthTyped
  <2>2. ASSUME TokenOperations \notin authOverlapped, NEW f \in Tokens
        PROVE  Cardinality(Live(f)) <= IF f \in loggedOut THEN 0 ELSE 1
    <3>1. /\ \A s, t \in Live(f) : s = t
          /\ f \in loggedOut => Live(f) = {}
      BY <2>2 DEF AuthInvariant, TokensSound, OneInUse
    <3>2. CASE Live(f) = {}
      BY <3>2, FS_EmptySet
    <3>3. CASE Live(f) # {}
      <4>1. PICK t : Live(f) = {t}
        BY <3>1, <3>3
      <4>. QED BY <3>1, <4>1, FS_Singleton
    <3>. QED BY <3>2, <3>3
  <2>. QED BY <2>1, <2>2 DEF OneLiveToken
<1>. QED BY <1>1, AuthStrong, PTL

\* An access token whose stamp is its user's carries the permissions the user has, until
\* administrative requests overlap (JwtStrategy.validate, RolesService.setPermissions).
THEOREM Vouched ==
  AuthSpec => []StampVouches
<1>1. AuthInvariant => StampVouches
  BY DEF AuthInvariant, StampsSound, AccessHolds, StampVouches
<1>. QED BY <1>1, AuthStrong, PTL

\* Setting the roles of a user or the permissions of a role leaves those asked for and no
\* others, until administrative requests overlap (UsersService.setRoles,
\* RolesService.setPermissions).
THEOREM Replaced ==
  AuthSpec => ReplacesLinks
<1>1. AuthInvariant /\ [AuthNext]_authVars => [ReplacesThem]_authVars
  <2>. SUFFICES ASSUME AuthInvariant, AuthNext,
                       AdminOperations \notin authOverlapped',
                       NEW r \in AuthRequests, authPc[r] = "commit", authPc'[r] = "ended",
                       authTx[r].op \in {"set_roles", "set_permissions"},
                       <<users', roles', links'>> # accounts
                PROVE  {l \in links' : l[1] = authTx[r].owner} = authTx[r].wanted
    BY DEF ReplacesThem
  <2>1. PICK q \in AuthRequests : SessionStep(q) \/ AdminStep(q) \/ AuthAbort(q)
    BY DEF AuthNext, Expire, accounts
  <2>2. AuthCommit(q)
    BY <2>1 DEF SessionStep, AdminStep, AuthAbort, accounts, BeginLogin, BeginRefresh,
       RejectReuse, BeginLogout, ReadUser, Rotate, ReadRoles, ReadGrants, IssueLogin,
       IssueRefresh, RevokeFamily, BeginSetRoles, BeginCreateUser, BeginUpdateUser,
       BeginSetPermissions, BeginCreateRole, BeginDeleteRole, SeeLinks, DropLinks, AddLinks,
       ReadUsers, Bump, DeleteRole
  <2>3. q = r /\ authOverlapped \subseteq authOverlapped'
    <3>1. Ends(q)
      BY <2>2 DEF AuthCommit
    <3>. QED BY <3>1, EndsStep
  <2>4. PICK w : w = authTx[r]
    OBVIOUS
  <2>5. /\ w.op \in {"set_roles", "set_permissions"} /\ AdminShape(w, "commit")
        /\ LinksChecked(w, "commit") /\ w.op \in AdminOperations
    BY <2>3, <2>4, AdminAtWork DEF AdminLabels
  <2>6. w.dropped = LinksOf(w.owner) /\ w.added = w.wanted /\ \A l \in w.wanted : l[1] = w.owner
    BY <2>5 DEF LinksChecked, AdminShape, LinksAreItsOwn
  <2>7. links' = (links \ w.dropped) \cup w.added
    BY <2>2, <2>3, <2>4 DEF AuthCommit
  <2>. QED BY <2>4, <2>6, <2>7 DEF LinksOf
<1>. QED BY <1>1, AuthStrong, PTL DEF AuthSpec, ReplacesLinks

-----------------------------------------------------------------------------
(* Settings: what is known of a request *)

Stages == {"idle", "absent", "found", "scanned", "deleted", "written", "done", "failed"}
WorkFields == {"kind", "scope", "created", "row", "change", "target", "seen", "dropped", "rows"}

\* The settings and the tables are there for each scope and each table.
SettingsTypes ==
  /\ settings = [s \in Scopes |-> settings[s]]
  /\ table = [t \in Tables |-> table[t]]
  /\ latest = [t \in Tables |-> latest[t]]
  /\ progress \in [SettingsRequests -> Stages]
  /\ doing = [r \in SettingsRequests |-> doing[r]]
  /\ overlapped \in BOOLEAN

\* How far a request is tells what it does.
WorkFits(r) ==
  /\ doing[r] = [x \in WorkFields |-> doing[r][x]]
  /\ doing[r].created \in BOOLEAN
  /\ doing[r].target \in Tables \cup {Seed}
  /\ doing[r].target \in Tables <=> doing[r].kind = "replace"
  /\ IsFiniteSet(doing[r].rows)
  /\ InProgress(r) /\ doing[r].target \in Tables => ScopeOf(doing[r].target) = doing[r].scope
  /\ InProgress(r) => doing[r].scope \in Scopes
  /\ doing[r].target \in Tables \/ doing[r].created => InProgress(r)
  /\ progress[r] = "absent" => ~doing[r].created
  /\ progress[r] \in {"scanned", "deleted"} => doing[r].kind = "replace"
  /\ progress[r] \in {"absent", "found", "scanned"} => doing[r].dropped = {}

\* Who has created a row found none; who goes on without has found one.
HasRow(r) ==
  /\ doing[r].created => settings[doing[r].scope] = {}
  /\ progress[r] \in {"found", "scanned", "deleted", "written"} /\ ~doing[r].created =>
       settings[doing[r].scope] # {}

\* No key twice.
OnceEach(rows) == \A a, b \in rows : a.key = b.key => a = b

NoCommonKey(rows, others) == \A a \in rows : \A b \in others : a.key # b.key

\* The rows a request brings to a table with a unique key have none twice, and
\* once they are inserted none of those that stay there.
KeysFit(r) ==
  LET t == doing[r].target IN
  t \in Keyed =>
    /\ progress[r] \in {"scanned", "deleted", "written"} => OnceEach(doing[r].rows)
    /\ progress[r] = "written" => NoCommonKey(doing[r].rows, TableSeen(r, t) \ doing[r].dropped)

\* Until two replacements overlap, a request deletes all that is in its table.
DeletesAll(r) ==
  LET t == doing[r].target IN
  ~overlapped /\ t \in Tables =>
    /\ progress[r] = "scanned" => doing[r].seen = TableSeen(r, t)
    /\ progress[r] \in {"deleted", "written"} => doing[r].dropped = TableSeen(r, t)

\* Two requests have not both created the same settings, nor inserted the same
\* key, nor replaced the same table unless that is known.
Compatible(r, q) ==
  /\ ~(doing[r].created /\ doing[q].created /\ doing[r].scope = doing[q].scope)
  /\ (progress[r] = "written" /\ progress[q] = "written" /\ doing[r].target = doing[q].target
        /\ doing[r].target \in Keyed) => NoCommonKey(doing[r].rows, doing[q].rows)
  /\ ~overlapped /\ doing[r].target \in Tables => doing[r].target # doing[q].target

RequestSound(r) == WorkFits(r) /\ HasRow(r) /\ KeysFit(r) /\ DeletesAll(r)

\* What is committed: one row or none, no table without its row, no key twice, and
\* what the latest replacement wrote.
CommittedSound ==
  /\ \A s \in Scopes : settings[s] = {} \/ \E row : settings[s] = {row}
  /\ \A t \in Tables : settings[ScopeOf(t)] = {} => table[t] = {} /\ latest[t] = {}
  /\ \A t \in Keyed : OnceEach(table[t])
  /\ LatestReplacementStands

\* The inductive invariant of the settings.
SettingsInvariant ==
  /\ SettingsTypes
  /\ CommittedSound
  /\ \A r \in SettingsRequests : RequestSound(r)
  /\ \A r, q \in SettingsRequests : r # q => Compatible(r, q)


\* If a finite set of rows has as many keys as rows, no two have the same.
LEMMA KeysInjective ==
  ASSUME NEW rows, IsFiniteSet(rows), NoKeyTwice(rows)
  PROVE  OnceEach(rows)
<1>. DEFINE f == [row \in rows |-> row.key]
<1>1. f \in Surjection(rows, KeysOf(rows))
  BY DEF Surjection, KeysOf
<1>2. f \in Injection(rows, KeysOf(rows))
  BY <1>1, FS_Surjection DEF NoKeyTwice
<1>3. \A a, b \in rows : f[a] = f[b] => a = b
  BY <1>2 DEF Injection, IsInjective
<1>. QED BY <1>3 DEF OnceEach

\* The rows of a request are as many as it was given.
LEMMA ByFinite ==
  ASSUME NEW author, NEW content, IsFiniteSet(content)
  PROVE  IsFiniteSet(By(author, content))
<1>. DEFINE f == [c \in content |-> [key |-> c.key, value |-> c.value, by |-> author]]
<1>1. f \in Surjection(content, By(author, content))
  BY DEF Surjection, By
<1>. QED BY <1>1, FS_Surjection

\* What a table has at first has no key twice.
LEMMA DefaultsOnce ==
  ASSUME SettingsAssumption, NEW t \in Keyed
  PROVE  OnceEach(DefaultRows(t))
BY DEF SettingsAssumption, OnceEach, DefaultRows, By

\* At first nothing is in progress.
LEMMA SettingsStart ==
  ASSUME SettingsAssumption
  PROVE  SettingsInit => SettingsInvariant
<1>. SUFFICES ASSUME SettingsInit PROVE SettingsInvariant
  OBVIOUS
<1>1. SettingsTypes
  BY DEF SettingsInit, SettingsTypes, Stages
<1>2. CommittedSound
  <2>1. \A s \in Scopes : settings[s] = {} \/ \E row : settings[s] = {row}
    BY DEF SettingsInit
  <2>2. \A t \in Tables : table[t] = IF settings[ScopeOf(t)] = {} THEN {} ELSE DefaultRows(t)
    BY DEF SettingsInit
  <2>3. \A t \in Keyed : OnceEach(table[t])
    BY <2>2, DefaultsOnce DEF SettingsAssumption, OnceEach
  <2>4. latest = table
    BY DEF SettingsInit
  <2>. QED BY <2>1, <2>2, <2>3, <2>4 DEF CommittedSound, LatestReplacementStands
<1>3. \A r \in SettingsRequests : /\ doing[r] = NothingDone /\ progress[r] = "idle"
                                  /\ ~InProgress(r)
  BY DEF SettingsInit, InProgress
<1>4. /\ NothingDone = [x \in WorkFields |-> NothingDone[x]]
      /\ ~NothingDone.created /\ NothingDone.created \in BOOLEAN
      /\ NothingDone.target = Seed /\ NothingDone.kind = "none"
      /\ NothingDone.rows = {} /\ NothingDone.dropped = {}
  BY DEF NothingDone, WorkFields
<1>5. Seed \notin Tables /\ Seed \notin Keyed
  BY DEF SettingsAssumption
<1>6. \A r \in SettingsRequests : RequestSound(r)
  BY <1>3, <1>4, <1>5, FS_EmptySet DEF RequestSound, WorkFits, HasRow, KeysFit, DeletesAll
<1>7. \A r, q \in SettingsRequests : Compatible(r, q)
  BY <1>3, <1>4, <1>5 DEF Compatible
<1>. QED BY <1>1, <1>2, <1>6, <1>7 DEF SettingsInvariant


\* What a step that concerns one request says of the others.
LEMMA OnlyOneProceeds ==
  ASSUME SettingsInvariant, NEW r \in SettingsRequests, NEW to \in Stages, NEW done,
         Proceeds(r, to, done)
  PROVE  /\ progress'[r] = to /\ doing'[r] = done
         /\ progress' \in [SettingsRequests -> Stages]
         /\ doing' = [q \in SettingsRequests |-> doing'[q]]
         /\ \A q \in SettingsRequests \ {r} : progress'[q] = progress[q] /\ doing'[q] = doing[q]
BY DEF SettingsInvariant, SettingsTypes, Proceeds

\* A step of a request that commits nothing has to be sound for it, and compatible
\* with the others.
LEMMA ProceedsKeeps ==
  ASSUME SettingsInvariant, NEW r \in SettingsRequests, NEW to \in Stages, NEW done,
         Proceeds(r, to, done), UNCHANGED committed,
         overlapped' \in BOOLEAN, overlapped => overlapped',
         RequestSound(r)',
         \A q \in SettingsRequests \ {r} : Compatible(r, q)'
  PROVE  SettingsInvariant'
<1>1. /\ progress' \in [SettingsRequests -> Stages]
      /\ doing' = [q \in SettingsRequests |-> doing'[q]]
      /\ \A q \in SettingsRequests \ {r} : progress'[q] = progress[q] /\ doing'[q] = doing[q]
  BY OnlyOneProceeds
<1>2. settings' = settings /\ table' = table /\ latest' = latest
  BY DEF committed
<1>3. SettingsTypes'
  BY <1>1, <1>2 DEF SettingsInvariant, SettingsTypes
<1>4. CommittedSound'
  BY <1>2 DEF SettingsInvariant, CommittedSound, LatestReplacementStands
<1>5. \A q \in SettingsRequests : RequestSound(q)'
  <2>. SUFFICES ASSUME NEW q \in SettingsRequests \ {r} PROVE RequestSound(q)'
    OBVIOUS
  <2>1. RequestSound(q) /\ progress'[q] = progress[q] /\ doing'[q] = doing[q]
    BY <1>1 DEF SettingsInvariant
  <2>2. \A t \in Tables : TableSeen(q, t)' = TableSeen(q, t)
    BY <1>2, <2>1 DEF TableSeen
  <2>3. WorkFits(q)'
    BY <2>1 DEF RequestSound, WorkFits, InProgress
  <2>4. HasRow(q)'
    BY <1>2, <2>1 DEF RequestSound, HasRow
  <2>5. KeysFit(q)'
    BY <1>2, <2>1 DEF RequestSound, KeysFit, TableSeen
  <2>6. DeletesAll(q)'
    BY <2>1, <2>2 DEF RequestSound, DeletesAll
  <2>. QED BY <2>3, <2>4, <2>5, <2>6 DEF RequestSound
<1>6. \A p, q \in SettingsRequests : p # q => Compatible(p, q)'
  <2>. SUFFICES ASSUME NEW p \in SettingsRequests, NEW q \in SettingsRequests, p # q
                PROVE  Compatible(p, q)'
    OBVIOUS
  <2>1. CASE p = r
    BY <2>1
  <2>2. CASE q = r
    BY <2>2 DEF Compatible, NoCommonKey
  <2>3. CASE p # r /\ q # r
    BY <1>1, <2>3 DEF SettingsInvariant, Compatible
  <2>. QED BY <2>1, <2>2, <2>3
<1>. QED BY <1>3, <1>4, <1>5, <1>6 DEF SettingsInvariant

\* Whoever rolls back holds nothing any more.
LEMMA RollsBackKeeps ==
  ASSUME SettingsAssumption, SettingsInvariant, NEW r \in SettingsRequests, RollsBack(r)
  PROVE  SettingsInvariant'
<1>1. Proceeds(r, "failed", NothingDone) /\ UNCHANGED <<committed, overlapped>>
  BY DEF RollsBack
<1>2. "failed" \in Stages
  BY DEF Stages
<1>3. progress'[r] = "failed" /\ doing'[r] = NothingDone
  BY <1>1, <1>2, OnlyOneProceeds
<1>4. /\ NothingDone = [x \in WorkFields |-> NothingDone[x]]
      /\ ~NothingDone.created /\ NothingDone.created \in BOOLEAN
      /\ NothingDone.target = Seed /\ NothingDone.kind = "none"
      /\ NothingDone.rows = {} /\ NothingDone.dropped = {}
  BY DEF NothingDone, WorkFields
<1>5. Seed \notin Tables /\ Seed \notin Keyed
  BY DEF SettingsAssumption
<1>6. RequestSound(r)'
  BY <1>3, <1>4, <1>5, FS_EmptySet
  DEF RequestSound, WorkFits, HasRow, KeysFit, DeletesAll, InProgress
<1>7. \A q \in SettingsRequests \ {r} : Compatible(r, q)'
  BY <1>3, <1>4, <1>5 DEF Compatible
<1>8. overlapped' \in BOOLEAN /\ (overlapped => overlapped')
  BY <1>1 DEF SettingsInvariant, SettingsTypes
<1>. QED BY <1>1, <1>2, <1>6, <1>7, <1>8, ProceedsKeeps

\* What a request in progress has, as a record.
LEMMA FieldsOf ==
  ASSUME SettingsInvariant, NEW r \in SettingsRequests
  PROVE  /\ WorkFits(r) /\ RequestSound(r)
         /\ \E w : w = doing[r] /\ w = [x \in WorkFields |-> w[x]]
BY DEF SettingsInvariant, RequestSound, WorkFits

\* A request that begins notes whether another replaces the same table.
LEMMA BeginsKeeps ==
  ASSUME SettingsAssumption, SettingsInvariant, NEW r \in SettingsRequests, NEW asked,
         Begins(r, asked),
         asked = [x \in WorkFields |-> asked[x]],
         asked.created = FALSE, asked.scope \in Scopes, asked.target \in Tables \cup {Seed},
         asked.target \in Tables <=> asked.kind = "replace",
         asked.target \in Tables => ScopeOf(asked.target) = asked.scope,
         IsFiniteSet(asked.rows), asked.dropped = {}
  PROVE  SettingsInvariant'
<1>. DEFINE to == IF settings[asked.scope] = {} THEN "absent" ELSE "found"
            done == [asked EXCEPT !.row = settings[asked.scope]]
<1>1. /\ Proceeds(r, to, done) /\ UNCHANGED committed
      /\ overlapped' = (overlapped \/
           (asked.target # Seed /\ \E q \in Others(r) : doing[q].target = asked.target))
  BY DEF Begins
<1>2. to \in Stages
  BY DEF Stages
<1>. HIDE DEF to, done
<1>3. /\ progress'[r] = to /\ doing'[r] = done
      /\ \A q \in SettingsRequests \ {r} : progress'[q] = progress[q] /\ doing'[q] = doing[q]
  BY <1>1, <1>2, OnlyOneProceeds
<1>4. /\ done = [x \in WorkFields |-> done[x]]
      /\ done.created = FALSE /\ done.scope = asked.scope /\ done.target = asked.target
      /\ done.kind = asked.kind /\ done.rows = asked.rows /\ done.dropped = {}
  BY DEF WorkFields, done
<1>5. settings' = settings
  BY <1>1 DEF committed
<1>6. RequestSound(r)'
  <2>1. WorkFits(r)'
    BY <1>3, <1>4 DEF WorkFits, InProgress, to
  <2>2. HasRow(r)'
    BY <1>3, <1>4, <1>5 DEF HasRow, to
  <2>3. KeysFit(r)' /\ DeletesAll(r)'
    BY <1>3 DEF to, KeysFit, DeletesAll
  <2>. QED BY <2>1, <2>2, <2>3 DEF RequestSound
<1>7. \A q \in SettingsRequests \ {r} : Compatible(r, q)'
  <2>. TAKE q \in SettingsRequests \ {r}
  <2>1. ASSUME ~overlapped', asked.target \in Tables PROVE asked.target # doing[q].target
    <3>1. q \notin Others(r) \/ doing[q].target # asked.target
      BY <1>1, <2>1 DEF SettingsAssumption
    <3>2. doing[q].target \in Tables => InProgress(q)
      BY FieldsOf DEF WorkFits
    <3>. QED BY <2>1, <3>1, <3>2 DEF Others
  <2>. QED BY <1>3, <1>4, <2>1 DEF Compatible, to
<1>8. overlapped' \in BOOLEAN /\ (overlapped => overlapped')
  BY <1>1 DEF SettingsInvariant, SettingsTypes
<1>. QED BY <1>1, <1>2, <1>6, <1>7, <1>8, ProceedsKeeps


\* Each of the ways to begin.
LEMMA EachBeginsKeeps ==
  ASSUME SettingsAssumption, SettingsInvariant, NEW r \in SettingsRequests,
         \/ \E s \in Scopes : BeginGet(r, s) \/ BeginChange(r, s)
         \/ \E t \in Tables : BeginReplace(r, t)
  PROVE  SettingsInvariant'
<1>1. NothingDone = [x \in WorkFields |-> NothingDone[x]]
  BY DEF NothingDone, WorkFields
<1>2. Seed \notin Tables
  BY DEF SettingsAssumption
<1>3. ASSUME NEW s \in Scopes, BeginGet(r, s) PROVE SettingsInvariant'
  <2>. DEFINE asked == [NothingDone EXCEPT !.kind = "get", !.scope = s]
  <2>1. /\ asked = [x \in WorkFields |-> asked[x]]
        /\ asked.created = FALSE /\ asked.scope = s /\ asked.target = Seed
        /\ asked.kind = "get" /\ asked.rows = {} /\ asked.dropped = {}
    BY DEF NothingDone, WorkFields
  <2>2. Begins(r, asked)
    BY <1>3 DEF BeginGet
  <2>. HIDE DEF asked
  <2>. QED BY <1>2, <2>1, <2>2, BeginsKeeps, FS_EmptySet
<1>4. ASSUME NEW s \in Scopes, BeginChange(r, s) PROVE SettingsInvariant'
  <2>1. PICK c \in Changes(s) :
          Begins(r, [NothingDone EXCEPT !.kind = "update", !.scope = s, !.change = {c}])
    BY <1>4 DEF BeginChange
  <2>. DEFINE asked == [NothingDone EXCEPT !.kind = "update", !.scope = s, !.change = {c}]
  <2>2. /\ asked = [x \in WorkFields |-> asked[x]]
        /\ asked.created = FALSE /\ asked.scope = s /\ asked.target = Seed
        /\ asked.kind = "update" /\ asked.rows = {} /\ asked.dropped = {}
    BY DEF NothingDone, WorkFields
  <2>3. Begins(r, asked)
    BY <2>1
  <2>. HIDE DEF asked
  <2>. QED BY <1>2, <2>2, <2>3, BeginsKeeps, FS_EmptySet
<1>5. ASSUME NEW t \in Tables, BeginReplace(r, t) PROVE SettingsInvariant'
  <2>1. PICK content \in Contents(t) :
          Begins(r, [NothingDone EXCEPT !.kind = "replace", !.scope = ScopeOf(t), !.target = t,
                                        !.rows = By(r, content)])
    BY <1>5 DEF BeginReplace
  <2>. DEFINE asked == [NothingDone EXCEPT !.kind = "replace", !.scope = ScopeOf(t),
                                           !.target = t, !.rows = By(r, content)]
  <2>2. /\ asked = [x \in WorkFields |-> asked[x]]
        /\ asked.created = FALSE /\ asked.scope = ScopeOf(t) /\ asked.target = t
        /\ asked.kind = "replace" /\ asked.rows = By(r, content) /\ asked.dropped = {}
    BY DEF NothingDone, WorkFields
  <2>3. Begins(r, asked)
    BY <2>1
  <2>. HIDE DEF asked
  <2>4. IsFiniteSet(By(r, content)) /\ ScopeOf(t) \in Scopes
    BY ByFinite DEF SettingsAssumption
  <2>. QED BY <2>2, <2>3, <2>4, BeginsKeeps
<1>. QED BY <1>3, <1>4, <1>5

\* Who creates the row is the only one to: the others of its settings are waiting.
LEMMA CreateKeeps ==
  ASSUME SettingsAssumption, SettingsInvariant, NEW r \in SettingsRequests, CreateSettings(r)
  PROVE  SettingsInvariant'
<1>1. CASE RollsBack(r)
  BY <1>1, RollsBackKeeps
<1>2. CASE ~RollsBack(r)
  <2>1. PICK w : w = doing[r] /\ w = [x \in WorkFields |-> w[x]]
    BY FieldsOf
  <2>. DEFINE done == [w EXCEPT !.created = TRUE, !.row = {NewSettings(r)}]
  <2>2. /\ progress[r] = "absent" /\ settings[w.scope] = {}
        /\ Proceeds(r, "found", done) /\ UNCHANGED <<committed, overlapped>>
        /\ \A q \in Rivals(r) : ~doing[q].created
    BY <1>2, <2>1 DEF CreateSettings
  <2>3. /\ done = [x \in WorkFields |-> done[x]] /\ done.created = TRUE
        /\ done.scope = w.scope /\ done.target = w.target /\ done.kind = w.kind
        /\ done.rows = w.rows /\ done.dropped = w.dropped
    BY <2>1 DEF WorkFields
  <2>. HIDE DEF done
  <2>4. "found" \in Stages
    BY DEF Stages
  <2>5. /\ progress'[r] = "found" /\ doing'[r] = done
        /\ \A q \in SettingsRequests \ {r} : progress'[q] = progress[q] /\ doing'[q] = doing[q]
    BY <2>2, <2>4, OnlyOneProceeds
  <2>6. WorkFits(r) /\ InProgress(r)
    BY <2>2, FieldsOf DEF InProgress
  <2>7. RequestSound(r)'
    <3>1. WorkFits(r)'
      BY <2>1, <2>2, <2>3, <2>5, <2>6 DEF WorkFits, InProgress
    <3>2. HasRow(r)'
      BY <2>2, <2>3, <2>5 DEF HasRow, committed
    <3>3. KeysFit(r)' /\ DeletesAll(r)'
      BY <2>5 DEF KeysFit, DeletesAll
    <3>. QED BY <3>1, <3>2, <3>3 DEF RequestSound
  <2>8. \A q \in SettingsRequests \ {r} : Compatible(r, q)'
    <3>. TAKE q \in SettingsRequests \ {r}
    <3>1. Compatible(r, q) /\ WorkFits(q)
      BY FieldsOf DEF SettingsInvariant
    <3>2. ~(doing[q].created /\ doing[q].scope = w.scope)
      BY <2>1, <2>2, <3>1 DEF Rivals, Others, WorkFits
    <3>. QED BY <2>1, <2>2, <2>3, <2>5, <3>1, <3>2 DEF Compatible
  <2>9. overlapped' \in BOOLEAN /\ (overlapped => overlapped')
    BY <2>2 DEF SettingsInvariant, SettingsTypes
  <2>. QED BY <2>2, <2>4, <2>7, <2>8, <2>9, ProceedsKeeps
<1>. QED BY <1>1, <1>2

\* The row is written: nothing of it is known to others before the commit.
LEMMA WriteKeeps ==
  ASSUME SettingsAssumption, SettingsInvariant, NEW r \in SettingsRequests, WriteChange(r)
  PROVE  SettingsInvariant'
<1>1. CASE RollsBack(r)
  BY <1>1, RollsBackKeeps
<1>2. CASE ~RollsBack(r)
  <2>1. PICK w : w = doing[r]
    OBVIOUS
  <2>2. /\ progress[r] = "found" /\ w.kind = "update"
        /\ Proceeds(r, "written", w) /\ UNCHANGED <<committed, overlapped>>
    BY <1>2, <2>1 DEF WriteChange
  <2>3. "written" \in Stages
    BY DEF Stages
  <2>4. /\ progress'[r] = "written" /\ doing'[r] = w
        /\ \A q \in SettingsRequests \ {r} : progress'[q] = progress[q] /\ doing'[q] = doing[q]
    BY <2>2, <2>3, OnlyOneProceeds
  <2>5. w.target = Seed /\ Seed \notin Tables /\ Seed \notin Keyed
    BY <2>1, <2>2, FieldsOf DEF WorkFits, SettingsAssumption
  <2>6. RequestSound(r) /\ WorkFits(r) /\ HasRow(r)
    BY FieldsOf DEF RequestSound
  <2>7. RequestSound(r)'
    <3>1. WorkFits(r)'
      BY <2>1, <2>2, <2>4, <2>6 DEF WorkFits, InProgress
    <3>2. HasRow(r)'
      BY <2>1, <2>2, <2>4, <2>6 DEF HasRow, committed
    <3>3. KeysFit(r)' /\ DeletesAll(r)'
      BY <2>4, <2>5 DEF KeysFit, DeletesAll
    <3>. QED BY <3>1, <3>2, <3>3 DEF RequestSound
  <2>8. \A q \in SettingsRequests \ {r} : Compatible(r, q)'
    BY <2>1, <2>2, <2>4, <2>5 DEF Compatible, SettingsInvariant
  <2>9. overlapped' \in BOOLEAN /\ (overlapped => overlapped')
    BY <2>2 DEF SettingsInvariant, SettingsTypes
  <2>. QED BY <2>2, <2>3, <2>7, <2>8, <2>9, ProceedsKeeps
<1>. QED BY <1>1, <1>2

\* The deletion sees the rows of its table; the new ones have no key twice.
LEMMA ScanKeeps ==
  ASSUME SettingsAssumption, SettingsInvariant, NEW r \in SettingsRequests, ScanTable(r)
  PROVE  SettingsInvariant'
<1>1. CASE RollsBack(r)
  BY <1>1, RollsBackKeeps
<1>2. CASE ~RollsBack(r)
  <2>1. PICK w : w = doing[r] /\ w = [x \in WorkFields |-> w[x]]
    BY FieldsOf
  <2>. DEFINE seen == TableSeen(r, w.target)
              done == [w EXCEPT !.seen = seen]
  <2>2. /\ progress[r] = "found" /\ w.kind = "replace" /\ IsAcceptable(w.target, w.rows)
        /\ Proceeds(r, "scanned", done) /\ UNCHANGED <<committed, overlapped>>
    BY <1>2, <2>1 DEF ScanTable
  <2>3. /\ done = [x \in WorkFields |-> done[x]] /\ done.created = w.created
        /\ done.scope = w.scope /\ done.target = w.target /\ done.kind = w.kind
        /\ done.rows = w.rows /\ done.dropped = w.dropped /\ done.seen = seen
    BY <2>1 DEF WorkFields
  <2>. HIDE DEF done
  <2>4. "scanned" \in Stages
    BY DEF Stages
  <2>5. /\ progress'[r] = "scanned" /\ doing'[r] = done
        /\ \A q \in SettingsRequests \ {r} : progress'[q] = progress[q] /\ doing'[q] = doing[q]
    BY <2>2, <2>4, OnlyOneProceeds
  <2>6. RequestSound(r) /\ WorkFits(r) /\ HasRow(r)
    BY FieldsOf DEF RequestSound
  <2>7. RequestSound(r)'
    <3>1. WorkFits(r)'
      BY <2>1, <2>2, <2>3, <2>5, <2>6 DEF WorkFits, InProgress
    <3>2. HasRow(r)'
      BY <2>1, <2>2, <2>3, <2>5, <2>6 DEF HasRow, committed
    <3>3. KeysFit(r)'
      <4>1. w.target \in Keyed => OnceEach(w.rows)
        BY <2>1, <2>2, <2>6, KeysInjective DEF IsAcceptable, WorkFits
      <4>. QED BY <2>3, <2>5, <4>1 DEF KeysFit
    <3>4. DeletesAll(r)'
      <4>1. TableSeen(r, w.target)' = seen
        BY <2>1, <2>2, <2>3, <2>5 DEF TableSeen, committed
      <4>. QED BY <2>3, <2>5, <4>1 DEF DeletesAll
    <3>. QED BY <3>1, <3>2, <3>3, <3>4 DEF RequestSound
  <2>8. \A q \in SettingsRequests \ {r} : Compatible(r, q)'
    <3>. TAKE q \in SettingsRequests \ {r}
    <3>1. Compatible(r, q) /\ overlapped' = overlapped
      BY <2>2 DEF SettingsInvariant
    <3>2. doing'[q] = doing[q] /\ progress'[r] # "written"
      BY <2>5
    <3>. QED BY <2>1, <2>3, <2>5, <3>1, <3>2 DEF Compatible
  <2>9. overlapped' \in BOOLEAN /\ (overlapped => overlapped')
    BY <2>2 DEF SettingsInvariant, SettingsTypes
  <2>. QED BY <2>2, <2>4, <2>7, <2>8, <2>9, ProceedsKeeps
<1>. QED BY <1>1, <1>2


\* It takes the rows it has seen, but for those that are gone.
LEMMA DeleteKeeps ==
  ASSUME SettingsAssumption, SettingsInvariant, NEW r \in SettingsRequests, DeleteRows(r)
  PROVE  SettingsInvariant'
<1>1. PICK w : w = doing[r] /\ w = [x \in WorkFields |-> w[x]]
  BY FieldsOf
<1>. DEFINE gone == w.dropped \cup (w.seen \cap TableSeen(r, w.target))
            done == [w EXCEPT !.dropped = gone]
<1>2. /\ progress[r] = "scanned"
      /\ Proceeds(r, "deleted", done) /\ UNCHANGED <<committed, overlapped>>
  BY <1>1 DEF DeleteRows
<1>3. /\ done = [x \in WorkFields |-> done[x]] /\ done.created = w.created
      /\ done.scope = w.scope /\ done.target = w.target /\ done.kind = w.kind
      /\ done.rows = w.rows /\ done.dropped = gone
  BY <1>1 DEF WorkFields
<1>. HIDE DEF done
<1>4. "deleted" \in Stages
  BY DEF Stages
<1>5. /\ progress'[r] = "deleted" /\ doing'[r] = done
      /\ \A q \in SettingsRequests \ {r} : progress'[q] = progress[q] /\ doing'[q] = doing[q]
  BY <1>2, <1>4, OnlyOneProceeds
<1>6. RequestSound(r) /\ WorkFits(r) /\ HasRow(r) /\ KeysFit(r) /\ DeletesAll(r)
  BY FieldsOf DEF RequestSound
<1>7. RequestSound(r)'
  <2>1. WorkFits(r)'
    BY <1>1, <1>2, <1>3, <1>5, <1>6 DEF WorkFits, InProgress
  <2>2. HasRow(r)'
    BY <1>1, <1>2, <1>3, <1>5, <1>6 DEF HasRow, committed
  <2>3. KeysFit(r)'
    BY <1>1, <1>2, <1>3, <1>5, <1>6 DEF KeysFit
  <2>4. DeletesAll(r)'
    <3>1. TableSeen(r, w.target)' = TableSeen(r, w.target)
      BY <1>1, <1>2, <1>3, <1>5 DEF TableSeen, committed
    <3>2. ~overlapped /\ w.target \in Tables => gone = TableSeen(r, w.target)
      BY <1>1, <1>2, <1>6 DEF DeletesAll, WorkFits
    <3>. QED BY <1>2, <1>3, <1>5, <3>1, <3>2 DEF DeletesAll
  <2>. QED BY <2>1, <2>2, <2>3, <2>4 DEF RequestSound
<1>8. \A q \in SettingsRequests \ {r} : Compatible(r, q)'
  <2>. TAKE q \in SettingsRequests \ {r}
  <2>1. Compatible(r, q) /\ overlapped' = overlapped
    BY <1>2 DEF SettingsInvariant
  <2>2. doing'[q] = doing[q] /\ progress'[r] # "written"
    BY <1>5
  <2>. QED BY <1>1, <1>3, <1>5, <2>1, <2>2 DEF Compatible
<1>9. overlapped' \in BOOLEAN /\ (overlapped => overlapped')
  BY <1>2 DEF SettingsInvariant, SettingsTypes
<1>. QED BY <1>2, <1>4, <1>7, <1>8, <1>9, ProceedsKeeps

\* A unique key makes sure that the rows a request inserts share no key with those
\* that stay, nor with those that another has inserted.
LEMMA InsertKeeps ==
  ASSUME SettingsAssumption, SettingsInvariant, NEW r \in SettingsRequests, InsertRows(r)
  PROVE  SettingsInvariant'
<1>1. CASE RollsBack(r)
  BY <1>1, RollsBackKeeps
<1>2. CASE ~RollsBack(r)
  <2>1. PICK w : w = doing[r]
    OBVIOUS
  <2>2. /\ progress[r] = "deleted"
        /\ Proceeds(r, "written", w) /\ UNCHANGED <<committed, overlapped>>
        /\ w.target \in Keyed =>
             /\ KeysOf(w.rows) \cap KeysOf(TableSeen(r, w.target) \ w.dropped) = {}
             /\ \A q \in Others(r) :
                  doing[q].target = w.target /\ progress[q] = "written" =>
                    KeysOf(w.rows) \cap KeysOf(doing[q].dropped \cup doing[q].rows) = {}
    BY <1>2, <2>1 DEF InsertRows
  <2>3. "written" \in Stages
    BY DEF Stages
  <2>4. /\ progress'[r] = "written" /\ doing'[r] = w
        /\ \A q \in SettingsRequests \ {r} : progress'[q] = progress[q] /\ doing'[q] = doing[q]
    BY <2>2, <2>3, OnlyOneProceeds
  <2>5. RequestSound(r) /\ WorkFits(r) /\ HasRow(r) /\ KeysFit(r) /\ DeletesAll(r)
    BY FieldsOf DEF RequestSound
  <2>6. TableSeen(r, w.target)' = TableSeen(r, w.target)
    BY <2>1, <2>2, <2>4 DEF TableSeen, committed
  <2>7. RequestSound(r)'
    <3>1. WorkFits(r)'
      BY <2>1, <2>2, <2>4, <2>5 DEF WorkFits, InProgress
    <3>2. HasRow(r)'
      BY <2>1, <2>2, <2>4, <2>5 DEF HasRow, committed
    <3>3. KeysFit(r)'
      <4>1. w.target \in Keyed => /\ OnceEach(w.rows)
                                  /\ NoCommonKey(w.rows, TableSeen(r, w.target) \ w.dropped)
        BY <2>1, <2>2, <2>5 DEF KeysFit, KeysOf, NoCommonKey
      <4>. QED BY <2>4, <2>6, <4>1 DEF KeysFit
    <3>4. DeletesAll(r)'
      BY <2>1, <2>2, <2>4, <2>5, <2>6 DEF DeletesAll
    <3>. QED BY <3>1, <3>2, <3>3, <3>4 DEF RequestSound
  <2>8. \A q \in SettingsRequests \ {r} : Compatible(r, q)'
    <3>. TAKE q \in SettingsRequests \ {r}
    <3>1. Compatible(r, q) /\ overlapped' = overlapped
      BY <2>2 DEF SettingsInvariant
    <3>2. doing'[q] = doing[q] /\ progress'[q] = progress[q]
      BY <2>4
    <3>3. ASSUME progress[q] = "written", doing[q].target = w.target, w.target \in Keyed
          PROVE  NoCommonKey(w.rows, doing[q].rows)
      <4>1. q \in Others(r)
        BY <3>3 DEF Others, InProgress
      <4>. QED BY <2>2, <3>3, <4>1 DEF KeysOf, NoCommonKey
    <3>. QED BY <2>1, <2>4, <3>1, <3>2, <3>3 DEF Compatible
  <2>9. overlapped' \in BOOLEAN /\ (overlapped => overlapped')
    BY <2>2 DEF SettingsInvariant, SettingsTypes
  <2>. QED BY <2>2, <2>3, <2>7, <2>8, <2>9, ProceedsKeeps
<1>. QED BY <1>1, <1>2


\* A request that commits, and what it publishes.
LEMMA Committing ==
  ASSUME SettingsAssumption, SettingsInvariant, NEW r \in SettingsRequests, CommitSettings(r)
  PROVE  /\ Publish(r) /\ InProgress(r) /\ doing[r].scope \in Scopes
         /\ progress[r] \in {"found", "written"}
         /\ doing[r].target \in Tables =>
              progress[r] = "written" /\ ScopeOf(doing[r].target) = doing[r].scope
         /\ ~doing[r].created => settings[doing[r].scope] # {}
         /\ doing[r].created => settings[doing[r].scope] = {}
<1>1. WorkFits(r) /\ HasRow(r)
  BY FieldsOf DEF RequestSound
<1>2. Publish(r) /\ progress[r] \in {"found", "written"}
  BY DEF CommitSettings
<1>3. doing[r].target \in Tables => progress[r] = "written"
  BY <1>1 DEF CommitSettings, WorkFits
<1>4. InProgress(r)
  BY <1>2 DEF InProgress
<1>. QED BY <1>1, <1>2, <1>3, <1>4 DEF WorkFits, HasRow

\* It publishes one row of its settings, and leaves the other settings alone.
LEMMA SettingsAfter ==
  ASSUME SettingsAssumption, SettingsInvariant, NEW r \in SettingsRequests, CommitSettings(r)
  PROVE  /\ settings' = [s \in Scopes |-> settings'[s]]
         /\ \E row : settings'[doing[r].scope] = {row}
         /\ \A s \in Scopes \ {doing[r].scope} : settings'[s] = settings[s]
<1>1. settings' = [settings EXCEPT ![doing[r].scope] =
                     {Applied(row, doing[r].change) : row \in SettingsSeen(r)}]
  BY Committing DEF Publish
<1>2. settings = [s \in Scopes |-> settings[s]] /\ doing[r].scope \in Scopes
  BY Committing DEF SettingsInvariant, SettingsTypes
<1>3. \E row : SettingsSeen(r) = {row}
  <2>1. CASE doing[r].created
    BY <2>1, Committing DEF SettingsSeen
  <2>2. CASE ~doing[r].created
    <3>1. \E row : settings[doing[r].scope] = {row}
      BY <2>2, Committing DEF SettingsInvariant, CommittedSound
    <3>. QED BY <2>2, <3>1 DEF SettingsSeen
  <2>. QED BY <2>1, <2>2
<1>4. \E row : settings'[doing[r].scope] = {row}
  <2>1. PICK row : SettingsSeen(r) = {row}
    BY <1>3
  <2>2. settings'[doing[r].scope] = {Applied(row, doing[r].change)}
    BY <1>1, <1>2, <2>1
  <2>. QED BY <2>2
<1>. QED BY <1>1, <1>2, <1>4

\* A table of another scope it leaves alone, and one of its own unless it has
\* created it or replaces it.
LEMMA TablesAfter ==
  ASSUME SettingsAssumption, SettingsInvariant, NEW r \in SettingsRequests, CommitSettings(r)
  PROVE  /\ table' = [t \in Tables |-> table'[t]]
         /\ latest' = [t \in Tables |-> latest'[t]]
         /\ \A t \in Tables :
              /\ t = doing[r].target =>
                   /\ table'[t] = (TableSeen(r, t) \ doing[r].dropped) \cup doing[r].rows
                   /\ latest'[t] = doing[r].rows
              /\ t # doing[r].target =>
                   IF doing[r].created /\ ScopeOf(t) = doing[r].scope
                   THEN table'[t] = DefaultRows(t) /\ latest'[t] = DefaultRows(t)
                   ELSE table'[t] = table[t] /\ latest'[t] = latest[t]
BY Committing DEF Publish, TableAfter, TableSeen

\* What is committed stays sound.
LEMMA CommittedAfter ==
  ASSUME SettingsAssumption, SettingsInvariant, NEW r \in SettingsRequests, CommitSettings(r)
  PROVE  CommittedSound'
<1>1. RequestSound(r) /\ CommittedSound
  BY DEF SettingsInvariant
<1>2. \A s \in Scopes : settings'[s] = {} \/ \E row : settings'[s] = {row}
  BY <1>1, SettingsAfter DEF CommittedSound
<1>3. ASSUME NEW t \in Tables, settings'[ScopeOf(t)] = {}
      PROVE  table'[t] = {} /\ latest'[t] = {}
  <2>1. ScopeOf(t) \in Scopes /\ ScopeOf(t) # doing[r].scope
    BY <1>3, SettingsAfter DEF SettingsAssumption
  <2>2. settings[ScopeOf(t)] = {} /\ t # doing[r].target
    BY <1>3, <2>1, SettingsAfter, Committing
  <2>. QED BY <1>1, <2>1, <2>2, TablesAfter DEF CommittedSound
<1>4. ASSUME NEW t \in Keyed PROVE OnceEach(table'[t])
  <2>1. t \in Tables
    BY DEF SettingsAssumption
  <2>2. OnceEach(TableSeen(r, t))
    BY <1>1, <2>1, DefaultsOnce DEF TableSeen, CommittedSound
  <2>3. CASE t = doing[r].target
    <3>1. /\ OnceEach(doing[r].rows)
          /\ NoCommonKey(doing[r].rows, TableSeen(r, t) \ doing[r].dropped)
      BY <1>1, <2>1, <2>3, Committing DEF RequestSound, KeysFit
    <3>2. table'[t] = (TableSeen(r, t) \ doing[r].dropped) \cup doing[r].rows
      BY <2>1, <2>3, TablesAfter
    <3>. QED BY <2>2, <3>1, <3>2 DEF OnceEach, NoCommonKey
  <2>4. CASE t # doing[r].target
    BY <2>1, <2>2, <2>4, TablesAfter DEF TableSeen
  <2>. QED BY <2>3, <2>4
<1>5. \A t \in Tables : latest'[t] \subseteq table'[t]
  BY <1>1, TablesAfter DEF CommittedSound, LatestReplacementStands
<1>6. ASSUME ~overlapped' PROVE latest' = table'
  <2>1. ~overlapped
    BY <1>6, Committing DEF Publish
  <2>2. latest = table
    BY <1>1, <2>1 DEF CommittedSound, LatestReplacementStands
  <2>3. \A t \in Tables : latest'[t] = table'[t]
    <3>. TAKE t \in Tables
    <3>1. CASE t = doing[r].target
      <4>1. doing[r].dropped = TableSeen(r, t)
        BY <1>1, <2>1, <3>1, Committing DEF RequestSound, DeletesAll
      <4>2. /\ table'[t] = (TableSeen(r, t) \ doing[r].dropped) \cup doing[r].rows
            /\ latest'[t] = doing[r].rows
        BY <3>1, TablesAfter
      <4>. QED BY <4>1, <4>2
    <3>2. CASE t # doing[r].target
      BY <2>2, <3>2, TablesAfter
    <3>. QED BY <3>1, <3>2
  <2>. QED BY <2>3, TablesAfter
<1>. QED BY <1>2, <1>3, <1>4, <1>5, <1>6 DEF CommittedSound, LatestReplacementStands

\* What the others in progress see of their tables changes only by the rows of who
\* replaces the same.
LEMMA SeenAfter ==
  ASSUME SettingsAssumption, SettingsInvariant, NEW r \in SettingsRequests, CommitSettings(r),
         NEW q \in SettingsRequests \ {r}, doing[q].target \in Tables,
         progress[q] \in {"scanned", "deleted", "written"},
         doing'[q] = doing[q]
  PROVE  LET t == doing[q].target IN
         TableSeen(q, t)' = IF t = doing[r].target
                            THEN (TableSeen(q, t) \ doing[r].dropped) \cup doing[r].rows
                            ELSE TableSeen(q, t)
<1>. DEFINE t == doing[q].target
<1>1. WorkFits(q) /\ HasRow(q) /\ Compatible(r, q)
  BY FieldsOf DEF RequestSound, SettingsInvariant
<1>2. InProgress(q) /\ ScopeOf(t) = doing[q].scope
  BY <1>1 DEF WorkFits
<1>3. CASE doing[q].created
  <2>1. doing[q].scope # doing[r].scope
    BY <1>1, <1>3, Committing DEF Compatible, HasRow
  <2>2. t # doing[r].target
    BY <1>2, <2>1, Committing
  <2>. QED BY <1>2, <1>3, <2>2 DEF TableSeen
<1>4. CASE ~doing[q].created
  <2>1. settings[ScopeOf(t)] # {}
    BY <1>1, <1>2, <1>4 DEF HasRow
  <2>2. ~(doing[r].created /\ ScopeOf(t) = doing[r].scope)
    BY <2>1, Committing
  <2>3. TableSeen(r, t) = table[t]
    BY <2>2 DEF TableSeen
  <2>4. TableSeen(q, t) = table[t] /\ TableSeen(q, t)' = table'[t]
    BY <1>4 DEF TableSeen
  <2>5. CASE t = doing[r].target
    <3>1. table'[t] = (TableSeen(r, t) \ doing[r].dropped) \cup doing[r].rows
      BY <2>5, TablesAfter
    <3>. QED BY <2>3, <2>4, <2>5, <3>1
  <2>6. CASE t # doing[r].target
    <3>1. table'[t] = table[t]
      BY <2>2, <2>6, TablesAfter
    <3>. QED BY <2>4, <2>6, <3>1
  <2>. QED BY <2>5, <2>6
<1>. QED BY <1>3, <1>4

\* A commit leaves the others sound.
LEMMA CommitSettingsKeeps ==
  ASSUME SettingsAssumption, SettingsInvariant, NEW r \in SettingsRequests, CommitSettings(r)
  PROVE  SettingsInvariant'
<1>1. Proceeds(r, "done", NothingDone) /\ overlapped' = overlapped
  BY Committing DEF Publish
<1>2. "done" \in Stages
  BY DEF Stages
<1>3. /\ progress'[r] = "done" /\ doing'[r] = NothingDone
      /\ progress' \in [SettingsRequests -> Stages]
      /\ doing' = [q \in SettingsRequests |-> doing'[q]]
      /\ \A q \in SettingsRequests \ {r} : progress'[q] = progress[q] /\ doing'[q] = doing[q]
  BY <1>1, <1>2, OnlyOneProceeds
<1>4. SettingsTypes'
  BY <1>1, <1>3, SettingsAfter, TablesAfter DEF SettingsInvariant, SettingsTypes
<1>5. /\ NothingDone = [x \in WorkFields |-> NothingDone[x]]
      /\ ~NothingDone.created /\ NothingDone.created \in BOOLEAN
      /\ NothingDone.target = Seed /\ NothingDone.kind = "none"
      /\ NothingDone.rows = {} /\ NothingDone.dropped = {}
  BY DEF NothingDone, WorkFields
<1>6. Seed \notin Tables /\ Seed \notin Keyed
  BY DEF SettingsAssumption
<1>7. RequestSound(r)'
  BY <1>3, <1>5, <1>6, FS_EmptySet
  DEF RequestSound, WorkFits, HasRow, KeysFit, DeletesAll, InProgress
<1>8. ASSUME NEW q \in SettingsRequests \ {r} PROVE RequestSound(q)'
  <2>1. /\ progress'[q] = progress[q] /\ doing'[q] = doing[q]
        /\ RequestSound(q) /\ Compatible(r, q) /\ WorkFits(q)
    BY <1>3, FieldsOf DEF SettingsInvariant
  <2>2. WorkFits(q)'
    BY <2>1 DEF WorkFits, InProgress
  <2>3. HasRow(q)'
    <3>1. doing[q].created => InProgress(q) /\ doing[q].scope \in Scopes
      BY <2>1 DEF WorkFits
    <3>2. doing[q].created => doing[q].scope # doing[r].scope
      BY <2>1, Committing DEF Compatible, RequestSound, HasRow
    <3>3. progress[q] \in {"found", "scanned", "deleted", "written"} => doing[q].scope \in Scopes
      BY <2>1 DEF WorkFits, InProgress
    <3>. QED BY <2>1, <3>1, <3>2, <3>3, SettingsAfter DEF RequestSound, HasRow
  <2>4. KeysFit(q)'
    <3>1. ASSUME doing[q].target \in Keyed, progress[q] = "written"
          PROVE  NoCommonKey(doing[q].rows, TableSeen(q, doing[q].target)' \ doing[q].dropped)
      <4>1. doing[q].target \in Tables
        BY <3>1 DEF SettingsAssumption
      <4>2. NoCommonKey(doing[q].rows, TableSeen(q, doing[q].target) \ doing[q].dropped)
        BY <2>1, <3>1 DEF RequestSound, KeysFit
      <4>3. doing[q].target = doing[r].target => NoCommonKey(doing[r].rows, doing[q].rows)
        BY <2>1, <3>1, <4>1, Committing DEF Compatible
      <4>4. CASE doing[q].target = doing[r].target
        <5>1. TableSeen(q, doing[q].target)' =
                (TableSeen(q, doing[q].target) \ doing[r].dropped) \cup doing[r].rows
          BY <2>1, <3>1, <4>1, <4>4, SeenAfter
        <5>. QED BY <4>2, <4>3, <4>4, <5>1 DEF NoCommonKey
      <4>5. CASE doing[q].target # doing[r].target
        <5>1. TableSeen(q, doing[q].target)' = TableSeen(q, doing[q].target)
          BY <2>1, <3>1, <4>1, <4>5, SeenAfter
        <5>. QED BY <4>2, <5>1
      <4>. QED BY <4>4, <4>5
    <3>. QED BY <2>1, <3>1 DEF RequestSound, KeysFit
  <2>5. DeletesAll(q)'
    <3>1. ASSUME ~overlapped, doing[q].target \in Tables,
                 progress[q] \in {"scanned", "deleted", "written"}
          PROVE  TableSeen(q, doing[q].target)' = TableSeen(q, doing[q].target)
      <4>1. doing[q].target # doing[r].target
        BY <2>1, <3>1 DEF Compatible
      <4>. QED BY <2>1, <3>1, <4>1, SeenAfter
    <3>. QED BY <1>1, <2>1, <3>1 DEF RequestSound, DeletesAll
  <2>. QED BY <2>2, <2>3, <2>4, <2>5 DEF RequestSound
<1>9. \A p, q \in SettingsRequests : p # q => Compatible(p, q)'
  <2>. SUFFICES ASSUME NEW p \in SettingsRequests, NEW q \in SettingsRequests, p # q
                PROVE  Compatible(p, q)'
    OBVIOUS
  <2>1. CASE p = r \/ q = r
    BY <1>3, <1>5, <1>6, <2>1 DEF Compatible
  <2>2. CASE p # r /\ q # r
    BY <1>1, <1>3, <2>2 DEF SettingsInvariant, Compatible
  <2>. QED BY <2>1, <2>2
<1>. QED BY <1>4, <1>7, <1>8, <1>9, CommittedAfter DEF SettingsInvariant

\* Every step keeps the invariant.
LEMMA SettingsNextKeeps ==
  ASSUME SettingsAssumption
  PROVE  SettingsInvariant /\ [SettingsNext]_settingsVars => SettingsInvariant'
<1>. SUFFICES ASSUME SettingsInvariant, [SettingsNext]_settingsVars PROVE SettingsInvariant'
  OBVIOUS
<1>1. CASE SettingsNext
  <2>1. PICK r \in SettingsRequests :
          \/ \E s \in Scopes : BeginGet(r, s) \/ BeginChange(r, s)
          \/ \E t \in Tables : BeginReplace(r, t)
          \/ CreateSettings(r) \/ WriteChange(r)
          \/ ScanTable(r) \/ DeleteRows(r) \/ InsertRows(r)
          \/ CommitSettings(r) \/ AbortSettings(r)
    BY <1>1 DEF SettingsNext
  <2>2. CASE AbortSettings(r)
    BY <2>2, RollsBackKeeps DEF AbortSettings
  <2>. QED BY <2>1, <2>2, EachBeginsKeeps, CreateKeeps, WriteKeeps, ScanKeeps, DeleteKeeps,
              InsertKeeps, CommitSettingsKeeps
<1>2. CASE UNCHANGED settingsVars
  <2>1. /\ settings' = settings /\ table' = table /\ latest' = latest
        /\ progress' = progress /\ doing' = doing /\ overlapped' = overlapped
    BY <1>2 DEF settingsVars, committed
  <2>2. \A r \in SettingsRequests : RequestSound(r)'
    BY <2>1 DEF SettingsInvariant, RequestSound, WorkFits, HasRow, KeysFit, DeletesAll,
                TableSeen, InProgress
  <2>3. \A r, q \in SettingsRequests : r # q => Compatible(r, q)'
    BY <2>1 DEF SettingsInvariant, Compatible
  <2>. QED BY <2>1, <2>2, <2>3 DEF SettingsInvariant, SettingsTypes, CommittedSound,
                                   LatestReplacementStands
<1>. QED BY <1>1, <1>2

\* In every behaviour, of any settings with any tables, nobody creates settings twice,
\* and who replaces a table deletes what was there unless replacements overlap.
THEOREM SettingsStrong ==
  ASSUME SettingsAssumption
  PROVE  SettingsSpec => []SettingsInvariant
BY SettingsStart, SettingsNextKeeps, PTL DEF SettingsSpec

\* However requests interleave, an organization has one row of each of its settings, a
\* state one rate, and a table all the rows of the latest replacement.
THEOREM SettingsWhole ==
  ASSUME SettingsAssumption
  PROVE  SettingsSpec => []SettingsStayWhole
<1>1. SettingsInvariant => SettingsStayWhole
  <2>. SUFFICES ASSUME SettingsInvariant PROVE SettingsStayWhole
    OBVIOUS
  <2>1. \A s \in Scopes : Cardinality(settings[s]) <= 1
    <3>. TAKE s \in Scopes
    <3>1. CASE settings[s] = {}
      BY <3>1, FS_EmptySet
    <3>2. CASE \E row : settings[s] = {row}
      BY <3>2, FS_Singleton
    <3>. QED BY <3>1, <3>2 DEF SettingsInvariant, CommittedSound
  <2>. QED BY <2>1 DEF SettingsInvariant, CommittedSound, SettingsStayWhole, OneOfEachKey,
                       OnceEach
<1>. QED BY <1>1, SettingsStrong, PTL
-----------------------------------------------------------------------------
(* Apportionment: rounding *)

\* A rounded quotient is off by half a unit at most.
LEMMA RoundedWithin ==
  ASSUME NEW num \in Int, NEW den \in Nat, den > 0
  PROVE  /\ Rounded(num, den) \in Int
         /\ 2 * (Rounded(num, den) * den - num) <= den
         /\ -2 * (Rounded(num, den) * den - num) <= den
         /\ num >= 0 => Rounded(num, den) >= 0
<1>. DEFINE x == 2 * num + den
            y == 2 * den
            q == x \div y
<1>1. x \in Int /\ y \in Nat \ {0}
  OBVIOUS
<1>2. \A a \in Int, b \in Nat \ {0} : /\ a \div b \in Int /\ a % b \in 0 .. b - 1
                                      /\ a = b * (a \div b) + (a % b)
  OBVIOUS
<1>3. q \in Int /\ x % y \in 0 .. y - 1 /\ x = y * q + (x % y)
  <2>. HIDE DEF x, y
  <2>. QED BY <1>1, <1>2
<1>4. y * q = 2 * (q * den) /\ q * den \in Int
  BY <1>3
<1>5. num >= 0 => q >= 0
  <2>1. \A b \in Nat \ {0}, c \in Int : c < 0 => b * c <= -b
    OBVIOUS
  <2>2. q < 0 => y * q <= -y
    <3>. HIDE DEF x, y, q
    <3>. QED BY <1>1, <1>3, <2>1
  <2>3. q < 0 => x < 0
    <3>. HIDE DEF x, q
    <3>1. x \in Int /\ y \in Int /\ y * q \in Int /\ x % y < y
      BY <1>1, <1>3, <1>4
    <3>. HIDE DEF y
    <3>. QED BY <1>3, <2>2, <3>1
  <2>4. num >= 0 => x >= 0
    OBVIOUS
  <2>. HIDE DEF x
  <2>. QED BY <1>1, <1>3, <2>3, <2>4
<1>6. 2 * (q * den - num) <= den /\ -2 * (q * den - num) <= den
  <2>. DEFINE p == q * den
              m == x % y
  <2>1. p \in Int /\ m \in 0 .. y - 1 /\ x = 2 * p + m
    BY <1>3, <1>4
  <2>2. m \in Int /\ 0 <= m /\ m < 2 * den /\ 2 * num + den = 2 * p + m
    BY <2>1
  <2>. HIDE DEF p, m, q
  <2>3. 2 * (p - num) <= den /\ -2 * (p - num) <= den
    BY <2>1, <2>2
  <2>. QED BY <2>3 DEF p
<1>. QED BY <1>3, <1>5, <1>6 DEF Rounded
-----------------------------------------------------------------------------
(* Apportionment: what falls on each centre *)

\* The items of a document: a sequence of positive values, at least one.
HasItems(items) ==
  /\ Len(items) \in Nat /\ Len(items) > 0
  /\ DOMAIN items = 1 .. Len(items)
  /\ \A k \in DOMAIN items : items[k].value \in Nat /\ items[k].value > 0

\* The centres are finitely many, and the last of them is one.
LEMMA CentresKnown ==
  ASSUME NEW items, NEW default, HasItems(items)
  PROVE  /\ IsFiniteSet(DOMAIN items)
         /\ IsFiniteSet(CentresOf(items, default))
         /\ LastCentre(items, default) \in CentresOf(items, default)
<1>1. IsFiniteSet(DOMAIN items)
  BY FS_Interval DEF HasItems
<1>2. IsFiniteSet(CentresOf(items, default))
  <2>. DEFINE f == [k \in DOMAIN items |-> CentreAt(items, default, k)]
  <2>1. f \in Surjection(DOMAIN items, CentresOf(items, default))
    BY DEF Surjection, CentresOf
  <2>. QED BY <1>1, <2>1, FS_Surjection
<1>. DEFINE first == {k \in DOMAIN items : \A j \in DOMAIN items :
                        j < k => CentreAt(items, default, j) # CentreAt(items, default, k)}
<1>3. first \subseteq DOMAIN items /\ first \subseteq Int /\ 1 \in first
  BY DEF HasItems
<1>4. \E k \in first : \A j \in first : j <= k
  <2>1. IsFiniteSet(first)
    BY <1>1, <1>3, FS_Subset
  <2>. HIDE DEF first
  <2>. QED BY <1>3, <2>1, GreatestIn
<1>5. LastCentre(items, default) =
        CentreAt(items, default, CHOOSE k \in first : \A j \in first : j <= k)
  BY DEF LastCentre
<1>6. (CHOOSE k \in first : \A j \in first : j <= k) \in first
  <2>. HIDE DEF first
  <2>. QED BY <1>4
<1>. HIDE DEF first
<1>. QED BY <1>1, <1>2, <1>3, <1>5, <1>6 DEF CentresOf

\* The items are worth something, and it is what their centres have.
LEMMA WeightsSum ==
  ASSUME NEW items, NEW default, HasItems(items)
  PROVE  LET C == CentresOf(items, default)
             weights == [c \in C |-> WeightOf(items, default, c)]
         IN /\ TotalOf(items) \in Nat /\ TotalOf(items) > 0
            /\ \A c \in C : weights[c] \in Nat
            /\ SumOf(weights, C) = TotalOf(items)
<1>. DEFINE C == CentresOf(items, default)
            weights == [c \in C |-> WeightOf(items, default, c)]
            D == DOMAIN items
            f == ValuesOf(items)
            key == [k \in D |-> CentreAt(items, default, k)]
<1>1. IsFiniteSet(D) /\ IsFiniteSet(C) /\ 1 \in D
  BY CentresKnown DEF HasItems
<1>2. \A k \in D : f[k] \in Nat /\ f[k] > 0 /\ f[k] \in Int
  BY DEF HasItems, ValuesOf
<1>3. TotalOf(items) = SumOf(f, D)
  BY DEF TotalOf, TotalIn, SumOf
<1>4. \A c : WeightOf(items, default, c) = SumOf(f, {k \in D : CentreAt(items, default, k) = c})
  BY DEF WeightOf, TotalIn, SumOf
<1>. HIDE DEF f
<1>5. TotalOf(items) \in Nat /\ TotalOf(items) > 0
  <2>. DEFINE U == D \ {1}
  <2>1. IsFiniteSet(U) /\ 1 \notin U /\ U \cup {1} = D
    BY <1>1, FS_RemoveElement
  <2>2. \A k \in U : f[k] \in Nat /\ f[k] \in Int
    BY <1>2
  <2>. HIDE DEF U, D
  <2>3. SumOf(f, U) \in Nat
    BY <2>1, <2>2, SumOfInt
  <2>4. \A k \in U \cup {1} : f[k] \in Int
    BY <1>2, <2>1
  <2>5. SumOf(f, U \cup {1}) = SumOf(f, U) + f[1]
    BY <2>1, <2>4, SumOfAdded
  <2>6. SumOf(f, D) = SumOf(f, U) + f[1]
    BY <2>1, <2>5, Zenon
  <2>. QED BY <1>1, <1>2, <1>3, <2>3, <2>6
<1>6. \A c \in C : weights[c] \in Nat
  <2>. SUFFICES ASSUME NEW c \in C PROVE weights[c] \in Nat
    OBVIOUS
  <2>. DEFINE T == {k \in D : CentreAt(items, default, k) = c}
  <2>1. IsFiniteSet(T) /\ \A k \in T : f[k] \in Nat /\ f[k] \in Int
    BY <1>1, <1>2, FS_Subset
  <2>2. weights[c] = SumOf(f, T)
    BY <1>4
  <2>. HIDE DEF T, weights
  <2>. QED BY <2>1, <2>2, SumOfInt
<1>7. AreParts(weights, f, D, key, C)
  <2>1. \A k \in D : key[k] \in C
    BY DEF CentresOf
  <2>2. \A c \in C : {k \in D : key[k] = c} = {k \in D : CentreAt(items, default, k) = c}
    OBVIOUS
  <2>3. \A c \in C : weights[c] = SumOf(f, {k \in D : CentreAt(items, default, k) = c})
    BY <1>4
  <2>. HIDE DEF weights, key, C, D
  <2>. QED BY <2>1, <2>2, <2>3 DEF AreParts
<1>8. SumOf(f, D) = SumOf(weights, C)
  <2>. HIDE DEF weights, key, C, D
  <2>. QED BY <1>1, <1>2, <1>7, SumOfFibers
<1>. QED BY <1>3, <1>5, <1>6, <1>8

\* Shares add up to the amount, and each is off by half a cent for every centre at
\* most.
LEMMA SharesFair ==
  ASSUME NEW items, NEW default, HasItems(items), NEW amount \in Nat
  PROVE  LET C      == CentresOf(items, default)
             shares == Shares(items, amount, default)
             error(c) == shares[c] * TotalOf(items) - WeightOf(items, default, c) * amount
         IN /\ shares = [c \in C |-> shares[c]]
            /\ \A c \in C : shares[c] \in Int
            /\ SumOf(shares, C) = amount
            /\ \A c \in C : /\ 2 * error(c) <= TotalOf(items) * Cardinality(C)
                            /\ -2 * error(c) <= TotalOf(items) * Cardinality(C)
<1>. DEFINE C       == CentresOf(items, default)
            whole   == TotalOf(items)
            parts   == Parts(items, amount, default)
            last    == LastCentre(items, default)
            shares  == Shares(items, amount, default)
            weights == [c \in C |-> WeightOf(items, default, c)]
            errors  == [c \in C |-> shares[c] * whole - weights[c] * amount]
            U       == C \ {last}
<1>1. IsFiniteSet(C) /\ last \in C /\ whole \in Nat /\ whole > 0
  BY CentresKnown, WeightsSum
<1>2. (\A c \in C : weights[c] \in Nat) /\ SumOf(weights, C) = whole
  BY WeightsSum
<1>3. /\ parts = [c \in C |-> Rounded(weights[c] * amount, whole)]
      /\ shares = [parts EXCEPT ![last] = amount - SumOf(parts, U)]
  BY DEF Parts, Shares, TotalIn, SumOf
<1>. HIDE DEF weights, whole, last, parts, shares, C
<1>4. IsFiniteSet(U) /\ last \notin U /\ U \cup {last} = C /\ U \subseteq C
  BY <1>1, FS_RemoveElement
<1>5. \A c \in C : parts[c] \in Int /\ LET e == parts[c] * whole - weights[c] * amount
                                       IN 2 * e <= whole /\ -2 * e <= whole
  <2>. SUFFICES ASSUME NEW c \in C
                PROVE  parts[c] \in Int /\ LET e == parts[c] * whole - weights[c] * amount
                                           IN 2 * e <= whole /\ -2 * e <= whole
    OBVIOUS
  <2>. DEFINE num == weights[c] * amount
  <2>1. num \in Int
    BY <1>2
  <2>2. parts[c] = Rounded(num, whole)
    BY <1>3
  <2>. HIDE DEF num
  <2>3. /\ Rounded(num, whole) \in Int
        /\ 2 * (Rounded(num, whole) * whole - num) <= whole
        /\ -2 * (Rounded(num, whole) * whole - num) <= whole
    BY <1>1, <2>1, RoundedWithin
  <2>. QED BY <2>2, <2>3 DEF num
<1>6. SumOf(parts, U) \in Int
  BY <1>4, <1>5, SumOfInt
<1>7. /\ shares = [c \in C |-> shares[c]]
      /\ shares[last] = amount - SumOf(parts, U)
      /\ \A c \in U : shares[c] = parts[c]
  BY <1>1, <1>3
<1>8. \A c \in C : shares[c] \in Int
  BY <1>4, <1>5, <1>6, <1>7
<1>9. SumOf(shares, C) = amount
  <2>1. SumOf(shares, U) = SumOf(parts, U)
    BY <1>4, <1>7, SumOfSame
  <2>2. \A c \in U \cup {last} : shares[c] \in Int
    BY <1>4, <1>8
  <2>. HIDE DEF U
  <2>3. SumOf(shares, U \cup {last}) = SumOf(shares, U) + shares[last]
    BY <1>4, <2>2, SumOfAdded
  <2>4. SumOf(shares, C) = SumOf(shares, U) + shares[last]
    BY <1>4, <2>3, Zenon
  <2>. QED BY <1>6, <1>7, <2>1, <2>4
<1>10. /\ \A c \in C : errors[c] \in Int
       /\ \A c \in U : 2 * errors[c] <= whole /\ -2 * errors[c] <= whole
  <2>1. \A c \in C : shares[c] * whole \in Int /\ weights[c] * amount \in Int
    BY <1>1, <1>2, <1>8
  <2>2. \A c \in C : errors[c] \in Int
    BY <2>1
  <2>3. \A c \in U : errors[c] = parts[c] * whole - weights[c] * amount
    BY <1>7
  <2>. HIDE DEF errors, U
  <2>. QED BY <1>4, <1>5, <2>2, <2>3
<1>11. SumOf(errors, C) = 0
  <2>1. \A c \in C : /\ shares[c] \in Int /\ weights[c] \in Int
                     /\ IsCombined(errors[c], shares[c], weights[c], whole, amount)
    BY <1>2, <1>8 DEF IsCombined
  <2>2. whole \in Int /\ amount \in Int
    BY <1>1
  <2>. HIDE DEF errors
  <2>3. IsCombined(SumOf(errors, C), SumOf(shares, C), SumOf(weights, C), whole, amount)
    BY <1>1, <2>1, <2>2, SumOfCombination
  <2>4. SumOf(errors, C) = amount * whole - whole * amount
    BY <1>2, <1>9, <2>3 DEF IsCombined
  <2>. QED BY <1>1, <2>4
<1>. DEFINE n == Cardinality(U)
<1>12. /\ SumOf(errors, U) \in Int /\ n \in Nat
       /\ 2 * SumOf(errors, U) <= whole * n /\ -2 * SumOf(errors, U) <= whole * n
  <2>1. \A c \in U : errors[c] \in Int /\ 2 * errors[c] <= whole /\ -2 * errors[c] <= whole
    BY <1>4, <1>10
  <2>. HIDE DEF errors, U
  <2>. QED BY <1>1, <1>4, <2>1, SumOfInt, SumOfSmall, FS_CardinalityType
<1>13. errors[last] = -SumOf(errors, U) /\ errors[last] \in Int
  <2>1. \A c \in U \cup {last} : errors[c] \in Int
    BY <1>4, <1>10
  <2>. HIDE DEF U, errors
  <2>2. SumOf(errors, U \cup {last}) = SumOf(errors, U) + errors[last]
    BY <1>4, <2>1, SumOfAdded
  <2>3. SumOf(errors, C) = SumOf(errors, U) + errors[last]
    BY <1>4, <2>2, Zenon
  <2>. QED BY <1>1, <1>10, <1>11, <1>12, <2>3
<1>14. Cardinality(C) = n + 1
  <2>1. Cardinality(U \cup {last}) = Cardinality(U) + 1
    <3>. HIDE DEF U
    <3>. QED BY <1>4, FS_AddElement
  <2>. QED BY <1>4, <2>1, Zenon
<1>15. /\ whole * Cardinality(C) = whole * n + whole
       /\ whole * n \in Nat
  BY <1>1, <1>12, <1>14
<1>16. \A c \in C : /\ 2 * errors[c] <= whole * Cardinality(C)
                    /\ -2 * errors[c] <= whole * Cardinality(C)
  <2>. SUFFICES ASSUME NEW c \in C
                PROVE  /\ 2 * errors[c] <= whole * Cardinality(C)
                       /\ -2 * errors[c] <= whole * Cardinality(C)
    OBVIOUS
  <2>. DEFINE e == errors[c]
              m == whole * n
  <2>. HIDE DEF n, U, errors
  <2>1. CASE c = last
    BY <1>1, <1>12, <1>13, <1>15, <2>1
  <2>2. CASE c # last
    <3>1. e \in Int /\ 2 * e <= whole /\ -2 * e <= whole
      BY <1>4, <1>10, <2>2
    <3>2. m \in Nat /\ whole * Cardinality(C) = m + whole
      BY <1>15
    <3>. HIDE DEF e, m
    <3>3. 2 * e <= m + whole /\ -2 * e <= m + whole
      BY <1>1, <3>1, <3>2
    <3>. QED BY <3>2, <3>3 DEF e
  <2>. QED BY <2>1, <2>2
<1>17. \A c \in C : errors[c] = shares[c] * whole - WeightOf(items, default, c) * amount
  BY DEF weights, C
<1>. HIDE DEF errors
<1>. QED BY <1>7, <1>8, <1>9, <1>16, <1>17 DEF C, whole, shares
-----------------------------------------------------------------------------
(* Entry lines of a sale or of a service *)

\* The amount of a finite set of lines.
LEMMA AmountIsSum ==
  ASSUME NEW lines, IsFiniteSet(lines)
  PROVE  AmountOf(lines) = SumOf([l \in lines |-> l.amount], lines)
BY AmountsAreSum DEF AmountOf, AmountsOf

LEMMA AmountOfOne ==
  /\ AmountOf({}) = 0
  /\ \A l : l.amount \in Int => AmountOf({l}) = l.amount
<1>1. AmountOf({}) = 0
  BY NoRows DEF AmountOf, AmountsOf
<1>2. ASSUME NEW l, l.amount \in Int
      PROVE  AmountOf({l}) = l.amount
  <2>. DEFINE f == [x \in {l} |-> x.amount]
  <2>1. IsFiniteSet({l}) /\ f[l] = l.amount
    BY FS_Singleton
  <2>2. AmountOf({l}) = SumOf(f, {l})
    BY <2>1, AmountIsSum
  <2>. HIDE DEF f
  <2>. QED BY <1>2, <2>1, <2>2, SumOfOne
<1>. QED BY <1>1, <1>2

\* A line written for a positive amount, or none for 0, is worth it.
LEMMA PositiveAmount ==
  ASSUME NEW category, NEW kind, NEW amount \in Nat
  PROVE  AmountOf(Positive(category, kind, amount)) = amount
<1>1. Line(category, kind, amount, None).amount = amount /\ amount \in Int
  BY DEF Line
<1>2. AmountOf({Line(category, kind, amount, None)}) = amount
  BY <1>1, AmountOfOne
<1>. QED BY <1>2, AmountOfOne DEF Positive

\* The lines of an apportionment: their amount, and that of each centre.
Divides(lines, doc, category, kind) ==
  /\ \A l \in lines : l.category = category /\ l.kind = kind
  /\ AmountOf(lines) = doc.total
  /\ \A c \in CentresOf(doc.items, doc.centre) :
       AmountOf({l \in lines : l.centre = c}) = Shares(doc.items, doc.total, doc.centre)[c]

LEMMA SharedAmounts ==
  ASSUME NEW doc, HasItems(doc.items), doc.total \in Nat, NEW category, NEW kind
  PROVE  Divides(Shared(doc, doc.total, category, kind), doc, category, kind)
<1>. DEFINE lines  == Shared(doc, doc.total, category, kind)
            shares == Shares(doc.items, doc.total, doc.centre)
            C      == CentresOf(doc.items, doc.centre)
            line(c) == Line(category, kind, shares[c], c)
            f      == [l \in lines |-> l.amount]
            key    == [l \in lines |-> l.centre]
<1>1. /\ shares = [c \in C |-> shares[c]] /\ \A c \in C : shares[c] \in Int
      /\ SumOf(shares, C) = doc.total
  BY SharesFair
<1>2. IsFiniteSet(C)
  BY CentresKnown
<1>3. lines = {line(c) : c \in {c \in C : shares[c] # 0}}
  <2>1. DOMAIN shares = C
    BY <1>1
  <2>. QED BY <2>1 DEF Shared
<1>. HIDE DEF shares, C, lines
<1>4. \A l \in lines : l.category = category /\ l.kind = kind /\ l.centre \in C
  BY <1>3 DEF Line
<1>5. \A l \in lines : l = line(l.centre) /\ l.amount = shares[l.centre] /\ l.amount \in Int
  BY <1>1, <1>3 DEF Line
<1>6. IsFiniteSet(lines)
  <2>. DEFINE D == {c \in C : shares[c] # 0}
              g == [c \in D |-> line(c)]
  <2>1. IsFiniteSet(D)
    BY <1>2, FS_Subset
  <2>2. g \in Surjection(D, lines)
    BY <1>3 DEF Surjection
  <2>. HIDE DEF D, g
  <2>. QED BY <2>1, <2>2, FS_Surjection
<1>7. \A c \in C : /\ shares[c] = 0 => {l \in lines : l.centre = c} = {}
                   /\ shares[c] # 0 => {l \in lines : l.centre = c} = {line(c)}
  <2>. SUFFICES ASSUME NEW c \in C
                PROVE  /\ shares[c] = 0 => {l \in lines : l.centre = c} = {}
                       /\ shares[c] # 0 => {l \in lines : l.centre = c} = {line(c)}
    OBVIOUS
  <2>1. \A l \in lines : l.centre = c => l = line(c) /\ shares[c] # 0
    BY <1>3 DEF Line
  <2>2. shares[c] # 0 => line(c) \in lines
    BY <1>3
  <2>3. line(c).centre = c
    BY DEF Line
  <2>. QED BY <2>1, <2>2, <2>3
<1>8. \A c \in C : AmountOf({l \in lines : l.centre = c}) = shares[c]
  <2>1. \A c \in C : line(c).amount = shares[c]
    BY DEF Line
  <2>2. \A c \in C : AmountOf({line(c)}) = shares[c]
    BY <1>1, <2>1, AmountOfOne
  <2>. HIDE DEF line
  <2>. QED BY <1>7, <2>2, AmountOfOne
<1>9. AreParts(shares, f, lines, key, C)
  <2>1. \A l \in lines : key[l] \in C
    BY <1>4
  <2>2. ASSUME NEW c \in C
        PROVE  shares[c] = SumOf(f, {l \in lines : key[l] = c})
    <3>. DEFINE T == {l \in lines : l.centre = c}
                k == [l \in T |-> l.amount]
    <3>1. {l \in lines : key[l] = c} = T /\ T \subseteq lines
      OBVIOUS
    <3>2. IsFiniteSet(T)
      BY <1>6, FS_Subset
    <3>3. AmountOf(T) = SumOf(k, T)
      BY <3>2, AmountIsSum
    <3>4. \A l \in T : f[l] = k[l]
      OBVIOUS
    <3>5. shares[c] = AmountOf(T)
      BY <1>8, <2>2
    <3>. HIDE DEF T, k, f, key
    <3>6. SumOf(f, T) = SumOf(k, T)
      BY <3>2, <3>4, SumOfSame
    <3>. QED BY <3>1, <3>3, <3>5, <3>6
  <2>. HIDE DEF f, key
  <2>. QED BY <2>1, <2>2 DEF AreParts
<1>10. AmountOf(lines) = SumOf(f, lines)
  BY <1>6, AmountIsSum
<1>11. SumOf(f, lines) = SumOf(shares, C)
  <2>1. \A l \in lines : f[l] \in Int
    BY <1>5
  <2>. HIDE DEF f, key
  <2>. QED BY <1>2, <1>6, <1>9, <2>1, SumOfFibers
<1>. QED BY <1>1, <1>4, <1>8, <1>10, <1>11 DEF Divides, lines, shares, C

\* Own taxes: the DAS, or those of the nature of a document.
OwnLines(t, deductions, own, amount) ==
  IF t.das > 0
  THEN Positive(deductions, Debit, t.das)
         \cup Positive("SIMPLES_NACIONAL_A_RECOLHER", Credit, t.das)
  ELSE Positive(deductions, Debit, amount + t.pis + t.cofins)
         \cup Positive(own, Credit, amount)
         \cup Positive("PIS_A_RECOLHER", Credit, t.pis)
         \cup Positive("COFINS_A_RECOLHER", Credit, t.cofins)

\* What is known of a document when it is posted.
SoundDocument(doc) ==
  /\ DOMAIN doc = DocumentFields
  /\ HasItems(doc.items) /\ doc.total \in Nat
  /\ doc.taxes = {} \/ \E t \in doc.taxes : doc.taxes = {t} /\ AreTaxes(t)

\* An entry of revenue and taxes follows its document.
LEMMA RevenueSound ==
  ASSUME NEW doc, SoundDocument(doc), NEW category, NEW taxes,
         \A l \in taxes : ~(l.kind = Credit /\ l.category = category),
         RevenueCategory(doc) = category
  PROVE  RevenueFollowsItems(doc, Shared(doc, doc.total, "CLIENTES_A_RECEBER", Debit)
           \cup Shared(doc, doc.total, category, Credit) \cup taxes)
<1>. DEFINE debits  == Shared(doc, doc.total, "CLIENTES_A_RECEBER", Debit)
            credits == Shared(doc, doc.total, category, Credit)
            lines   == debits \cup credits \cup taxes
            shares  == Shares(doc.items, doc.total, doc.centre)
            C       == CentresOf(doc.items, doc.centre)
            whole   == TotalOf(doc.items)
<1>1. /\ \A l \in debits : l.kind = Debit
      /\ \A l \in credits : l.category = category /\ l.kind = Credit
      /\ AmountOf(credits) = doc.total
      /\ \A c \in C : AmountOf({l \in credits : l.centre = c}) = shares[c]
  <2>1. HasItems(doc.items) /\ doc.total \in Nat
    BY DEF SoundDocument
  <2>2. /\ Divides(debits, doc, "CLIENTES_A_RECEBER", Debit)
        /\ Divides(credits, doc, category, Credit)
    BY <2>1, SharedAmounts
  <2>. HIDE DEF debits, credits
  <2>. QED BY <2>2 DEF Divides
<1>2. \A c \in C :
        /\ 2 * (shares[c] * whole - WeightOf(doc.items, doc.centre, c) * doc.total)
             <= whole * Cardinality(C)
        /\ -2 * (shares[c] * whole - WeightOf(doc.items, doc.centre, c) * doc.total)
             <= whole * Cardinality(C)
  BY SharesFair DEF SoundDocument
<1>. HIDE DEF debits, credits
<1>3. {l \in lines : l.kind = Credit /\ l.category = category} = credits
  BY <1>1 DEF Debit, Credit
<1>. HIDE DEF lines, shares, C, whole
<1>4. RevenueFollowsItems(doc, lines)
  BY <1>1, <1>2, <1>3 DEF RevenueFollowsItems, C, whole
<1>. QED BY <1>4 DEF lines, debits, credits

\* What the lines of an entry owe, by a tax of the nature and its amount.
Owes(lines, t, own, amount) ==
  IF t.das > 0 THEN CreditOf(lines, "SIMPLES_NACIONAL_A_RECOLHER") = t.das
  ELSE /\ CreditOf(lines, own) = amount
       /\ CreditOf(lines, "PIS_A_RECOLHER") = t.pis
       /\ CreditOf(lines, "COFINS_A_RECOLHER") = t.cofins

\* What the tax lines credit.
LEMMA OwnLinesOwe ==
  ASSUME NEW t, AreTaxes(t), NEW deductions, NEW own, NEW amount \in Nat, NEW others,
         \A l \in others :
           l.kind = Debit \/ l.category \in {"RECEITA_VENDAS", "RECEITA_SERVICOS"},
         own \in {"ICMS_A_RECOLHER", "ISS_A_RECOLHER"}
  PROVE  Owes(others \cup OwnLines(t, deductions, own, amount), t, own, amount)
<1>. DEFINE lines == others \cup OwnLines(t, deductions, own, amount)
            due(category) == {l \in lines : l.kind = Credit /\ l.category = category}
<1>. SUFFICES IF t.das > 0 THEN AmountOf(due("SIMPLES_NACIONAL_A_RECOLHER")) = t.das
              ELSE /\ AmountOf(due(own)) = amount
                   /\ AmountOf(due("PIS_A_RECOLHER")) = t.pis
                   /\ AmountOf(due("COFINS_A_RECOLHER")) = t.cofins
  BY DEF CreditOf, Owes
<1>1. CASE t.das > 0
  <2>1. due("SIMPLES_NACIONAL_A_RECOLHER") =
          Positive("SIMPLES_NACIONAL_A_RECOLHER", Credit, t.das)
    BY <1>1 DEF OwnLines, Positive, Line, Debit, Credit
  <2>2. t.das \in Nat
    BY <1>1 DEF AreTaxes
  <2>. HIDE DEF due
  <2>. QED BY <1>1, <2>1, <2>2, PositiveAmount
<1>2. CASE ~(t.das > 0)
  <2>1. due(own) = Positive(own, Credit, amount)
    BY <1>2 DEF OwnLines, Positive, Line, Debit, Credit
  <2>2. due("PIS_A_RECOLHER") = Positive("PIS_A_RECOLHER", Credit, t.pis)
    BY <1>2 DEF OwnLines, Positive, Line, Debit, Credit
  <2>3. due("COFINS_A_RECOLHER") = Positive("COFINS_A_RECOLHER", Credit, t.cofins)
    BY <1>2 DEF OwnLines, Positive, Line, Debit, Credit
  <2>4. t.pis \in Nat /\ t.cofins \in Nat
    BY DEF AreTaxes
  <2>. HIDE DEF due
  <2>. QED BY <1>2, <2>1, <2>2, <2>3, <2>4, PositiveAmount
<1>. QED BY <1>1, <1>2

\* The strategy of a sale, and of a service rendered.
LEMMA StrategyOfSale ==
  ASSUME NEW doc, Sells(doc), NEW lines \in Strategies(doc)
  PROVE  \/ doc.nature = "VENDA_MERCADORIA" /\ lines = SaleOfGoods(doc)
         \/ doc.nature = "SERVICO_PRESTADO" /\ lines = ServiceRendered(doc)
<1>1. CASE doc.nature = "VENDA_MERCADORIA"
  <2>1. Strategies(doc) = IF doc.type \in Goods THEN {SaleOfGoods(doc)} ELSE {}
    <3>1. CASE doc.type \in Goods
      BY <1>1, <3>1 DEF Strategies, Sells
    <3>2. CASE doc.type \notin Goods
      BY <1>1, <3>2 DEF Strategies, Sells
    <3>. QED BY <3>1, <3>2
  <2>. QED BY <1>1, <2>1
<1>2. CASE doc.nature = "SERVICO_PRESTADO"
  <2>1. Strategies(doc) = IF doc.type \in Services THEN {ServiceRendered(doc)} ELSE {}
    <3>1. CASE doc.type \in Services
      BY <1>2, <3>1 DEF Strategies, Sells
    <3>2. CASE doc.type \notin Services
      BY <1>2, <3>2 DEF Strategies, Sells
    <3>. QED BY <3>1, <3>2
  <2>. QED BY <1>2, <2>1
<1>. QED BY <1>1, <1>2 DEF Sells, Assessable

\* The lines of both strategies: those of the revenue, and those of own taxes.
LEMMA LinesOfTaxes ==
  ASSUME NEW doc, NEW t, doc.taxes = {t}
  PROVE  /\ TaxLines(doc, "DEDUCOES_TRIBUTARIAS_VENDAS", "ICMS_A_RECOLHER", LAMBDA x : x.icms) =
              OwnLines(t, "DEDUCOES_TRIBUTARIAS_VENDAS", "ICMS_A_RECOLHER", t.icms)
         /\ TaxLines(doc, "DEDUCOES_TRIBUTARIAS_SERVICOS", "ISS_A_RECOLHER", LAMBDA x : x.iss) =
              OwnLines(t, "DEDUCOES_TRIBUTARIAS_SERVICOS", "ISS_A_RECOLHER", t.iss)
<1>1. (CHOOSE x \in doc.taxes : TRUE) = t /\ doc.taxes # {}
  OBVIOUS
<1>. QED BY <1>1 DEF TaxLines, OwnLines

\* Tax lines credit no revenue.
LEMMA TaxesNoRevenue ==
  ASSUME NEW t, NEW deductions, NEW own \in {"ICMS_A_RECOLHER", "ISS_A_RECOLHER"}, NEW amount
  PROVE  \A l \in OwnLines(t, deductions, own, amount) :
           l.kind = Debit \/ l.category \notin {"RECEITA_VENDAS", "RECEITA_SERVICOS"}
BY DEF OwnLines, Positive, Line

\* The entry of a sale or of a service follows its document.
LEMMA SaleFollows ==
  ASSUME NEW doc, SoundDocument(doc), Sells(doc), NEW lines \in Strategies(doc)
  PROVE  OwesTaxesOf(doc, lines) /\ RevenueFollowsItems(doc, lines)
<1>. DEFINE category   == RevenueCategory(doc)
            own        == IF category = "RECEITA_VENDAS" THEN "ICMS_A_RECOLHER"
                          ELSE "ISS_A_RECOLHER"
            deductions == IF category = "RECEITA_VENDAS" THEN "DEDUCOES_TRIBUTARIAS_VENDAS"
                          ELSE "DEDUCOES_TRIBUTARIAS_SERVICOS"
            amountOf(t) == IF category = "RECEITA_VENDAS" THEN t.icms ELSE t.iss
            revenue    == Shared(doc, doc.total, "CLIENTES_A_RECEBER", Debit)
                            \cup Shared(doc, doc.total, category, Credit)
<1>1. PICK taxes :
        /\ lines = revenue \cup taxes
        /\ doc.taxes = {} => taxes = {}
        /\ \A t : doc.taxes = {t} => taxes = OwnLines(t, deductions, own, amountOf(t))
  <2>1. CASE doc.nature = "VENDA_MERCADORIA" /\ lines = SaleOfGoods(doc)
    <3>. DEFINE taxes == TaxLines(doc, "DEDUCOES_TRIBUTARIAS_VENDAS", "ICMS_A_RECOLHER",
                                  LAMBDA x : x.icms)
    <3>1. category = "RECEITA_VENDAS"
      BY <2>1 DEF RevenueCategory
    <3>2. lines = revenue \cup taxes
      BY <2>1, <3>1 DEF SaleOfGoods
    <3>3. doc.taxes = {} => taxes = {}
      BY DEF TaxLines
    <3>4. \A t : doc.taxes = {t} => taxes = OwnLines(t, deductions, own, amountOf(t))
      BY <3>1, LinesOfTaxes
    <3>. HIDE DEF taxes, revenue, category, own, deductions
    <3>. QED BY <3>2, <3>3, <3>4
  <2>2. CASE doc.nature = "SERVICO_PRESTADO" /\ lines = ServiceRendered(doc)
    <3>. DEFINE taxes == TaxLines(doc, "DEDUCOES_TRIBUTARIAS_SERVICOS", "ISS_A_RECOLHER",
                                  LAMBDA x : x.iss)
    <3>1. category = "RECEITA_SERVICOS"
      BY <2>2 DEF RevenueCategory
    <3>2. lines = revenue \cup taxes
      BY <2>2, <3>1 DEF ServiceRendered
    <3>3. doc.taxes = {} => taxes = {}
      BY DEF TaxLines
    <3>4. \A t : doc.taxes = {t} => taxes = OwnLines(t, deductions, own, amountOf(t))
      BY <3>1, LinesOfTaxes
    <3>. HIDE DEF taxes, revenue, category, own, deductions
    <3>. QED BY <3>2, <3>3, <3>4
  <2>. QED BY <2>1, <2>2, StrategyOfSale
<1>2. /\ category \in {"RECEITA_VENDAS", "RECEITA_SERVICOS"}
      /\ own \in {"ICMS_A_RECOLHER", "ISS_A_RECOLHER"}
      /\ category = "RECEITA_VENDAS" <=> doc.nature = "VENDA_MERCADORIA"
  BY DEF RevenueCategory
<1>3. \A l \in taxes : ~(l.kind = Credit /\ l.category = category)
  <2>. HIDE DEF category, own, deductions
  <2>1. CASE doc.taxes = {}
    BY <1>1, <2>1
  <2>2. CASE \E t : doc.taxes = {t}
    <3>1. PICK t : doc.taxes = {t}
      BY <2>2
    <3>2. \A l \in OwnLines(t, deductions, own, amountOf(t)) :
            l.kind = Debit \/ l.category \notin {"RECEITA_VENDAS", "RECEITA_SERVICOS"}
      BY <1>2, TaxesNoRevenue
    <3>. QED BY <1>1, <1>2, <3>1, <3>2 DEF Debit, Credit
  <2>. QED BY <2>1, <2>2 DEF SoundDocument
<1>4. RevenueFollowsItems(doc, lines)
  <2>1. RevenueCategory(doc) = category
    OBVIOUS
  <2>. HIDE DEF category
  <2>. QED BY <1>1, <1>3, <2>1, RevenueSound
<1>5. OwesTaxesOf(doc, lines)
  <2>. SUFFICES ASSUME NEW t \in doc.taxes
                PROVE  \A c \in DOMAIN DueFor(doc, t) :
                         CreditOf(lines, c) = DueFor(doc, t)[c]
    BY DEF OwesTaxesOf
  <2>1. doc.taxes = {t} /\ AreTaxes(t)
    BY DEF SoundDocument
  <2>2. amountOf(t) \in Nat
    BY <2>1 DEF AreTaxes
  <2>3. \A l \in revenue :
          l.kind = Debit \/ l.category \in {"RECEITA_VENDAS", "RECEITA_SERVICOS"}
    <3>. HIDE DEF category
    <3>1. /\ Divides(Shared(doc, doc.total, "CLIENTES_A_RECEBER", Debit), doc,
                     "CLIENTES_A_RECEBER", Debit)
          /\ Divides(Shared(doc, doc.total, category, Credit), doc, category, Credit)
      BY SharedAmounts DEF SoundDocument
    <3>. QED BY <1>2, <3>1 DEF Divides
  <2>4. lines = revenue \cup OwnLines(t, deductions, own, amountOf(t))
    BY <1>1, <2>1
  <2>5. IF t.das > 0 THEN CreditOf(lines, "SIMPLES_NACIONAL_A_RECOLHER") = t.das
        ELSE /\ CreditOf(lines, own) = amountOf(t)
             /\ CreditOf(lines, "PIS_A_RECOLHER") = t.pis
             /\ CreditOf(lines, "COFINS_A_RECOLHER") = t.cofins
    <3>. DEFINE amount == amountOf(t)
    <3>. HIDE DEF revenue, own, deductions, amount
    <3>1. Owes(revenue \cup OwnLines(t, deductions, own, amount), t, own, amount)
      <4>1. amount \in Nat
        BY <2>2 DEF amount
      <4>. QED BY <1>2, <2>1, <2>3, <4>1, OwnLinesOwe
    <3>. QED BY <2>4, <3>1 DEF amount, Owes
  <2>. HIDE DEF revenue
  <2>6. CASE t.das > 0
    BY <2>5, <2>6 DEF DueFor
  <2>7. CASE ~(t.das > 0) /\ doc.nature = "VENDA_MERCADORIA"
    BY <1>2, <2>5, <2>7 DEF DueFor
  <2>8. CASE ~(t.das > 0) /\ doc.nature # "VENDA_MERCADORIA"
    BY <1>2, <2>5, <2>8 DEF DueFor
  <2>. QED BY <2>6, <2>7, <2>8
<1>. QED BY <1>4, <1>5
-----------------------------------------------------------------------------
(* Emission: what is known of a request, and of what is committed *)

EmissionFields == {"via", "doc", "mapped", "lines"}

\* What a request has read and brings, as its progress p, its work w and its
\* emission e say.
EmissionFits(p, w, e) ==
  /\ w = [x \in WorkFields |-> w[x]]
  /\ e = [x \in EmissionFields |-> e[x]]
  /\ w.scope = "fiscal" =>
       /\ \A row \in w.row : HasRates(row.figures)
       /\ \A c \in w.change : \A f \in RateFigures \cap DOMAIN c : c[f] \in Nat
  /\ w.target \in OfFiscal(Tables) => \A row \in w.rows : IsRateRow(w.target, row)
  /\ p = "found" => w.row # {}
  /\ p \notin {"idle", "done", "failed"} /\ w.kind = "emission" =>
       w.scope = "fiscal" /\ SoundDocument(e.doc)
  /\ p \in {"assessed", "mapped", "posted"} => w.kind = "emission"
  /\ p = "posted" => e.lines \in Strategies(e.doc)

\* The rates that are committed.
RatesSound ==
  /\ \A row \in settings["fiscal"] : /\ row = [by |-> row.by, figures |-> row.figures]
                                     /\ HasRates(row.figures)
  /\ \A t \in OfFiscal(Tables) : \A row \in table[t] : IsRateRow(t, row)

\* Documents and entries are those of requests that are done; an entry is what the
\* strategy of its document gives.
BooksSound ==
  /\ \A d \in documents : d.by \in SettingsRequests /\ progress[d.by] = "done"
  /\ \A e \in entries : e.by \in SettingsRequests /\ progress[e.by] = "done"
  /\ \A d, e \in documents : d.doc.number = e.doc.number => d = e
  /\ {d.by : d \in documents} = {e.by : e \in {e \in entries : e.via = "emitir"}}
  /\ \A d \in documents : \A e \in entries :
       d.by = e.by => SoundDocument(d.doc) /\ e.lines \in Strategies(d.doc)

\* The inductive invariant of emissions.
DocumentsInvariant ==
  /\ settings = [s \in Scopes |-> settings[s]]
  /\ table = [t \in Tables |-> table[t]]
  /\ progress = [r \in SettingsRequests |-> progress[r]]
  /\ doing = [r \in SettingsRequests |-> doing[r]]
  /\ emission = [r \in SettingsRequests |-> emission[r]]
  /\ RatesSound
  /\ BooksSound
  /\ \A r \in SettingsRequests : EmissionFits(progress[r], doing[r], emission[r])

\* What it is for.
LEMMA DocumentsFollow ==
  ASSUME DocumentsInvariant
  PROVE  DocumentsMatchEntries
<1>1. ASSUME NEW d \in documents, NEW e \in entries, d.by = e.by, Sells(d.doc)
      PROVE  OwesTaxesOf(d.doc, e.lines) /\ RevenueFollowsItems(d.doc, e.lines)
  <2>1. SoundDocument(d.doc) /\ e.lines \in Strategies(d.doc)
    BY <1>1 DEF DocumentsInvariant, BooksSound
  <2>. QED BY <1>1, <2>1, SaleFollows
<1>. QED BY <1>1 DEF DocumentsInvariant, BooksSound, DocumentsMatchEntries

\* At first nothing is in progress, posted or stored.
LEMMA DocumentsStart ==
  ASSUME DocumentsAssumption
  PROVE  DocumentsInit => DocumentsInvariant
<1>. SUFFICES ASSUME DocumentsInit PROVE DocumentsInvariant
  OBVIOUS
<1>1. /\ settings = [s \in Scopes |-> settings[s]]
      /\ table = [t \in Tables |-> table[t]]
      /\ progress = [r \in SettingsRequests |-> "idle"]
      /\ doing = [r \in SettingsRequests |-> NothingDone]
      /\ emission = [r \in SettingsRequests |-> NoEmission]
      /\ documents = {} /\ entries = {}
  BY DEF DocumentsInit, SettingsInit
<1>2. RatesSound
  <2>1. \A row \in settings["fiscal"] : /\ row = [by |-> row.by, figures |-> row.figures]
                                        /\ row.figures \in Configurations("fiscal")
    BY DEF DocumentsInit, SettingsInit, DocumentsAssumption
  <2>2. \A t \in Tables : table[t] \in {{}, DefaultRows(t)}
    BY DEF DocumentsInit, SettingsInit
  <2>3. \A t \in OfFiscal(Tables) : \A row \in DefaultRows(t) : IsRateRow(t, row)
    BY DEF DocumentsAssumption, OfFiscal, DefaultRows, By, IsRateRow
  <2>. QED BY <2>1, <2>2, <2>3 DEF RatesSound, DocumentsAssumption, OfFiscal
<1>3. BooksSound
  BY <1>1 DEF BooksSound
<1>4. /\ NothingDone = [x \in WorkFields |-> NothingDone[x]]
      /\ NothingDone.row = {} /\ NothingDone.change = {} /\ NothingDone.rows = {}
      /\ NothingDone.kind = "none"
      /\ NoEmission = [x \in EmissionFields |-> NoEmission[x]]
  BY DEF NothingDone, WorkFields, NoEmission, EmissionFields
<1>5. EmissionFits("idle", NothingDone, NoEmission)
  BY <1>4 DEF EmissionFits
<1>6. \A r \in SettingsRequests : EmissionFits(progress[r], doing[r], emission[r])
  BY <1>1, <1>5
<1>. QED BY <1>1, <1>2, <1>3, <1>6 DEF DocumentsInvariant
-----------------------------------------------------------------------------
(* Assessment *)

\* What the settings of a request give to the assessment.
AreRates(s) ==
  /\ HasRates(s)
  /\ \A b \in s.brackets : b.rate \in Nat /\ b.deduct \in Nat
  /\ \A row \in s.ufRates : row.rate \in Nat

\* A tax is a number of cents; that of the goods adds up over the items.
LEMMA TaxesRounded ==
  ASSUME NEW amount \in Nat, NEW rate \in Nat
  PROVE  Rounded(amount * rate, 100) \in Nat
<1>. DEFINE product == amount * rate
<1>1. product \in Nat
  OBVIOUS
<1>. HIDE DEF product
<1>2. Rounded(product, 100) \in Int /\ (product >= 0 => Rounded(product, 100) >= 0)
  BY <1>1, RoundedWithin
<1>. QED BY <1>1, <1>2 DEF product

LEMMA IcmsFair ==
  ASSUME NEW s, AreRates(s), NEW items, HasItems(items)
  PROVE  Icms(s, items) \in Nat
<1>. DEFINE D == DOMAIN items
            tax == [k \in D |-> items[k].value * IcmsRate(s, items[k])]
            total == TotalIn(tax, D)
<1>1. \A i : IcmsRate(s, i) \in Nat
  <2>. SUFFICES ASSUME NEW i PROVE IcmsRate(s, i) \in Nat
    OBVIOUS
  <2>1. s.icmsRate \in Nat
    BY DEF AreRates, HasRates, RateFigures
  <2>2. InterstateRate(i.from, i.to) \in Nat
    BY DEF InterstateRate
  <2>. DEFINE custom == {r \in s.ufRates : r.uf = IF i.to # None THEN i.to ELSE i.from}
  <2>3. custom # {} => (CHOOSE r \in custom : TRUE).rate \in Nat
    <3>1. \A r \in custom : r.rate \in Nat
      BY DEF AreRates
    <3>. HIDE DEF custom
    <3>. QED BY <3>1
  <2>. QED BY <2>1, <2>2, <2>3 DEF IcmsRate
<1>2. \A k \in D : tax[k] \in Nat /\ tax[k] \in Int
  BY <1>1 DEF HasItems
<1>3. IsFiniteSet(D)
  BY CentresKnown
<1>4. total = SumOf(tax, D)
  BY DEF TotalIn, SumOf
<1>5. Icms(s, items) = Rounded(total, 100)
  BY DEF Icms
<1>. HIDE DEF tax, D, total
<1>6. total \in Nat
  BY <1>2, <1>3, <1>4, SumOfInt
<1>7. Rounded(total, 100) \in Int /\ (total >= 0 => Rounded(total, 100) >= 0)
  BY <1>6, RoundedWithin
<1>. QED BY <1>5, <1>6, <1>7

LEMMA DasWhole ==
  ASSUME NEW s, AreRates(s), NEW total \in Nat
  PROVE  \A d \in Das(s, total) : d \in Int
<1>. SUFFICES ASSUME NEW d \in Das(s, total) PROVE d \in Int
  OBVIOUS
<1>1. s.rbt12 \in Nat
  BY DEF AreRates, HasRates, RateFigures
<1>2. s.rbt12 > 0
  BY <1>1 DEF Das
<1>3. PICK b \in FittingBrackets(s) :
        d = Rounded(total * (s.rbt12 * b.rate - 100 * b.deduct), 100 * s.rbt12)
  BY <1>2 DEF Das
<1>4. b.rate \in Nat /\ b.deduct \in Nat
  BY DEF AreRates, FittingBrackets
<1>. DEFINE num == total * (s.rbt12 * b.rate - 100 * b.deduct)
            den == 100 * s.rbt12
<1>5. num \in Int /\ den \in Nat /\ den > 0
  <2>1. s.rbt12 * b.rate \in Int
    BY <1>1, <1>4
  <2>. DEFINE diff == s.rbt12 * b.rate - 100 * b.deduct
  <2>2. diff \in Int
    BY <1>4, <2>1
  <2>3. den \in Nat /\ den > 0
    BY <1>1, <1>2
  <2>4. num \in Int
    <3>. HIDE DEF diff
    <3>1. total * diff \in Int
      BY <2>2
    <3>. QED BY <3>1 DEF diff
  <2>. QED BY <2>3, <2>4
<1>. HIDE DEF num, den
<1>6. Rounded(num, den) \in Int
  BY <1>5, RoundedWithin
<1>. QED BY <1>3, <1>6 DEF num, den

\* Whatever the assessment results in, its taxes are numbers.
LEMMA AssessedTaxes ==
  ASSUME NEW s, AreRates(s), NEW nature, NEW items, HasItems(items)
  PROVE  \A t \in Assessed(s, nature, items) : AreTaxes(t)
<1>. SUFFICES ASSUME NEW t \in Assessed(s, nature, items) PROVE AreTaxes(t)
  OBVIOUS
<1>. DEFINE total == TotalOf(items)
            pis == Rounded(total * s.pisRate, 100)
            cofins == Rounded(total * s.cofinsRate, 100)
            iss == Rounded(total * s.issRate, 100)
            icms == Icms(s, items)
            base == [NoTaxes EXCEPT !.pis = pis, !.cofins = cofins]
<1>1. total \in Nat
  BY WeightsSum
<1>2. s.pisRate \in Nat /\ s.cofinsRate \in Nat /\ s.issRate \in Nat
  BY DEF AreRates, HasRates, RateFigures
<1>3. pis \in Nat /\ cofins \in Nat /\ iss \in Nat /\ icms \in Nat
  <2>. HIDE DEF total
  <2>. QED BY <1>1, <1>2, TaxesRounded, IcmsFair
<1>4. \A d \in Das(s, total) : d \in Int
  <2>. HIDE DEF total
  <2>. QED BY <1>1, DasWhole
<1>5. \/ \E d \in Das(s, total) : t = [NoTaxes EXCEPT !.das = d]
      \/ t = [base EXCEPT !.icms = icms]
      \/ t = [base EXCEPT !.iss = iss]
      \/ t = NoTaxes
  BY DEF Assessed
<1>. HIDE DEF pis, cofins, iss, icms, total
<1>6. CASE \E d \in Das(s, total) : t = [NoTaxes EXCEPT !.das = d]
  BY <1>4, <1>6 DEF NoTaxes, AreTaxes
<1>7. CASE t = [base EXCEPT !.icms = icms]
  BY <1>3, <1>7 DEF NoTaxes, AreTaxes
<1>8. CASE t = [base EXCEPT !.iss = iss]
  BY <1>3, <1>8 DEF NoTaxes, AreTaxes
<1>9. CASE t = NoTaxes
  BY <1>9 DEF NoTaxes, AreTaxes
<1>. QED BY <1>5, <1>6, <1>7, <1>8, <1>9

\* Rows of the defaults are those of their content.
LEMMA DefaultRates ==
  ASSUME DocumentsAssumption, NEW t \in OfFiscal(Tables)
  PROVE  \A row \in DefaultRows(t) : IsRateRow(t, row)
BY DEF DocumentsAssumption, OfFiscal, DefaultRows, By, IsRateRow

\* What an emission reads of the settings are rates.
LEMMA RatesRead ==
  ASSUME SettingsAssumption, DocumentsAssumption, DocumentsInvariant,
         NEW r \in SettingsRequests,
         doing[r].row # {}, doing[r].scope = "fiscal"
  PROVE  AreRates(SettingsRead(r))
<1>. DEFINE figures == (CHOOSE row \in doing[r].row : TRUE).figures
            s == SettingsRead(r)
            names == DOMAIN figures \cup {"brackets", "ufRates"}
<1>1. \A row \in doing[r].row : HasRates(row.figures)
  BY DEF DocumentsInvariant, EmissionFits
<1>2. HasRates(figures)
  BY <1>1
<1>3. \A t \in OfFiscal(Tables) : \A row \in TableSeen(r, t) : IsRateRow(t, row)
  BY DefaultRates DEF DocumentsInvariant, RatesSound, TableSeen
<1>4. \A f \in names :
        s[f] = CASE f = "brackets" -> UNION {Plain(TableSeen(r, t)) : t \in Annexes}
                 [] f = "ufRates"  -> UNION {Plain(TableSeen(r, t)) : t \in OfFiscal(Keyed)}
                 [] OTHER          -> figures[f]
  BY DEF SettingsRead
<1>5. DOMAIN s = names
  BY DEF SettingsRead
<1>. HIDE DEF s, figures
<1>6. s.brackets = UNION {Plain(TableSeen(r, t)) : t \in Annexes}
  BY <1>4
<1>7. s.ufRates = UNION {Plain(TableSeen(r, t)) : t \in OfFiscal(Keyed)}
  BY <1>4
<1>8. HasRates(s)
  BY <1>2, <1>4, <1>5 DEF HasRates, RateFigures
<1>9. \A b \in s.brackets : b.rate \in Nat /\ b.deduct \in Nat
  BY <1>3, <1>6 DEF Annexes, OfFiscal, Plain, IsRateRow
<1>10. \A row \in s.ufRates : row.rate \in Nat
  BY <1>3, <1>7 DEF SettingsAssumption, OfFiscal, Plain, IsRateRow
<1>. QED BY <1>8, <1>9, <1>10 DEF AreRates, s
-----------------------------------------------------------------------------
(* Steps of an emission *)

\* A request that is not under way needs nothing.
LEMMA NothingFits ==
  ASSUME NEW p \in {"idle", "done", "failed"}, NEW e, e = [x \in EmissionFields |-> e[x]]
  PROVE  EmissionFits(p, NothingDone, e)
<1>1. /\ NothingDone = [x \in WorkFields |-> NothingDone[x]]
      /\ NothingDone.row = {} /\ NothingDone.change = {} /\ NothingDone.rows = {}
  BY DEF NothingDone, WorkFields
<1>. QED BY <1>1 DEF EmissionFits

LEMMA NoEmissionFields == NoEmission = [x \in EmissionFields |-> NoEmission[x]]
BY DEF NoEmission, EmissionFields

\* What a step that concerns one request says of the others.
LEMMA OthersStay ==
  ASSUME DocumentsInvariant, NEW r \in SettingsRequests, NEW to, NEW done, Proceeds(r, to, done)
  PROVE  /\ progress'[r] = to /\ doing'[r] = done
         /\ progress' = [q \in SettingsRequests |-> progress'[q]]
         /\ doing' = [q \in SettingsRequests |-> doing'[q]]
         /\ \A q \in SettingsRequests \ {r} : progress'[q] = progress[q] /\ doing'[q] = doing[q]
BY DEF DocumentsInvariant, Proceeds

\* The emissions of the others stay, but for one that has failed.
EmissionOf(r, e) ==
  /\ emission' = [q \in SettingsRequests |-> emission'[q]]
  /\ emission'[r] = e
  /\ \A q \in SettingsRequests \ {r} :
       \/ emission'[q] = emission[q]
       \/ progress[q] = "failed" /\ emission'[q] = NoEmission

\* The others fit as before.
LEMMA OthersFit ==
  ASSUME DocumentsInvariant, NEW r \in SettingsRequests, NEW to, NEW done, NEW e,
         Proceeds(r, to, done), EmissionOf(r, e), EmissionFits(to, done, e)
  PROVE  \A q \in SettingsRequests : EmissionFits(progress'[q], doing'[q], emission'[q])
<1>. SUFFICES ASSUME NEW q \in SettingsRequests
              PROVE  EmissionFits(progress'[q], doing'[q], emission'[q])
  OBVIOUS
<1>1. CASE q = r
  BY <1>1, OthersStay DEF EmissionOf
<1>2. CASE q # r
  <2>1. /\ progress'[q] = progress[q] /\ doing'[q] = doing[q]
        /\ EmissionFits(progress[q], doing[q], emission[q])
    BY <1>2, OthersStay DEF DocumentsInvariant
  <2>2. \/ emission'[q] = emission[q]
        \/ progress[q] = "failed" /\ emission'[q] = NoEmission
    BY <1>2 DEF EmissionOf
  <2>3. CASE emission'[q] = emission[q]
    BY <2>1, <2>3
  <2>4. CASE progress[q] = "failed" /\ emission'[q] = NoEmission
    BY <2>1, <2>4, NoEmissionFields DEF EmissionFits
  <2>. QED BY <2>2, <2>3, <2>4
<1>. QED BY <1>1, <1>2

\* A step that commits nothing has to fit its request.
LEMMA GoesOnKeeps ==
  ASSUME DocumentsInvariant, NEW r \in SettingsRequests, NEW to, NEW done, NEW e,
         Proceeds(r, to, done), EmissionOf(r, e), EmissionFits(to, done, e),
         progress[r] # "done", UNCHANGED <<committed, books>>
  PROVE  DocumentsInvariant'
<1>1. settings' = settings /\ table' = table /\ documents' = documents /\ entries' = entries
  BY DEF committed, books
<1>2. /\ progress' = [q \in SettingsRequests |-> progress'[q]]
      /\ doing' = [q \in SettingsRequests |-> doing'[q]]
      /\ \A q \in SettingsRequests \ {r} : progress'[q] = progress[q]
  BY OthersStay
<1>3. RatesSound'
  BY <1>1 DEF DocumentsInvariant, RatesSound
<1>4. BooksSound'
  <2>1. \A q \in SettingsRequests : progress[q] = "done" => progress'[q] = "done"
    BY <1>2
  <2>2. BooksSound
    BY DEF DocumentsInvariant
  <2>3. (\A d \in documents : d.by \in SettingsRequests /\ progress[d.by] = "done")'
    BY <1>1, <2>1, <2>2 DEF BooksSound
  <2>4. (\A d \in entries : d.by \in SettingsRequests /\ progress[d.by] = "done")'
    BY <1>1, <2>1, <2>2 DEF BooksSound
  <2>. QED BY <1>1, <2>2, <2>3, <2>4 DEF BooksSound
<1>5. \A q \in SettingsRequests : EmissionFits(progress'[q], doing'[q], emission'[q])
  BY OthersFit
<1>. QED BY <1>1, <1>2, <1>3, <1>4, <1>5 DEF DocumentsInvariant, EmissionOf

\* Whoever fails leaves nothing.
LEMMA RefuseFits ==
  ASSUME DocumentsInvariant, NEW r \in SettingsRequests, progress[r] # "done", Refuse(r)
  PROVE  DocumentsInvariant'
<1>1. /\ Proceeds(r, "failed", NothingDone) /\ UNCHANGED <<committed, books>>
      /\ EmissionOf(r, NoEmission)
  BY DEF Refuse, RollsBack, EmissionOf, DocumentsInvariant
<1>2. EmissionFits("failed", NothingDone, NoEmission)
  BY NothingFits, NoEmissionFields
<1>. QED BY <1>1, <1>2, GoesOnKeeps

\* A document that a request may carry can be posted.
LEMMA DocumentGiven ==
  ASSUME DocumentsAssumption, NEW doc \in Documents, WellFormed(doc)
  PROVE  SoundDocument(doc)
BY DEF DocumentsAssumption, WellFormed, SoundDocument, HasItems

LEMMA BeginEmissionFits ==
  ASSUME DocumentsAssumption, DocumentsInvariant, NEW r \in SettingsRequests, BeginEmission(r)
  PROVE  DocumentsInvariant'
<1>1. PICK via \in {"emitir", "lancar"}, doc \in Documents, given \in Mappings :
        /\ WellFormed(doc)
        /\ \/ Begins(r, Emission)
           \/ /\ progress[r] = "idle"
              /\ Proceeds(r, "mapped", Emission)
              /\ UNCHANGED committed
        /\ emission' = [emission EXCEPT ![r] =
             [via |-> via, doc |-> doc, mapped |-> given, lines |-> {}]]
        /\ UNCHANGED books
  BY DEF BeginEmission
<1>. DEFINE e == [via |-> via, doc |-> doc, mapped |-> given, lines |-> {}]
<1>2. EmissionOf(r, e)
  BY <1>1 DEF EmissionOf, DocumentsInvariant
<1>3. e = [x \in EmissionFields |-> e[x]] /\ e.doc = doc
  BY DEF EmissionFields
<1>4. SoundDocument(doc)
  BY <1>1, DocumentGiven
<1>5. /\ Emission = [x \in WorkFields |-> Emission[x]]
      /\ Emission.scope = "fiscal" /\ Emission.kind = "emission" /\ Emission.row = {}
      /\ Emission.change = {} /\ Emission.rows = {}
  BY DEF Emission, NothingDone, WorkFields
<1>. HIDE DEF e
<1>6. CASE Begins(r, Emission)
  <2>. DEFINE done == [Emission EXCEPT !.row = settings["fiscal"]]
              to == IF settings["fiscal"] = {} THEN "absent" ELSE "found"
  <2>1. Proceeds(r, to, done) /\ UNCHANGED committed /\ progress[r] = "idle"
    BY <1>5, <1>6 DEF Begins
  <2>2. /\ done = [x \in WorkFields |-> done[x]]
        /\ done.scope = "fiscal" /\ done.kind = "emission" /\ done.row = settings["fiscal"]
        /\ done.change = {} /\ done.rows = {}
    BY <1>5 DEF WorkFields
  <2>3. \A row \in settings["fiscal"] : HasRates(row.figures)
    BY DEF DocumentsInvariant, RatesSound
  <2>4. EmissionFits(to, done, e)
    <3>. HIDE DEF done
    <3>. QED BY <1>3, <1>4, <2>2, <2>3 DEF EmissionFits
  <2>. HIDE DEF to, done
  <2>. QED BY <1>1, <1>2, <2>1, <2>4, GoesOnKeeps DEF committed, books
<1>7. CASE /\ progress[r] = "idle"
           /\ Proceeds(r, "mapped", Emission)
           /\ UNCHANGED committed
  <2>1. EmissionFits("mapped", Emission, e)
    BY <1>3, <1>4, <1>5 DEF EmissionFits
  <2>. QED BY <1>1, <1>2, <1>7, <2>1, GoesOnKeeps DEF committed, books
<1>. QED BY <1>1, <1>6, <1>7

\* Assessed taxes are part of a sound document.
LEMMA WithTaxes ==
  ASSUME NEW doc, SoundDocument(doc), NEW t, AreTaxes(t)
  PROVE  SoundDocument([doc EXCEPT !.taxes = {t}])
<1>. DEFINE new == [doc EXCEPT !.taxes = {t}]
<1>1. /\ DOMAIN new = DocumentFields /\ new.items = doc.items /\ new.total = doc.total
      /\ new.taxes = {t}
  BY DEF SoundDocument, DocumentFields
<1>. HIDE DEF new
<1>2. SoundDocument(new)
  BY <1>1 DEF SoundDocument
<1>. QED BY <1>2 DEF new

LEMMA AssessFits ==
  ASSUME SettingsAssumption, DocumentsAssumption, DocumentsInvariant,
         NEW r \in SettingsRequests, Assess(r)
  PROVE  DocumentsInvariant'
<1>1. progress[r] = "found" /\ doing[r].kind = "emission"
  BY DEF Assess
<1>2. CASE Refuse(r)
  BY <1>1, <1>2, RefuseFits
<1>3. ASSUME ~Refuse(r) PROVE DocumentsInvariant'
  <2>. DEFINE doc == emission[r].doc
              to == IF emission[r].via = "emitir" THEN "assessed" ELSE "mapped"
  <2>1. PICK t \in Assessed(SettingsRead(r), doc.nature, doc.items) :
          /\ Proceeds(r, to, doing[r])
          /\ emission' = [emission EXCEPT ![r].doc.taxes = {t}]
          /\ UNCHANGED <<committed, overlapped, books>>
    BY <1>3 DEF Assess
  <2>2. EmissionFits(progress[r], doing[r], emission[r])
    BY DEF DocumentsInvariant
  <2>3. SoundDocument(doc) /\ doing[r].scope = "fiscal" /\ doing[r].row # {}
    BY <1>1, <2>2 DEF EmissionFits
  <2>4. AreTaxes(t)
    <3>1. AreRates(SettingsRead(r))
      BY <2>3, RatesRead
    <3>2. HasItems(doc.items)
      BY <2>3 DEF SoundDocument
    <3>. QED BY <2>1, <3>1, <3>2, AssessedTaxes
  <2>. DEFINE new == [doc EXCEPT !.taxes = {t}]
              e == [emission[r] EXCEPT !.doc = new]
  <2>5. SoundDocument(new)
    BY <2>3, <2>4, WithTaxes
  <2>6. emission' = [emission EXCEPT ![r] = e]
    BY <2>1
  <2>. HIDE DEF new
  <2>7. e = [x \in EmissionFields |-> e[x]] /\ e.doc = new
    BY <2>2 DEF EmissionFits, EmissionFields
  <2>. HIDE DEF e
  <2>8. EmissionOf(r, e)
    BY <2>6 DEF EmissionOf, DocumentsInvariant
  <2>9. EmissionFits(to, doing[r], e)
    BY <1>1, <2>2, <2>3, <2>5, <2>7 DEF EmissionFits
  <2>. HIDE DEF to, doc
  <2>. QED BY <1>1, <2>1, <2>8, <2>9, GoesOnKeeps DEF committed, books
<1>. QED BY <1>2, <1>3

LEMMA MapAccountsFits ==
  ASSUME DocumentsInvariant, NEW r \in SettingsRequests, MapAccounts(r)
  PROVE  DocumentsInvariant'
<1>1. PICK more : emission' = [emission EXCEPT ![r].mapped = @ \cup more]
  BY DEF MapAccounts
<1>. DEFINE e == [emission[r] EXCEPT !.mapped = @ \cup more]
<1>2. EmissionFits(progress[r], doing[r], emission[r])
  BY DEF DocumentsInvariant
<1>3. e = [x \in EmissionFields |-> e[x]] /\ e.doc = emission[r].doc
  BY <1>2 DEF EmissionFits, EmissionFields
<1>4. EmissionOf(r, e)
  BY <1>1 DEF EmissionOf, DocumentsInvariant
<1>. HIDE DEF e
<1>5. /\ progress[r] \in {"found", "assessed"}
      /\ progress[r] = "found" => doing[r].kind = "emission"
      /\ Proceeds(r, "mapped", doing[r]) /\ UNCHANGED <<committed, books>>
  BY DEF MapAccounts
<1>6. EmissionFits("mapped", doing[r], e)
  BY <1>2, <1>3, <1>5 DEF EmissionFits
<1>. QED BY <1>4, <1>5, <1>6, GoesOnKeeps

LEMMA PostFits ==
  ASSUME DocumentsInvariant, NEW r \in SettingsRequests, Post(r)
  PROVE  DocumentsInvariant'
<1>1. progress[r] = "mapped"
  BY DEF Post
<1>2. CASE Refuse(r)
  BY <1>1, <1>2, RefuseFits
<1>3. ASSUME ~Refuse(r) PROVE DocumentsInvariant'
  <2>1. PICK lines \in Drafts(emission[r].doc, emission[r].mapped) :
          /\ Proceeds(r, "posted", doing[r])
          /\ emission' = [emission EXCEPT ![r].lines = lines]
          /\ UNCHANGED <<committed, overlapped, books>>
    BY <1>3 DEF Post
  <2>. DEFINE e == [emission[r] EXCEPT !.lines = lines]
  <2>2. EmissionFits(progress[r], doing[r], emission[r])
    BY DEF DocumentsInvariant
  <2>3. /\ e = [x \in EmissionFields |-> e[x]] /\ e.doc = emission[r].doc
        /\ e.lines = lines
    BY <2>2 DEF EmissionFits, EmissionFields
  <2>4. EmissionOf(r, e)
    BY <2>1 DEF EmissionOf, DocumentsInvariant
  <2>. HIDE DEF e
  <2>5. lines \in Strategies(e.doc)
    BY <2>1, <2>3 DEF Drafts
  <2>6. EmissionFits("posted", doing[r], e)
    BY <1>1, <2>2, <2>3, <2>5 DEF EmissionFits
  <2>. QED BY <1>1, <2>1, <2>4, <2>6, GoesOnKeeps DEF committed, books
<1>. QED BY <1>2, <1>3
-----------------------------------------------------------------------------
(* Steps on the settings, with no emission of their own to show *)

\* A step of the settings that commits nothing.
StepFits(r, to, done) ==
  /\ Proceeds(r, to, done) /\ UNCHANGED committed /\ progress[r] # "done"
  /\ EmissionFits(to, done, IF to = "failed" THEN NoEmission ELSE emission[r])

LEMMA AbortFits ==
  ASSUME NEW r, RollsBack(r), progress[r] # "done"
  PROVE  StepFits(r, "failed", NothingDone)
BY NothingFits, NoEmissionFields DEF StepFits, RollsBack

\* What the request asks fits the settings it is about.
LEMMA BeginsFits ==
  ASSUME DocumentsInvariant, NEW r \in SettingsRequests, NEW asked, Begins(r, asked),
         asked = [x \in WorkFields |-> asked[x]], asked.kind # "emission",
         asked.scope = "fiscal" =>
           \A c \in asked.change : \A f \in RateFigures \cap DOMAIN c : c[f] \in Nat,
         asked.target \in OfFiscal(Tables) =>
           \A row \in asked.rows : IsRateRow(asked.target, row)
  PROVE  \E to, done : StepFits(r, to, done)
<1>. DEFINE to == IF settings[asked.scope] = {} THEN "absent" ELSE "found"
            done == [asked EXCEPT !.row = settings[asked.scope]]
<1>1. Proceeds(r, to, done) /\ UNCHANGED committed /\ progress[r] = "idle"
  BY DEF Begins
<1>2. /\ done = [x \in WorkFields |-> done[x]]
      /\ done.kind # "emission" /\ done.scope = asked.scope /\ done.change = asked.change
      /\ done.row = settings[asked.scope] /\ done.target = asked.target
      /\ done.rows = asked.rows
  BY DEF WorkFields
<1>3. EmissionFits(progress[r], doing[r], emission[r]) /\ RatesSound
  BY DEF DocumentsInvariant
<1>4. to \in {"absent", "found"} /\ (to = "found" => done.row # {})
  BY <1>2
<1>5. done.scope = "fiscal" => \A row \in done.row : HasRates(row.figures)
  BY <1>2, <1>3 DEF RatesSound
<1>. HIDE DEF to, done
<1>6. EmissionFits(to, done, emission[r])
  BY <1>2, <1>3, <1>4, <1>5 DEF EmissionFits
<1>7. StepFits(r, to, done)
  BY <1>1, <1>4, <1>6 DEF StepFits
<1>. QED BY <1>7

LEMMA EachBeginsFits ==
  ASSUME DocumentsAssumption, DocumentsInvariant, NEW r \in SettingsRequests,
         \/ \E s \in Scopes : BeginGet(r, s) \/ BeginChange(r, s)
         \/ \E t \in Tables : BeginReplace(r, t)
  PROVE  \E to, done : StepFits(r, to, done)
<1>1. ASSUME NEW s \in Scopes, BeginGet(r, s) PROVE \E to, done : StepFits(r, to, done)
  <2>. DEFINE asked == [NothingDone EXCEPT !.kind = "get", !.scope = s]
  <2>1. /\ asked = [x \in WorkFields |-> asked[x]]
        /\ asked.kind = "get" /\ asked.change = {} /\ asked.rows = {}
    BY DEF NothingDone, WorkFields
  <2>2. Begins(r, asked)
    BY <1>1 DEF BeginGet
  <2>. HIDE DEF asked
  <2>. QED BY <2>1, <2>2, BeginsFits
<1>2. ASSUME NEW s \in Scopes, BeginChange(r, s) PROVE \E to, done : StepFits(r, to, done)
  <2>1. PICK c \in Changes(s) :
          Begins(r, [NothingDone EXCEPT !.kind = "update", !.scope = s, !.change = {c}])
    BY <1>2 DEF BeginChange
  <2>. DEFINE asked == [NothingDone EXCEPT !.kind = "update", !.scope = s, !.change = {c}]
  <2>2. /\ asked = [x \in WorkFields |-> asked[x]]
        /\ asked.kind = "update" /\ asked.scope = s /\ asked.change = {c} /\ asked.rows = {}
    BY DEF NothingDone, WorkFields
  <2>3. Begins(r, asked)
    BY <2>1
  <2>4. s = "fiscal" => \A f \in RateFigures \cap DOMAIN c : c[f] \in Nat
    BY DEF DocumentsAssumption
  <2>. HIDE DEF asked
  <2>. QED BY <2>2, <2>3, <2>4, BeginsFits
<1>3. ASSUME NEW t \in Tables, BeginReplace(r, t) PROVE \E to, done : StepFits(r, to, done)
  <2>1. PICK content \in Contents(t) :
          Begins(r, [NothingDone EXCEPT !.kind = "replace", !.scope = ScopeOf(t), !.target = t,
                                        !.rows = By(r, content)])
    BY <1>3 DEF BeginReplace
  <2>. DEFINE asked == [NothingDone EXCEPT !.kind = "replace", !.scope = ScopeOf(t),
                                           !.target = t, !.rows = By(r, content)]
  <2>2. /\ asked = [x \in WorkFields |-> asked[x]]
        /\ asked.kind = "replace" /\ asked.target = t /\ asked.rows = By(r, content)
        /\ asked.change = {}
    BY DEF NothingDone, WorkFields
  <2>3. Begins(r, asked)
    BY <2>1
  <2>4. t \in OfFiscal(Tables) => \A row \in By(r, content) : IsRateRow(t, row)
    BY DEF DocumentsAssumption, OfFiscal, By, IsRateRow
  <2>. HIDE DEF asked
  <2>. QED BY <2>2, <2>3, <2>4, BeginsFits
<1>. QED BY <1>1, <1>2, <1>3

\* A row that is created has the rates of the defaults.
LEMMA CreateFits ==
  ASSUME DocumentsAssumption, DocumentsInvariant, NEW r \in SettingsRequests, CreateSettings(r)
  PROVE  \E to, done : StepFits(r, to, done)
<1>. DEFINE done == [doing[r] EXCEPT !.created = TRUE, !.row = {NewSettings(r)}]
<1>1. /\ progress[r] = "absent"
      /\ RollsBack(r) \/ (Proceeds(r, "found", done) /\ UNCHANGED committed)
  BY DEF CreateSettings
<1>2. CASE RollsBack(r)
  BY <1>1, <1>2, AbortFits
<1>3. CASE Proceeds(r, "found", done) /\ UNCHANGED committed
  <2>1. EmissionFits(progress[r], doing[r], emission[r])
    BY DEF DocumentsInvariant
  <2>2. PICK w : w = doing[r] /\ w = [x \in WorkFields |-> w[x]]
    BY <2>1 DEF EmissionFits
  <2>3. /\ done = [x \in WorkFields |-> done[x]]
        /\ done.kind = w.kind /\ done.scope = w.scope /\ done.change = w.change
        /\ done.row = {NewSettings(r)} /\ done.target = w.target /\ done.rows = w.rows
    BY <2>2 DEF WorkFields
  <2>4. w.scope = "fiscal" => HasRates(NewSettings(r).figures)
    BY <2>2 DEF NewSettings, DocumentsAssumption
  <2>. HIDE DEF done
  <2>5. EmissionFits("found", done, emission[r])
    BY <1>1, <2>1, <2>2, <2>3, <2>4 DEF EmissionFits
  <2>6. StepFits(r, "found", done)
    BY <1>1, <1>3, <2>5 DEF StepFits
  <2>. QED BY <2>6
<1>. QED BY <1>1, <1>2, <1>3

\* Checks and writes of a request keep what it was given.
LEMMA SameWorkFits ==
  ASSUME DocumentsInvariant, NEW r \in SettingsRequests,
         progress[r] \notin {"idle", "done", "failed"},
         NEW to \in {"scanned", "deleted", "written"},
         NEW seen, NEW dropped,
         Proceeds(r, to, [doing[r] EXCEPT !.seen = seen, !.dropped = dropped]),
         UNCHANGED committed
  PROVE  \E p, w : StepFits(r, p, w)
<1>. DEFINE done == [doing[r] EXCEPT !.seen = seen, !.dropped = dropped]
<1>1. EmissionFits(progress[r], doing[r], emission[r])
  BY DEF DocumentsInvariant
<1>2. PICK w : w = doing[r] /\ w = [x \in WorkFields |-> w[x]]
  BY <1>1 DEF EmissionFits
<1>3. /\ done = [x \in WorkFields |-> done[x]]
      /\ done.kind = w.kind /\ done.scope = w.scope /\ done.change = w.change
      /\ done.row = w.row /\ done.target = w.target /\ done.rows = w.rows
  BY <1>2 DEF WorkFields
<1>. HIDE DEF done
<1>4. EmissionFits(to, done, emission[r])
  BY <1>1, <1>2, <1>3 DEF EmissionFits
<1>5. StepFits(r, to, done)
  BY <1>4 DEF StepFits, done
<1>. QED BY <1>5

LEMMA ReplacesFits ==
  ASSUME DocumentsInvariant, NEW r \in SettingsRequests,
         WriteChange(r) \/ ScanTable(r) \/ DeleteRows(r) \/ InsertRows(r)
  PROVE  \E to, done : StepFits(r, to, done)
<1>1. EmissionFits(progress[r], doing[r], emission[r])
  BY DEF DocumentsInvariant
<1>2. PICK w : w = doing[r] /\ w = [x \in WorkFields |-> w[x]]
  BY <1>1 DEF EmissionFits
<1>3. w = [w EXCEPT !.seen = w.seen, !.dropped = w.dropped]
  BY <1>2 DEF WorkFields
<1>4. \A s : /\ [w EXCEPT !.seen = s] = [w EXCEPT !.seen = s, !.dropped = w.dropped]
             /\ [w EXCEPT !.dropped = s] = [w EXCEPT !.seen = w.seen, !.dropped = s]
  BY <1>2 DEF WorkFields
<1>5. progress[r] \notin {"idle", "done", "failed"}
  BY DEF WriteChange, ScanTable, DeleteRows, InsertRows
<1>6. \/ RollsBack(r)
      \/ Proceeds(r, "written", w) /\ UNCHANGED committed
      \/ \E s : Proceeds(r, "scanned", [w EXCEPT !.seen = s]) /\ UNCHANGED committed
      \/ \E s : Proceeds(r, "deleted", [w EXCEPT !.dropped = s]) /\ UNCHANGED committed
  BY <1>2 DEF WriteChange, ScanTable, DeleteRows, InsertRows
<1>7. CASE RollsBack(r)
  BY <1>5, <1>7, AbortFits
<1>8. CASE Proceeds(r, "written", w) /\ UNCHANGED committed
  <2>1. Proceeds(r, "written", [doing[r] EXCEPT !.seen = w.seen, !.dropped = w.dropped])
    BY <1>2, <1>3, <1>8
  <2>. QED BY <1>5, <1>8, <2>1, SameWorkFits
<1>9. ASSUME NEW s, Proceeds(r, "scanned", [w EXCEPT !.seen = s]), UNCHANGED committed
      PROVE  \E to, done : StepFits(r, to, done)
  <2>1. Proceeds(r, "scanned", [doing[r] EXCEPT !.seen = s, !.dropped = w.dropped])
    BY <1>2, <1>4, <1>9
  <2>. QED BY <1>5, <1>9, <2>1, SameWorkFits
<1>10. ASSUME NEW s, Proceeds(r, "deleted", [w EXCEPT !.dropped = s]), UNCHANGED committed
       PROVE  \E to, done : StepFits(r, to, done)
  <2>1. Proceeds(r, "deleted", [doing[r] EXCEPT !.seen = w.seen, !.dropped = s])
    BY <1>2, <1>4, <1>10
  <2>. QED BY <1>5, <1>10, <2>1, SameWorkFits
<1>. QED BY <1>6, <1>7, <1>8, <1>9, <1>10
-----------------------------------------------------------------------------
(* Commits *)

\* An update keeps a row of rates one.
LEMMA AppliedRates ==
  ASSUME NEW row, row = [by |-> row.by, figures |-> row.figures], HasRates(row.figures),
         NEW changes, \A c \in changes : \A f \in RateFigures \cap DOMAIN c : c[f] \in Nat
  PROVE  LET new == Applied(row, changes)
         IN new = [by |-> new.by, figures |-> new.figures] /\ HasRates(new.figures)
<1>. DEFINE old == row.figures
            figures == [f \in DOMAIN old |->
                          IF \E c \in changes : f \in DOMAIN c
                          THEN (CHOOSE c \in changes : f \in DOMAIN c)[f] ELSE old[f]]
<1>1. Applied(row, changes) = [by |-> row.by, figures |-> figures]
  BY DEF Applied
<1>2. \A f \in RateFigures : f \in DOMAIN old /\ old[f] \in Nat
  BY DEF HasRates
<1>3. ASSUME NEW f \in RateFigures PROVE f \in DOMAIN figures /\ figures[f] \in Nat
  <2>. DEFINE given == {c \in changes : f \in DOMAIN c}
  <2>1. \A c \in given : c[f] \in Nat
    OBVIOUS
  <2>2. figures[f] = IF \E c \in changes : f \in DOMAIN c
                     THEN (CHOOSE c \in changes : f \in DOMAIN c)[f] ELSE old[f]
    BY <1>2
  <2>3. (\E c \in changes : f \in DOMAIN c) =>
          (CHOOSE c \in changes : f \in DOMAIN c)[f] \in Nat
    OBVIOUS
  <2>. HIDE DEF old
  <2>. QED BY <1>2, <2>2, <2>3
<1>. HIDE DEF figures
<1>4. HasRates(figures)
  BY <1>3 DEF HasRates
<1>. QED BY <1>1, <1>4

\* What is committed is still rates, whoever commits.
LEMMA PublishRates ==
  ASSUME DocumentsAssumption, DocumentsInvariant, NEW r \in SettingsRequests, Publish(r)
  PROVE  /\ settings' = [s \in Scopes |-> settings'[s]]
         /\ table' = [t \in Tables |-> table'[t]]
         /\ RatesSound'
<1>. DEFINE w == doing[r]
<1>1. /\ settings' = [settings EXCEPT ![w.scope] =
                        {Applied(row, w.change) : row \in SettingsSeen(r)}]
      /\ table' = [t \in Tables |-> TableAfter(r, t)]
  BY DEF Publish
<1>2. /\ settings = [s \in Scopes |-> settings[s]] /\ RatesSound
      /\ EmissionFits(progress[r], w, emission[r])
  BY DEF DocumentsInvariant
<1>3. ASSUME NEW new \in settings'["fiscal"]
      PROVE  new = [by |-> new.by, figures |-> new.figures] /\ HasRates(new.figures)
  <2>1. CASE w.scope # "fiscal"
    BY <1>1, <1>2, <1>3, <2>1 DEF RatesSound, DocumentsAssumption
  <2>2. CASE w.scope = "fiscal"
    <3>1. settings'["fiscal"] = {Applied(row, w.change) : row \in SettingsSeen(r)}
      BY <1>1, <1>2, <2>2 DEF DocumentsAssumption
    <3>2. PICK row \in SettingsSeen(r) : new = Applied(row, w.change)
      BY <1>3, <3>1
    <3>3. row = [by |-> row.by, figures |-> row.figures] /\ HasRates(row.figures)
      <4>1. CASE row \in settings["fiscal"]
        BY <1>2, <4>1 DEF RatesSound
      <4>2. CASE row = NewSettings(r)
        BY <2>2, <4>2 DEF NewSettings, DocumentsAssumption
      <4>. QED BY <2>2, <3>2, <4>1, <4>2 DEF SettingsSeen
    <3>4. \A c \in w.change : \A f \in RateFigures \cap DOMAIN c : c[f] \in Nat
      BY <1>2, <2>2 DEF EmissionFits
    <3>. HIDE DEF w
    <3>. QED BY <3>2, <3>3, <3>4, AppliedRates
  <2>. QED BY <2>1, <2>2
<1>4. ASSUME NEW t \in OfFiscal(Tables), NEW row \in table'[t] PROVE IsRateRow(t, row)
  <2>1. t \in Tables /\ row \in TableAfter(r, t)
    BY <1>1, <1>4 DEF OfFiscal
  <2>2. row \in TableSeen(r, t) \/ (t = w.target /\ row \in w.rows)
    BY <2>1 DEF TableAfter
  <2>3. CASE row \in TableSeen(r, t)
    BY <1>2, <2>3, DefaultRates DEF TableSeen, RatesSound
  <2>4. CASE t = w.target /\ row \in w.rows
    BY <1>2, <2>4 DEF EmissionFits
  <2>. QED BY <2>2, <2>3, <2>4
<1>. QED BY <1>1, <1>2, <1>3, <1>4 DEF RatesSound

\* A commit leaves its request with nothing to do.
LEMMA PublishKeeps ==
  ASSUME DocumentsAssumption, DocumentsInvariant, NEW r \in SettingsRequests, Publish(r),
         NEW e, EmissionOf(r, e), e = [x \in EmissionFields |-> e[x]], BooksSound'
  PROVE  DocumentsInvariant'
<1>1. Proceeds(r, "done", NothingDone)
  BY DEF Publish
<1>2. EmissionFits("done", NothingDone, e)
  BY NothingFits
<1>3. \A q \in SettingsRequests : EmissionFits(progress'[q], doing'[q], emission'[q])
  BY <1>1, <1>2, OthersFit
<1>4. /\ progress' = [q \in SettingsRequests |-> progress'[q]]
      /\ doing' = [q \in SettingsRequests |-> doing'[q]]
  BY <1>1, OthersStay
<1>. QED BY <1>3, <1>4, PublishRates DEF DocumentsInvariant, EmissionOf

LEMMA SettingsStepFits ==
  ASSUME DocumentsAssumption, DocumentsInvariant, SettingsStep
  PROVE  DocumentsInvariant'
<1>1. PICK r \in SettingsRequests :
        \/ \E s \in Scopes : BeginGet(r, s) \/ BeginChange(r, s)
        \/ \E t \in Tables : BeginReplace(r, t)
        \/ CreateSettings(r) \/ WriteChange(r)
        \/ ScanTable(r) \/ DeleteRows(r) \/ InsertRows(r)
        \/ CommitSettings(r) \/ AbortSettings(r)
  BY DEF SettingsStep, SettingsNext
<1>2. /\ emission' = [q \in SettingsRequests |->
                        IF progress'[q] = "failed" THEN NoEmission ELSE emission[q]]
      /\ UNCHANGED books
  BY DEF SettingsStep
<1>3. ASSUME NEW to, NEW done, Proceeds(r, to, done)
      PROVE  EmissionOf(r, IF to = "failed" THEN NoEmission ELSE emission[r])
  BY <1>2, <1>3, OthersStay DEF EmissionOf
<1>4. ASSUME NEW to, NEW done, StepFits(r, to, done) PROVE DocumentsInvariant'
  <2>. DEFINE e == IF to = "failed" THEN NoEmission ELSE emission[r]
  <2>1. /\ Proceeds(r, to, done) /\ UNCHANGED committed /\ progress[r] # "done"
        /\ EmissionFits(to, done, e)
    BY <1>4 DEF StepFits
  <2>2. EmissionOf(r, e)
    BY <1>3, <2>1
  <2>. HIDE DEF e
  <2>. QED BY <1>2, <2>1, <2>2, GoesOnKeeps DEF committed, books
<1>5. ASSUME CommitSettings(r) PROVE DocumentsInvariant'
  <2>1. Publish(r) /\ Proceeds(r, "done", NothingDone) /\ progress[r] \in {"written", "found"}
    BY <1>5 DEF CommitSettings, Publish
  <2>2. EmissionOf(r, emission[r])
    BY <1>3, <2>1
  <2>3. emission[r] = [x \in EmissionFields |-> emission[r][x]]
    BY DEF DocumentsInvariant, EmissionFits
  <2>4. BooksSound'
    <3>1. \A q \in SettingsRequests : progress[q] = "done" => progress'[q] = "done"
      BY <2>1, OthersStay
    <3>. QED BY <1>2, <3>1 DEF DocumentsInvariant, BooksSound, books
  <2>. QED BY <2>1, <2>2, <2>3, <2>4, PublishKeeps
<1>6. ASSUME AbortSettings(r) PROVE \E to, done : StepFits(r, to, done)
  BY <1>6, AbortFits DEF AbortSettings, InProgress
<1>. QED BY <1>1, <1>4, <1>5, <1>6, EachBeginsFits, CreateFits, ReplacesFits

\* A number that is used already takes the entry back with the document.
LEMMA StoreFits ==
  ASSUME DocumentsAssumption, DocumentsInvariant, NEW r \in SettingsRequests, Store(r)
  PROVE  DocumentsInvariant'
<1>1. progress[r] = "posted"
  BY DEF Store
<1>2. CASE Refuse(r)
  BY <1>1, <1>2, RefuseFits
<1>3. ASSUME ~Refuse(r) PROVE DocumentsInvariant'
  <2>. DEFINE e == emission[r]
              entry == [by |-> r, via |-> e.via, lines |-> e.lines]
              document == [by |-> r, doc |-> e.doc]
  <2>1. /\ Publish(r)
        /\ e.via = "emitir" => \A d \in documents : d.doc.number # e.doc.number
        /\ entries' = entries \cup {entry}
        /\ documents' = documents \cup (IF e.via = "emitir" THEN {document} ELSE {})
        /\ emission' = [emission EXCEPT ![r] = NoEmission]
    BY <1>3 DEF Store
  <2>2. EmissionOf(r, NoEmission)
    BY <2>1 DEF EmissionOf, DocumentsInvariant
  <2>3. SoundDocument(e.doc) /\ e.lines \in Strategies(e.doc)
    <3>1. EmissionFits(progress[r], doing[r], emission[r])
      BY DEF DocumentsInvariant
    <3>. QED BY <1>1, <3>1 DEF EmissionFits
  <2>4. BooksSound
    BY DEF DocumentsInvariant
  <2>5. /\ progress'[r] = "done"
        /\ \A q \in SettingsRequests : progress[q] = "done" => progress'[q] = "done"
    BY <2>1, OthersStay DEF Publish
  <2>6. /\ entry.by = r /\ entry.via = e.via /\ entry.lines = e.lines
        /\ document.by = r /\ document.doc = e.doc
    OBVIOUS
  <2>. HIDE DEF entry, document
  <2>7. /\ \A d \in documents : d.by # r
        /\ \A d \in entries : d.by # r
    BY <1>1, <2>4 DEF BooksSound
  <2>8. BooksSound'
    <3>1. (\A d \in documents : d.by \in SettingsRequests /\ progress[d.by] = "done")'
      BY <2>1, <2>4, <2>5, <2>6 DEF BooksSound
    <3>2. (\A d \in entries : d.by \in SettingsRequests /\ progress[d.by] = "done")'
      BY <2>1, <2>4, <2>5, <2>6 DEF BooksSound
    <3>3. \A d, f \in documents' : d.doc.number = f.doc.number => d = f
      BY <2>1, <2>4, <2>6 DEF BooksSound
    <3>4. {d.by : d \in documents'} = {f.by : f \in {f \in entries' : f.via = "emitir"}}
      <4>1. {d.by : d \in documents} = {f.by : f \in {f \in entries : f.via = "emitir"}}
        BY <2>4 DEF BooksSound
      <4>2. CASE e.via = "emitir"
        <5>1. {d.by : d \in documents'} = {d.by : d \in documents} \cup {r}
          BY <2>1, <2>6, <4>2
        <5>2. {f.by : f \in {f \in entries' : f.via = "emitir"}} =
                {f.by : f \in {f \in entries : f.via = "emitir"}} \cup {r}
          BY <2>1, <2>6, <4>2
        <5>. QED BY <4>1, <5>1, <5>2
      <4>3. CASE e.via # "emitir"
        <5>1. documents' = documents
          BY <2>1, <4>3
        <5>2. {f \in entries' : f.via = "emitir"} = {f \in entries : f.via = "emitir"}
          BY <2>1, <2>6, <4>3
        <5>. QED BY <4>1, <5>1, <5>2
      <4>. QED BY <4>2, <4>3
    <3>5. \A d \in documents' : \A f \in entries' :
            d.by = f.by => SoundDocument(d.doc) /\ f.lines \in Strategies(d.doc)
      BY <2>1, <2>3, <2>4, <2>6, <2>7 DEF BooksSound
    <3>. QED BY <3>1, <3>2, <3>3, <3>4, <3>5 DEF BooksSound
  <2>. QED BY <2>1, <2>2, <2>8, NoEmissionFields, PublishKeeps
<1>. QED BY <1>2, <1>3

LEMMA DocumentsNextKeeps ==
  ASSUME SettingsAssumption, DocumentsAssumption
  PROVE  DocumentsInvariant /\ [DocumentsNext]_documentsVars => DocumentsInvariant'
<1>. SUFFICES ASSUME DocumentsInvariant, [DocumentsNext]_documentsVars
              PROVE  DocumentsInvariant'
  OBVIOUS
<1>1. CASE SettingsStep
  BY <1>1, SettingsStepFits
<1>2. ASSUME NEW r \in SettingsRequests,
             BeginEmission(r) \/ Assess(r) \/ MapAccounts(r) \/ Post(r) \/ Store(r)
      PROVE  DocumentsInvariant'
  BY <1>2, BeginEmissionFits, AssessFits, MapAccountsFits, PostFits, StoreFits
<1>3. CASE UNCHANGED documentsVars
  <2>1. /\ settings' = settings /\ table' = table /\ progress' = progress
        /\ doing' = doing /\ emission' = emission
        /\ documents' = documents /\ entries' = entries
    BY <1>3 DEF documentsVars, settingsVars, committed, books
  <2>2. RatesSound' /\ BooksSound'
    BY <2>1 DEF DocumentsInvariant, RatesSound, BooksSound
  <2>. QED BY <2>1, <2>2 DEF DocumentsInvariant
<1>. QED BY <1>1, <1>2, <1>3 DEF DocumentsNext

\* The inductive invariant of emissions holds in every state: rates and documents in
\* progress are sound, and each document stored has the entry its strategy gives.
THEOREM DocumentsStrong ==
  ASSUME SettingsAssumption, DocumentsAssumption
  PROVE  DocumentsSpec => []DocumentsInvariant
BY DocumentsStart, DocumentsNextKeeps, PTL DEF DocumentsSpec

\* Whatever conflicts, failures and changes of the settings interleave, a number is of
\* one document, each document has one entry and each entry of an emission its
\* document, a sale owes the taxes its document keeps, and its revenue reaches the
\* cost centres of its items to half a cent for every centre.
THEOREM DocumentsFaithful ==
  ASSUME SettingsAssumption, DocumentsAssumption
  PROVE  DocumentsSpec => []DocumentsMatchEntries
<1>1. DocumentsInvariant => DocumentsMatchEntries
  BY DocumentsFollow
<1>. QED BY <1>1, DocumentsStrong, PTL
=============================================================================

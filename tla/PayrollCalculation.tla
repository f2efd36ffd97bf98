------------------------- MODULE PayrollCalculation -------------------------
(***************************************************************************)
(* What the four kinds of payroll event calculate for one employee, and    *)
(* the journal entry made of it (payroll-calculation.util.ts and the       *)
(* calculate() and post() of the payroll services).                        *)
(*                                                                         *)
(* Amounts that are stored are whole cents.  Amounts between two storings  *)
(* are exact, in units of which a cent has Unit; JavaScript's doubles are  *)
(* exact enough at this scale, and are taken to be.  A date is a month,    *)
(* counted from a January, and a day.                                      *)
(***************************************************************************)
EXTENDS Integers, Sequences, FiniteSetsExt, Functions

CONSTANTS
  Employees,       \* the employees a behaviour may be about
  InssBrackets, IrrfBrackets,   \* tables: sequences of brackets, in cents
  Open,            \* the upper end of the last bracket
  RateScale,       \* rates are fractions with this denominator
  Settings,        \* the rates and limits of PayrollSettings
  LastMonth        \* bound: the calendar ends with this month

Bracket == [min: Nat, max: Nat \cup {Open}, rate: 0 .. RateScale, deduction: Nat]

\* The tables of an organization that has set none, in cents and thousandths.
DEFAULT_INSS_BRACKETS ==
  <<[min |-> 0,      max |-> 141200, rate |-> 75,  deduction |-> 0],
    [min |-> 141201, max |-> 266668, rate |-> 90,  deduction |-> 2118],
    [min |-> 266669, max |-> 400003, rate |-> 120, deduction |-> 10118],
    [min |-> 400004, max |-> Open,   rate |-> 140, deduction |-> 18119]>>
DEFAULT_IRRF_BRACKETS ==
  <<[min |-> 0,      max |-> 225920, rate |-> 0,   deduction |-> 0],
    [min |-> 225921, max |-> 282665, rate |-> 75,  deduction |-> 16944],
    [min |-> 282666, max |-> 375105, rate |-> 150, deduction |-> 38144],
    [min |-> 375106, max |-> 466468, rate |-> 225, deduction |-> 66277],
    [min |-> 466469, max |-> Open,   rate |-> 275, deduction |-> 89600]>>

ASSUME CalculationAssumption ==
  /\ RateScale \in Nat \ {0} /\ LastMonth \in Nat /\ Open \notin Nat
  /\ InssBrackets \in Seq(Bracket) /\ IrrfBrackets \in Seq(Bracket)
  /\ Settings \in [ceiling: Nat, dependent: Nat, fgts: 0 .. RateScale,
                   employer: 0 .. RateScale, transport: 0 .. RateScale,
                   fineWithoutCause: 0 .. RateScale, fineAgreed: 0 .. RateScale]

VARIABLES
  employee,   \* salary and benefits, and when the employee was admitted
  today,      \* the date of the next event
  event       \* the event under way, with the figures its row stores

figureVars == <<employee, today, event>>

-----------------------------------------------------------------------------
(* Amounts *)

Unit == 360 * RateScale * RateScale
Units(cents) == cents * Unit

AtMost(x, y) == IF x <= y THEN x ELSE y
NotNegative(x) == IF x < 0 THEN 0 ELSE x

\* A column of two decimals: half away from zero.
Rounded(x) ==
  IF x >= 0 THEN (2 * x + Unit) \div (2 * Unit)
            ELSE -((2 * (-x) + Unit) \div (2 * Unit))

\* A rate of an amount.
Of(rate, x) == (x * rate) \div RateScale

\* Mutant: the upper end of a bracket is not part of it.
HitsBelow(base, table) ==
  {i \in DOMAIN table : /\ base >= Units(table[i].min)
                        /\ table[i].max # Open => base < Units(table[i].max)}

\* The brackets a base falls in.
Hits(base, table) ==
  {i \in DOMAIN table : /\ base >= Units(table[i].min)
                        /\ table[i].max # Open => base <= Units(table[i].max)}

\* calculateProgressiveTax: the first bracket that has the base, or the last.
ProgressiveTax(base, table) ==
  IF base <= 0 \/ table = <<>> THEN 0
  ELSE LET i == IF Hits(base, table) = {} THEN Len(table) ELSE Min(Hits(base, table))
       IN  NotNegative(Of(table[i].rate, base) - Units(table[i].deduction))

\* INSS has a ceiling; IRRF is levied on what INSS and the dependents leave.
Inss(base) == AtMost(ProgressiveTax(base, InssBrackets), Units(Settings.ceiling))
IrrfBase(base) == base - Inss(base) - employee.dependents * Units(Settings.dependent)
Irrf(base) == ProgressiveTax(IrrfBase(base), IrrfBrackets)

-----------------------------------------------------------------------------
(* Dates *)

MonthLengths == <<31, 28, 31, 30, 31, 30, 31, 31, 30, 31, 30, 31>>
MonthOffsets == <<0, 31, 59, 90, 120, 151, 181, 212, 243, 273, 304, 334>>

\* The second year is a leap year: month 13 is its February.
DaysIn(m) == MonthLengths[(m % 12) + 1] + (IF m % 48 = 13 THEN 1 ELSE 0)
DaysBefore(m) ==
  365 * (m \div 12) + MonthOffsets[(m % 12) + 1] + ((m + 34) \div 48)

Dates == {d \in [month: 0 .. LastMonth, day: 1 .. 31] : d.day <= DaysIn(d.month)}

ASSUME EmployeesAssumption ==
  Employees \subseteq [salary: Nat, dependents: Nat, transport: Nat, meal: Nat,
                      mealRate: 0 .. RateScale, vested: Nat, fgts: Nat, admission: Dates]

Day(d) == DaysBefore(d.month) + d.day
FirstDay(m) == DaysBefore(m) + 1
LastDay(m) == DaysBefore(m) + DaysIn(m)
YearOf(d) == d.month \div 12
Tomorrow(d) == IF d.day < DaysIn(d.month) THEN [d EXCEPT !.day = @ + 1]
               ELSE [month |-> d.month + 1, day |-> 1]

Later(x, y) == IF x > y THEN x ELSE y

\* Mutant: more than fifteen days.
WorkedMonthsStrict(admission, year, last) ==
  LET from == Later(Day(admission), FirstDay(12 * year))
      to   == AtMost(last, LastDay(12 * year + 11))
      worked(m) == AtMost(to, LastDay(m)) - Later(from, FirstDay(m)) + 1
  IN  Cardinality({m \in 12 * year .. 12 * year + 11 : worked(m) > 15})

\* countWorkedMonthsInYear: the months of the year of which at least fifteen
\* days lie in the period.
WorkedMonths(admission, year, last) ==
  LET from == Later(Day(admission), FirstDay(12 * year))
      to   == AtMost(last, LastDay(12 * year + 11))
      worked(m) == AtMost(to, LastDay(m)) - Later(from, FirstDay(m)) + 1
  IN  Cardinality({m \in 12 * year .. 12 * year + 11 : worked(m) >= 15})

\* No date of termination.
Forever == LastDay(LastMonth + 12)

\* Mutant: a year has 365 days.
NoticeDaysOfCommonYears(admission, last) ==
  AtMost(30 + 3 * ((Day(last) - Day(admission)) \div 365), 90)

\* calculateNoticeDays: a year has 365.25 days.
NoticeDays(admission, last) ==
  AtMost(30 + 3 * (((Day(last) - Day(admission)) * 4) \div 1461), 90)

\* Mutant: a month counts from its first day.
FullMonthsBegun(start, end) == NotNegative(end.month - start.month)

\* fullMonthsBetween.
FullMonths(start, end) ==
  NotNegative(end.month - start.month - (IF end.day < start.day THEN 1 ELSE 0))

\* addMonthsUTC: days beyond the end of the month run into the next one.
DayAfterMonths(d, n) == DaysBefore(d.month + n) + d.day

\* monthsInCurrentVacationCycle.
CycleMonths(admission, last) ==
  LET whole == FullMonths(admission, last)
      extra == IF Day(last) - DayAfterMonths(admission, whole) >= 15 THEN 1 ELSE 0
  IN  AtMost((whole % 12) + extra, 12)

-----------------------------------------------------------------------------
(* Figures: what an event earns, what is withheld, what the employer owes *)

Earned == {"salary", "bonus", "sold", "soldBonus", "notice", "thirteenth",
           "vested", "vacation", "vacationBonus"}
Withheld == {"inss", "irrf", "transport", "meal", "previous"}
Owed == {"fgts", "employer", "benefit", "fine"}
Names == Earned \cup Withheld \cup Owed \cup {"net"}

Nothing == [n \in Names |-> 0]
Total(f, names) == MapThenSumSet(LAMBDA n : f[n], names)

\* Mutant: the vouchers are not taken off the net pay.
NetPayWithoutVouchers(f) == Total(f, Earned) - Total(f, Withheld \ {"transport", "meal"})

NetPay(f) == Total(f, Earned) - Total(f, Withheld)

\* Every figure is rounded by itself; the net pay is that of the exact ones.
Stored(f) == [n \in Names |-> Rounded(IF n = "net" THEN NetPay(f) ELSE f[n])]

Salary == Units(employee.salary)
Daily == Salary \div 30

Taxed(f, base) ==
  [f EXCEPT !.inss = Inss(base), !.irrf = Irrf(base),
            !.fgts = Of(Settings.fgts, base), !.employer = Of(Settings.employer, base)]

Payroll ==
  [Taxed(Nothing, Salary) EXCEPT
     !.salary = Salary,
     !.transport = AtMost(Units(employee.transport), Of(Settings.transport, Salary)),
     !.meal = Of(employee.mealRate, Units(employee.meal)),
     !.benefit = Units(employee.meal)]

\* The days taken and the third on top of them.
VacationPay(taken) == Daily * taken + (Daily * taken) \div 3

Vacation(taken, sold) ==
  [Taxed(Nothing, VacationPay(taken)) EXCEPT
     !.salary = Daily * taken, !.bonus = (Daily * taken) \div 3,
     !.sold = Daily * sold, !.soldBonus = (Daily * sold) \div 3]

\* The thirteenth salary of the year of today.
YearlyBonus ==
  (Salary * WorkedMonths(employee.admission, YearOf(today), Forever)) \div 12

FirstInstallment == [Nothing EXCEPT !.thirteenth = YearlyBonus \div 2]

\* The second, or the only one: charged on the whole, paid less the first.
FinalInstallment(previous) ==
  [Taxed(Nothing, YearlyBonus) EXCEPT !.thirteenth = YearlyBonus,
                                      !.previous = Units(previous)]

Reasons == {"WITHOUT_CAUSE", "RESIGNATION", "WITH_CAUSE", "MUTUAL_AGREEMENT"}

\* What is left of the month, and of the year's thirteenth salary.
BalanceOfSalary == Daily * today.day
LastBonus == (Salary * WorkedMonths(employee.admission, YearOf(today), Day(today))) \div 12

Termination(reason) ==
  LET cycle   == IF reason = "WITH_CAUSE" THEN 0
                 ELSE CycleMonths(employee.admission, today)
      paid    == Daily * NoticeDays(employee.admission, today)
      share   == CASE reason = "WITHOUT_CAUSE"    -> Settings.fineWithoutCause
                   [] reason = "MUTUAL_AGREEMENT" -> Settings.fineAgreed
                   [] OTHER                       -> 0
  IN  [Nothing EXCEPT
         !.salary = BalanceOfSalary, !.thirteenth = LastBonus,
         !.vested = Units(employee.vested),
         !.vacation = (Salary * cycle) \div 12,
         !.vacationBonus = ((Salary * cycle) \div 12) \div 3,
         !.notice = CASE reason = "WITHOUT_CAUSE"    -> paid
                      [] reason = "MUTUAL_AGREEMENT" -> paid \div 2
                      [] OTHER                       -> 0,
         !.fine = Of(share, Units(employee.fgts)),
         !.inss = Inss(BalanceOfSalary) + Inss(LastBonus),
         !.irrf = Irrf(BalanceOfSalary) + Irrf(LastBonus)]

\* The lines of the entry of an event, from its stored figures.
Debits(f) ==
  Total(f, Earned) + f.fgts + f.employer + NotNegative(f.benefit - f.meal) + f.fine
Credits(f) ==
  f.net + f.inss + f.irrf + f.fgts + f.employer + f.benefit + f.transport + f.fine

\* What JournalEntriesService.create accepts: an exact balance, no empty line.
Accepted(f) == Debits(f) = Credits(f) /\ f.net > 0 /\ Total(f, Earned) > 0

-----------------------------------------------------------------------------
(* The event of a day *)

NoEvent == [kind |-> "none", status |-> "DRAFT", figures |-> Nothing]

\* One event a day: calculating it again would give the same figures.
Calculates(kind, f) ==
  /\ event = NoEvent
  /\ event' = [kind |-> kind, status |-> "CALCULATED", figures |-> Stored(f)]
  /\ UNCHANGED <<employee, today>>

CalculatePayroll == Calculates("payroll", Payroll)

CalculateVacation ==
  \E taken \in {20, 30}, sold \in {0, 10} :
    taken + sold <= 30 /\ Calculates("vacation", Vacation(taken, sold))

CalculateThirteenth ==
  \/ Calculates("thirteenth", FirstInstallment)
  \/ \E previous \in {0, Stored(FirstInstallment).net} :
       Calculates("thirteenth", FinalInstallment(previous))

CalculateTermination ==
  \E reason \in Reasons : Calculates("termination", Termination(reason))

\* A refused posting is rolled back.
Post ==
  /\ event.status = "CALCULATED"
  /\ Accepted(event.figures)
  /\ event' = [event EXCEPT !.status = "POSTED"]
  /\ UNCHANGED <<employee, today>>

NextDay ==
  /\ Day(today) < LastDay(LastMonth)
  /\ today' = Tomorrow(today)
  /\ event' = NoEvent
  /\ UNCHANGED employee

FiguresInit ==
  /\ employee \in Employees
  /\ today = employee.admission
  /\ event = NoEvent

FiguresNext ==
  \/ CalculatePayroll \/ CalculateVacation \/ CalculateThirteenth
  \/ CalculateTermination \/ Post \/ NextDay

FiguresSpec == FiguresInit /\ [][FiguresNext]_figureVars

-----------------------------------------------------------------------------
(* Properties *)

\* Figures are amounts, dates are dates, and nothing but the net pay is ever
\* negative.
FiguresTypeOK ==
  /\ employee \in Employees /\ today \in Dates
  /\ event.status \in {"DRAFT", "CALCULATED", "POSTED"}
  /\ event.figures \in [Names -> Int]
  /\ \A n \in Names \ {"net"} : event.figures[n] >= 0

\* The deductions "pré-calculadas para dar continuidade entre faixas": the
\* brackets follow each other from nothing on, cent by cent, the last is open,
\* and each deduction is, rounded to cents up or down, the sum of what the steps
\* of the rate before it take at their edges.
Continuous(table, scale) ==
  LET n == Len(table)
      steps == [i \in 1 .. n - 1 |-> (table[i + 1].rate - table[i].rate) * table[i].max]
  IN  /\ n > 0 /\ table[1].min = 0 /\ table[n].max = Open
      /\ \A i \in 1 .. n - 1 :
           /\ table[i].max \in Nat /\ table[i].min <= table[i].max
           /\ table[i + 1].min = table[i].max + 1
      /\ \A i \in 1 .. n :
           scale * table[i].deduction - Total(steps, 1 .. i - 1) \in -scale .. scale

\* The tax on an amount, a part of it at the rate of each bracket.
MarginalTax(base, table) ==
  LET lower(i) == IF i = 1 THEN 0 ELSE Units(table[i - 1].max)
      upper(i) == IF table[i].max = Open THEN base ELSE Units(table[i].max)
      parts == [i \in DOMAIN table |->
                  Of(table[i].rate, NotNegative(AtMost(base, upper(i)) - lower(i)))]
  IN  Total(parts, DOMAIN table)

\* The brackets end and begin with whole cents, the bases need not.
Between(base, table) ==
  \E i \in DOMAIN table :
    /\ i + 1 \in DOMAIN table
    /\ Units(table[i].max) < base /\ base < Units(table[i + 1].min)

NearMarginal(base, table) ==
  ProgressiveTax(base, table) - MarginalTax(base, table) \in -Unit .. Unit

\* What an event is taxed on, by INSS and then by IRRF.
TaxBases(kind) ==
  CASE kind = "payroll"     -> {Salary}
    [] kind = "vacation"    -> {VacationPay(20), VacationPay(30)}
    [] kind = "thirteenth"  -> {YearlyBonus}
    [] kind = "termination" -> {BalanceOfSalary, LastBonus}
    [] OTHER                -> {}

\* "representa corretamente o INSS progressivo": on every base of an event, a
\* bracket and its deduction give, to the cent, what is due bracket by bracket.
TaxIsMarginal ==
  \A base \in TaxBases(event.kind) :
    NearMarginal(base, InssBrackets) /\ NearMarginal(IrrfBase(base), IrrfBrackets)

\* They do on every base but those between the last cent of a bracket and the
\* first of the next.
TaxIsMarginalInBrackets ==
  \A base \in TaxBases(event.kind) :
    /\ Between(base, InssBrackets) \/ NearMarginal(base, InssBrackets)
    /\ Between(IrrfBase(base), IrrfBrackets) \/ NearMarginal(IrrfBase(base), IrrfBrackets)

\* The figures of an event that are products or quotients: the others are copied.
Computed(kind) ==
  CASE kind = "payroll"     -> {"inss", "irrf", "transport", "meal", "net"}
    [] kind = "vacation"    -> {"salary", "bonus", "sold", "soldBonus", "inss", "irrf", "net"}
    [] kind = "thirteenth"  -> {"thirteenth", "inss", "irrf", "net"}
    [] kind = "termination" -> {"salary", "thirteenth", "vacation", "vacationBonus",
                                "notice", "inss", "irrf", "net"}
    [] OTHER                -> {}

\* The entry of an event is out of balance by what the second installment takes
\* off, and beyond that by half a cent at most for each figure it is computed from,
\* however small.  (With the types.)
BalancedToRounding ==
  LET f == event.figures
      gap == Debits(f) - Credits(f) - f.previous
      most == Cardinality(Computed(event.kind))
  IN  FiguresTypeOK /\ 2 * gap \in -most .. most

\* "fração de mês só conta como mês completo se o funcionário trabalhou pelo menos
\* 15 dias": who leaves one day and is back the next has not lost a month of the
\* year, if the month was a whole one and has two halves of fifteen days to split.
\* The months of the vacation cycle grow one by one from day to day, and start
\* again only when all twelve have been earned.  "30 dias + 3 dias por ano completo
\* de casa": the notice of a complete year is due on its anniversary, or on the
\* day after.
NoMonthIsLost ==
  LET year == YearOf(today)
      whole == WorkedMonths(employee.admission, year, Forever)
      parts == WorkedMonths(employee.admission, year, Day(today))
               + WorkedMonths(Tomorrow(today), year, Forever)
      before == CycleMonths(employee.admission, today)
      after  == CycleMonths(employee.admission, Tomorrow(today))
      due == AtMost(30 + 3 * (FullMonths(employee.admission, today) \div 12), 90)
  IN  /\ today.month > employee.admission.month /\ DaysIn(today.month) >= 29
           => parts \in {whole, whole + 1}
      /\ after \in {before, before + 1} \cup (IF before = 12 THEN {0} ELSE {})
      /\ due \in {NoticeDays(employee.admission, today),
                  NoticeDays(employee.admission, Tomorrow(today))}
=============================================================================

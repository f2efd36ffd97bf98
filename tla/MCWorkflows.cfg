SPECIFICATION MCSpec
CONSTANTS
  p1 = p1
  rentJan = rentJan
  rentFeb = rentFeb
  rui = rui
  may = may
  mayAgain = mayAgain
  vacation = vacation
  leaves = leaves
  First = First
  Second = Second
  Nobody = Nobody
  None = None
  june = june
  july = july
  sale = sale
  fee = fee
  refund = refund
  r1 = r1
  r2 = r2
  r3 = r3
  r4 = r4
  r5 = r5
  Plans = {p1}
  Keys = {rentJan, rentFeb}
  Amounts = {1, 2}
  Requests = {r1, r2, r3, r4, r5}
  MaxOverlapping = 5
  Employees = {rui}
  Salaries = {1, 2}
  PayrollRuns = {may, mayAgain}
  Vacations = {vacation}
  Terminations = {leaves}
  Statements = {june, july}
  Postings = {sale, fee, refund}
  EmployeeOf <- MCEmployeeOf
  CompetenceOf <- MCCompetenceOf
  File <- MCFile
  PostingOf <- MCPostingOf
  PayrollRequests = {r1, r2, r3, r4, r5}
  BankRequests = {r1, r2, r3, r4, r5}
  Window = 1
  MaxEventsOverlapping = 4
  MaxBankOverlapping = 4
SYMMETRY RequestSymmetry
INVARIANTS LinesHaveTheirPlan LinesOnePerEmployee PostedMatchesEntry MatchedOnce
PROPERTIES RefinesLifecycle PayrollRefinesLifecycle BankRefinesLifecycle
CHECK_DEADLOCK FALSE

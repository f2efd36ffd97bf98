SPECIFICATION PayrollSpec
CONSTANTS
  ana = ana
  rui = rui
  may = may
  mayAgain = mayAgain
  vacation = vacation
  leaves = leaves
  First = First
  Second = Second
  r1 = r1
  r2 = r2
  r3 = r3
  r4 = r4
  r5 = r5
  Nobody = Nobody
  EmployeeOf <- MCEmployeeOf
  CompetenceOf <- MCCompetenceOf
  Employees = {rui}
  Salaries = {1, 2}
  PayrollRuns = {may, mayAgain}
  Vacations = {vacation}
  Terminations = {leaves}
  PayrollRequests = {r1, r2, r3, r4, r5}
  MaxEventsOverlapping = 4
SYMMETRY RequestSymmetry
INVARIANT CalculatedCanBePosted
CHECK_DEADLOCK FALSE

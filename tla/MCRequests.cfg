SPECIFICATION MCSpec
CONSTANTS
  t1 = t1
  t2 = t2
  Tabs = {t1, t2}
  MaxCalls = 3
  MaxPairs = 2
  p1 = p1
  p2 = p2
  c1 = c1
  r1 = r1
  r2 = r2
  r3 = r3
  Nobody = Nobody
  Payables = {p1, p2}
  Receivables = {c1}
  InitialBills = {p1, c1}
  Amounts = {1, 2}
  InitialAmount = 2
  Requests = {r1, r2, r3}
INVARIANTS LogoutIsFinal KeepsALiveToken NeverOverpaid SettlementsAgree
PROPERTIES EveryCallEnds CanceledForever EveryRequestEnds
CHECK_DEADLOCK FALSE

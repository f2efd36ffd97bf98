SPECIFICATION Spec
CONSTANTS
  o1 = o1
  o2 = o2
  drawer = drawer
  revenue = revenue
  petty = petty
  other = other
  r1 = r1
  r2 = r2
  r3 = r3
  NoRequest = NoRequest
  NoAccount = NoAccount
  Orgs = {o1}
  LedgerAccounts = {drawer, revenue}
  OrgOf <- MCOrgOf
  ParentOf <- MCParentOf
  InitialRows <- MCInitialRows
  Requests = {r1, r2, r3}
  LineLists <- SaleOnly
  MaxBatch = 1
INVARIANT ReversedAtMostOnce

SPECIFICATION MCSpec
CONSTANTS
  o1 = o1
  o2 = o2
  drawer = drawer
  revenue = revenue
  petty = petty
  other = other
  r1 = r1
  r2 = r2
  r3 = r3
  NoRequest = NoRequest
  NoAccount = NoAccount
  OrgOf <- MCOrgOf
  ParentOf <- MCParentOf
  InitialRows <- MCInitialRows
  Orgs = {o1}
  LedgerAccounts = {drawer, revenue}
  Requests = {r1}
  LineLists <- SaleOnly
  MaxBatch = 1
  bank = bank
  till = till
  goods = goods
  loan = loan
  capital = capital
  sales = sales
  rent = rent
  shop = shop
  None = None
  Open = Open
  Employees <- MCEmployees
  InssBrackets <- MCInssBrackets
  IrrfBrackets <- MCIrrfBrackets
  RateScale = 10
  Settings <- MCSettings
  LastMonth = 26
  Accounts = {bank, till, goods, loan, capital, sales, rent}
  TypeOf <- MCType
  CashAccounts = {bank, till}
  FirstGroups <- MCGroups
  FirstCash = {bank}
  Asked = {till, sales}
  Editable = {sales, rent}
  Drafts <- MCDrafts
  Days = {1, 2, 3}
  Periods <- MCPeriods
  Centres = {shop}
  FiscalDrafts <- MCDocuments
  Rates <- MCRates
  MaxEntries = 2
  MaxEdits = 1
INVARIANT TaxIsMarginal
CHECK_DEADLOCK FALSE

SPECIFICATION MCSpec
CONSTANTS
  o1 = o1
  o2 = o2
  drawer = drawer
  revenue = revenue
  petty = petty
  other = other
  r1 = r1
  r2 = r2
  r3 = r3
  NoRequest = NoRequest
  NoAccount = NoAccount
  OrgOf <- MCOrgOf
  ParentOf <- MCParentOf
  InitialRows <- MCInitialRows
  Orgs = {o1, o2}
  LedgerAccounts = {drawer, revenue, petty, other}
  Requests = {r1, r2, r3}
  LineLists <- MixedDrafts
  MaxBatch = 2
  bank = bank
  till = till
  goods = goods
  loan = loan
  capital = capital
  sales = sales
  rent = rent
  shop = shop
  None = None
  Open = Open
  Employees <- MCEmployees
  InssBrackets <- MCInssBrackets
  IrrfBrackets <- MCIrrfBrackets
  RateScale = 10
  Settings <- MCSettings
  LastMonth = 26
  Accounts = {bank, till, goods, loan, capital, sales, rent}
  TypeOf <- MCType
  CashAccounts = {bank, till}
  FirstGroups <- MCGroups
  FirstCash = {bank}
  Asked = {till, sales}
  Editable = {sales, rent}
  Drafts <- MCDrafts
  Days = {1, 2, 3}
  Periods <- MCPeriods
  Centres = {shop}
  FiscalDrafts <- MCDocuments
  Rates <- MCRates
  MaxEntries = 2
  MaxEdits = 1
SYMMETRY RequestSymmetry
INVARIANTS GapFreeNumbering CommittedEntriesBalance ReversalMirrorsOriginal AnalyticIsLeaf StatementsTie ClosingRecordsCount FilesAgreeWithBooks TaxIsMarginalInBrackets BalancedToRounding NoMonthIsLost ReadAsIssued
PROPERTY RefinesLedgerLog
CHECK_DEADLOCK FALSE

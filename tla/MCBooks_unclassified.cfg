SPECIFICATION BooksSpec
CONSTANTS
  bank = bank
  till = till
  goods = goods
  loan = loan
  capital = capital
  sales = sales
  rent = rent
  shop = shop
  None = None
  Accounts = {bank, till, goods, loan, capital, sales, rent}
  TypeOf <- MCType
  CashAccounts = {bank, till}
  FirstGroups <- MCGroups
  FirstCash = {bank}
  Asked = {till, sales}
  Editable = {sales, rent}
  Drafts <- MCDrafts
  Days = {1, 2, 3}
  Periods <- MCPeriods
  Centres = {shop}
  FiscalDrafts <- MCDocuments
  Rates <- MCRates
  MaxEntries = 2
  MaxEdits = 1
INVARIANTS UnclassifiedAreReported
CHECK_DEADLOCK FALSE

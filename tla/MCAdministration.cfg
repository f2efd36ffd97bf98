SPECIFICATION AdministrationSpec
CONSTANTS
  r1 = r1
  r2 = r2
  r3 = r3
  r4 = r4
  w1 = w1
  w2 = w2
  car = car
  desk = desk
  NoHolder = NoHolder
  Warehouses = {w1, w2}
  Switched = {w2}
  Opening <- MCOpening
  StockRequests = {r1, r2, r3}
  Quantities = {333, 2000}
  UnitCosts = {3333, 10005}
  MaxConcurrent = 3
  Assets = {car, desk}
  InitialAssets = {car}
  Register <- MCRegister
  Bases <- MCBases
  AssetRequests = {r1, r2, r3, r4}
  NoPoster = NoPoster
  Months = {1, 2, 3, 4}
  MaxAssetsOverlapping = 3
  t1 = t1
  t2 = t2
  ana = ana
  bia = bia
  clerk = clerk
  post = post
  None = None
  Nobody = Nobody
  sales = sales
  Scopes = {"fiscal", "payroll", "company"}
  Tables <- AllTables
  ScopeOf <- ScopeOfTable
  Keyed = {"UF"}
  OpenEnded = {"INSS", "IRRF"}
  NoCeiling = None
  Contents <- NewContents
  DefaultSettings <- FirstSettings
  Configurations <- OldSettings
  DefaultContent <- FirstContent
  Changes <- ChangesOf
  HasUsableAccounts <- UsableAccounts
  Documents <- SomeDocuments
  Mappings <- CallersMappings
  Seed = Seed
  SettingsRequests = {r1, r2, r3}
  MaxOverlapping = 2
  shop = shop
  Requests = {r1, r2, r3}
  Taxpayers = {ana, bia}
  MaxEmployees = 2
  Nothing = Nothing
  Users = {ana, bia}
  Roles = {clerk}
  SystemRoles = {}
  Permissions = {post}
  Tokens = {t1, t2}
  AuthRequests = {r1, r2, r3}
  MaxAuthOverlapping = 3
  MaxStamp = 2
  FirstUsers = {ana}
  FirstLinks <- MCFirstLinks
  Mutations = {1, 2}
SYMMETRY RequestSymmetry
INVARIANTS StockIsItsHistory ItemAgreesWithStock DepreciatedOncePerMonth AccumulatedIsSumOfEntries WriteOffClearsDepreciation SettingsStayWhole DocumentsMatchEntries StampVouches OneLiveToken NumbersWithoutGap ShowsOwnWrites 
PROPERTIES ReplacesLinks TerminatedKeepsRecord
CHECK_DEADLOCK FALSE

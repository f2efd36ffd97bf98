SPECIFICATION DocumentsSpec
CONSTANTS
  r1 = r1
  r2 = r2
  r3 = r3
  None = None
  sales = sales
  shop = shop
  Scopes = {"fiscal"}
  Tables <- FiscalTables
  ScopeOf <- ScopeOfTable
  Keyed = {"UF"}
  OpenEnded = {}
  NoCeiling = None
  Contents <- NewContents
  DefaultSettings <- FirstSettings
  Configurations <- OldSettings
  DefaultContent <- FirstContent
  Changes <- ChangesOf
  HasUsableAccounts <- UsableAccounts
  Documents <- SomeDocuments
  Mappings <- CallersMappings
  Seed = Seed
  SettingsRequests = {r1, r2, r3}
  MaxOverlapping = 2
SYMMETRY RequestSymmetry
INVARIANTS DasFollowsAnnex
CHECK_DEADLOCK FALSE

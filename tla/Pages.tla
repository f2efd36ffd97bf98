-------------------------------- MODULE Pages --------------------------------
(***************************************************************************)
(* The pages of the web client: the queries each keeps mounted, and the    *)
(* acts it offers.  An act is a call of the API with the permissions the   *)
(* page asks for before it offers it, the statuses of the row in which it  *)
(* does, the keys its onSuccess invalidates and the keys it overwrites     *)
(* with its answer.  A query key is a path of the API, with "id" for the   *)
(* row of a detail page.                                                   *)
(***************************************************************************)
EXTENDS Access, Sequences

Page(name, shows, offers) ==
  [name |-> name, shows |-> shows, offers |-> UNION offers]

\* `gates` maps the operations of a path to the permissions asked for them.
Acts(path, gates, when, refresh) ==
  {[path |-> path, op |-> op, gate |-> gates[op], when |-> when,
    refresh |-> refresh, sets |-> {}] : op \in DOMAIN gates}

\* The answer replaces what the key holds.
Writing(path, gates, key) ==
  {[act EXCEPT !.sets = {key}] : act \in Acts(path, gates, AnyStatus, {})}

Ungated == {}
List(path) == <<path>>
Detail(path) == <<path, "id">>

-----------------------------------------------------------------------------
(* Ledger *)

DashboardPage ==
  Page("Dashboard", {List("cost-centers"), List("accounts"), List("journal-entries")}, {})

AccountsPage ==
  Page("Accounts", {List("accounts"), List("cost-centers")},
       {Acts("accounts", [create |-> {"accounts:create"}, update |-> {"accounts:update"}],
             AnyStatus, {List("accounts")})})

CostCentersPage ==
  Page("CostCenters", {List("cost-centers")},
       {Acts("cost-centers", [create |-> {"cost_centers:create"},
                              update |-> {"cost_centers:update"},
                              delete |-> {"cost_centers:delete"}],
             AnyStatus, {List("cost-centers")})})

\* An entry is offered for reversal when it is not a reversal itself, reversed
\* already or not.
JournalEntriesPage ==
  LET refresh == {List("journal-entries")}
  IN  Page("JournalEntries", {List("journal-entries"), List("accounts"), List("cost-centers")},
           {Acts("journal-entries", [create |-> {"journal_entries:create"}], AnyStatus, refresh),
            Acts("journal-entries", [reverse |-> {"journal_entries:reverse"}],
                 {"ENTRY", "REVERSED"}, refresh)})

-----------------------------------------------------------------------------
(* Finance *)

AccountsPayableTab ==
  LET acts(gates, when) == Acts("accounts-payable", gates, when, {List("accounts-payable")})
  IN  Page("AccountsPayable",
           {List("accounts-payable"), List("counterparties"), List("accounts"),
            List("cost-centers"), List("bank-accounts")},
           {acts([create |-> {"accounts_payable:create"}], AnyStatus),
            acts([registerPayment |-> {"accounts_payable:pay"}], {"OPEN", "PARTIALLY_PAID"}),
            acts([cancel |-> {"accounts_payable:cancel"}], {"OPEN"})})

AccountsReceivableTab ==
  LET acts(gates, when) == Acts("accounts-receivable", gates, when, {List("accounts-receivable")})
  IN  Page("AccountsReceivable",
           {List("accounts-receivable"), List("counterparties"), List("accounts"),
            List("cost-centers"), List("bank-accounts")},
           {acts([create |-> {"accounts_receivable:create"}], AnyStatus),
            acts([registerReceipt |-> {"accounts_receivable:receive"}],
                 {"OPEN", "PARTIALLY_PAID"}),
            acts([cancel |-> {"accounts_receivable:cancel"}], {"OPEN"})})

BankAccountsTab ==
  Page("BankAccounts", {List("bank-accounts"), List("accounts")},
       {Acts("bank-accounts", [create |-> {"bank_accounts:create"},
                               update |-> {"bank_accounts:update"}],
             AnyStatus, {List("bank-accounts")})})

CounterpartiesTab ==
  Page("Counterparties", {List("counterparties")},
       {Acts("counterparties", [create |-> {"counterparties:create"},
                                update |-> {"counterparties:update"}],
             AnyStatus, {List("counterparties")})})

BankReconciliationPage ==
  Page("BankReconciliation", {List("bank-reconciliations"), List("bank-accounts")},
       {Acts("bank-reconciliations", [importStatement |-> {"bank_reconciliation:import"}],
             AnyStatus, {List("bank-reconciliations")})})

Summary == <<"bank-reconciliations", "id", "summary">>

BankReconciliationDetail ==
  LET path == "bank-reconciliations"
      invalidate == {Detail(path), Summary, List(path)}
      match(ops, when) == Acts(path, [op \in ops |-> {"bank_reconciliation:match"}],
                               when, invalidate)
  IN  Page("BankReconciliationDetail",
           {List(path), List("bank-accounts"), Detail(path), Summary, List("accounts"),
            List("cost-centers")},
           {match({"manualMatch", "ignore", "createAdjustmentEntry"}, {"PENDING"}),
            match({"resetLine"}, {"MATCHED", "IGNORED"}),
            Acts(path, [close |-> {"bank_reconciliation:close"}], {"OPEN"}, invalidate),
            Acts(path, [remove |-> {"bank_reconciliation:import"}], {"OPEN"}, {List(path)})})

-----------------------------------------------------------------------------
(* Budget, stock and fixed assets *)

BudgetPage ==
  Page("Budget", {List("budget-plans")},
       {Acts("budget-plans", [create |-> {"budget:create"}], AnyStatus, {List("budget-plans")})})

Variance == <<"budget-plans", "id", "variance">>

RefreshOfPlan == {Detail("budget-plans"), List("budget-plans"), Variance}

BudgetPlanDetail ==
  LET path == "budget-plans"
  IN  Page("BudgetPlanDetail",
           {List(path), Detail(path), Variance, List("accounts"), List("cost-centers")},
           {Acts(path, [delete |-> {"budget:delete"}], {"DRAFT"}, {List(path)}),
            Acts(path, [approve |-> {"budget:approve"}, addLine |-> {"budget:update"},
                        updateLine |-> {"budget:update"}, removeLine |-> {"budget:update"}],
                 {"DRAFT"}, RefreshOfPlan),
            Acts(path, [close |-> {"budget:close"}], {"APPROVED"}, RefreshOfPlan)})

InventoryItemsTab ==
  Page("InventoryItems", {List("inventory-items"), List("accounts")},
       {Acts("inventory-items", [create |-> {"inventory_items:create"}],
             AnyStatus, {List("inventory-items")})})

InventoryItemDetail ==
  LET path == "inventory-items"
  IN  Page("InventoryItemDetail", {List(path), Detail(path), List("warehouses"), List("accounts")},
           {Acts(path, [registerInbound |-> {"inventory_items:inbound"},
                        registerOutbound |-> {"inventory_items:outbound"},
                        registerTransfer |-> {"inventory_items:transfer"}],
                 AnyStatus, {Detail(path), List(path)})})

WarehousesTab ==
  Page("Warehouses", {List("warehouses")},
       {Acts("warehouses", [create |-> {"warehouses:create"}, update |-> {"warehouses:update"}],
             AnyStatus, {List("warehouses")})})

FixedAssetsPage ==
  Page("FixedAssets", {List("fixed-assets"), List("accounts"), List("cost-centers")},
       {Acts("fixed-assets", [create |-> {"fixed_assets:create"},
                              runDepreciation |-> {"fixed_assets:run_depreciation"}],
             AnyStatus, {List("fixed-assets")})})

FixedAssetDetail ==
  LET path == "fixed-assets"
  IN  Page("FixedAssetDetail",
           {List(path), Detail(path), List("accounts"), List("cost-centers")},
           {Acts(path, [update |-> {"fixed_assets:update"}, dispose |-> {"fixed_assets:dispose"}],
                 {"ACTIVE", "FULLY_DEPRECIATED"}, {Detail(path), List(path)})})

-----------------------------------------------------------------------------
(* Personnel *)

EmployeesTab ==
  LET acts(gates, when) == Acts("employees", gates, when, {List("employees")})
  IN  Page("Employees", {List("employees"), List("cost-centers")},
           {acts([create |-> {"employees:create"}], AnyStatus),
            acts([update |-> {"employees:update"}], {"ACTIVE"})})

PayrollRunsTab ==
  Page("PayrollRuns", {List("payroll-runs")},
       {Acts("payroll-runs", [create |-> {"payroll_runs:create"}],
             AnyStatus, {List("payroll-runs")})})

PayrollRunDetail ==
  LET path == "payroll-runs"
      invalidate == {Detail(path), List(path)}
  IN  Page("PayrollRunDetail", {List(path), Detail(path)},
           {Acts(path, [calculate |-> {"payroll_runs:create"}], EventStatus \ {"POSTED"}, invalidate),
            Acts(path, [post |-> {"payroll_runs:post"}], {"CALCULATED"}, invalidate),
            Acts(path, [remove |-> {"payroll_runs:create"}], EventStatus \ {"POSTED"}, {List(path)})})

ThirteenthSalaryTab ==
  Page("ThirteenthSalary", {List("thirteenth-salary-runs")},
       {Acts("thirteenth-salary-runs", [create |-> {"thirteenth_salary:create"}],
             AnyStatus, {List("thirteenth-salary-runs")})})

ThirteenthSalaryDetail ==
  LET path == "thirteenth-salary-runs"
      invalidate == {Detail(path), List(path)}
  IN  Page("ThirteenthSalaryDetail", {List(path), Detail(path)},
           {Acts(path, [calculate |-> {"thirteenth_salary:create"}], EventStatus \ {"POSTED"}, invalidate),
            Acts(path, [post |-> {"thirteenth_salary:post"}], {"CALCULATED"}, invalidate),
            Acts(path, [remove |-> {"thirteenth_salary:create"}], EventStatus \ {"POSTED"},
                 {List(path)})})

\* The button to post is inside the block of those who may create.
VacationsTab ==
  LET acts(gates, when) == Acts("vacations", gates, when, {List("vacations")})
  IN  Page("Vacations", {List("vacations"), List("employees")},
           {acts([create |-> {"vacations:create"}], AnyStatus),
            acts([op \in {"calculate", "remove"} |-> {"vacations:create"}], EventStatus \ {"POSTED"}),
            acts([post |-> {"vacations:create", "vacations:post"}], {"CALCULATED"})})

\* Mutant: a termination refreshes its own list alone.
RefreshOfTerminationsOnly == {List("terminations")}

RefreshOfTerminations == {List("terminations"), List("employees")}

TerminationsTab ==
  LET acts(gates, when) == Acts("terminations", gates, when, RefreshOfTerminations)
  IN  Page("Terminations", {List("terminations"), List("employees")},
           {acts([create |-> {"terminations:create"}], AnyStatus),
            acts([op \in {"calculate", "remove"} |-> {"terminations:create"}],
                 EventStatus \ {"POSTED"}),
            acts([post |-> {"terminations:create", "terminations:post"}], {"CALCULATED"})})

PayrollSettingsTab ==
  Page("PayrollSettings", {List("payroll-settings"), List("accounts")},
       {Acts("payroll-settings", [update |-> Ungated], AnyStatus, {List("payroll-settings")}),
        Writing("payroll-settings", [setTaxBrackets |-> Ungated], List("payroll-settings"))})

-----------------------------------------------------------------------------
(* Fiscal documents, eSocial and SPED *)

FiscalSettingsTab ==
  Page("FiscalSettings", {List("fiscal-tax-settings"), List("accounts")},
       {Acts("fiscal-tax-settings", [update |-> Ungated], AnyStatus,
             {List("fiscal-tax-settings")}),
        Writing("fiscal-tax-settings", [setSimplesBrackets |-> Ungated],
                List("fiscal-tax-settings")),
        Writing("fiscal-tax-settings", [setIcmsUfRates |-> Ungated],
                List("fiscal-tax-settings"))})

EmitirDocumentoTab ==
  Page("EmitirDocumento", {List("counterparties")},
       {Acts("fiscal-documentos", [emitir |-> Ungated], AnyStatus, {})})

DocumentosEmitidosTab == Page("DocumentosEmitidos", {List("fiscal-documentos")}, {})

CompanyRegistrationTab ==
  Page("CompanyRegistration", {List("company-registration")},
       {Writing("company-registration", [update |-> Ungated], List("company-registration"))})

EsocialEventosTab ==
  LET acts(gates, when) == Acts("esocial-eventos", gates, when, {List("esocial-eventos")})
  IN  Page("EsocialEventos",
           {List("esocial-eventos"), List("employees"), List("vacations"),
            List("terminations"), List("payroll-runs")},
           {acts([op \in {"gerarS1000", "gerarS1005", "gerarS2200", "gerarS2230Ferias",
                          "gerarS2299", "gerarS1200"} |-> Ungated], AnyStatus),
            acts([setSubmissionProtocol |-> Ungated], {"GERADO"})})

SpedFilesTab == Page("SpedFiles", {}, {})

-----------------------------------------------------------------------------
(* Users and roles *)

CreateUserForm == Acts("roles", [create |-> {"users:create"}], AnyStatus, {List("roles")})

\* Whoever may create a user is offered to create a role as well.
UsersTab ==
  Page("Users", {List("users"), List("roles"), List("permissions")},
       {Acts("users", [create |-> {"users:create"}, update |-> {"users:update"},
                       setRoles |-> {"users:update"}], AnyStatus, {List("users")}),
        CreateUserForm})

RolesTab ==
  LET acts(gates, when) == Acts("roles", gates, when, {List("roles")})
  IN  Page("Roles", {List("roles"), List("permissions")},
           {acts([create |-> {"roles:create"}], AnyStatus),
            acts([update |-> {"roles:update"}, setPermissions |-> {"roles:update"},
                  delete |-> {"roles:delete"}], {"CUSTOM"})})

-----------------------------------------------------------------------------
(* Reports: queries alone *)

Report(name, report, lists) ==
  Page(name, {<<"reports", report>>} \cup {List(l) : l \in lists}, {})

TrialBalanceTab == Report("TrialBalance", "trial-balance", {"cost-centers"})
GeneralLedgerTab == Report("GeneralLedger", "general-ledger", {"accounts", "cost-centers"})
IncomeStatementTab == Report("IncomeStatement", "income-statement", {"cost-centers"})
BalanceSheetTab == Report("BalanceSheet", "balance-sheet", {"cost-centers"})
CashFlowTab == Report("CashFlow", "cash-flow", {})
IncomeStatementLegalTab == Report("IncomeStatementLegal", "income-statement-legal", {})
BalanceSheetLegalTab == Report("BalanceSheetLegal", "balance-sheet-legal", {})

-----------------------------------------------------------------------------
(* Containers: a tab is mounted while it is chosen, a detail with its list *)

FinanceiroPage == {AccountsPayableTab, AccountsReceivableTab, BankAccountsTab, CounterpartiesTab}
WarehousePage == {InventoryItemsTab, InventoryItemDetail, WarehousesTab}
DepartamentoPessoalPage ==
  {EmployeesTab, PayrollRunsTab, PayrollRunDetail, ThirteenthSalaryTab, ThirteenthSalaryDetail,
   VacationsTab, TerminationsTab, PayrollSettingsTab}
FiscalPage == {EmitirDocumentoTab, DocumentosEmitidosTab, FiscalSettingsTab}
SpedEsocialPage == {CompanyRegistrationTab, EsocialEventosTab, SpedFilesTab}
UsersPage == {UsersTab, RolesTab}
ReportsPage ==
  {TrialBalanceTab, GeneralLedgerTab, IncomeStatementTab, BalanceSheetTab, CashFlowTab,
   IncomeStatementLegalTab, BalanceSheetLegalTab}

App ==
  {DashboardPage, CostCentersPage, AccountsPage, JournalEntriesPage, BankReconciliationPage,
   BankReconciliationDetail, BudgetPage, BudgetPlanDetail, FixedAssetsPage, FixedAssetDetail}
    \cup FinanceiroPage \cup WarehousePage \cup DepartamentoPessoalPage \cup FiscalPage
    \cup SpedEsocialPage \cup UsersPage \cup ReportsPage
=============================================================================

------------------------------- MODULE Access -------------------------------
(***************************************************************************)
(* What the API lets a caller do: each route with the permission it asks   *)
(* for (the controllers and PermissionsGuard), the catalog permissions are *)
(* granted from, and the statuses in which a service accepts the call.     *)
(* A route is a path and the operation of the service it reaches.          *)
(***************************************************************************)
EXTENDS FiniteSets

Controller(path, needs) ==
  {[path |-> path, op |-> op, needs |-> needs[op]] : op \in DOMAIN needs}

Public == "public"

AuthController ==
  Controller("auth", [registerOrganization |-> Public, login |-> Public,
                      refresh |-> Public, logout |-> Public])

UsersController ==
  Controller("users", [list |-> "users:read", create |-> "users:create",
                       update |-> "users:update", setRoles |-> "users:update"])

RolesController ==
  Controller("permissions", [list |-> "roles:read"]) \cup
  Controller("roles", [list |-> "roles:read", create |-> "roles:create",
                       update |-> "roles:update", setPermissions |-> "roles:update",
                       delete |-> "roles:delete"])

AccountsController ==
  Controller("accounts", [list |-> "accounts:read", create |-> "accounts:create",
                          update |-> "accounts:update"])

CostCentersController ==
  Controller("cost-centers", [list |-> "cost_centers:read", create |-> "cost_centers:create",
                              update |-> "cost_centers:update", delete |-> "cost_centers:delete"])

JournalEntriesController ==
  Controller("journal-entries",
             [list |-> "journal_entries:read", findOne |-> "journal_entries:read",
              create |-> "journal_entries:create", reverse |-> "journal_entries:reverse"])

CounterpartiesController ==
  Controller("counterparties", [list |-> "counterparties:read", create |-> "counterparties:create",
                                update |-> "counterparties:update"])

BankAccountsController ==
  Controller("bank-accounts", [list |-> "bank_accounts:read", create |-> "bank_accounts:create",
                               update |-> "bank_accounts:update"])

AccountsPayableController ==
  Controller("accounts-payable",
             [list |-> "accounts_payable:read", findOne |-> "accounts_payable:read",
              create |-> "accounts_payable:create", registerPayment |-> "accounts_payable:pay",
              cancel |-> "accounts_payable:cancel"])

AccountsReceivableController ==
  Controller("accounts-receivable",
             [list |-> "accounts_receivable:read", findOne |-> "accounts_receivable:read",
              create |-> "accounts_receivable:create",
              registerReceipt |-> "accounts_receivable:receive",
              cancel |-> "accounts_receivable:cancel"])

FixedAssetsController ==
  Controller("fixed-assets",
             [list |-> "fixed_assets:read", findOne |-> "fixed_assets:read",
              create |-> "fixed_assets:create", update |-> "fixed_assets:update",
              delete |-> "fixed_assets:delete", dispose |-> "fixed_assets:dispose",
              runDepreciation |-> "fixed_assets:run_depreciation"])

BudgetController ==
  Controller("budget-plans",
             [list |-> "budget:read", findOne |-> "budget:read", variance |-> "budget:read",
              create |-> "budget:create", update |-> "budget:update", delete |-> "budget:delete",
              approve |-> "budget:approve", close |-> "budget:close",
              addLine |-> "budget:update", updateLine |-> "budget:update",
              removeLine |-> "budget:update"])

WarehousesController ==
  Controller("warehouses", [list |-> "warehouses:read", create |-> "warehouses:create",
                            update |-> "warehouses:update"])

InventoryItemsController ==
  Controller("inventory-items",
             [list |-> "inventory_items:read", findOne |-> "inventory_items:read",
              create |-> "inventory_items:create", update |-> "inventory_items:update",
              registerInbound |-> "inventory_items:inbound",
              registerOutbound |-> "inventory_items:outbound",
              registerTransfer |-> "inventory_items:transfer"])

ReportsController ==
  Controller("reports",
             [trialBalance |-> "reports:read", generalLedger |-> "reports:read",
              incomeStatement |-> "reports:read", balanceSheet |-> "reports:read",
              cashFlow |-> "reports:read", incomeStatementLegal |-> "reports:read",
              balanceSheetLegal |-> "reports:read"])

BankReconciliationController ==
  Controller("bank-reconciliations",
             [list |-> "bank_reconciliation:read", findOne |-> "bank_reconciliation:read",
              getSummary |-> "bank_reconciliation:read",
              findMatchCandidates |-> "bank_reconciliation:read",
              importStatement |-> "bank_reconciliation:import",
              manualMatch |-> "bank_reconciliation:match", resetLine |-> "bank_reconciliation:match",
              ignore |-> "bank_reconciliation:match",
              createAdjustmentEntry |-> "bank_reconciliation:match",
              close |-> "bank_reconciliation:close", remove |-> "bank_reconciliation:import"])


EmployeesController ==
  Controller("employees", [list |-> "employees:read", findOne |-> "employees:read",
                           create |-> "employees:create", update |-> "employees:update"])

PayrollSettingsController ==
  Controller("payroll-settings",
             [getOrCreate |-> "payroll_settings:read", update |-> "payroll_settings:update",
              setTaxBrackets |-> "payroll_settings:update"])

PayrollRunController ==
  Controller("payroll-runs",
             [list |-> "payroll_runs:read", findOne |-> "payroll_runs:read",
              create |-> "payroll_runs:create", calculate |-> "payroll_runs:create",
              post |-> "payroll_runs:post", remove |-> "payroll_runs:create"])

VacationController ==
  Controller("vacations",
             [list |-> "vacations:read", findOne |-> "vacations:read",
              create |-> "vacations:create", calculate |-> "vacations:create",
              post |-> "vacations:post", remove |-> "vacations:create"])

ThirteenthSalaryRunController ==
  Controller("thirteenth-salary-runs",
             [list |-> "thirteenth_salary:read", findOne |-> "thirteenth_salary:read",
              create |-> "thirteenth_salary:create", calculate |-> "thirteenth_salary:create",
              post |-> "thirteenth_salary:post", remove |-> "thirteenth_salary:create"])

TerminationController ==
  Controller("terminations",
             [list |-> "terminations:read", findOne |-> "terminations:read",
              create |-> "terminations:create", calculate |-> "terminations:create",
              post |-> "terminations:post", remove |-> "terminations:create"])

FiscalTaxSettingsController ==
  Controller("fiscal-tax-settings",
             [getOrCreate |-> "fiscal:read", update |-> "fiscal:update_settings",
              setSimplesBrackets |-> "fiscal:update_settings",
              setIcmsUfRates |-> "fiscal:update_settings"])

FiscalDocumentosController ==
  Controller("fiscal-documentos",
             [list |-> "fiscal:read", findOne |-> "fiscal:read", apurar |-> "fiscal:read",
              emitir |-> "fiscal:create", gerarXml |-> "fiscal:read"])

FiscalController ==
  Controller("fiscal", [gerarRascunho |-> "fiscal:create", lancar |-> "fiscal:create"])

CompanyRegistrationController ==
  Controller("company-registration",
             [getOrCreate |-> "company_registration:read", update |-> "company_registration:update"])

EsocialEventosController ==
  Controller("esocial-eventos",
             [list |-> "esocial:read", gerarS1000 |-> "esocial:create",
              gerarS1005 |-> "esocial:create", gerarS2200 |-> "esocial:create",
              gerarS2230Ferias |-> "esocial:create", gerarS2299 |-> "esocial:create",
              gerarS1200 |-> "esocial:create", setSubmissionProtocol |-> "esocial:update"])

SpedEcdController == Controller("sped-ecd", [gerar |-> "sped:generate"])
SpedEcfController == Controller("sped-ecf", [gerar |-> "sped:generate"])
SpedEfdContribuicoesController == Controller("sped-efd-contribuicoes", [gerar |-> "sped:generate"])
SpedEfdIcmsIpiController == Controller("sped-efd-icms-ipi", [gerar |-> "sped:generate"])

Routes ==
  UNION {AuthController, UsersController, RolesController, AccountsController,
         CostCentersController, JournalEntriesController, CounterpartiesController,
         BankAccountsController, AccountsPayableController, AccountsReceivableController,
         FixedAssetsController, BudgetController, WarehousesController,
         InventoryItemsController, ReportsController, BankReconciliationController,
         EmployeesController, PayrollSettingsController, PayrollRunController,
         VacationController, ThirteenthSalaryRunController, TerminationController,
         FiscalTaxSettingsController, FiscalDocumentosController, FiscalController,
         CompanyRegistrationController, EsocialEventosController, SpedEcdController,
         SpedEcfController, SpedEfdContribuicoesController, SpedEfdIcmsIpiController}

-----------------------------------------------------------------------------
PERMISSION_CATALOG ==
  {"organizations:read", "organizations:update",
   "users:create", "users:read", "users:update", "users:delete",
   "roles:create", "roles:read", "roles:update", "roles:delete",
   "cost_centers:create", "cost_centers:read", "cost_centers:update", "cost_centers:delete",
   "accounts:create", "accounts:read", "accounts:update", "accounts:delete",
   "journal_entries:create", "journal_entries:read", "journal_entries:reverse",
   "fiscal:create", "fiscal:read", "fiscal:update_settings",
   "counterparties:create", "counterparties:read", "counterparties:update",
   "bank_accounts:create", "bank_accounts:read", "bank_accounts:update",
   "accounts_payable:create", "accounts_payable:read", "accounts_payable:pay",
   "accounts_payable:cancel", "accounts_receivable:create", "accounts_receivable:read",
   "accounts_receivable:receive", "accounts_receivable:cancel",
   "fixed_assets:create", "fixed_assets:read", "fixed_assets:update", "fixed_assets:delete",
   "fixed_assets:dispose", "fixed_assets:run_depreciation",
   "budget:create", "budget:read", "budget:update", "budget:delete", "budget:approve",
   "budget:close", "warehouses:create", "warehouses:read", "warehouses:update",
   "inventory_items:create", "inventory_items:read", "inventory_items:update",
   "inventory_items:inbound", "inventory_items:outbound", "inventory_items:transfer",
   "reports:read", "bank_reconciliation:read", "bank_reconciliation:import",
   "bank_reconciliation:match", "bank_reconciliation:close",
   "employees:create", "employees:read", "employees:update",
   "payroll_settings:read", "payroll_settings:update",
   "payroll_runs:create", "payroll_runs:read", "payroll_runs:post",
   "vacations:create", "vacations:read", "vacations:post",
   "thirteenth_salary:create", "thirteenth_salary:read", "thirteenth_salary:post",
   "terminations:create", "terminations:read", "terminations:post",
   "company_registration:read", "company_registration:update",
   "esocial:create", "esocial:read", "esocial:update", "sped:generate"}

\* PermissionsGuard: a route without a permission is open to any caller.
Admits(route, permissions) ==
  route.needs = Public \/ route.needs \in permissions

-----------------------------------------------------------------------------
(* Statuses of the row in which the services accept a call. *)

EventStatus == {"DRAFT", "CALCULATED", "POSTED"}
AnyStatus ==
  EventStatus \cup {"APPROVED", "CLOSED", "OPEN", "PARTIALLY_PAID", "PAID", "CANCELED",
             "PENDING", "MATCHED", "IGNORED", "ENTRY", "REVERSED", "REVERSAL",
             "ACTIVE", "FULLY_DEPRECIATED", "DISPOSED", "TERMINATED",
             "CUSTOM", "SYSTEM", "GERADO", "ENVIADO"}

EventAccepts(op) ==
  CASE op = "post" -> {"CALCULATED"}
    [] op \in {"calculate", "remove"} -> EventStatus \ {"POSTED"}
    [] OTHER -> AnyStatus

BudgetAccepts(op) ==
  CASE op = "close" -> {"APPROVED"}
    [] op \in {"update", "delete", "approve", "addLine", "updateLine", "removeLine"} -> {"DRAFT"}
    [] OTHER -> AnyStatus

\* Of the statement (OPEN), or of the line of an open statement.
ReconciliationAccepts(op) ==
  CASE op = "resetLine" -> {"MATCHED", "IGNORED"}
    [] op \in {"manualMatch", "ignore", "createAdjustmentEntry"} -> {"PENDING"}
    [] op \in {"close", "remove"} -> {"OPEN"}
    [] OTHER -> AnyStatus

TitleAccepts(op) ==
  CASE op = "cancel" -> {"OPEN"}
    [] op \in {"registerPayment", "registerReceipt"} -> {"OPEN", "PARTIALLY_PAID"}
    [] OTHER -> AnyStatus

\* An entry is reversed once, and a reversal is not reversed.
JournalAccepts(op) == IF op = "reverse" THEN {"ENTRY"} ELSE AnyStatus

AssetAccepts(op) ==
  IF op = "dispose" THEN {"ACTIVE", "FULLY_DEPRECIATED"} ELSE AnyStatus

EmployeeAccepts(op) == IF op = "update" THEN {"ACTIVE"} ELSE AnyStatus

RoleAccepts(op) == IF op \in {"setPermissions", "delete"} THEN {"CUSTOM"} ELSE AnyStatus

Accepts(path, op) ==
  CASE path \in {"payroll-runs", "vacations", "thirteenth-salary-runs", "terminations"} ->
         EventAccepts(op)
    [] path = "budget-plans" -> BudgetAccepts(op)
    [] path = "bank-reconciliations" -> ReconciliationAccepts(op)
    [] path \in {"accounts-payable", "accounts-receivable"} -> TitleAccepts(op)
    [] path = "journal-entries" -> JournalAccepts(op)
    [] path = "fixed-assets" -> AssetAccepts(op)
    [] path = "employees" -> EmployeeAccepts(op)
    [] path = "roles" -> RoleAccepts(op)
    [] OTHER -> AnyStatus

-----------------------------------------------------------------------------
(* Facts a call may change, named by the path that shows them. *)

Posting ==
  {<<"accounts-payable", "create">>, <<"accounts-payable", "registerPayment">>,
   <<"accounts-payable", "cancel">>, <<"accounts-receivable", "create">>,
   <<"accounts-receivable", "registerReceipt">>, <<"accounts-receivable", "cancel">>,
   <<"fixed-assets", "runDepreciation">>, <<"fixed-assets", "dispose">>,
   <<"inventory-items", "registerInbound">>, <<"inventory-items", "registerOutbound">>,
   <<"bank-reconciliations", "createAdjustmentEntry">>, <<"fiscal-documentos", "emitir">>,
   <<"fiscal", "lancar">>, <<"payroll-runs", "post">>, <<"vacations", "post">>,
   <<"thirteenth-salary-runs", "post">>, <<"terminations", "post">>}

ChangedBy(path, op) ==
  {path}
    \cup (IF <<path, op>> \in Posting THEN {"journal-entries"} ELSE {})
    \cup (IF <<path, op>> = <<"terminations", "post">> THEN {"employees"} ELSE {})
    \cup (IF path = "roles" /\ op \in {"update", "delete"} THEN {"users"} ELSE {})
=============================================================================

-------------------------- MODULE MCAdministration --------------------------
(* Small instances of Inventory, of FixedAssets, of Personnel, of Auth, of    *)
(* FiscalDocuments with the settings of the payroll and the registration of   *)
(* the company, and of PageCache: a run of one of them at a time.  What a     *)
(* part does not use stays as it is at first.                                 *)
EXTENDS Inventory, FixedAssets, Auth, Personnel, FiscalValues, PageCache, TLC

CONSTANTS r1, r2, r3, r4, w1, w2, car, desk, ana, bia, clerk, post, t1, t2

VARIABLE part

\* Two units at 1.0000.
MCOpening == [warehouse |-> w1, quantity |-> 2000, unitCost |-> 10000]

\* The car depreciates in three months of 33, 33 and 33 cents and one of 1; the
\* desk in one month of 3 and one of 2, and is acquired in month 2.
MCRegister ==
  (car  :> [cost |-> 120, residual |-> 20, life |-> 3, acquired |-> 1]) @@
  (desk :> [cost |-> 5, residual |-> 0, life |-> 2, acquired |-> 2])

MCBases == {[residual |-> 100, life |-> 1]}

\* One user, whose role grants a permission.
MCFirstLinks == {<<ana, clerk>>, <<clerk, post>>}

ASSUME SettingsThere   == SettingsAssumption /\ DocumentsAssumption
ASSUME StaffAssumption == PersonnelAssumption

NoStaff ==
  /\ employees = {} /\ terminated = {} /\ company = {} /\ runLines = {} /\ events = {}
  /\ sent = {} /\ counter = [k \in Keys |-> 0] /\ holder = <<>> /\ crossed = {}
  /\ pc = <<>> /\ tx = <<>>

NoSettings ==
  /\ settings = [s \in Scopes |-> {}] /\ table = [t \in Tables |-> {}] /\ latest = table
  /\ progress = <<>> /\ doing = <<>> /\ overlapped = FALSE
  /\ emission = <<>> /\ documents = {} /\ entries = {}

\* A run of settings is about one of them, the others were never asked for.
AdministrationInit ==
  /\ part \in Scopes \cup {"inventory", "assets", "sessions", "staff", "pages"}
  /\ StockInit /\ AssetInit
  /\ IF part \in Scopes THEN DocumentsInit /\ \A s \in Scopes \ {part} : settings[s] = {}
     ELSE NoSettings
  /\ IF part = "staff" THEN PersonnelInit ELSE NoStaff
  /\ AuthInit
  /\ PageInit /\ (part # "pages" => page = EmployeesTab /\ key = List("employees"))

OfPart == \A r \in SettingsRequests : doing'[r].scope \in {part, Seed}

AdministrationNext ==
  /\ part' = part
  /\ \/ /\ part \in Scopes /\ DocumentsNext /\ OfPart
        /\ UNCHANGED <<stockVars, assetVars, authVars, personnelVars, pageVars>>
     \/ /\ part = "inventory" /\ StockNext
        /\ UNCHANGED <<assetVars, documentsVars, authVars, personnelVars, pageVars>>
     \/ /\ part = "assets" /\ AssetNext
        /\ UNCHANGED <<stockVars, documentsVars, authVars, personnelVars, pageVars>>
     \/ /\ part = "sessions" /\ AuthNext
        /\ UNCHANGED <<stockVars, assetVars, documentsVars, personnelVars, pageVars>>
     \/ /\ part = "staff" /\ PersonnelNext
        /\ UNCHANGED <<stockVars, assetVars, documentsVars, authVars, pageVars>>
     \/ /\ part = "pages" /\ PageNext
        /\ UNCHANGED <<stockVars, assetVars, documentsVars, authVars, personnelVars>>

AdministrationSpec ==
  /\ AdministrationInit
  /\ [][AdministrationNext]_<<part, stockVars, assetVars, documentsVars, authVars,
                             personnelVars, pageVars>>

RequestSymmetry == Permutations(Requests)
=============================================================================

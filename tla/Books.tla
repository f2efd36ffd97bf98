-------------------------------- MODULE Books --------------------------------
(* What the reports and the files for the tax authority read: the journal,    *)
(* the chart of accounts, the bank accounts and the documents issued.  A      *)
(* report is a sequence of queries in one READ COMMITTED transaction: each of *)
(* them sees what is committed when it runs, and others commit in between.    *)
(* Nothing a report does is seen by anyone else, so one report is enough.     *)
EXTENDS Integers, Sequences, FiniteSets, FiniteSetsExt

CONSTANTS
  Accounts, TypeOf,      \* accounts and their types, which never change
  CashAccounts,          \* those that bank accounts may point at
  FirstGroups, FirstCash,  \* legal groups, and accounts of bank accounts, at first
  Asked,                 \* accounts whose ledger is asked for
  Editable,              \* accounts that are edited in a run
  Drafts,                \* lists of lines that balance, with their module
  Days, Periods,         \* days of competence, pairs of days asked for
  Centres,               \* cost centres
  FiscalDrafts,          \* documents that may be issued
  Rates,                 \* rates of PIS and COFINS that may be configured
  MaxEntries, MaxEdits,  \* bounds: entries and documents, other edits
  None

VARIABLES
  journal,               \* committed entries: a draft and its day
  chart,                 \* per account: group, is it analytic, is it active
  cash,                  \* accounts some bank account points at
  issued,                \* documents issued
  configured,            \* rates of PIS and COFINS, or None
  edits,                 \* how many edits of chart, cash and rates there were
  ask,                   \* the report asked for
  seen,                  \* the answers of its queries so far
  disturbed              \* whether something was committed since the first

bookVars == <<journal, chart, cash, issued, configured, edits, ask, seen, disturbed>>
committedRows == <<journal, chart, cash, issued, configured, edits>>

-----------------------------------------------------------------------------
(* Legal groups: src/apps/api/src/reports/domain/legal-statement-groups.ts *)

GroupsOfType(type) ==
  CASE type = "ASSET" ->
         {"ATIVO_CIRCULANTE", "ATIVO_REALIZAVEL_LONGO_PRAZO", "ATIVO_INVESTIMENTOS",
          "ATIVO_IMOBILIZADO", "ATIVO_INTANGIVEL"}
    [] type = "LIABILITY" -> {"PASSIVO_CIRCULANTE", "PASSIVO_NAO_CIRCULANTE"}
    [] type = "EQUITY" ->
         {"PL_CAPITAL_SOCIAL", "PL_RESERVAS_CAPITAL", "PL_AJUSTES_AVALIACAO_PATRIMONIAL",
          "PL_RESERVAS_LUCROS", "PL_ACOES_TESOURARIA", "PL_LUCROS_ACUMULADOS"}
    [] type = "REVENUE" ->
         {"RECEITA_BRUTA", "DEDUCOES_RECEITA", "RECEITAS_FINANCEIRAS",
          "OUTRAS_RECEITAS_OPERACIONAIS"}
    [] type = "EXPENSE" ->
         {"CUSTO_MERCADORIAS_SERVICOS", "DESPESAS_VENDAS", "DESPESAS_ADMINISTRATIVAS",
          "DESPESAS_FINANCEIRAS", "OUTRAS_DESPESAS_OPERACIONAIS", "IRPJ_CSLL",
          "PARTICIPACOES"}

ResultTypes  == {"REVENUE", "EXPENSE"}
BalanceTypes == {"ASSET", "LIABILITY", "EQUITY"}

EntryLine == [account: Accounts, direction: {"DEBIT", "CREDIT"}, amount: Nat,
              centre: Centres \cup {None}]

FiscalDraft == [type: STRING, day: Days, total: Nat, items: Seq(STRING), party: STRING,
                pis: Nat, cofins: Nat, icms: Nat]

\* The sum of the values of a function.
SumOver(f) == MapThenSumSet(LAMBDA x : f[x], DOMAIN f)

ASSUME ChartAssumption ==
  /\ IsFiniteSet(Accounts)
  /\ \A a \in Accounts :
       /\ TypeOf[a] \in ResultTypes \cup BalanceTypes
       /\ FirstGroups[a] \in GroupsOfType(TypeOf[a]) \cup {None}
  /\ Editable \subseteq Accounts /\ Asked \subseteq Accounts
  /\ FirstCash \subseteq Accounts /\ CashAccounts \subseteq Accounts

ASSUME DraftsAssumption ==
  /\ \A d \in Drafts : d.lines \in Seq(EntryLine)
  /\ \A d \in Drafts :
       SumOver([i \in DOMAIN d.lines |-> IF d.lines[i].direction = "DEBIT" THEN d.lines[i].amount
                                         ELSE -d.lines[i].amount]) = 0
  /\ FiscalDrafts \subseteq FiscalDraft

ASSUME DaysAssumption ==
  /\ Days \subseteq Nat
  /\ \A p \in Periods : p[1] \in Days /\ p[2] \in Days /\ p[1] <= p[2]

-----------------------------------------------------------------------------
(* Queries over the journal.  A line is a pair: its entry and its place in it *)

LineOf(p) == p[1].lines[p[2]]

LinesOf(accounts, from, to, centre) ==
  {p \in UNION {{e} \X DOMAIN e.lines : e \in journal} :
     /\ p[1].day \in from .. to
     /\ LineOf(p).account \in accounts
     /\ centre # None => LineOf(p).centre = centre}

SideOf(lines, direction) ==
  SumOver([p \in lines |-> IF LineOf(p).direction = direction THEN LineOf(p).amount ELSE 0])

NetDebit(lines) == SideOf(lines, "DEBIT") - SideOf(lines, "CREDIT")

\* GROUP BY account: a row for each account with lines.
ByAccount(lines) ==
  [a \in {LineOf(p).account : p \in lines} |->
     LET mine == {p \in lines : LineOf(p).account = a}
     IN  [debit |-> SideOf(mine, "DEBIT"), credit |-> SideOf(mine, "CREDIT")]]

First == Min(Days)

AccountsOfTypes(types) == {a \in Accounts : TypeOf[a] \in types}

\* Mutant: what precedes a period includes its first day.
Through(day) == day

Before(day) == day - 1

\* What each query returns, by its name.
Answer(query) ==
  LET a(types, from, to) == ByAccount(LinesOf(AccountsOfTypes(types), from, to, ask.centre))
      c(from, to)        == LinesOf(seen.cash, from, to, None)
      all == ResultTypes \cup BalanceTypes
  IN CASE query = "accounts"  -> chart
       [] query = "opening"   -> a(all, First, Before(ask.from))
       [] query = "period"    -> a(all, ask.from, ask.to)
       [] query = "lines"     -> LinesOf({ask.account}, ask.from, ask.to, ask.centre)
       [] query = "ownOpening" ->
            NetDebit(LinesOf({ask.account}, First, Before(ask.from), ask.centre))
       [] query = "movement"  -> a(ResultTypes, ask.from, ask.to)
       [] query = "balances"  -> a(BalanceTypes, First, ask.to)
       [] query = "results"   -> a(ResultTypes, First, ask.to)
       [] query = "cash"      -> cash
       [] query = "cashBefore"  -> NetDebit(c(First, Before(ask.from)))
       [] query = "cashThrough" -> NetDebit(c(First, ask.to))
       [] query = "cashEntries" ->
            [e \in {p[1] : p \in c(ask.from, ask.to)} |->
               NetDebit({p \in c(ask.from, ask.to) : p[1] = e})]
       [] query = "centres"   ->
            {<<LineOf(p).account, LineOf(p).centre>> :
               p \in {q \in LinesOf(Accounts, ask.from, ask.to, None) : LineOf(q).centre # None}}
       [] query = "entries"   -> {e \in journal : e.day \in ask.from .. ask.to}
       [] query = "documents" -> {d \in issued : d.day \in ask.from .. ask.to}
       [] query = "rates"     -> configured

\* The queries of each report, in their order; those that fetch only codes,
\* names and types, which nothing changes, are left out.
Plan(report) ==
  CASE report = "trialBalance"         -> <<"opening", "period">>
    [] report = "generalLedger"        -> <<"ownOpening", "lines">>
    [] report = "incomeStatement"      -> <<"movement">>
    [] report = "balanceSheet"         -> <<"balances", "results">>
    [] report = "incomeStatementLegal" -> <<"movement", "accounts">>
    [] report = "balanceSheetLegal"    -> <<"balances", "results", "accounts">>
    [] report = "cashFlow"             ->
         <<"cash", "cashBefore", "cashThrough", "cashEntries">>
    [] report = "ecd" -> <<"accounts", "opening", "period", "centres", "entries">>
    [] report = "ecf" -> <<"accounts", "movement">>
    [] report = "efdContribuicoes" -> <<"rates", "documents">>
    [] report = "efdIcms"          -> <<"documents">>

Reports == {"trialBalance", "generalLedger", "incomeStatement", "balanceSheet",
            "incomeStatementLegal", "balanceSheetLegal", "cashFlow",
            "ecd", "ecf", "efdContribuicoes", "efdIcms"}

OfJournal == {"opening", "period", "lines", "ownOpening", "movement", "balances", "results",
              "cashBefore", "cashThrough", "cashEntries", "centres", "entries"}

\* Reports that can be asked for one cost centre, and those that start at the
\* first day whatever is asked.
ByCentre == {"trialBalance", "generalLedger", "incomeStatement", "balanceSheet",
             "incomeStatementLegal", "balanceSheetLegal"}
AsOf == {"balanceSheet", "balanceSheetLegal"}

NoAsk == [report |-> "none", from |-> 0, to |-> 0, centre |-> None, account |-> None]

Done == ask # NoAsk /\ ask.report # "refused" /\ Len(Plan(ask.report)) = Cardinality(DOMAIN seen)
Underway == ask # NoAsk /\ ask.report # "refused" /\ ~Done
IsDone(report) == ask.report = report /\ Done

-----------------------------------------------------------------------------
(* What others commit *)

BooksInit ==
  /\ journal = {} /\ issued = {} /\ configured = None /\ cash = FirstCash /\ edits = 0
  /\ chart = [a \in Accounts |-> [group |-> FirstGroups[a], analytic |-> TRUE, active |-> TRUE]]
  /\ ask = NoAsk /\ seen = [q \in {} |-> 0] /\ disturbed = FALSE

\* A commit some query of the report may see.  A run begins with what is asked,
\* which reads nothing yet, and ends with the report.
Commits(queries) ==
  /\ Underway
  /\ \E i \in DOMAIN Plan(ask.report) : Plan(ask.report)[i] \in queries
  /\ disturbed' = (disturbed \/ DOMAIN seen # {})

Edits(query) == edits < MaxEdits /\ edits' = edits + 1 /\ Commits({query})

HasRoom == Cardinality(journal) + Cardinality(issued) < MaxEntries

Usable(a) == chart[a].analytic /\ chart[a].active

\* A posting: what Ledger commits.  Each draft is posted once on a day.
PostEntry(draft, day) ==
  LET e == [day |-> day, module |-> draft.module, lines |-> draft.lines] IN
  /\ HasRoom /\ e \notin journal
  /\ \A i \in DOMAIN e.lines : Usable(e.lines[i].account)
  /\ journal' = journal \cup {e}
  /\ Commits(OfJournal)
  /\ UNCHANGED <<chart, cash, issued, configured, edits, ask, seen>>

EditChart(a, row) ==
  /\ Edits("accounts")
  /\ row # chart[a]
  /\ chart' = [chart EXCEPT ![a] = row]
  /\ UNCHANGED <<journal, cash, issued, configured, ask, seen>>

\* AccountsService.update: a group of another type is refused.
Classify(a) ==
  \E g \in GroupsOfType(TypeOf[a]) : EditChart(a, [chart[a] EXCEPT !.group = g])

Deactivate(a) == EditChart(a, [chart[a] EXCEPT !.active = FALSE])

\* A first child makes the account synthetic, whatever it has in the journal.
BecomeParent(a) == EditChart(a, [chart[a] EXCEPT !.analytic = FALSE])

OpenBankAccount(a) ==
  /\ Usable(a) /\ a \notin cash
  /\ Edits("cash")
  /\ cash' = cash \cup {a}
  /\ UNCHANGED <<journal, chart, issued, configured, ask, seen>>

IssueDocument(doc) ==
  /\ HasRoom /\ doc \notin issued
  /\ issued' = issued \cup {doc}
  /\ Commits({"documents"})
  /\ UNCHANGED <<journal, chart, cash, configured, edits, ask, seen>>

ConfigureRates(rates) ==
  /\ Edits("rates")
  /\ configured' = rates
  /\ UNCHANGED <<journal, chart, cash, issued, ask, seen>>

-----------------------------------------------------------------------------
(* The report *)

AskFor(report, period, centre, account) ==
  /\ ask = NoAsk
  /\ ask' = [report |-> report, from |-> IF report \in AsOf THEN First ELSE period[1],
             to |-> period[2], centre |-> centre, account |-> account]
  /\ UNCHANGED <<committedRows, seen, disturbed>>

\* The next query.  efdContribuicoes goes no further without its rates.
RunQuery ==
  /\ Underway
  /\ LET query == Plan(ask.report)[Cardinality(DOMAIN seen) + 1]
     IN IF query = "rates" /\ configured = None
        THEN ask' = [ask EXCEPT !.report = "refused"] /\ UNCHANGED seen
        ELSE /\ seen' = [q \in DOMAIN seen \cup {query} |->
                           IF q = query THEN Answer(query) ELSE seen[q]]
             /\ UNCHANGED ask
  /\ UNCHANGED <<committedRows, disturbed>>

BooksNext ==
  \/ \E d \in Drafts, day \in Days : PostEntry(d, day)
  \/ \E a \in Editable : Classify(a) \/ Deactivate(a) \/ BecomeParent(a)
  \/ \E a \in CashAccounts : OpenBankAccount(a)
  \/ \E d \in FiscalDrafts : IssueDocument(d)
  \/ \E r \in Rates : ConfigureRates(r)
  \/ \E report \in Reports, p \in Periods :
       \E centre \in IF report \in ByCentre THEN Centres \cup {None} ELSE {None},
          account \in IF report = "generalLedger" THEN Asked ELSE {None} :
         AskFor(report, p, centre, account)
  \/ RunQuery

BooksSpec == BooksInit /\ [][BooksNext]_bookVars
=============================================================================

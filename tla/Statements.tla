------------------------------ MODULE Statements ------------------------------
(* The figures of the reports, from what their queries returned.              *)
EXTENDS Books

CreditNormal == {"LIABILITY", "EQUITY", "REVENUE"}

\* A balance with the sign of its account.
Signed(a, netDebit) == IF TypeOf[a] \in CreditNormal THEN -netDebit ELSE netDebit

Net(rows, a) == IF a \in DOMAIN rows THEN rows[a].debit - rows[a].credit ELSE 0

\* amount of a line of a statement, and sums of them.
Amount(rows, a) == Signed(a, Net(rows, a))
TotalOf(rows, accounts) == SumOver([a \in accounts \cap DOMAIN rows |-> Amount(rows, a)])
TotalOfType(rows, type) == TotalOf(rows, AccountsOfTypes({type}))

\* Mutant: only the accounts that moved in the period have a row.
TrialBalanceOfMoved ==
  [a \in DOMAIN seen.period |->
     [opening |-> Amount(seen.opening, a),
      debit   |-> seen.period[a].debit,
      credit  |-> seen.period[a].credit,
      closing |-> Signed(a, Net(seen.opening, a) + Net(seen.period, a))]]

TrialBalance ==
  [a \in DOMAIN seen.opening \cup DOMAIN seen.period |->
     LET period == IF a \in DOMAIN seen.period THEN seen.period[a] ELSE [debit |-> 0, credit |-> 0]
     IN  [opening |-> Amount(seen.opening, a),
          debit   |-> period.debit,
          credit  |-> period.credit,
          closing |-> Signed(a, Net(seen.opening, a) + period.debit - period.credit)]]

GeneralLedger ==
  LET opening == Signed(ask.account, seen.ownOpening)
  IN  [opening |-> opening,
       closing |-> opening + Signed(ask.account, NetDebit(seen.lines))]

NetResult == TotalOfType(seen.movement, "REVENUE") - TotalOfType(seen.movement, "EXPENSE")

NetIncome == -SumOver([a \in DOMAIN seen.results |-> Net(seen.results, a)])

BalanceSheet ==
  [assets      |-> TotalOfType(seen.balances, "ASSET"),
   liabilities |-> TotalOfType(seen.balances, "LIABILITY"),
   equity      |-> TotalOfType(seen.balances, "EQUITY") + NetIncome]

\* An account without a group is in no total.
Group(rows, g) == TotalOf(rows, {a \in Accounts : seen.accounts[a].group = g})

ContasSemClassificacao(types) ==
  {a \in AccountsOfTypes(types) :
     seen.accounts[a].analytic /\ seen.accounts[a].active /\ seen.accounts[a].group = None}

\* Mutant: deductions are subtracted, as costs and expenses are.
LucroLiquidoSubtracting ==
  LET g(name) == Group(seen.movement, name)
      receitaLiquida == g("RECEITA_BRUTA") - g("DEDUCOES_RECEITA")
      lucroBruto == receitaLiquida - g("CUSTO_MERCADORIAS_SERVICOS")
      resultadoOperacional ==
        lucroBruto - g("DESPESAS_VENDAS") - g("DESPESAS_ADMINISTRATIVAS")
          + g("OUTRAS_RECEITAS_OPERACIONAIS") - g("OUTRAS_DESPESAS_OPERACIONAIS")
      resultadoAntesTributos ==
        resultadoOperacional + g("RECEITAS_FINANCEIRAS") - g("DESPESAS_FINANCEIRAS")
  IN  resultadoAntesTributos - g("IRPJ_CSLL") - g("PARTICIPACOES")

LucroLiquido ==
  LET g(name) == Group(seen.movement, name)
      receitaLiquida == g("RECEITA_BRUTA") + g("DEDUCOES_RECEITA")
      lucroBruto == receitaLiquida - g("CUSTO_MERCADORIAS_SERVICOS")
      resultadoOperacional ==
        lucroBruto - g("DESPESAS_VENDAS") - g("DESPESAS_ADMINISTRATIVAS")
          + g("OUTRAS_RECEITAS_OPERACIONAIS") - g("OUTRAS_DESPESAS_OPERACIONAIS")
      resultadoAntesTributos ==
        resultadoOperacional + g("RECEITAS_FINANCEIRAS") - g("DESPESAS_FINANCEIRAS")
  IN  resultadoAntesTributos - g("IRPJ_CSLL") - g("PARTICIPACOES")

GroupsTotal(groups) == SumOver([g \in groups |-> Group(seen.balances, g)])

TotalAtivo == GroupsTotal(GroupsOfType("ASSET"))
TotalPassivoMaisPatrimonioLiquido ==
  GroupsTotal(GroupsOfType("LIABILITY")) + GroupsTotal(GroupsOfType("EQUITY")) + NetIncome

Categories == {"OPERATING", "INVESTING", "FINANCING"}

Touches(e, type) ==
  \E i \in DOMAIN e.lines :
    e.lines[i].account \notin seen.cash /\ TypeOf[e.lines[i].account] = type

CategoryOf(e) ==
  CASE e.module = "FIXED_ASSET" -> "INVESTING"
    [] e.module # "FIXED_ASSET" /\ Touches(e, "EQUITY") -> "FINANCING"
    [] OTHER -> "OPERATING"

\* Mutant: without Math.abs, what goes out is taken for nothing.
MovingIn == {e \in DOMAIN seen.cashEntries : seen.cashEntries[e] > 0}

\* Entries between two cash accounts move nothing and are left out.  Without a
\* bank account every figure is zero.
Moving == {e \in DOMAIN seen.cashEntries : seen.cashEntries[e] # 0}

CashFlow ==
  LET totals == [c \in Categories |->
                   SumOver([e \in {m \in Moving : CategoryOf(m) = c} |-> seen.cashEntries[e]])]
  IN  [opening |-> seen.cashBefore, closing |-> seen.cashThrough, totals |-> totals,
       netChange |-> totals["OPERATING"] + totals["INVESTING"] + totals["FINANCING"]]

-----------------------------------------------------------------------------
(* Properties *)

\* The balance of an account at the end of a day, in the centre asked for.
Balance(a, day) == NetDebit(LinesOf({a}, First, day, ask.centre))

BalanceOf(accounts, day) == SumOver([a \in accounts |-> Balance(a, day)])

Undisturbed(report) == IsDone(report) /\ ~disturbed

\* Whatever is posted between the two queries of a trial balance, its debits are
\* its credits and its balances cancel: each query sees whole entries.
TrialBalanceCancels ==
  IsDone("trialBalance") /\ ask.centre = None =>
    LET rows == TrialBalance
    IN  /\ SumOver([a \in DOMAIN rows |-> rows[a].debit])
             = SumOver([a \in DOMAIN rows |-> rows[a].credit])
        /\ SumOver([a \in DOMAIN rows |-> Signed(a, rows[a].closing)]) = 0

\* What the categories of a cash flow add up to is what cash changed by.
CashFlowExplainsCash ==
  Undisturbed("cashFlow") =>
    CashFlow.opening + CashFlow.netChange = CashFlow.closing

Classified(rows) == \A a \in DOMAIN rows : seen.accounts[a].group # None

\* With every account that moved in a group, the legal layouts give the result
\* and the totals of the plain ones, whichever groups those are, and whatever is
\* posted meanwhile.
LegalAgreesWithPlain ==
  /\ IsDone("incomeStatementLegal") /\ Classified(seen.movement) => LucroLiquido = NetResult
  /\ IsDone("balanceSheetLegal") /\ Classified(seen.balances) =>
       /\ TotalAtivo = BalanceSheet.assets
       /\ ~disturbed /\ ask.centre = None => TotalAtivo = TotalPassivoMaisPatrimonioLiquido

\* Reports nobody posts under agree with the books and with each other: a trial
\* balance and a ledger open with the balance of the day before and close with
\* that of the last day, the result of a period is what the balance sheets of
\* its ends differ by, and assets are liabilities and equity.  (With the
\* three above.)
StatementsTie ==
  /\ TrialBalanceCancels /\ CashFlowExplainsCash /\ LegalAgreesWithPlain
  /\ Undisturbed("trialBalance") =>
       \A a \in Accounts :
         LET row == IF a \in DOMAIN TrialBalance THEN TrialBalance[a]
                    ELSE [opening |-> 0, closing |-> 0]
         IN  /\ row.opening = Signed(a, Balance(a, Before(ask.from)))
             /\ row.closing = Signed(a, Balance(a, ask.to))
  /\ Undisturbed("generalLedger") =>
       /\ GeneralLedger.opening = Signed(ask.account, Balance(ask.account, Before(ask.from)))
       /\ GeneralLedger.closing = Signed(ask.account, Balance(ask.account, ask.to))
  /\ Undisturbed("incomeStatement") =>
       NetResult = BalanceOf(AccountsOfTypes(ResultTypes), Before(ask.from))
                     - BalanceOf(AccountsOfTypes(ResultTypes), ask.to)
  /\ Undisturbed("balanceSheet") /\ ask.centre = None =>
       BalanceSheet.assets = BalanceSheet.liabilities + BalanceSheet.equity

\* "Contas do tipo certo sem grupo atribuído são reportadas em
\* contasSemClassificacao" (reports.service.ts:278): what moved and is in no
\* total is named.
UnclassifiedAreReported ==
  /\ IsDone("incomeStatementLegal") =>
       \A a \in DOMAIN seen.movement :
         seen.accounts[a].group = None => a \in ContasSemClassificacao(ResultTypes)
  /\ IsDone("balanceSheetLegal") =>
       \A a \in DOMAIN seen.balances :
         seen.accounts[a].group = None => a \in ContasSemClassificacao(BalanceTypes)
=============================================================================

---------------------------- MODULE FiscalValues ----------------------------
(* Values for the constants of TaxSettings and FiscalDocuments.  Amounts are  *)
(* cents; rates are whole per cents and brackets end at 20 and 40 thousand,   *)
(* so that the deductions of the brackets are whole.                          *)
EXTENDS FiscalDocuments

CONSTANTS sales, shop

\* The tables of the fiscal module and of the payroll; the registration of the
\* company has none.
FiscalTables  == {"I", "III", "UF"}
PayrollTables == {"INSS", "IRRF"}
AllTables == FiscalTables \cup PayrollTables
ScopeOfTable(t) == IF t \in FiscalTables THEN "fiscal" ELSE "payroll"

Row(key, value) == [key |-> key, value |-> value]
Bracket(min, max, rate, deduct) ==
  Row("any", [min |-> min, max |-> max, rate |-> rate, deduct |-> deduct])
Rate(uf, rate) == Row(uf, [uf |-> uf, rate |-> rate])

FirstContent(t) ==
  CASE t = "III" -> {Bracket(0, 20, 5, 0), Bracket(21, 40, 10, 1), Bracket(41, 80, 15, 3)}
    [] t \in PayrollTables -> {Bracket(0, None, 8, 0)}
    [] OTHER -> {}

\* Of the brackets of a tax, some have no open bracket at their end.
BracketsOfTax ==
  {{Bracket(0, 20, 8, 0), Bracket(21, None, 10, 0)}, {Bracket(0, None, 7, 0)},
   {Bracket(0, None, 7, 0), Bracket(21, 40, 10, 0)}}

NewContents(t) ==
  CASE t = "I"   -> {{Bracket(0, None, 4, 0)}}
    [] t = "III" -> {{Bracket(0, 20, 6, 0), Bracket(21, None, 8, 0)}, {Bracket(25, None, 9, 0)}}
    [] t = "UF"  -> {{Rate("SP", 20), Rate("BA", 19)}, {Rate("SP", 18), Rate("SP", 17)}}
    [] OTHER     -> BracketsOfTax

Mapped == {"CLIENTES_A_RECEBER", "RECEITA_VENDAS", "RECEITA_SERVICOS",
           "DEDUCOES_TRIBUTARIAS_VENDAS", "DEDUCOES_TRIBUTARIAS_SERVICOS",
           "ICMS_A_RECOLHER", "ISS_A_RECOLHER", "PIS_A_RECOLHER", "COFINS_A_RECOLHER",
           "SIMPLES_NACIONAL_A_RECOLHER"}

FiscalDefaults ==
  [regime |-> "SIMPLES_NACIONAL", annex |-> "III", rbt12 |-> 0, pisRate |-> 1,
   cofinsRate |-> 3, issRate |-> 5, icmsRate |-> 18, accounts |-> {}]

Simples == [FiscalDefaults EXCEPT !.rbt12 = 20, !.accounts = Mapped]

FiscalChanges ==
  {[rbt12 |-> 30, accounts |-> Mapped], [regime |-> "LUCRO_PRESUMIDO"],
   [regime |-> "SIMPLES_NACIONAL", annex |-> "I"], [accounts |-> {"CONTA_INATIVA"}]}

\* The payroll has rates, and the registration of the company what it does; the
\* latter has no defaults and no accounts.
PayrollDefaults == [fgtsRate |-> 8, accounts |-> {}]
PayrollChanges  == {[fgtsRate |-> 9], [accounts |-> {"CONTA_INATIVA"}]}
CompanyDefaults == [cnae |-> None, address |-> None]
CompanyChanges  == {[cnae |-> 1], [cnae |-> 2, address |-> 1]}

FirstSettings(s) ==
  CASE s = "fiscal" -> FiscalDefaults [] s = "payroll" -> PayrollDefaults
    [] s = "company" -> CompanyDefaults
OldSettings(s) ==
  CASE s = "fiscal" -> {Simples} [] s = "payroll" -> {PayrollDefaults}
    [] s = "company" -> {[cnae |-> 1, address |-> 1]}
ChangesOf(s) ==
  CASE s = "fiscal" -> FiscalChanges [] s = "payroll" -> PayrollChanges
    [] s = "company" -> CompanyChanges

UsableAccounts(c) == "accounts" \in DOMAIN c => "CONTA_INATIVA" \notin c.accounts

\* Caller's categories: those the settings have no account for.
CallersMappings ==
  {{"DESPESA_OPERACIONAL", "ESTOQUE", "FORNECEDORES_A_PAGAR", "CBS_A_RECUPERAR",
    "CBS_A_RECOLHER", "INSS_A_RECOLHER"}}

Item(value, centre, from, to) == [value |-> value, centre |-> centre, from |-> from, to |-> to]
NoRetention == [w \in Withheld \cup {"cbsRetido", "ibsRetido"} |-> 0]
Document(number, type, nature, total, items) ==
  [number |-> number, type |-> type, nature |-> nature, total |-> total, recoverable |-> 0,
   items |-> items, centre |-> shop, withheld |-> NoRetention, taxes |-> {}]

\* Three equal items divide a cent; two documents have one number; the totals
\* of two CBS documents agree, one of them a sale, and those of the third do
\* not; no strategy takes the freight.
SomeDocuments ==
  {Document(1, "NFE", "VENDA_MERCADORIA", 100,
     <<Item(33, sales, "SP", "BA"), Item(33, None, "SP", "SP"), Item(33, None, None, "BA"),
       Item(1, "export", None, None)>>),
   Document(1, "NFSE_VIA", "SERVICO_PRESTADO", 2,
     <<Item(1, sales, None, None), Item(1, None, None, None), Item(1, "export", None, None)>>),
   [Document(2, "NFCE", "VENDA_MERCADORIA", 50, <<Item(50, None, None, None)>>) EXCEPT
      !.taxes = {[icms |-> 9, pis |-> 1, cofins |-> 0, iss |-> 3, das |-> 0]}],
   [Document(3, "NFSE_NACIONAL", "SERVICO_TOMADO", 90, <<Item(90, None, None, None)>>) EXCEPT
      !.withheld.inss = 10],
   [Document(4, "CBS", "COMPRA_MERCADORIA", 70,
             <<Item(60, None, None, None), Item(10, sales, None, None)>>) EXCEPT
      !.withheld.cbsRetido = 7, !.recoverable = 7],
   [Document(7, "CBS", "VENDA_MERCADORIA", 30, <<Item(30, None, "SP", "SP")>>) EXCEPT
      !.withheld.cbsRetido = 7, !.recoverable = 7],
   [Document(5, "CBS", "SERVICO_TOMADO", 70, <<Item(70, None, None, None)>>) EXCEPT
      !.withheld.cbsRetido = 7],
   Document(6, "CTE", "SERVICO_TOMADO", 10, <<Item(10, None, None, None)>>)}
=============================================================================

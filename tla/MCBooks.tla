------------------------------- MODULE MCBooks -------------------------------
(* A small set of books: two cash accounts, a fixed asset and an account of   *)
(* each other type, postings of every category of a cash flow and one between *)
(* the cash accounts, and four documents of different types.                  *)
EXTENDS SpedFiles

CONSTANTS bank, till, goods, loan, capital, sales, rent, shop

MCType ==
  [a \in Accounts |->
     CASE a \in {bank, till, goods} -> "ASSET"
       [] a = loan    -> "LIABILITY"
       [] a = capital -> "EQUITY"
       [] a = sales   -> "REVENUE"
       [] OTHER       -> "EXPENSE"]

\* Rent has no group at first.
MCGroups ==
  [a \in Accounts |->
     CASE a \in {bank, till} -> "ATIVO_CIRCULANTE"
       [] a = goods   -> "ATIVO_IMOBILIZADO"
       [] a = loan    -> "PASSIVO_NAO_CIRCULANTE"
       [] a = capital -> "PL_LUCROS_ACUMULADOS"
       [] a = sales   -> "RECEITA_BRUTA"
       [] OTHER       -> None]

Draft(module, debited, credited, amount, centre) ==
  [module |-> module,
   lines  |-> <<[account |-> debited, direction |-> "DEBIT", amount |-> amount, centre |-> centre],
                [account |-> credited, direction |-> "CREDIT", amount |-> amount, centre |-> centre]>>]

\* Capital paid in, a sale, the rent, a transfer, a purchase and a loan.
MCDrafts ==
  {Draft(None, bank, capital, 7, None), Draft("ACCOUNTS_RECEIVABLE", till, sales, 3, shop),
   Draft("ACCOUNTS_PAYABLE", rent, bank, 2, shop), Draft(None, till, bank, 4, None),
   Draft("FIXED_ASSET", goods, bank, 5, None), Draft(None, bank, loan, 6, None)}

Document(type, day, total, items) ==
  [type |-> type, day |-> day, total |-> total, items |-> items, party |-> type,
   pis |-> 1, cofins |-> 3, icms |-> total]

MCDocuments ==
  {Document("NFE", 2, 5, <<"cup", "pan">>), Document("CTE", 2, 2, <<"load">>),
   Document("NFSE_VIA", 2, 3, <<"visit">>), Document("CBS", 3, 4, <<"lamp">>)}

MCPeriods == {<<2, 2>>, <<1, 3>>}
MCRates == {[pis |-> 1, cofins |-> 3]}
=============================================================================

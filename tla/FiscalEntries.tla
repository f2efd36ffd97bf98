---------------------------- MODULE FiscalEntries ----------------------------
(* Taxes and entry lines of a fiscal document: the pure part of the fiscal    *)
(* module.  Amounts are whole cents and rates are per cent, so that rounding  *)
(* to the cent is integer rounding.                                           *)
EXTENDS Integers, Sequences, FiniteSets, FiniteSetsExt

CONSTANT None   \* an optional field left out: a cost centre, a state, a ceiling

Debit == "DEBITO"
Credit == "CREDITO"

\* The sum of f over S, and of the values of the items.
TotalIn(f, S) == MapThenSumSet(LAMBDA x : f[x], S)
ValuesOf(items) == [k \in DOMAIN items |-> items[k].value]
TotalOf(items) == TotalIn(ValuesOf(items), DOMAIN items)

\* Math.round: halves go up.
Rounded(num, den) == (2 * num + den) \div (2 * den)

(******************************* documents **********************************)
Services == {"NFSE_NACIONAL", "NFSE_VIA"}
Goods == {"NFE", "NFCE"}
Reform == {"CBS", "IBS"}
OtherTypes == {"IMPOSTO_SELETIVO", "CTE", "CTE_OS", "MDFE", "BPE", "GTVE",
               "NF3E", "DCE", "NFCOM", "NFE_ABI", "NFAG", "NFGAS"}
Types == Services \cup Goods \cup Reform \cup OtherTypes

Withheld == {"irrf", "csll", "pis", "cofins", "iss", "inss"}

NoTaxes == [icms |-> 0, pis |-> 0, cofins |-> 0, iss |-> 0, das |-> 0]

\* What the request may carry: positive totals and items, at least one item;
\* `taxes` is empty when the caller leaves the assessment to the server.
WellFormed(doc) ==
  /\ doc.type \in Types
  /\ doc.total > 0 /\ doc.recoverable >= 0
  /\ Len(doc.items) > 0
  /\ \A i \in DOMAIN doc.items : doc.items[i].value > 0
  /\ \A w \in DOMAIN doc.withheld : doc.withheld[w] >= 0

Assessable == {"VENDA_MERCADORIA", "SERVICO_PRESTADO"}

(****************************** assessment **********************************)
SouthAndSoutheast == {"SP", "RJ", "MG", "PR", "SC", "RS"}
ReducedDestinations ==
  {"AC", "AP", "AM", "PA", "RO", "RR", "TO", "AL", "BA", "CE", "MA", "PB", "PE",
   "PI", "RN", "SE", "DF", "GO", "MT", "MS", "ES"}

InterstateRate(from, to) ==
  IF from \in SouthAndSoutheast /\ to \in ReducedDestinations THEN 7 ELSE 12

\* Between two states the rate is the Senate's; inside one, the state's own
\* rate when it is configured and the default rate otherwise.
IcmsRate(s, i) ==
  IF i.from # None /\ i.to # None /\ i.from # i.to
  THEN InterstateRate(i.from, i.to)
  ELSE LET uf     == IF i.to # None THEN i.to ELSE i.from
           custom == {r \in s.ufRates : r.uf = uf}
       IN IF custom = {} THEN s.icmsRate ELSE (CHOOSE r \in custom : TRUE).rate

Icms(s, items) ==
  LET tax == [k \in DOMAIN items |-> items[k].value * IcmsRate(s, items[k])]
  IN Rounded(TotalIn(tax, DOMAIN items), 100)

\* The first bracket that holds the revenue of twelve months is taken, in
\* whatever order the database returns them and of whatever annex they are.
FittingBrackets(s) ==
  {b \in s.brackets : b.min <= s.rbt12 /\ (b.max = None \/ s.rbt12 <= b.max)}

Das(s, total) ==
  IF s.rbt12 <= 0 THEN {}
  ELSE {Rounded(total * (s.rbt12 * b.rate - 100 * b.deduct), 100 * s.rbt12) :
          b \in FittingBrackets(s)}

\* The results the assessment may have: none when it refuses.
Assessed(s, nature, items) ==
  LET total == TotalOf(items)
      base  == [NoTaxes EXCEPT !.pis = Rounded(total * s.pisRate, 100),
                               !.cofins = Rounded(total * s.cofinsRate, 100)]
  IN IF s.regime = "SIMPLES_NACIONAL"
     THEN {[NoTaxes EXCEPT !.das = d] : d \in Das(s, total)}
     ELSE {CASE nature = "VENDA_MERCADORIA" -> [base EXCEPT !.icms = Icms(s, items)]
             [] nature = "SERVICO_PRESTADO" ->
                  [base EXCEPT !.iss = Rounded(total * s.issRate, 100)]
             [] OTHER -> NoTaxes}

(***************************** apportionment ********************************)
\* The cost centre of an item, and what the items of one are worth.
CentreAt(items, default, k) == IF items[k].centre = None THEN default ELSE items[k].centre
CentresOf(items, default) == {CentreAt(items, default, k) : k \in DOMAIN items}
WeightOf(items, default, c) ==
  TotalIn(ValuesOf(items), {k \in DOMAIN items : CentreAt(items, default, k) = c})

\* Centres come in the order of their first items.
LastCentre(items, default) ==
  LET first == {k \in DOMAIN items : \A j \in DOMAIN items :
                  j < k => CentreAt(items, default, j) # CentreAt(items, default, k)}
  IN CentreAt(items, default, CHOOSE k \in first : \A j \in first : j <= k)

\* The part of an amount that falls on each centre, in proportion to the value
\* of its items.
Parts(items, amount, default) ==
  [c \in CentresOf(items, default) |->
     Rounded(WeightOf(items, default, c) * amount, TotalOf(items))]

\* Mutant: the last centre's share is rounded like the others.
SharesRounded(items, amount, default) == Parts(items, amount, default)

\* The last centre takes what rounding leaves.
Shares(items, amount, default) ==
  LET parts == Parts(items, amount, default)
      last  == LastCentre(items, default)
  IN [parts EXCEPT ![last] = amount - TotalIn(parts, DOMAIN parts \ {last})]

(***************************** entry lines **********************************)
\* No two lines of an entry have one category, kind and centre: it is their set.
Line(category, kind, amount, centre) ==
  [category |-> category, kind |-> kind, amount |-> amount, centre |-> centre]

Shared(doc, amount, category, kind) ==
  LET shares == Shares(doc.items, amount, doc.centre)
  IN {Line(category, kind, shares[c], c) : c \in {c \in DOMAIN shares : shares[c] # 0}}

\* A line that is only written for a positive amount.
Positive(category, kind, amount) ==
  IF amount > 0 THEN {Line(category, kind, amount, None)} ELSE {}

\* Own taxes: the DAS alone, or each tax with one deduction for their sum.
TaxLines(doc, deductions, own, ownAmount(_)) ==
  IF doc.taxes = {} THEN {}
  ELSE LET t == CHOOSE x \in doc.taxes : TRUE
       IN IF t.das > 0
          THEN Positive(deductions, Debit, t.das)
                 \cup Positive("SIMPLES_NACIONAL_A_RECOLHER", Credit, t.das)
          ELSE Positive(deductions, Debit, ownAmount(t) + t.pis + t.cofins)
                 \cup Positive(own, Credit, ownAmount(t))
                 \cup Positive("PIS_A_RECOLHER", Credit, t.pis)
                 \cup Positive("COFINS_A_RECOLHER", Credit, t.cofins)

SaleOfGoods(doc) ==
  Shared(doc, doc.total, "CLIENTES_A_RECEBER", Debit)
    \cup Shared(doc, doc.total, "RECEITA_VENDAS", Credit)
    \cup TaxLines(doc, "DEDUCOES_TRIBUTARIAS_VENDAS", "ICMS_A_RECOLHER", LAMBDA t : t.icms)

ServiceRendered(doc) ==
  Shared(doc, doc.total, "CLIENTES_A_RECEBER", Debit)
    \cup Shared(doc, doc.total, "RECEITA_SERVICOS", Credit)
    \cup TaxLines(doc, "DEDUCOES_TRIBUTARIAS_SERVICOS", "ISS_A_RECOLHER", LAMBDA t : t.iss)

PayableOf ==
  [irrf |-> "IRRF_A_RECOLHER", csll |-> "CSLL_A_RECOLHER", pis |-> "PIS_A_RECOLHER",
   cofins |-> "COFINS_A_RECOLHER", iss |-> "ISS_A_RECOLHER", inss |-> "INSS_A_RECOLHER"]

ServiceTaken(doc) ==
  Shared(doc, doc.total, "DESPESA_OPERACIONAL", Debit)
    \cup Positive("FORNECEDORES_A_PAGAR", Credit,
                doc.total - TotalIn(doc.withheld, Withheld))
    \cup UNION {Positive(PayableOf[w], Credit, doc.withheld[w]) : w \in Withheld}

CostCategory(nature) ==
  CASE nature = "COMPRA_ATIVO_IMOBILIZADO" -> "ATIVO_IMOBILIZADO"
    [] nature = "COMPRA_MERCADORIA"        -> "ESTOQUE"
    [] OTHER                               -> "DESPESA_OPERACIONAL"

\* CBS and IBS withheld at the source: recoverable, and due to the treasury.
WithheldCbsIbs(doc) ==
  LET cbs == doc.withheld.cbsRetido
      ibs == doc.withheld.ibsRetido
  IN Shared(doc, doc.total - doc.recoverable, CostCategory(doc.nature), Debit)
       \cup Positive("CBS_A_RECUPERAR", Debit, cbs)
       \cup Positive("IBS_A_RECUPERAR", Debit, ibs)
       \cup Positive("FORNECEDORES_A_PAGAR", Credit, doc.total - (cbs + ibs))
       \cup Positive("CBS_A_RECOLHER", Credit, cbs)
       \cup Positive("IBS_A_RECOLHER", Credit, ibs)

\* The strategy of a document: {} when none supports its type and nature.
Strategies(doc) ==
  CASE doc.type \in Services /\ doc.nature = "SERVICO_TOMADO"   -> {ServiceTaken(doc)}
    [] doc.type \in Reform                                      -> {WithheldCbsIbs(doc)}
    [] doc.type \in Goods /\ doc.nature = "VENDA_MERCADORIA"    -> {SaleOfGoods(doc)}
    [] doc.type \in Services /\ doc.nature = "SERVICO_PRESTADO" -> {ServiceRendered(doc)}
    [] OTHER                                                    -> {}

AmountOf(lines) == MapThenSumSet(LAMBDA l : l.amount, lines)

SideTotal(lines, kind) == AmountOf({l \in lines : l.kind = kind})

Balances(lines) ==
  /\ Cardinality(lines) >= 2
  /\ \A l \in lines : l.amount > 0
  /\ SideTotal(lines, Debit) = SideTotal(lines, Credit)

\* Drafts of the entry of a document under a mapping of categories to
\* accounts: {} when the document is refused.
Drafts(doc, mapped) ==
  {lines \in Strategies(doc) :
     Balances(lines) /\ \A l \in lines : l.category \in mapped}
=============================================================================

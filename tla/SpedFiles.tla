------------------------------- MODULE SpedFiles -------------------------------
(* The files for the tax authority: sets of lines, each with its block, its   *)
(* register, what it is about and the fields that something depends on.  In   *)
(* what order the lines of a block follow each other is left open.            *)
EXTENDS Statements

\* Lines about different things are different lines, also when they read the same.
Line(block, register, about, fields) == <<block, register, about, fields>>
Plain(block, register) == Line(block, register, None, <<>>)
Figures(block, register, fields) == Line(block, register, None, fields)

InBlock(lines, block) == Cardinality({l \in lines : l[1] = block})

\* Mutant: the closing record is not counted.
ClosedUncounted(lines, block) ==
  lines \cup {Figures(block, "990", <<InBlock(lines, block)>>)}

\* The closing record of a block counts itself.
Closed(lines, block) ==
  lines \cup {Figures(block, "990", <<InBlock(lines, block) + 1>>)}

\* Block 9; the last record counts every line, itself included.
Ended(lines) ==
  lines \cup {Plain("9", "001"), Figures("9", "990", <<2>>),
              Figures("9", "999", <<Cardinality(lines) + 3>>)}

Analytic == {a \in Accounts : seen.accounts[a].analytic}

-----------------------------------------------------------------------------
(* ECD: chart of accounts, balances, entries *)

\* Balances are of analytic accounts, whatever the others have in the journal.
EcdBalance(a) ==
  LET period == IF a \in DOMAIN seen.period THEN seen.period[a] ELSE [debit |-> 0, credit |-> 0]
      opening == Net(seen.opening, a)
  IN  Line("I", "150", a, <<opening, period.debit, period.credit,
                            opening + period.debit - period.credit>>)

EcdLine(p) ==
  Line("I", "250", p, <<LineOf(p).account, LineOf(p).direction, LineOf(p).amount>>)

EcdEntry(e) ==
  {Line("I", "200", e, <<>>)} \cup {EcdLine(p) : p \in {e} \X DOMAIN e.lines}

Ecd ==
  Ended(Closed(
    {Plain("0", "000"), Plain("0", "001"), Plain("I", "001"), Plain("I", "010"),
     Plain("I", "030")}
    \cup {Line("I", "050", a, <<>>) : a \in Accounts}
    \cup {EcdBalance(a) : a \in Analytic}
    \cup {Line("I", "155", c, <<>>) : c \in seen.centres}
    \cup UNION {EcdEntry(e) : e \in seen.entries}, "I"))

-----------------------------------------------------------------------------
(* ECF: chart of accounts and the result of the year *)

ResultAccounts == Analytic \cap AccountsOfTypes(ResultTypes)
TotalReceitas == TotalOf(seen.movement, ResultAccounts \cap AccountsOfTypes({"REVENUE"}))
TotalDespesas == TotalOf(seen.movement, ResultAccounts \cap AccountsOfTypes({"EXPENSE"}))

Ecf ==
  Ended(Closed(
    {Plain("0", "000"), Plain("0", "001"), Plain("0", "010"), Figures("0", "990", <<4>>),
     Plain("J", "001")}
    \cup {Line("J", "050", a, <<>>) : a \in Accounts}
    \cup {Line("J", "210", a, <<Amount(seen.movement, a)>>) : a \in ResultAccounts}
    \cup {Figures("J", "215", <<TotalReceitas, TotalDespesas, TotalReceitas - TotalDespesas>>)},
    "J"))

-----------------------------------------------------------------------------
(* EFD-Contribuições: PIS and COFINS of a month *)

TiposServico == {"NFSE_NACIONAL", "NFSE_VIA"}
Servicos    == {d \in seen.documents : d.type \in TiposServico}
\* Mutant: goods by their types, as the file for ICMS has them.
MercadoriasByType == {d \in seen.documents : d.type \in {"NFE", "NFCE"}}

Mercadorias == {d \in seen.documents : d.type \notin TiposServico}

Base(documents) == SumOver([d \in documents |-> d.total])

Presence(documents) == IF documents = {} THEN <<1>> ELSE <<0>>

EfdService(d) ==
  {Line("A", "100", d, <<>>), Line("A", "170", d, <<d.pis, d.cofins>>)}

\* A document of goods, its items and its taxes.
Goods(d, taxes) ==
  {Line("C", "100", d, <<>>), Line("C", "190", d, taxes)}
  \cup {Line("C", "170", <<d, i>>, <<>>) : i \in DOMAIN d.items}

EfdGoods(d) == Goods(d, <<d.pis, d.cofins>>)

EfdContribuicoes ==
  LET base   == Base(Servicos) + Base(Mercadorias)
      pis    == base * seen.rates.pis
      cofins == base * seen.rates.cofins
  IN Ended(
       Closed(
         {Plain("0", "000"), Figures("0", "001", Presence(seen.documents)), Plain("0", "140"),
          Figures("0", "990", <<4>>), Figures("A", "001", Presence(Servicos)),
          Figures("A", "990", <<2 * Cardinality(Servicos) + 2>>),
          Figures("C", "001", Presence(Mercadorias))}
         \cup (UNION {EfdService(d) : d \in Servicos})
         \cup (UNION {EfdGoods(d) : d \in Mercadorias}), "C")
       \cup {Plain("M", "001"), Figures("M", "200", <<pis>>), Figures("M", "210", <<base, pis>>),
             Figures("M", "600", <<cofins>>), Figures("M", "610", <<base, cofins>>),
             Figures("M", "990", <<6>>)})

-----------------------------------------------------------------------------
(* EFD ICMS/IPI: ICMS of a month *)

TiposMercadoria == {"NFE", "NFCE"}
DocumentosMercadoria == {d \in seen.documents : d.type \in TiposMercadoria}

EfdIcmsDocument(d) == Goods(d, <<d.icms>>)

EfdIcms ==
  LET icms == SumOver([d \in DocumentosMercadoria |-> d.icms])
      zero == Closed(
        {Plain("0", "000"), Figures("0", "001", Presence(DocumentosMercadoria))}
        \cup {Line("0", "150", d.party, <<>>) : d \in DocumentosMercadoria}
        \cup {Line("0", "200", p[1].items[p[2]], <<>>) :
                p \in UNION {{d} \X DOMAIN d.items : d \in DocumentosMercadoria}}, "0")
  IN Ended(
       Closed(zero \cup {Figures("C", "001", Presence(DocumentosMercadoria))}
              \cup UNION {EfdIcmsDocument(d) : d \in DocumentosMercadoria}, "C")
       \cup {Plain("E", "001"), Plain("E", "100"), Figures("E", "110", <<icms>>),
             Figures("E", "990", <<4>>)})

Files == {"ecd", "ecf", "efdContribuicoes", "efdIcms"}

FileOf(report) ==
  CASE report = "ecd" -> Ecd
    [] report = "ecf" -> Ecf
    [] report = "efdContribuicoes" -> EfdContribuicoes
    [] report = "efdIcms" -> EfdIcms

-----------------------------------------------------------------------------
(* Properties *)

Records(file, block, register) == {l \in file : l[1] = block /\ l[2] = register}

\* What a line is about, and its fields.
About(l)  == l[3]
Field(l, n) == l[4][n]

\* Every closing record counts the lines of its block, computed or written down
\* as a number, and the last one those of the file; block 9 is left out, whose
\* record counts two of its three lines.
CountsItsLines(file) ==
  /\ \A l \in file : l[2] = "990" /\ l[1] # "9" => l[4] = <<InBlock(file, l[1])>>
  /\ Records(file, "9", "999") = {Figures("9", "999", <<Cardinality(file)>>)}

ClosingRecordsCount ==
  ask.report \in Files /\ Done => CountsItsLines(FileOf(ask.report))

Reform == {"CBS", "IBS"}

\* A side of an account, from the lines of the entries.
SideOfLines(lines, a, direction) ==
  SumOver([l \in lines |-> IF Field(l, 1) = a /\ Field(l, 2) = direction THEN Field(l, 3) ELSE 0])

Listed(file, block) == {About(l) : l \in Records(file, block, "100")}

MovedAreAnalytic(rows) == \A a \in DOMAIN rows : seen.accounts[a].analytic

\* A file says one thing: the balances of an ECD are those of its entries while
\* nothing is posted under it; an ECF has the result of the books when what moved
\* is analytic; the bases of PIS, COFINS and ICMS are the documents listed, and
\* every document but those of the reform is, in one block.
FilesAgreeWithBooks ==
  /\ Undisturbed("ecd") =>
       \A l \in Records(Ecd, "I", "150") :
         LET a == About(l)
             entries == Records(Ecd, "I", "250")
         IN  /\ Field(l, 2) = SideOfLines(entries, a, "DEBIT")
             /\ Field(l, 3) = SideOfLines(entries, a, "CREDIT")
             /\ Field(l, 4) = Balance(a, ask.to)
  /\ IsDone("ecf") /\ MovedAreAnalytic(seen.movement) =>
       \A l \in Records(Ecf, "J", "215") : Field(l, 3) = NetResult
  /\ IsDone("efdContribuicoes") =>
       LET file == EfdContribuicoes IN
         /\ {d \in seen.documents : d.type \notin Reform}
              \subseteq Listed(file, "A") \cup Listed(file, "C")
         /\ Listed(file, "A") \cap Listed(file, "C") = {}
         /\ \A l \in Records(file, "M", "210") :
              Field(l, 1) = Base(Listed(file, "A")) + Base(Listed(file, "C"))
  /\ IsDone("efdIcms") =>
       \A l \in Records(EfdIcms, "E", "110") :
         Field(l, 1) = SumOver([k \in Records(EfdIcms, "C", "190") |-> Field(k, 1)])

\* "Documentos CBS/IBS (reforma tributária) não entram aqui"
\* (sped-efd-contribuicoes.service.ts:15).
ReformStaysOut ==
  IsDone("efdContribuicoes") =>
    \A d \in Listed(EfdContribuicoes, "C") : d.type \notin Reform
=============================================================================

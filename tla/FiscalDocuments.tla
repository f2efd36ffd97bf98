--------------------------- MODULE FiscalDocuments ---------------------------
(* Emission of fiscal documents on top of the tax settings.  A request        *)
(* assesses the taxes of its document, maps categories to accounts by the     *)
(* settings and by what the caller gives, posts the entry and stores the      *)
(* document: all of it or nothing, while others change the settings.          *)
EXTENDS TaxSettings, FiscalEntries

CONSTANTS
  Documents,    \* documents a request may carry
  Mappings      \* categories a caller may map to accounts himself

\* What the requests are checked for: rates, revenues, deductions and taxes are not
\* negative, and items and totals are numbers.
RateFigures == {"rbt12", "pisRate", "cofinsRate", "issRate", "icmsRate"}
DocumentFields ==
  {"number", "type", "nature", "total", "recoverable", "items", "centre", "withheld", "taxes"}

HasRates(figures) == \A f \in RateFigures : f \in DOMAIN figures /\ figures[f] \in Nat
IsRateRow(t, row) == row.value.rate \in Nat /\ (t \notin Keyed => row.value.deduct \in Nat)
AreTaxes(t) ==
  /\ t.das \in Int
  /\ t.icms \in Nat /\ t.iss \in Nat /\ t.pis \in Nat /\ t.cofins \in Nat

DocumentsAssumption ==
  /\ "fiscal" \in Scopes
  /\ \A f \in {DefaultSettings("fiscal")} \cup Configurations("fiscal") : HasRates(f)
  /\ \A c \in Changes("fiscal") : \A f \in RateFigures \cap DOMAIN c : c[f] \in Nat
  /\ \A t \in Tables : ScopeOf(t) = "fiscal" =>
       \A c \in DefaultContent(t) \cup UNION Contents(t) : IsRateRow(t, c)
  /\ \A doc \in Documents :
       /\ DOMAIN doc = DocumentFields
       /\ doc.total \in Nat
       /\ Len(doc.items) \in Nat /\ DOMAIN doc.items = 1 .. Len(doc.items)
       /\ \A k \in DOMAIN doc.items : doc.items[k].value \in Nat
       /\ doc.taxes = {} \/ \E t \in doc.taxes : doc.taxes = {t} /\ AreTaxes(t)

VARIABLES
  emission,     \* the document each request emits, and its progress
  documents,    \* committed documents
  entries       \* committed entries of the fiscal module

NoEmission == [via |-> "none", doc |-> None, mapped |-> {}, lines |-> {}]

books == <<documents, entries>>

\* What an emission asks of the settings.
Emission == [NothingDone EXCEPT !.kind = "emission", !.scope = "fiscal"]

NeedsAssessment(doc) == doc.taxes = {} /\ doc.nature \in Assessable

\* The settings as the assessment reads them: the row it found before, and the
\* brackets of every annex, or the rates of the states.
Plain(rows) == {row.value : row \in rows}
OfFiscal(tables) == {t \in tables : ScopeOf(t) = "fiscal"}
Annexes == OfFiscal(Tables \ Keyed)
SettingsRead(r) ==
  LET figures == (CHOOSE row \in doing[r].row : TRUE).figures
  IN [f \in DOMAIN figures \cup {"brackets", "ufRates"} |->
        CASE f = "brackets" -> UNION {Plain(TableSeen(r, t)) : t \in Annexes}
          [] f = "ufRates"  -> UNION {Plain(TableSeen(r, t)) : t \in OfFiscal(Keyed)}
          [] OTHER          -> figures[f]]

-----------------------------------------------------------------------------
DocumentsInit ==
  /\ SettingsInit
  /\ emission = [r \in SettingsRequests |-> NoEmission]
  /\ documents = {} /\ entries = {}

Refuse(r) ==
  /\ RollsBack(r)
  /\ emission' = [emission EXCEPT ![r] = NoEmission]
  /\ UNCHANGED books

\* Requests on the settings, and steps an emission shares with them.
SettingsStep ==
  /\ SettingsNext
  /\ emission' = [r \in SettingsRequests |->
                    IF progress'[r] = "failed" THEN NoEmission ELSE emission[r]]
  /\ UNCHANGED books

\* POST /fiscal/documentos and POST /fiscal/lancamentos; the second one reads
\* the settings only when there is something to assess.
BeginEmission(r) ==
  \E via \in {"emitir", "lancar"}, doc \in Documents, given \in Mappings :
    /\ WellFormed(doc)
    /\ IF via = "emitir" \/ NeedsAssessment(doc)
       THEN Begins(r, Emission)
       ELSE /\ progress[r] = "idle" /\ Cardinality(Others(r)) < MaxOverlapping
            /\ Proceeds(r, "mapped", Emission)
            /\ UNCHANGED <<committed, overlapped>>
    /\ emission' = [emission EXCEPT ![r] =
         [via |-> via, doc |-> doc, mapped |-> given, lines |-> {}]]
    /\ UNCHANGED books

\* The brackets and the rates are read after the row.
Assess(r) ==
  LET doc     == emission[r].doc
      results == Assessed(SettingsRead(r), doc.nature, doc.items)
  IN /\ progress[r] = "found" /\ doing[r].kind = "emission" /\ NeedsAssessment(doc)
     /\ IF results = {} THEN Refuse(r)
        ELSE \E taxes \in results :
          /\ Proceeds(r, IF emission[r].via = "emitir" THEN "assessed" ELSE "mapped", doing[r])
          /\ emission' = [emission EXCEPT ![r].doc.taxes = {taxes}]
          /\ UNCHANGED <<committed, overlapped, books>>

\* The accounts come from the settings, read once more when the document had
\* to be assessed; what the caller mapped comes first.
MapAccounts(r) ==
  LET rows == IF progress[r] = "assessed" THEN SettingsSeen(r) ELSE doing[r].row IN
  /\ \/ progress[r] = "assessed"
     \/ /\ progress[r] = "found" /\ doing[r].kind = "emission"
        /\ ~NeedsAssessment(emission[r].doc)
  /\ Proceeds(r, "mapped", doing[r])
  /\ emission' = [emission EXCEPT ![r].mapped =
                    @ \cup UNION {row.figures.accounts : row \in rows}]
  /\ UNCHANGED <<committed, overlapped, books>>

\* The posting holds the counter of the journal to the end.
Post(r) ==
  LET drafts == Drafts(emission[r].doc, emission[r].mapped) IN
  /\ progress[r] = "mapped"
  /\ IF drafts = {} THEN Refuse(r)
     ELSE \E lines \in drafts :
       /\ \A q \in Others(r) : progress[q] # "posted"
       /\ Proceeds(r, "posted", doing[r])
       /\ emission' = [emission EXCEPT ![r].lines = lines]
       /\ UNCHANGED <<committed, overlapped, books>>

\* Mutant: the conflict is answered, and the transaction committed.
StoreAnyway(r) ==
  LET e == emission[r] IN
  /\ progress[r] = "posted"
  /\ Publish(r)
  /\ entries' = entries \cup {[by |-> r, via |-> e.via, lines |-> e.lines]}
  /\ documents' = documents \cup
       (IF e.via = "emitir" /\ \A d \in documents : d.doc.number # e.doc.number
        THEN {[by |-> r, doc |-> e.doc]} ELSE {})
  /\ emission' = [emission EXCEPT ![r] = NoEmission]

\* A number already used takes the entry back with the document.
Store(r) ==
  LET e == emission[r] IN
  /\ progress[r] = "posted"
  /\ IF e.via = "emitir" /\ \E d \in documents : d.doc.number = e.doc.number
     THEN Refuse(r)
     ELSE /\ Publish(r)
          /\ entries' = entries \cup {[by |-> r, via |-> e.via, lines |-> e.lines]}
          /\ documents' = documents \cup
               (IF e.via = "emitir" THEN {[by |-> r, doc |-> e.doc]} ELSE {})
          /\ emission' = [emission EXCEPT ![r] = NoEmission]

DocumentsNext ==
  \/ SettingsStep
  \/ \E r \in SettingsRequests :
       BeginEmission(r) \/ Assess(r) \/ MapAccounts(r) \/ Post(r) \/ Store(r)

documentsVars == <<settingsVars, emission, books>>

DocumentsSpec == DocumentsInit /\ [][DocumentsNext]_documentsVars

-----------------------------------------------------------------------------
(* Properties *)

\* What an entry credits to a category.
CreditOf(lines, category) == AmountOf({l \in lines : l.kind = Credit /\ l.category = category})

\* Documents of a sale or of a service rendered; those of the CBS and of the IBS are
\* posted as purchases whatever their nature.
Sells(doc) == doc.nature \in Assessable /\ doc.type \notin Reform

RevenueCategory(doc) ==
  IF doc.nature = "VENDA_MERCADORIA" THEN "RECEITA_VENDAS" ELSE "RECEITA_SERVICOS"

\* The own taxes of a document, by the category they are due in: the DAS alone, or
\* those of its nature.
DueFor(doc, t) ==
  IF t.das > 0 THEN [SIMPLES_NACIONAL_A_RECOLHER |-> t.das]
  ELSE IF doc.nature = "VENDA_MERCADORIA"
  THEN [ICMS_A_RECOLHER |-> t.icms, PIS_A_RECOLHER |-> t.pis, COFINS_A_RECOLHER |-> t.cofins]
  ELSE [ISS_A_RECOLHER |-> t.iss, PIS_A_RECOLHER |-> t.pis, COFINS_A_RECOLHER |-> t.cofins]

\* The entry owes the taxes that are kept in its document.
OwesTaxesOf(doc, lines) ==
  \A t \in doc.taxes : \A c \in DOMAIN DueFor(doc, t) : CreditOf(lines, c) = DueFor(doc, t)[c]

\* The revenue of a document reaches the cost centres of its items: the parts
\* add up to its total, and each differs from the share of its items by less
\* than half a cent for every centre.
RevenueFollowsItems(doc, lines) ==
  LET revenue  == {l \in lines : l.kind = Credit /\ l.category = RevenueCategory(doc)}
      centres  == CentresOf(doc.items, doc.centre)
      whole    == TotalOf(doc.items)
      error(c) == AmountOf({l \in revenue : l.centre = c}) * whole
                    - WeightOf(doc.items, doc.centre, c) * doc.total
  IN /\ AmountOf(revenue) = doc.total
     /\ \A c \in centres : /\ 2 * error(c) <= whole * Cardinality(centres)
                           /\ -2 * error(c) <= whole * Cardinality(centres)

\* Emission is atomic and what it stores is what it posted: whatever conflicts,
\* failures and changes of the settings interleave, numbers are unique, each
\* document has one entry and each entry of an emission its document, the own
\* taxes kept in a document are those its entry owes, and the revenue follows
\* its items.
DocumentsMatchEntries ==
  /\ \A d, e \in documents : d.doc.number = e.doc.number => d = e
  /\ {d.by : d \in documents} = {e.by : e \in {e \in entries : e.via = "emitir"}}
  /\ \A d \in documents : \A e \in entries :
       (d.by = e.by /\ Sells(d.doc)) =>
         OwesTaxesOf(d.doc, e.lines) /\ RevenueFollowsItems(d.doc, e.lines)

\* What the message of apuracao-tributaria.service.ts:88 says of the brackets:
\* they are those of the annex that is selected.
DasFollowsAnnex ==
  \A r \in SettingsRequests : \A row \in doing[r].row :
    (progress[r] = "assessed" /\ ~overlapped /\ row.figures.regime = "SIMPLES_NACIONAL") =>
      \A t \in emission[r].doc.taxes :
        t.das \in Das([SettingsRead(r) EXCEPT
                         !.brackets = Plain(TableSeen(r, row.figures.annex))],
                      TotalOf(emission[r].doc.items))
=============================================================================

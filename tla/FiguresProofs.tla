---------------------------- MODULE FiguresProofs -----------------------------
(***************************************************************************)
(* Proofs about the figures made of the books and of the payroll.          *)
(*                                                                         *)
(* The statements tie and the files for the tax authority count and agree, *)
(* in every behaviour of Books, for any chart of accounts, any drafts that *)
(* balance and any days.  The figures are sums of lines: a set of lines is *)
(* split by day, account, type, group, entry or category, and whole        *)
(* entries cancel.  The files are unions of lines, block by block.         *)
(*                                                                         *)
(* The entry of a payroll event balances but for rounding, the tables tax  *)
(* what is due bracket by bracket, to the cent, and months, cycles and     *)
(* notice agree with the calendar, for any employees, tables, rates and    *)
(* dates.  The net pay is that of the exact figures, so each figure that   *)
(* is not a whole number of cents can move the balance by half a cent.  A  *)
(* base is made of parts so small that every rate of them is exact, and so *)
(* the deduction of a bracket alone is rounded.  The calendar is counted   *)
(* in days from the first one, in years of 365 and a day more every        *)
(* fourth.                                                                 *)
(***************************************************************************)
EXTENDS SpedFiles, PayrollCalculation, SumTheorems, SequenceTheorems

-----------------------------------------------------------------------------
(* Sums of lines *)

\* The sum of the values of a function is the sum over its domain.
LEMMA SumOverIs ==
  ASSUME NEW f
  PROVE  SumOver(f) = SumOf(f, DOMAIN f)
BY DEF SumOver, SumOf

\* Lines that can be summed.
Sound(lines) == IsFiniteSet(lines) /\ \A p \in lines : LineOf(p) \in EntryLine

\* What a line adds to a side, and to the balance.
SideTerms(lines, direction) ==
  [p \in lines |-> IF LineOf(p).direction = direction THEN LineOf(p).amount ELSE 0]
NetTerms(lines) ==
  [p \in lines |-> IF LineOf(p).direction = "DEBIT" THEN LineOf(p).amount ELSE -LineOf(p).amount]

\* Parts of sound lines are sound.
LEMMA SoundPart ==
  ASSUME NEW L, Sound(L), NEW M \in SUBSET L
  PROVE  Sound(M)
BY FS_Subset DEF Sound

\* The terms are numbers.
LEMMA TermsTyped ==
  ASSUME NEW L, Sound(L), NEW p \in L
  PROVE  /\ SideTerms(L, "DEBIT")[p] \in Nat /\ SideTerms(L, "CREDIT")[p] \in Nat
         /\ NetTerms(L)[p] \in Int
         /\ NetTerms(L)[p] = SideTerms(L, "DEBIT")[p] - SideTerms(L, "CREDIT")[p]
BY DEF Sound, EntryLine, SideTerms, NetTerms

\* A side of some of the lines is a sum of terms of all.
LEMMA SideIsSum ==
  ASSUME NEW L, Sound(L), NEW M \in SUBSET L, NEW d \in {"DEBIT", "CREDIT"}
  PROVE  /\ SideOf(M, d) = SumOf(SideTerms(L, d), M)
         /\ SideOf(M, d) \in Nat
<1>1. Sound(M) /\ IsFiniteSet(M)
  BY SoundPart DEF Sound
<1>2. \A p \in M : SideTerms(M, d)[p] = SideTerms(L, d)[p]
  BY DEF SideTerms
<1>3. \A p \in M : SideTerms(M, d)[p] \in Nat /\ SideTerms(M, d)[p] \in Int
  BY <1>1, TermsTyped
<1>4. SideOf(M, d) = SumOf(SideTerms(M, d), M)
  <2>1. SideOf(M, d) = SumOver(SideTerms(M, d)) /\ DOMAIN SideTerms(M, d) = M
    BY DEF SideOf, SideTerms
  <2>. QED BY <2>1, SumOverIs
<1>5. SumOf(SideTerms(M, d), M) = SumOf(SideTerms(L, d), M)
  BY <1>1, <1>2, SumOfSame
<1>6. SumOf(SideTerms(M, d), M) \in Nat
  BY <1>1, <1>3, SumOfInt
<1>. QED BY <1>4, <1>5, <1>6

\* So is a balance.
LEMMA NetIsSum ==
  ASSUME NEW L, Sound(L), NEW M \in SUBSET L
  PROVE  /\ NetDebit(M) = SumOf(NetTerms(L), M)
         /\ NetDebit(M) \in Int
<1>1. IsFiniteSet(M)
  BY SoundPart DEF Sound
<1>2. /\ SideOf(M, "DEBIT") = SumOf(SideTerms(L, "DEBIT"), M) /\ SideOf(M, "DEBIT") \in Nat
      /\ SideOf(M, "CREDIT") = SumOf(SideTerms(L, "CREDIT"), M) /\ SideOf(M, "CREDIT") \in Nat
  BY SideIsSum
<1>. DEFINE f == SideTerms(L, "DEBIT")
            g == SideTerms(L, "CREDIT")
            h == NetTerms(L)
<1>3. \A p \in M : f[p] \in Int /\ g[p] \in Int /\ h[p] = f[p] - g[p]
  BY TermsTyped
<1>. HIDE DEF f, g, h
<1>4. SumOf(h, M) = SumOf(f, M) - SumOf(g, M)
  BY <1>1, <1>3, SumOfMinus
<1>. QED BY <1>2, <1>4 DEF f, g, h, NetDebit

\* The balance of no lines is 0.
LEMMA NetOfNothing == NetDebit({}) = 0 /\ SideOf({}, "DEBIT") = 0 /\ SideOf({}, "CREDIT") = 0
<1>1. Sound({}) /\ {} \in SUBSET {}
  BY FS_EmptySet DEF Sound
<1>. QED BY <1>1, NetIsSum, SideIsSum, SumOfNothing

\* The balance of two sets of lines that share nothing.
LEMMA NetOfDisjoint ==
  ASSUME NEW L, NEW A \in SUBSET L, NEW B \in SUBSET L, Sound(L), A \cup B = L, A \cap B = {}
  PROVE  NetDebit(L) = NetDebit(A) + NetDebit(B)
<1>1. IsFiniteSet(A) /\ IsFiniteSet(B)
  BY SoundPart DEF Sound
<1>. DEFINE f == NetTerms(L)
<1>2. \A p \in A \cup B : f[p] \in Int
  BY TermsTyped
<1>3. NetDebit(L) = SumOf(f, L) /\ NetDebit(A) = SumOf(f, A) /\ NetDebit(B) = SumOf(f, B)
  BY NetIsSum
<1>. HIDE DEF f
<1>4. SumOf(f, A \cup B) = SumOf(f, A) + SumOf(f, B)
  BY <1>1, <1>2, SumOfDisjoint
<1>. QED BY <1>3, <1>4, Zenon

\* The balances, and the sides, of the lines with each key.
AreNets(part, L, key, K) ==
  /\ \A p \in L : key[p] \in K
  /\ \A k \in K : part[k] = NetDebit({p \in L : key[p] = k})
AreSides(part, L, key, K, d) ==
  /\ \A p \in L : key[p] \in K
  /\ \A k \in K : part[k] = SideOf({p \in L : key[p] = k}, d)

\* Balances and sides taken in parts, by any key of a line.
LEMMA NetOfFibers ==
  ASSUME NEW L, Sound(L), NEW key, NEW K, IsFiniteSet(K), NEW part, AreNets(part, L, key, K)
  PROVE  NetDebit(L) = SumOf(part, K)
<1>0. PICK f : f = NetTerms(L)
  OBVIOUS
<1>. DEFINE fiber(k) == {p \in L : key[p] = k}
<1>1. IsFiniteSet(L) /\ \A p \in L : f[p] \in Int
  BY <1>0, TermsTyped DEF Sound
<1>2. NetDebit(L) = SumOf(f, L)
  BY <1>0, NetIsSum
<1>3. AreParts(part, f, L, key, K)
  <2>1. ASSUME NEW k \in K
        PROVE  part[k] = SumOf(f, fiber(k))
    <3>1. fiber(k) \in SUBSET L /\ part[k] = NetDebit(fiber(k))
      BY DEF AreNets
    <3>. HIDE DEF fiber
    <3>. QED BY <1>0, <3>1, NetIsSum
  <2>. QED BY <2>1 DEF AreNets, AreParts
<1>4. SumOf(f, L) = SumOf(part, K)
  BY <1>1, <1>3, SumOfFibers
<1>. QED BY <1>2, <1>4

\* Likewise of a side.
LEMMA SideOfFibers ==
  ASSUME NEW L, Sound(L), NEW key, NEW K, IsFiniteSet(K), NEW part,
         NEW d \in {"DEBIT", "CREDIT"}, AreSides(part, L, key, K, d)
  PROVE  SideOf(L, d) = SumOf(part, K)
<1>0. PICK f : f = SideTerms(L, d)
  OBVIOUS
<1>. DEFINE fiber(k) == {p \in L : key[p] = k}
<1>1. IsFiniteSet(L) /\ \A p \in L : f[p] \in Int
  BY <1>0, TermsTyped DEF Sound
<1>2. SideOf(L, d) = SumOf(f, L)
  BY <1>0, SideIsSum
<1>3. AreParts(part, f, L, key, K)
  <2>1. ASSUME NEW k \in K
        PROVE  part[k] = SumOf(f, fiber(k))
    <3>1. fiber(k) \in SUBSET L /\ part[k] = SideOf(fiber(k), d)
      BY DEF AreSides
    <3>. HIDE DEF fiber
    <3>. QED BY <1>0, <3>1, SideIsSum
  <2>. QED BY <2>1 DEF AreSides, AreParts
<1>4. SumOf(f, L) = SumOf(part, K)
  BY <1>1, <1>3, SumOfFibers
<1>. QED BY <1>2, <1>4

-----------------------------------------------------------------------------
(* Whole entries cancel *)

\* An entry is a draft posted on some day; a set of them may be a journal.
IsEntry(e) ==
  \E d \in Drafts, day \in Days : e = [day |-> day, module |-> d.module, lines |-> d.lines]

IsJournal(J) == IsFiniteSet(J) /\ \A e \in J : IsEntry(e)

Places(e) == {e} \X DOMAIN e.lines
AllLines(J) == UNION {Places(e) : e \in J}

\* The lines a query finds in a journal.
LinesIn(J, accounts, from, to, centre) ==
  {p \in AllLines(J) : /\ p[1].day \in from .. to
                       /\ LineOf(p).account \in accounts
                       /\ centre # None => LineOf(p).centre = centre}

\* LinesOf is LinesIn of the journal.
LEMMA LinesOfIsIn ==
  ASSUME NEW accounts, NEW from, NEW to, NEW centre
  PROVE  LinesOf(accounts, from, to, centre) = LinesIn(journal, accounts, from, to, centre)
BY DEF LinesOf, LinesIn, AllLines, Places

\* What an entry has.
LEMMA EntryHas ==
  ASSUME NEW e, IsEntry(e)
  PROVE  /\ e.day \in Days /\ e.day \in Nat
         /\ IsFiniteSet(DOMAIN e.lines)
         /\ \A i \in DOMAIN e.lines : e.lines[i] \in EntryLine
         /\ SumOver([i \in DOMAIN e.lines |->
                       IF e.lines[i].direction = "DEBIT" THEN e.lines[i].amount
                       ELSE -e.lines[i].amount]) = 0
<1>1. PICK d \in Drafts, day \in Days :
        e = [day |-> day, module |-> d.module, lines |-> d.lines]
  BY DEF IsEntry
<1>2. e.day = day /\ e.lines = d.lines
  BY <1>1
<1>3. e.lines \in Seq(EntryLine)
  BY <1>2, DraftsAssumption
<1>4. PICK n \in Nat : DOMAIN e.lines = 1 .. n
  BY <1>3
<1>5. IsFiniteSet(DOMAIN e.lines)
  BY <1>4, FS_Interval
<1>6. e.day \in Nat
  BY <1>2, DaysAssumption
<1>7. SumOver([i \in DOMAIN e.lines |->
                 IF e.lines[i].direction = "DEBIT" THEN e.lines[i].amount
                 ELSE -e.lines[i].amount]) = 0
  BY <1>2, DraftsAssumption
<1>. QED BY <1>2, <1>3, <1>5, <1>6, <1>7

\* The lines of a journal are sound.
LEMMA AllLinesSound ==
  ASSUME NEW J, IsJournal(J)
  PROVE  Sound(AllLines(J)) /\ \A p \in AllLines(J) : p[1] \in J /\ p[1].day \in Nat
<1>1. ASSUME NEW e \in J
      PROVE  IsFiniteSet(Places(e)) /\ \A p \in Places(e) : p[1] = e /\ LineOf(p) \in EntryLine
  <2>1. IsFiniteSet({e}) /\ IsFiniteSet(DOMAIN e.lines)
    BY EntryHas, FS_Singleton DEF IsJournal
  <2>2. IsFiniteSet(Places(e))
    BY <2>1, FS_Product DEF Places
  <2>. QED BY <2>2, EntryHas DEF Places, LineOf, IsJournal
<1>2. IsFiniteSet({Places(e) : e \in J})
  <2>. DEFINE S == {Places(e) : e \in J}
              f == [e \in J |-> Places(e)]
  <2>1. f \in Surjection(J, S)
    BY DEF Surjection
  <2>. HIDE DEF f, S
  <2>2. IsFiniteSet(S)
    BY <2>1, FS_Surjection DEF IsJournal
  <2>. QED BY <2>2 DEF S
<1>3. IsFiniteSet(AllLines(J))
  <2>. DEFINE S == {Places(e) : e \in J}
  <2>1. \A T \in S : IsFiniteSet(T)
    BY <1>1
  <2>. HIDE DEF S
  <2>2. IsFiniteSet(UNION S)
    BY <1>2, <2>1, FS_UNION DEF S
  <2>. QED BY <2>2 DEF S, AllLines
<1>4. \A p \in AllLines(J) : \E e \in J : p \in Places(e)
  BY DEF AllLines
<1>. QED BY <1>1, <1>3, <1>4, EntryHas DEF Sound, IsJournal

\* Debits of an entry are its credits.
LEMMA EntryCancels ==
  ASSUME NEW e, IsEntry(e)
  PROVE  NetDebit(Places(e)) = 0
<1>. DEFINE D == DOMAIN e.lines
            L == Places(e)
            part == [i \in D |-> IF e.lines[i].direction = "DEBIT" THEN e.lines[i].amount
                                 ELSE -e.lines[i].amount]
            key == [p \in L |-> p[2]]
            f == NetTerms(L)
<1>1. IsJournal({e}) /\ AllLines({e}) = L
  BY FS_Singleton DEF IsJournal, AllLines
<1>2. Sound(L) /\ IsFiniteSet(L) /\ IsFiniteSet(D)
  BY <1>1, AllLinesSound, EntryHas DEF Sound
<1>3. NetDebit(L) = SumOf(f, L) /\ \A p \in L : f[p] \in Int
  <2>1. L \in SUBSET L
    OBVIOUS
  <2>. HIDE DEF L
  <2>. QED BY <1>2, <2>1, NetIsSum, TermsTyped
<1>4. SumOf(part, D) = 0
  <2>1. SumOver(part) = 0 /\ DOMAIN part = D
    BY EntryHas
  <2>. HIDE DEF part
  <2>. QED BY <2>1, SumOverIs
<1>5. AreParts(part, f, L, key, D)
  <2>1. ASSUME NEW i \in D
        PROVE  part[i] = SumOf(f, {p \in L : key[p] = i})
    <3>1. {p \in L : key[p] = i} = {<<e, i>>} /\ <<e, i>> \in L
      BY DEF Places
    <3>2. f[<<e, i>>] = part[i] /\ f[<<e, i>>] \in Int
      <4>1. f[<<e, i>>] = part[i]
        BY <3>1 DEF NetTerms, LineOf
      <4>. QED BY <1>3, <3>1, <4>1
    <3>. HIDE DEF f, L, key, part, D
    <3>3. SumOf(f, {<<e, i>>}) = f[<<e, i>>]
      BY <3>2, SumOfOne
    <3>. QED BY <3>1, <3>2, <3>3
  <2>2. \A p \in L : key[p] \in D
    BY DEF Places
  <2>. QED BY <2>1, <2>2 DEF AreParts
<1>. HIDE DEF f, L, key, part, D
<1>6. SumOf(f, L) = SumOf(part, D)
  BY <1>2, <1>3, <1>5, SumOfFibers
<1>. QED BY <1>3, <1>4, <1>6 DEF L

\* So are those of a journal.
LEMMA JournalCancels ==
  ASSUME NEW J, IsJournal(J)
  PROVE  NetDebit(AllLines(J)) = 0
<1>. DEFINE L == AllLines(J)
            key == [p \in L |-> p[1]]
            part == [e \in J |-> 0]
<1>1. ASSUME NEW e \in J
      PROVE  NetDebit({p \in L : key[p] = e}) = 0
  <2>1. {p \in L : key[p] = e} = Places(e)
    BY DEF AllLines, Places
  <2>. QED BY <2>1, EntryCancels DEF IsJournal
<1>2. AreNets(part, L, key, J)
  <2>1. \A p \in L : key[p] \in J
    BY AllLinesSound
  <2>. QED BY <1>1, <2>1 DEF AreNets
<1>3. IsFiniteSet(J) /\ Sound(L)
  BY AllLinesSound DEF IsJournal
<1>4. SumOf(part, J) = 0
  BY <1>3, SumOfZeros
<1>. HIDE DEF L, key, part
<1>5. NetDebit(L) = SumOf(part, J)
  BY <1>2, <1>3, NetOfFibers
<1>. QED BY <1>4, <1>5 DEF L

\* What a query finds is sound ...
LEMMA FoundSound ==
  ASSUME NEW J, IsJournal(J), NEW accounts, NEW from, NEW to, NEW centre
  PROVE  /\ Sound(LinesIn(J, accounts, from, to, centre))
         /\ LinesIn(J, accounts, from, to, centre) \subseteq AllLines(J)
         /\ \A p \in LinesIn(J, accounts, from, to, centre) :
              LineOf(p).account \in accounts /\ LineOf(p).account \in Accounts
<1>1. LinesIn(J, accounts, from, to, centre) \in SUBSET AllLines(J)
  BY DEF LinesIn
<1>2. Sound(LinesIn(J, accounts, from, to, centre))
  BY <1>1, AllLinesSound, SoundPart
<1>. QED BY <1>1, <1>2 DEF Sound, EntryLine, LinesIn

\* ... and cancels when it asks for all accounts and all centres.
LEMMA FoundCancels ==
  ASSUME NEW J, IsJournal(J), NEW from, NEW to
  PROVE  NetDebit(LinesIn(J, Accounts, from, to, None)) = 0
<1>. DEFINE M == {e \in J : e.day \in from .. to}
<1>1. IsJournal(M)
  BY FS_Subset DEF IsJournal
<1>2. \A p \in AllLines(J) : LineOf(p).account \in Accounts
  BY AllLinesSound DEF Sound, EntryLine
<1>3. LinesIn(J, Accounts, from, to, None) = AllLines(M)
  BY <1>2 DEF LinesIn, AllLines, Places
<1>. HIDE DEF M
<1>. QED BY <1>1, <1>3, JournalCancels

\* Days add up: what precedes a day and what follows to another.
LEMMA DaysAdd ==
  ASSUME NEW J, IsJournal(J), NEW accounts, NEW centre,
         NEW from \in Nat, NEW to \in Nat, NEW first \in Nat, first <= from, from <= to
  PROVE  NetDebit(LinesIn(J, accounts, first, to, centre))
           = NetDebit(LinesIn(J, accounts, first, Before(from), centre))
               + NetDebit(LinesIn(J, accounts, from, to, centre))
<1>. DEFINE L == LinesIn(J, accounts, first, to, centre)
            A == LinesIn(J, accounts, first, Before(from), centre)
            B == LinesIn(J, accounts, from, to, centre)
<1>1. \A p \in AllLines(J) : p[1].day \in Nat
  BY AllLinesSound
<1>2. A \in SUBSET L /\ B \in SUBSET L /\ A \cup B = L /\ A \cap B = {}
  BY <1>1 DEF LinesIn, Before
<1>3. Sound(L)
  BY FoundSound
<1>. HIDE DEF L, A, B
<1>4. NetDebit(L) = NetDebit(A) + NetDebit(B)
  BY <1>2, <1>3, NetOfDisjoint
<1>. QED BY <1>4 DEF L, A, B

-----------------------------------------------------------------------------
(* Rows of an account, a type, a group *)

\* Lines of accounts of the chart.
Charted(lines) == Sound(lines) /\ \A p \in lines : LineOf(p).account \in Accounts

Mine(lines, a) == {p \in lines : LineOf(p).account = a}
OfAccounts(lines, accounts) == {p \in lines : LineOf(p).account \in accounts}

\* A row has the sides of its account, and an account without one no lines.
LEMMA RowHas ==
  ASSUME NEW L, Charted(L)
  PROVE  /\ DOMAIN ByAccount(L) \subseteq Accounts /\ IsFiniteSet(DOMAIN ByAccount(L))
         /\ \A p \in L : LineOf(p).account \in DOMAIN ByAccount(L)
         /\ \A a \in DOMAIN ByAccount(L) :
              /\ ByAccount(L)[a].debit = SideOf(Mine(L, a), "DEBIT")
              /\ ByAccount(L)[a].credit = SideOf(Mine(L, a), "CREDIT")
              /\ ByAccount(L)[a].debit \in Nat /\ ByAccount(L)[a].credit \in Nat
         /\ \A a : a \notin DOMAIN ByAccount(L) => Mine(L, a) = {}
<1>1. DOMAIN ByAccount(L) = {LineOf(p).account : p \in L}
  BY DEF ByAccount
<1>2. DOMAIN ByAccount(L) \subseteq Accounts /\ IsFiniteSet(DOMAIN ByAccount(L))
  BY <1>1, ChartAssumption, FS_Subset DEF Charted
<1>3. ASSUME NEW a \in DOMAIN ByAccount(L)
      PROVE  /\ ByAccount(L)[a].debit = SideOf(Mine(L, a), "DEBIT")
             /\ ByAccount(L)[a].credit = SideOf(Mine(L, a), "CREDIT")
  BY <1>1, <1>3 DEF ByAccount, Mine
<1>4. ASSUME NEW a
      PROVE  SideOf(Mine(L, a), "DEBIT") \in Nat /\ SideOf(Mine(L, a), "CREDIT") \in Nat
  <2>1. Mine(L, a) \in SUBSET L /\ Sound(L)
    BY DEF Mine, Charted
  <2>. QED BY <2>1, SideIsSum
<1>. QED BY <1>1, <1>2, <1>3, <1>4 DEF Mine

\* The balance of a row is that of the lines of its account.
LEMMA NetOfRow ==
  ASSUME NEW L, Charted(L), NEW a
  PROVE  /\ Net(ByAccount(L), a) = NetDebit(Mine(L, a))
         /\ NetDebit(Mine(L, a)) \in Int
<1>1. Mine(L, a) \in SUBSET L /\ Sound(L)
  BY DEF Mine, Charted
<1>2. NetDebit(Mine(L, a)) \in Int
  BY <1>1, NetIsSum
<1>3. CASE a \in DOMAIN ByAccount(L)
  BY <1>3, RowHas DEF Net, NetDebit
<1>4. CASE a \notin DOMAIN ByAccount(L)
  <2>1. Mine(L, a) = {}
    BY <1>4, RowHas
  <2>2. NetDebit(Mine(L, a)) = 0
    BY <2>1, NetOfNothing, Zenon
  <2>. QED BY <1>4, <2>2 DEF Net
<1>. QED BY <1>2, <1>3, <1>4

\* The balances of some of the rows add up to that of their lines.
LEMMA NetsAdd ==
  ASSUME NEW L, Charted(L), NEW A, NEW nets,
         \A a \in A \cap DOMAIN ByAccount(L) : nets[a] = Net(ByAccount(L), a)
  PROVE  SumOf(nets, A \cap DOMAIN ByAccount(L)) = NetDebit(OfAccounts(L, A))
<1>. DEFINE K == A \cap DOMAIN ByAccount(L)
            M == OfAccounts(L, A)
            key == [p \in M |-> LineOf(p).account]
<1>1. IsFiniteSet(K)
  BY RowHas, FS_Intersection
<1>2. M \in SUBSET L /\ Sound(L)
  BY DEF OfAccounts, Charted
<1>3. \A p \in M : key[p] \in K
  BY RowHas DEF OfAccounts
<1>4. ASSUME NEW a \in K
      PROVE  nets[a] = NetDebit({p \in M : key[p] = a})
  <2>1. {p \in M : key[p] = a} = Mine(L, a)
    BY DEF Mine, OfAccounts
  <2>2. nets[a] = NetDebit(Mine(L, a))
    BY NetOfRow
  <2>. QED BY <2>1, <2>2
<1>5. AreNets(nets, M, key, K)
  BY <1>3, <1>4 DEF AreNets
<1>6. Sound(M)
  BY <1>2, SoundPart
<1>. HIDE DEF K, M, key
<1>7. NetDebit(M) = SumOf(nets, K)
  BY <1>1, <1>5, <1>6, NetOfFibers
<1>. QED BY <1>7 DEF K, M

\* The total of accounts that all have the same normal side.
LEMMA TotalIsNet ==
  ASSUME NEW L, Charted(L), NEW A
  PROVE  /\ (\A a \in A \cap Accounts : TypeOf[a] \in CreditNormal)
              => TotalOf(ByAccount(L), A) = -NetDebit(OfAccounts(L, A))
         /\ (\A a \in A \cap Accounts : TypeOf[a] \notin CreditNormal)
              => TotalOf(ByAccount(L), A) = NetDebit(OfAccounts(L, A))
         /\ NetDebit(OfAccounts(L, A)) \in Int
         /\ TotalOf(ByAccount(L), A) \in Int
<1>. DEFINE rows == ByAccount(L)
            K == A \cap DOMAIN rows
            amounts == [a \in K |-> Amount(rows, a)]
            nets == [a \in K |-> Net(rows, a)]
            zeros == [a \in K |-> 0]
<1>1. TotalOf(rows, A) = SumOf(amounts, K)
  <2>1. TotalOf(rows, A) = SumOver(amounts) /\ DOMAIN amounts = K
    BY DEF TotalOf
  <2>. HIDE DEF amounts
  <2>. QED BY <2>1, SumOverIs
<1>2. IsFiniteSet(K) /\ K \subseteq A \cap Accounts
  BY RowHas, FS_Intersection
<1>3. ASSUME NEW a \in K
      PROVE  /\ nets[a] \in Int /\ amounts[a] \in Int
             /\ TypeOf[a] \in CreditNormal => amounts[a] = zeros[a] - nets[a]
             /\ TypeOf[a] \notin CreditNormal => amounts[a] = nets[a]
  <2>1. Net(rows, a) \in Int
    BY NetOfRow
  <2>. HIDE DEF rows
  <2>. QED BY <2>1 DEF Amount, Signed
<1>4. SumOf(nets, K) = NetDebit(OfAccounts(L, A))
  <2>1. \A a \in K : nets[a] = Net(rows, a)
    OBVIOUS
  <2>. HIDE DEF nets
  <2>. QED BY <2>1, NetsAdd
<1>5. SumOf(zeros, K) = 0
  BY <1>2, SumOfZeros
<1>6. \A a \in K : zeros[a] = 0
  OBVIOUS
<1>. HIDE DEF rows, K, amounts, nets, zeros
<1>7. SumOf(nets, K) \in Int /\ SumOf(amounts, K) \in Int
  BY <1>2, <1>3, SumOfInt
<1>8. ASSUME \A a \in A \cap Accounts : TypeOf[a] \in CreditNormal
      PROVE  SumOf(amounts, K) = -SumOf(nets, K)
  <2>1. \A a \in K : zeros[a] \in Int /\ nets[a] \in Int /\ amounts[a] = zeros[a] - nets[a]
    BY <1>2, <1>3, <1>6, <1>8
  <2>2. SumOf(amounts, K) = SumOf(zeros, K) - SumOf(nets, K)
    BY <1>2, <2>1, SumOfMinus
  <2>. QED BY <1>5, <1>7, <2>2
<1>9. ASSUME \A a \in A \cap Accounts : TypeOf[a] \notin CreditNormal
      PROVE  SumOf(amounts, K) = SumOf(nets, K)
  <2>1. \A a \in K : amounts[a] = nets[a]
    BY <1>2, <1>3, <1>9
  <2>. QED BY <1>2, <2>1, SumOfSame
<1>. QED BY <1>1, <1>4, <1>7, <1>8, <1>9 DEF rows

\* A group is of one type only.
LEMMA TypesDisjoint ==
  ASSUME NEW s \in ResultTypes \cup BalanceTypes, NEW t \in ResultTypes \cup BalanceTypes,
         NEW g \in GroupsOfType(s), g \in GroupsOfType(t)
  PROVE  s = t
BY DEF GroupsOfType, ResultTypes, BalanceTypes

\* The groups of accounts: none, or one of their type.
IsGrouping(group) == \A a \in Accounts : group[a] \in GroupsOfType(TypeOf[a]) \cup {None}

\* A total is a sum of amounts.
LEMMA TotalIsSum ==
  ASSUME NEW L, Charted(L), NEW A, NEW amounts,
         \A a \in A \cap DOMAIN ByAccount(L) : amounts[a] = Amount(ByAccount(L), a)
  PROVE  TotalOf(ByAccount(L), A) = SumOf(amounts, A \cap DOMAIN ByAccount(L))
<1>. DEFINE rows == ByAccount(L)
            K == A \cap DOMAIN rows
            f == [a \in K |-> Amount(rows, a)]
<1>1. TotalOf(rows, A) = SumOver(f) /\ DOMAIN f = K /\ \A a \in K : f[a] = amounts[a]
  BY DEF TotalOf
<1>2. IsFiniteSet(K)
  BY RowHas, FS_Intersection
<1>. HIDE DEF f, rows, K
<1>3. SumOver(f) = SumOf(f, K)
  BY <1>1, SumOverIs
<1>4. SumOf(f, K) = SumOf(amounts, K)
  BY <1>1, <1>2, SumOfSame
<1>. QED BY <1>1, <1>3, <1>4 DEF K, rows

\* Accounts of a type that are in groups: the totals of the groups of the type
\* add up to the total of the type.
LEMMA GroupsAdd ==
  ASSUME NEW L, Charted(L), NEW type \in ResultTypes \cup BalanceTypes,
         NEW group, IsGrouping(group), \A a \in DOMAIN ByAccount(L) : group[a] # None,
         NEW totals,
         \A g \in GroupsOfType(type) :
           totals[g] = TotalOf(ByAccount(L), {a \in Accounts : group[a] = g})
  PROVE  /\ TotalOf(ByAccount(L), AccountsOfTypes({type})) = SumOf(totals, GroupsOfType(type))
         /\ \A g \in GroupsOfType(type) : totals[g] \in Int
<1>. DEFINE rows == ByAccount(L)
            A == AccountsOfTypes({type})
            K == A \cap DOMAIN rows
            G == GroupsOfType(type)
            amounts == [a \in DOMAIN rows |-> Amount(rows, a)]
            In(g) == {a \in Accounts : group[a] = g}
            Having(g) == {a \in K : group[a] = g}
<1>1. DOMAIN rows \subseteq Accounts /\ IsFiniteSet(K) /\ IsFiniteSet(DOMAIN rows)
  BY RowHas, FS_Intersection
<1>2. IsFiniteSet(G)
  <2>1. type \in {"ASSET", "LIABILITY", "EQUITY", "REVENUE", "EXPENSE"}
    BY DEF ResultTypes, BalanceTypes
  <2>2. CASE type = "ASSET"
    BY <2>2, FewFinite DEF GroupsOfType
  <2>3. CASE type = "LIABILITY"
    BY <2>3, FewFinite DEF GroupsOfType
  <2>4. CASE type = "EQUITY"
    BY <2>4, FewFinite DEF GroupsOfType
  <2>5. CASE type = "REVENUE"
    BY <2>5, FewFinite DEF GroupsOfType
  <2>6. CASE type = "EXPENSE"
    BY <2>6, FewFinite DEF GroupsOfType
  <2>. QED BY <2>1, <2>2, <2>3, <2>4, <2>5, <2>6
<1>3. \A a \in DOMAIN rows : amounts[a] = Amount(rows, a) /\ amounts[a] \in Int
  <2>1. \A a \in DOMAIN rows : Net(rows, a) \in Int
    BY NetOfRow
  <2>. HIDE DEF rows
  <2>. QED BY <2>1 DEF Amount, Signed
<1>4. ASSUME NEW a \in DOMAIN rows
      PROVE  group[a] \in G <=> a \in A
  <2>1. group[a] \in GroupsOfType(TypeOf[a]) /\ TypeOf[a] \in ResultTypes \cup BalanceTypes
    BY <1>1, ChartAssumption DEF IsGrouping
  <2>2. group[a] \in G => TypeOf[a] = type
    BY <2>1, TypesDisjoint
  <2>. QED BY <1>1, <2>1, <2>2 DEF AccountsOfTypes
<1>5. ASSUME NEW g \in G
      PROVE  totals[g] = SumOf(amounts, Having(g)) /\ totals[g] \in Int
  <2>1. In(g) \cap DOMAIN rows = Having(g) /\ Having(g) \subseteq DOMAIN rows
    BY <1>1, <1>4
  <2>2. totals[g] = TotalOf(rows, In(g))
    OBVIOUS
  <2>3. IsFiniteSet(Having(g))
    BY <1>1, FS_Subset
  <2>. HIDE DEF In, Having, amounts
  <2>4. \A a \in In(g) \cap DOMAIN ByAccount(L) : amounts[a] = Amount(ByAccount(L), a)
    BY <1>3
  <2>5. TotalOf(rows, In(g)) = SumOf(amounts, In(g) \cap DOMAIN rows)
    BY <2>4, TotalIsSum
  <2>6. SumOf(amounts, Having(g)) \in Int
    BY <1>3, <2>1, <2>3, SumOfInt
  <2>. QED BY <2>1, <2>2, <2>5, <2>6
<1>6. AreParts(totals, amounts, K, group, G)
  BY <1>4, <1>5 DEF AreParts
<1>7. \A a \in K : amounts[a] \in Int
  BY <1>3
<1>8. TotalOf(rows, A) = SumOf(amounts, K)
  <2>. HIDE DEF amounts
  <2>1. \A a \in A \cap DOMAIN ByAccount(L) : amounts[a] = Amount(ByAccount(L), a)
    BY <1>3
  <2>. QED BY <2>1, TotalIsSum
<1>9. \A g \in G : totals[g] \in Int
  BY <1>5
<1>. HIDE DEF rows, A, K, G, amounts, In, Having
<1>10. SumOf(amounts, K) = SumOf(totals, G)
  BY <1>1, <1>2, <1>6, <1>7, SumOfFibers
<1>. QED BY <1>8, <1>9, <1>10 DEF rows, A, G

-----------------------------------------------------------------------------
(* Figures of what a query finds *)

\* What a query finds is charted, and a part of it is what a narrower one finds.
LEMMA FoundCharted ==
  ASSUME NEW J, IsJournal(J), NEW A, NEW B, NEW from, NEW to, NEW centre
  PROVE  /\ Charted(LinesIn(J, A, from, to, centre))
         /\ OfAccounts(LinesIn(J, A, from, to, centre), B)
              = LinesIn(J, A \cap B, from, to, centre)
         /\ NetDebit(LinesIn(J, A, from, to, centre)) \in Int
<1>1. Sound(LinesIn(J, A, from, to, centre))
  BY FoundSound
<1>2. NetDebit(LinesIn(J, A, from, to, centre)) \in Int
  BY <1>1, NetIsSum
<1>. QED BY <1>1, <1>2, FoundSound DEF Charted, OfAccounts, LinesIn

\* The balance of a row is that of its account.
LEMMA RowOfAccount ==
  ASSUME NEW J, IsJournal(J), NEW A, NEW from, NEW to, NEW centre, NEW a \in A
  PROVE  Net(ByAccount(LinesIn(J, A, from, to, centre)), a)
           = NetDebit(LinesIn(J, {a}, from, to, centre))
<1>1. Mine(LinesIn(J, A, from, to, centre), a) = LinesIn(J, {a}, from, to, centre)
  BY DEF Mine, LinesIn
<1>2. Net(ByAccount(LinesIn(J, A, from, to, centre)), a)
        = NetDebit(Mine(LinesIn(J, A, from, to, centre), a))
  BY FoundCharted, NetOfRow
<1>. QED BY <1>1, <1>2, Zenon

\* Balances of each of some accounts.
AreBalances(balances, J, A, from, to, centre) ==
  \A a \in A : balances[a] = NetDebit(LinesIn(J, {a}, from, to, centre))

\* They add up to that of all of them.
LEMMA AccountsAdd ==
  ASSUME NEW J, IsJournal(J), NEW A \in SUBSET Accounts, NEW from, NEW to, NEW centre,
         NEW balances, AreBalances(balances, J, A, from, to, centre)
  PROVE  SumOf(balances, A) = NetDebit(LinesIn(J, A, from, to, centre))
<1>. DEFINE L == LinesIn(J, A, from, to, centre)
            key == [p \in L |-> LineOf(p).account]
<1>1. ASSUME NEW a \in A
      PROVE  balances[a] = NetDebit({p \in L : key[p] = a})
  <2>1. {p \in L : key[p] = a} = LinesIn(J, {a}, from, to, centre)
    BY DEF LinesIn
  <2>2. balances[a] = NetDebit(LinesIn(J, {a}, from, to, centre))
    BY DEF AreBalances
  <2>. QED BY <2>1, <2>2, Zenon
<1>2. AreNets(balances, L, key, A)
  BY <1>1 DEF AreNets, LinesIn
<1>3. Sound(L) /\ IsFiniteSet(A)
  BY FoundSound, ChartAssumption, FS_Subset
<1>. HIDE DEF L, key
<1>4. NetDebit(L) = SumOf(balances, A)
  BY <1>2, <1>3, NetOfFibers
<1>. QED BY <1>4 DEF L

\* So do those of two groups of accounts.
LEMMA TwoAdd ==
  ASSUME NEW J, IsJournal(J), NEW A, NEW B, A \cap B = {}, NEW from, NEW to, NEW centre
  PROVE  NetDebit(LinesIn(J, A \cup B, from, to, centre))
           = NetDebit(LinesIn(J, A, from, to, centre)) + NetDebit(LinesIn(J, B, from, to, centre))
<1>. DEFINE L == LinesIn(J, A \cup B, from, to, centre)
            M == LinesIn(J, A, from, to, centre)
            N == LinesIn(J, B, from, to, centre)
<1>1. M \in SUBSET L /\ N \in SUBSET L /\ M \cup N = L /\ M \cap N = {}
  BY DEF LinesIn
<1>2. Sound(L)
  BY FoundSound
<1>. HIDE DEF L, M, N
<1>3. NetDebit(L) = NetDebit(M) + NetDebit(N)
  BY <1>1, <1>2, NetOfDisjoint
<1>. QED BY <1>3 DEF L, M, N

AllTypes == ResultTypes \cup BalanceTypes

\* The accounts of types.
LEMMA Types ==
  /\ AccountsOfTypes(AllTypes) = Accounts
  /\ AccountsOfTypes(ResultTypes) = AccountsOfTypes({"REVENUE"}) \cup AccountsOfTypes({"EXPENSE"})
  /\ AccountsOfTypes(BalanceTypes)
       = (AccountsOfTypes({"ASSET"}) \cup AccountsOfTypes({"LIABILITY"}))
           \cup AccountsOfTypes({"EQUITY"})
  /\ AccountsOfTypes(BalanceTypes) \cup AccountsOfTypes(ResultTypes) = Accounts
  /\ AccountsOfTypes(BalanceTypes) \cap AccountsOfTypes(ResultTypes) = {}
  /\ \A s, t \in AllTypes : s # t => AccountsOfTypes({s}) \cap AccountsOfTypes({t}) = {}
  /\ \A types : AccountsOfTypes(types) \subseteq Accounts
BY ChartAssumption DEF AccountsOfTypes, AllTypes, ResultTypes, BalanceTypes

\* The total of a type, among the types a query asks for.
LEMMA TypeTotal ==
  ASSUME NEW J, IsJournal(J), NEW types, NEW type \in types \cap AllTypes,
         NEW from, NEW to, NEW centre
  PROVE  TotalOfType(ByAccount(LinesIn(J, AccountsOfTypes(types), from, to, centre)), type)
           = IF type \in CreditNormal
             THEN -NetDebit(LinesIn(J, AccountsOfTypes({type}), from, to, centre))
             ELSE NetDebit(LinesIn(J, AccountsOfTypes({type}), from, to, centre))
<1>. DEFINE L == LinesIn(J, AccountsOfTypes(types), from, to, centre)
            A == AccountsOfTypes({type})
<1>1. AccountsOfTypes(types) \cap A = A
  BY DEF AccountsOfTypes
<1>2. Charted(L) /\ OfAccounts(L, A) = LinesIn(J, AccountsOfTypes(types) \cap A, from, to, centre)
  BY FoundCharted
<1>3. OfAccounts(L, A) = LinesIn(J, A, from, to, centre)
  BY <1>1, <1>2, Zenon
<1>4. \A a \in A \cap Accounts : TypeOf[a] = type
  BY DEF AccountsOfTypes
<1>. HIDE DEF L, A
<1>5. /\ type \in CreditNormal => TotalOf(ByAccount(L), A) = -NetDebit(OfAccounts(L, A))
      /\ type \notin CreditNormal => TotalOf(ByAccount(L), A) = NetDebit(OfAccounts(L, A))
  BY <1>2, <1>4, TotalIsNet
<1>. QED BY <1>3, <1>5, Zenon DEF TotalOfType, L, A

\* The first day.
LEMMA FirstOfDays ==
  ASSUME NEW day \in Days
  PROVE  First \in Days /\ First \in Nat /\ First <= day
<1>. DEFINE Has(T) == \E m \in T : \A k \in T : m <= k
            S == {k \in Days : k <= day}
            Bad == {T \in SUBSET S : T # {} /\ ~Has(T)}
<1>1. IsFiniteSet(S)
  <2>1. day \in Nat /\ \A k \in Days : k \in Nat
    BY DaysAssumption
  <2>2. \A k \in S : k \in 0 .. day
    BY <2>1
  <2>3. IsFiniteSet(0 .. day)
    BY <2>1, FS_Interval
  <2>. HIDE DEF S
  <2>4. S \in SUBSET (0 .. day)
    BY <2>2
  <2>. QED BY <2>3, <2>4, FS_Subset
<1>2. ASSUME Bad # {}
      PROVE  FALSE
  <2>1. PICK T \in Bad : \A U \in SUBSET T : U # T => U \notin Bad
    <3>. HIDE DEF Bad, S
    <3>1. Bad \subseteq SUBSET S
      BY DEF Bad
    <3>. QED BY <1>1, <1>2, <3>1, SmallestFailure
  <2>2. PICK x \in T : TRUE
    OBVIOUS
  <2>3. T \subseteq Nat
    BY DaysAssumption
  <2>4. CASE T \ {x} = {}
    BY <2>2, <2>3, <2>4
  <2>5. CASE T \ {x} # {}
    <3>1. Has(T \ {x})
      BY <2>1, <2>2, <2>5
    <3>2. PICK m \in T \ {x} : \A k \in T \ {x} : m <= k
      BY <3>1
    <3>3. m <= x \/ x <= m
      BY <2>2, <2>3, <3>2
    <3>4. \A k \in T : k = x \/ m <= k
      BY <3>2
    <3>5. Has(T)
      BY <2>2, <2>3, <3>2, <3>3, <3>4
    <3>. QED BY <3>5
  <2>. QED BY <2>4, <2>5
<1>3. day \in S /\ S \in SUBSET S
  BY DaysAssumption
<1>4. PICK m \in S : \A k \in S : m <= k
  <2>1. Has(S)
    BY <1>2, <1>3
  <2>. QED BY <2>1
<1>5. m \in Days /\ \A k \in Days : m <= k
  BY <1>4, DaysAssumption
<1>6. First \in Days /\ \A k \in Days : First <= k
  BY <1>5 DEF First, Min
<1>. QED BY <1>6, DaysAssumption

-----------------------------------------------------------------------------
(* The invariant *)

\* What a query asks of a journal, for the report asked for.
RowsIn(J, types, from, to) == ByAccount(LinesIn(J, AccountsOfTypes(types), from, to, ask.centre))
OwnIn(J, from, to) == LinesIn(J, {ask.account}, from, to, ask.centre)
CashIn(J, from, to) == LinesIn(J, seen.cash, from, to, None)

\* An answer is that of a journal.
Shows(J, query, answer) ==
  /\ query = "opening"  => answer = RowsIn(J, AllTypes, First, Before(ask.from))
  /\ query = "period"   => answer = RowsIn(J, AllTypes, ask.from, ask.to)
  /\ query = "movement" => answer = RowsIn(J, ResultTypes, ask.from, ask.to)
  /\ query = "balances" => answer = RowsIn(J, BalanceTypes, First, ask.to)
  /\ query = "results"  => answer = RowsIn(J, ResultTypes, First, ask.to)
  /\ query = "ownOpening" => answer = NetDebit(OwnIn(J, First, Before(ask.from)))
  /\ query = "lines"      => answer = OwnIn(J, ask.from, ask.to)
  /\ query = "entries"    => answer = {e \in J : e.day \in ask.from .. ask.to}
  /\ query = "centres"    =>
       answer = {<<LineOf(p).account, LineOf(p).centre>> :
                   p \in {k \in LinesIn(J, Accounts, ask.from, ask.to, None) :
                            LineOf(k).centre # None}}
  /\ query = "cashBefore"  => answer = NetDebit(CashIn(J, First, Before(ask.from)))
  /\ query = "cashThrough" => answer = NetDebit(CashIn(J, First, ask.to))
  /\ query = "cashEntries" =>
       answer = [e \in {p[1] : p \in CashIn(J, ask.from, ask.to)} |->
                   NetDebit({p \in CashIn(J, ask.from, ask.to) : p[1] = e})]

CashQueries == {"cashBefore", "cashThrough", "cashEntries"}

\* The chart: every account is in no group, or in one of its type.
Rows == [group : (UNION {GroupsOfType(t) : t \in AllTypes}) \cup {None},
         analytic : BOOLEAN, active : BOOLEAN]
IsChart(c) == /\ c \in [Accounts -> Rows]
              /\ IsGrouping([a \in Accounts |-> c[a].group])

\* Documents: finitely many, of those that may be issued.
AreDocuments(documents) == documents \subseteq FiscalDrafts /\ IsFiniteSet(documents)

CommittedInv == /\ IsJournal(journal) /\ IsChart(chart) /\ cash \subseteq Accounts
                /\ AreDocuments(issued)

\* What may be asked.
Asks == [report : Reports, from : Days, to : Days, centre : Centres \cup {None},
         account : Accounts \cup {None}]

\* A report has had the answers of its first queries.
Asking ==
  /\ ask \in Asks
  /\ ask.from <= ask.to
  /\ ask.report = "generalLedger" => ask.account \in Accounts
  /\ ask.report \notin ByCentre => ask.centre = None
  /\ \E n \in 0 .. Len(Plan(ask.report)) :
       DOMAIN seen = {Plan(ask.report)[i] : i \in 1 .. n}

AskInv == \/ ask = NoAsk /\ DOMAIN seen = {}
          \/ ask.report = "refused"
          \/ Asking

\* Each answer about the journal is that of a journal of some moment, the present
\* one while the report is not disturbed; cash is seen before what moved it.
SeenInv ==
  /\ \A q \in DOMAIN seen :
       \E J \in SUBSET journal : (~disturbed => J = journal) /\ Shows(J, q, seen[q])
  /\ "accounts" \in DOMAIN seen => IsChart(seen.accounts)
  /\ "cash" \in DOMAIN seen => seen.cash \subseteq Accounts
  /\ DOMAIN seen \cap CashQueries # {} => "cash" \in DOMAIN seen
  /\ "documents" \in DOMAIN seen => AreDocuments(seen.documents)

IInv == CommittedInv /\ AskInv /\ SeenInv

-----------------------------------------------------------------------------
(* Plans of reports *)

IsPlan(plan) ==
  /\ Len(plan) \in 1 .. 5 /\ DOMAIN plan = 1 .. Len(plan)
  /\ \A i, j \in 1 .. Len(plan) : i # j => plan[i] # plan[j]
  /\ \A i \in 1 .. Len(plan) : plan[i] \in CashQueries => 1 < i /\ plan[1] = "cash"

\* No report asks the same twice, and one that asks for what moved cash has asked
\* for the accounts of cash before.
LEMMA PlansAre ==
  ASSUME NEW report \in Reports
  PROVE  IsPlan(Plan(report))
<1>. USE DEF IsPlan, Plan, CashQueries
<1>1. CASE report = "trialBalance" BY <1>1
<1>2. CASE report = "generalLedger" BY <1>2
<1>3. CASE report = "incomeStatement" BY <1>3
<1>4. CASE report = "balanceSheet" BY <1>4
<1>5. CASE report = "incomeStatementLegal" BY <1>5
<1>6. CASE report = "balanceSheetLegal" BY <1>6
<1>7. CASE report = "cashFlow" BY <1>7
<1>8. CASE report = "ecd" BY <1>8
<1>9. CASE report = "ecf" BY <1>9
<1>10. CASE report = "efdContribuicoes" BY <1>10
<1>11. CASE report = "efdIcms" BY <1>11
<1>. QED BY <1>1, <1>2, <1>3, <1>4, <1>5, <1>6, <1>7, <1>8, <1>9, <1>10, <1>11 DEF Reports

\* The first queries of a plan are as many as their number.
LEMMA FirstQueries ==
  ASSUME NEW report \in Reports, NEW n \in 0 .. Len(Plan(report))
  PROVE  Cardinality({Plan(report)[i] : i \in 1 .. n}) = n
<1>. DEFINE plan == Plan(report)
            S == {plan[i] : i \in 1 .. n}
            f == [i \in 1 .. n |-> plan[i]]
<1>1. Len(plan) \in Nat /\ \A i, j \in 1 .. Len(plan) : i # j => plan[i] # plan[j]
  BY PlansAre DEF IsPlan
<1>2. n \in Nat /\ \A i \in 1 .. n : i \in 1 .. Len(plan)
  BY <1>1
<1>. HIDE DEF plan
<1>3. f \in Bijection(1 .. n, S)
  BY <1>1, <1>2 DEF Bijection, Injection, Surjection, IsInjective
<1>. HIDE DEF S, f
<1>4. Cardinality(S) = n
  BY <1>2, <1>3, FS_CountingElements DEF ExistsBijection
<1>. QED BY <1>4 DEF S, plan

-----------------------------------------------------------------------------
(* The invariant holds at first *)

\* Groups of any type are groups.
LEMMA GroupsAre ==
  ASSUME NEW a \in Accounts, NEW g \in GroupsOfType(TypeOf[a]) \cup {None}
  PROVE  g \in (UNION {GroupsOfType(t) : t \in AllTypes}) \cup {None}
BY ChartAssumption DEF AllTypes

\* The invariant holds at first.
LEMMA InitHolds == BooksInit => IInv
<1>. SUFFICES ASSUME BooksInit PROVE IInv
  OBVIOUS
<1>1. IsJournal(journal)
  BY FS_EmptySet DEF BooksInit, IsJournal
<1>2. cash \subseteq Accounts
  BY ChartAssumption DEF BooksInit
<1>3. \A a \in Accounts : /\ chart[a].group = FirstGroups[a]
                          /\ chart[a].group \in GroupsOfType(TypeOf[a]) \cup {None}
  BY ChartAssumption DEF BooksInit
<1>4. chart \in [Accounts -> Rows]
  <2>1. \A a \in Accounts : FirstGroups[a] \in (UNION {GroupsOfType(t) : t \in AllTypes}) \cup {None}
    BY <1>3, GroupsAre
  <2>. HIDE DEF AllTypes
  <2>. QED BY <2>1 DEF BooksInit, Rows
<1>5. IsChart(chart)
  BY <1>3, <1>4 DEF IsChart, IsGrouping
<1>6. AskInv /\ AreDocuments(issued)
  BY FS_EmptySet DEF BooksInit, AskInv, AreDocuments
<1>7. SeenInv
  BY DEF BooksInit, SeenInv
<1>. QED BY <1>1, <1>2, <1>5, <1>6, <1>7 DEF IInv, CommittedInv

-----------------------------------------------------------------------------
(* Commits keep it *)

\* The days, centre and account asked for stay.
SameAsk == /\ ask'.from = ask.from /\ ask'.to = ask.to
           /\ ask'.centre = ask.centre /\ ask'.account = ask.account

\* What an answer shows depends on what is asked, and on the accounts of cash.
LEMMA ShowsSame ==
  ASSUME SameAsk, NEW J, NEW q, NEW v, q \in CashQueries => seen'.cash = seen.cash,
         Shows(J, q, v)
  PROVE  Shows(J, q, v)'
<1>. USE DEF Shows, RowsIn, OwnIn, CashIn, CashQueries, SameAsk
<1>1. CASE q \in CashQueries
  <2>1. seen'.cash = seen.cash
    BY <1>1
  <2>. QED BY <2>1
<1>2. CASE q \notin CashQueries
  BY <1>2
<1>. QED BY <1>1, <1>2

\* A commit leaves the journal as it is or adds to it, and disturbs a report
\* that has had an answer.
LEMMA CommitKeeps ==
  ASSUME IInv, CommittedInv', journal \subseteq journal',
         ask' = ask, seen' = seen, disturbed' = (disturbed \/ DOMAIN seen # {})
  PROVE  IInv'
<1>1. AskInv'
  <2>1. CASE ask = NoAsk /\ DOMAIN seen = {}
    BY <2>1 DEF AskInv, NoAsk
  <2>2. CASE ask.report = "refused"
    BY <2>2 DEF AskInv
  <2>3. CASE Asking
    BY <2>3 DEF AskInv, Asking
  <2>. QED BY <2>1, <2>2, <2>3 DEF IInv, AskInv
<1>2. ASSUME NEW q \in DOMAIN seen
      PROVE  \E J \in SUBSET journal' : (~disturbed' => J = journal') /\ Shows(J, q, seen[q])'
  <2>1. PICK J \in SUBSET journal : Shows(J, q, seen[q])
    BY DEF IInv, SeenInv
  <2>2. PICK v : v = seen[q]
    OBVIOUS
  <2>3. Shows(J, q, v)'
    BY <2>1, <2>2, ShowsSame DEF SameAsk
  <2>4. disturbed'
    BY <1>2
  <2>5. v = seen'[q] /\ J \in SUBSET journal'
    BY <2>2
  <2>. QED BY <2>3, <2>4, <2>5
<1>3. SeenInv'
  BY <1>2 DEF IInv, SeenInv
<1>. QED BY <1>1, <1>3 DEF IInv

\* A posting.
LEMMA PostKeeps ==
  ASSUME IInv, NEW d \in Drafts, NEW day \in Days, PostEntry(d, day)
  PROVE  IInv'
<1>. DEFINE e == [day |-> day, module |-> d.module, lines |-> d.lines]
<1>1. /\ journal' = journal \cup {e} /\ Commits(OfJournal)
      /\ UNCHANGED <<chart, cash, issued, configured, edits, ask, seen>>
  BY DEF PostEntry
<1>2. IsEntry(e)
  BY DEF IsEntry
<1>3. IsJournal(journal) /\ IsChart(chart) /\ cash \subseteq Accounts /\ AreDocuments(issued)
  BY DEF IInv, CommittedInv
<1>. HIDE DEF e
<1>4. IsJournal(journal \cup {e})
  BY <1>2, <1>3, FS_AddElement DEF IsJournal
<1>5. CommittedInv'
  BY <1>1, <1>3, <1>4 DEF CommittedInv
<1>. QED BY <1>1, <1>5, CommitKeeps DEF Commits

\* An edit of the chart that keeps an account in a group of its type.
LEMMA ChartKeeps ==
  ASSUME IInv, NEW a \in Accounts, NEW row \in Rows, EditChart(a, row),
         row.group \in GroupsOfType(TypeOf[a]) \cup {None}
  PROVE  IInv'
<1>1. /\ Commits({"accounts"}) /\ chart' = [chart EXCEPT ![a] = row]
      /\ UNCHANGED <<journal, cash, issued, configured, ask, seen>>
  BY DEF EditChart, Edits
<1>2. IsJournal(journal) /\ IsChart(chart) /\ cash \subseteq Accounts /\ AreDocuments(issued)
  BY DEF IInv, CommittedInv
<1>3. chart' \in [Accounts -> Rows]
  BY <1>1, <1>2 DEF IsChart
<1>4. ASSUME NEW b \in Accounts
      PROVE  chart'[b].group \in GroupsOfType(TypeOf[b]) \cup {None}
  <2>1. chart[b].group \in GroupsOfType(TypeOf[b]) \cup {None}
    BY <1>2 DEF IsChart, IsGrouping
  <2>2. chart'[b] = IF b = a THEN row ELSE chart[b]
    BY <1>1, <1>2 DEF IsChart
  <2>. QED BY <2>1, <2>2
<1>5. IsChart(chart')
  BY <1>3, <1>4 DEF IsChart, IsGrouping
<1>6. CommittedInv'
  BY <1>1, <1>2, <1>5 DEF CommittedInv
<1>. QED BY <1>1, <1>6, CommitKeeps DEF Commits

\* The edits of the chart are such.
LEMMA EditsKeep ==
  ASSUME IInv, NEW a \in Editable, Classify(a) \/ Deactivate(a) \/ BecomeParent(a)
  PROVE  IInv'
<1>1. /\ a \in Accounts /\ chart[a] \in Rows
      /\ chart[a].group \in GroupsOfType(TypeOf[a]) \cup {None}
  BY ChartAssumption DEF IInv, CommittedInv, IsChart, IsGrouping
<1>2. CASE Classify(a)
  <2>1. PICK g \in GroupsOfType(TypeOf[a]) : EditChart(a, [chart[a] EXCEPT !.group = g])
    BY <1>2 DEF Classify
  <2>2. PICK row : row = [chart[a] EXCEPT !.group = g]
    OBVIOUS
  <2>3. row.group = g /\ row \in Rows
    <3>1. g \in (UNION {GroupsOfType(t) : t \in AllTypes}) \cup {None}
      BY <1>1, GroupsAre
    <3>. QED BY <1>1, <2>2, <3>1 DEF Rows
  <2>. QED BY <1>1, <2>1, <2>2, <2>3, ChartKeeps
<1>3. CASE Deactivate(a)
  <2>1. PICK row : row = [chart[a] EXCEPT !.active = FALSE]
    OBVIOUS
  <2>2. row \in Rows /\ row.group = chart[a].group
    BY <1>1, <2>1 DEF Rows
  <2>3. EditChart(a, row)
    BY <1>3, <2>1 DEF Deactivate
  <2>. QED BY <1>1, <2>2, <2>3, ChartKeeps
<1>4. CASE BecomeParent(a)
  <2>1. PICK row : row = [chart[a] EXCEPT !.analytic = FALSE]
    OBVIOUS
  <2>2. row \in Rows /\ row.group = chart[a].group
    BY <1>1, <2>1 DEF Rows
  <2>3. EditChart(a, row)
    BY <1>4, <2>1 DEF BecomeParent
  <2>. QED BY <1>1, <2>2, <2>3, ChartKeeps
<1>. QED BY <1>2, <1>3, <1>4

\* Other commits.
LEMMA OthersKeep ==
  ASSUME IInv,
         \/ \E a \in CashAccounts : OpenBankAccount(a)
         \/ \E d \in FiscalDrafts : IssueDocument(d)
         \/ \E r \in Rates : ConfigureRates(r)
  PROVE  IInv'
<1>1. IsJournal(journal) /\ IsChart(chart) /\ cash \subseteq Accounts /\ AreDocuments(issued)
  BY DEF IInv, CommittedInv
<1>2. ASSUME NEW a \in CashAccounts, OpenBankAccount(a)
      PROVE  IInv'
  <2>1. /\ Commits({"cash"}) /\ cash' = cash \cup {a}
        /\ UNCHANGED <<journal, chart, issued, configured, ask, seen>>
    BY <1>2 DEF OpenBankAccount, Edits
  <2>2. CommittedInv'
    BY <1>1, <2>1, ChartAssumption DEF CommittedInv
  <2>. QED BY <2>1, <2>2, CommitKeeps DEF Commits
<1>3. ASSUME NEW d \in FiscalDrafts, IssueDocument(d)
      PROVE  IInv'
  <2>1. /\ Commits({"documents"})
        /\ issued' = issued \cup {d}
        /\ UNCHANGED <<journal, chart, cash, configured, edits, ask, seen>>
    BY <1>3 DEF IssueDocument
  <2>2. AreDocuments(issued')
    BY <1>1, <2>1, FS_AddElement DEF AreDocuments
  <2>3. CommittedInv'
    BY <1>1, <2>1, <2>2 DEF CommittedInv
  <2>. QED BY <2>1, <2>3, CommitKeeps DEF Commits
<1>4. ASSUME NEW r \in Rates, ConfigureRates(r)
      PROVE  IInv'
  <2>1. /\ Commits({"rates"})
        /\ UNCHANGED <<journal, chart, cash, issued, ask, seen>>
    BY <1>4 DEF ConfigureRates, Edits
  <2>2. CommittedInv'
    BY <1>1, <2>1 DEF CommittedInv
  <2>. QED BY <2>1, <2>2, CommitKeeps DEF Commits
<1>. QED BY <1>2, <1>3, <1>4

-----------------------------------------------------------------------------
(* The report keeps it *)

\* What is asked is in the books.
LEMMA AskKeeps ==
  ASSUME IInv, NEW report \in Reports, NEW period \in Periods,
         NEW centre \in Centres \cup {None}, NEW account \in Accounts \cup {None},
         report = "generalLedger" => account \in Accounts,
         report \notin ByCentre => centre = None, AskFor(report, period, centre, account)
  PROVE  IInv'
<1>1. /\ ask = NoAsk
      /\ ask' = [report |-> report, from |-> IF report \in AsOf THEN First ELSE period[1],
                 to |-> period[2], centre |-> centre, account |-> account]
      /\ UNCHANGED <<journal, chart, cash, issued, seen, disturbed>>
  BY DEF AskFor, committedRows
<1>2. DOMAIN seen = {}
  <2>1. "none" \notin Reports
    BY DEF Reports
  <2>. QED BY <1>1, <2>1 DEF IInv, AskInv, Asking, Asks, NoAsk
<1>3. period[1] \in Days /\ period[2] \in Days /\ period[1] <= period[2]
  BY DaysAssumption
<1>4. First \in Days /\ First <= period[2]
  BY <1>3, FirstOfDays
<1>5. /\ ask' \in Asks /\ ask'.from <= ask'.to /\ ask'.report = report
      /\ ask'.account = account /\ ask'.centre = centre
  BY <1>1, <1>3, <1>4 DEF Asks
<1>6. DOMAIN seen' = {Plan(report)[i] : i \in 1 .. 0} /\ 0 \in 0 .. Len(Plan(report))
  BY <1>1, <1>2, PlansAre DEF IsPlan
<1>7. Asking'
  BY <1>1, <1>5, <1>6 DEF Asking
<1>8. CommittedInv' /\ AskInv'
  BY <1>1, <1>7 DEF IInv, CommittedInv, AskInv
<1>9. SeenInv'
  BY <1>1, <1>2 DEF SeenInv
<1>. QED BY <1>8, <1>9 DEF IInv

\* The answer of a query is that of the journal as it is.
LEMMA AnswerShows ==
  ASSUME NEW q
  PROVE  Shows(journal, q, Answer(q))
<1>. USE DEF Answer, Shows, RowsIn, OwnIn, CashIn, AllTypes
<1>1. CASE q = "opening" BY <1>1, LinesOfIsIn
<1>2. CASE q = "period" BY <1>2, LinesOfIsIn
<1>3. CASE q = "movement" BY <1>3, LinesOfIsIn
<1>4. CASE q = "balances" BY <1>4, LinesOfIsIn
<1>5. CASE q = "results" BY <1>5, LinesOfIsIn
<1>6. CASE q = "ownOpening" BY <1>6, LinesOfIsIn
<1>7. CASE q = "lines" BY <1>7, LinesOfIsIn
<1>8. CASE q = "cashBefore" BY <1>8, LinesOfIsIn
<1>9. CASE q = "cashThrough" BY <1>9, LinesOfIsIn
<1>10. CASE q = "cashEntries"
  <2>1. LinesOf(seen.cash, ask.from, ask.to, None) = CashIn(journal, ask.from, ask.to)
    BY LinesOfIsIn
  <2>. HIDE DEF CashIn
  <2>. QED BY <1>10, <2>1
<1>11. CASE q = "entries"
  BY <1>11
<1>12. CASE q = "centres"
  <2>1. LinesOf(Accounts, ask.from, ask.to, None) = LinesIn(journal, Accounts, ask.from, ask.to, None)
    BY LinesOfIsIn
  <2>. QED BY <1>12, <2>1
<1>13. CASE q \notin {"opening", "period", "movement", "balances", "results", "ownOpening",
                      "lines", "cashBefore", "cashThrough", "cashEntries",
                      "entries", "centres"}
  <2>. HIDE DEF Answer
  <2>. QED BY <1>13
<1>. HIDE DEF Answer, Shows
<1>. QED BY <1>1, <1>2, <1>3, <1>4, <1>5, <1>6, <1>7, <1>8, <1>9, <1>10, <1>11,
             <1>12, <1>13

\* The next query.
LEMMA QueryKeeps ==
  ASSUME IInv, RunQuery
  PROVE  IInv'
<1>1. UNCHANGED <<journal, chart, cash, issued, disturbed>> /\ Underway
  BY DEF RunQuery, committedRows
<1>2. CommittedInv'
  BY <1>1 DEF IInv, CommittedInv
<1>3. Asking
  BY <1>1 DEF IInv, AskInv, Underway
<1>4. PICK n \in 0 .. Len(Plan(ask.report)) : DOMAIN seen = {Plan(ask.report)[i] : i \in 1 .. n}
  BY <1>3 DEF Asking
<1>. DEFINE query == Plan(ask.report)[n + 1]
<1>5. ask.report \in Reports /\ IsPlan(Plan(ask.report)) /\ Cardinality(DOMAIN seen) = n
  <2>1. ask.report \in Reports
    BY <1>3 DEF Asking, Asks
  <2>. QED BY <1>4, <2>1, PlansAre, FirstQueries
<1>6. n + 1 \in 1 .. Len(Plan(ask.report)) /\ n \in Nat
  BY <1>1, <1>4, <1>5 DEF Underway, Done, IsPlan
<1>7. query \notin DOMAIN seen /\ \A q \in DOMAIN seen : q # query
  BY <1>4, <1>5, <1>6 DEF IsPlan
<1>8. query \in CashQueries => "cash" \in DOMAIN seen
  <2>1. query \in CashQueries => 1 < n + 1 /\ Plan(ask.report)[1] = "cash"
    BY <1>5, <1>6 DEF IsPlan
  <2>. QED BY <1>4, <1>6, <2>1
<1>9. CASE query = "rates" /\ configured = None
  <2>1. ask' = [ask EXCEPT !.report = "refused"] /\ seen' = seen
    BY <1>5, <1>9 DEF RunQuery
  <2>2. ask'.report = "refused" /\ SameAsk
    BY <1>3, <2>1 DEF Asking, Asks, SameAsk
  <2>3. ASSUME NEW q \in DOMAIN seen
        PROVE  \E J \in SUBSET journal' : (~disturbed' => J = journal') /\ Shows(J, q, seen[q])'
    <3>1. PICK J \in SUBSET journal : (~disturbed => J = journal) /\ Shows(J, q, seen[q])
      BY DEF IInv, SeenInv
    <3>2. PICK v : v = seen[q]
      OBVIOUS
    <3>3. Shows(J, q, v)'
      BY <2>1, <2>2, <3>1, <3>2, ShowsSame
    <3>4. v = seen'[q]
      BY <2>1, <3>2
    <3>. QED BY <1>1, <3>1, <3>3, <3>4
  <2>4. SeenInv'
    BY <2>1, <2>3 DEF IInv, SeenInv
  <2>. QED BY <1>2, <2>2, <2>4 DEF IInv, AskInv
<1>10. CASE ~(query = "rates" /\ configured = None)
  <2>1. /\ ask' = ask
        /\ seen' = [q \in DOMAIN seen \cup {query} |-> IF q = query THEN Answer(query) ELSE seen[q]]
    BY <1>5, <1>10 DEF RunQuery
  <2>2. /\ DOMAIN seen' = DOMAIN seen \cup {query} /\ seen'[query] = Answer(query)
        /\ \A q \in DOMAIN seen : seen'[q] = seen[q]
    BY <1>7, <2>1
  <2>3. DOMAIN seen' = {Plan(ask.report)[i] : i \in 1 .. n + 1}
    BY <1>4, <1>6, <2>2
  <2>4. Asking'
    <3>1. \E m \in 0 .. Len(Plan(ask.report)) :
            DOMAIN seen' = {Plan(ask.report)[i] : i \in 1 .. m}
      <4>1. n + 1 \in 0 .. Len(Plan(ask.report))
        BY <1>5, <1>6 DEF IsPlan
      <4>. QED BY <2>3, <4>1
    <3>2. /\ ask' \in Asks /\ ask'.from <= ask'.to
          /\ ask'.report = "generalLedger" => ask'.account \in Accounts
          /\ ask'.report \notin ByCentre => ask'.centre = None
      BY <1>3, <2>1 DEF Asking
    <3>3. \E m \in 0 .. Len(Plan(ask'.report)) :
            DOMAIN seen' = {Plan(ask'.report)[i] : i \in 1 .. m}
      <4>. HIDE DEF query
      <4>. QED BY <2>1, <3>1, ZenonT(40)
    <3>. QED BY <3>2, <3>3 DEF Asking, Asks
  <2>5. "cash" \in DOMAIN seen => seen'.cash = seen.cash
    BY <2>2
  <2>6. SameAsk
    BY <2>1 DEF SameAsk
  <2>7. ASSUME NEW q \in DOMAIN seen
        PROVE  \E J \in SUBSET journal' : (~disturbed' => J = journal') /\ Shows(J, q, seen[q])'
    <3>1. PICK J \in SUBSET journal : (~disturbed => J = journal) /\ Shows(J, q, seen[q])
      BY DEF IInv, SeenInv
    <3>2. PICK v : v = seen[q]
      OBVIOUS
    <3>3. q \in CashQueries => seen'.cash = seen.cash
      BY <2>5 DEF IInv, SeenInv
    <3>4. Shows(J, q, v)'
      BY <2>6, <3>1, <3>2, <3>3, ShowsSame
    <3>5. v = seen'[q]
      BY <2>2, <3>2
    <3>. QED BY <1>1, <3>1, <3>4, <3>5
  <2>8. \E J \in SUBSET journal' : (~disturbed' => J = journal') /\ Shows(J, query, seen[query])'
    <3>1. PICK J : J = journal
      OBVIOUS
    <3>2. PICK v, q : v = Answer(query) /\ q = query
      OBVIOUS
    <3>3. Shows(J, q, v)
      BY <3>1, <3>2, AnswerShows
    <3>4. q \in CashQueries => seen'.cash = seen.cash
      BY <1>8, <2>5, <3>2
    <3>5. Shows(J, q, v)'
      BY <2>6, <3>3, <3>4, ShowsSame
    <3>6. v = seen'[q] /\ q = query' /\ J \in SUBSET journal' /\ J = journal'
      BY <1>1, <2>1, <2>2, <3>1, <3>2
    <3>. HIDE DEF query
    <3>. QED BY <3>5, <3>6
  <2>9. "accounts" \in DOMAIN seen' => IsChart(seen'.accounts)
    <3>1. "accounts" = query => seen'.accounts = chart
      BY <2>2 DEF Answer
    <3>. QED BY <2>2, <3>1 DEF IInv, CommittedInv, SeenInv
  <2>10. "cash" \in DOMAIN seen' => seen'.cash \subseteq Accounts
    <3>1. "cash" = query => seen'.cash = cash
      BY <2>2 DEF Answer
    <3>. QED BY <2>2, <3>1 DEF IInv, CommittedInv, SeenInv
  <2>11. DOMAIN seen' \cap CashQueries # {} => "cash" \in DOMAIN seen'
    BY <1>8, <2>2 DEF IInv, SeenInv
  <2>12. \A q \in DOMAIN seen' :
           \E J \in SUBSET journal' : (~disturbed' => J = journal') /\ Shows(J, q, seen[q])'
    <3>1. query' = query
      BY <2>1
    <3>. QED BY <2>2, <2>7, <2>8, <3>1
  <2>13. "documents" \in DOMAIN seen' => AreDocuments(seen'.documents)
    <3>1. ASSUME "documents" = query
          PROVE  AreDocuments(seen'.documents)
      <4>1. seen'.documents = {d \in issued : d.day \in ask.from .. ask.to}
        BY <2>2, <3>1 DEF Answer
      <4>2. AreDocuments(issued)
        BY DEF IInv, CommittedInv
      <4>. QED BY <4>1, <4>2, FS_Subset DEF AreDocuments
    <3>. QED BY <2>2, <3>1 DEF IInv, SeenInv
  <2>14. SeenInv'
    BY <2>9, <2>10, <2>11, <2>12, <2>13 DEF SeenInv
  <2>. QED BY <1>2, <2>4, <2>14 DEF IInv, AskInv
<1>. QED BY <1>9, <1>10

\* Every step keeps it.
LEMMA StepKeeps == IInv /\ [BooksNext]_bookVars => IInv'
<1>. SUFFICES ASSUME IInv, [BooksNext]_bookVars PROVE IInv'
  OBVIOUS
<1>1. ASSUME NEW d \in Drafts, NEW day \in Days, PostEntry(d, day)
      PROVE  IInv'
  BY <1>1, PostKeeps
<1>2. ASSUME NEW a \in Editable, Classify(a) \/ Deactivate(a) \/ BecomeParent(a)
      PROVE  IInv'
  BY <1>2, EditsKeep
<1>3. CASE \/ \E a \in CashAccounts : OpenBankAccount(a)
           \/ \E d \in FiscalDrafts : IssueDocument(d)
           \/ \E r \in Rates : ConfigureRates(r)
  BY <1>3, OthersKeep
<1>4. ASSUME NEW report \in Reports, NEW p \in Periods,
             NEW centre \in IF report \in ByCentre THEN Centres \cup {None} ELSE {None},
             NEW account \in IF report = "generalLedger" THEN Asked ELSE {None},
             AskFor(report, p, centre, account)
      PROVE  IInv'
  <2>1. /\ centre \in Centres \cup {None} /\ account \in Accounts \cup {None}
        /\ report \notin ByCentre => centre = None
    BY ChartAssumption
  <2>2. report = "generalLedger" => account \in Accounts
    BY ChartAssumption
  <2>. QED BY <1>4, <2>1, <2>2, AskKeeps
<1>5. CASE RunQuery
  BY <1>5, QueryKeeps
<1>6. CASE UNCHANGED bookVars
  <2>1. UNCHANGED <<journal, chart, cash, issued, ask, seen, disturbed>>
    BY <1>6 DEF bookVars
  <2>2. CommittedInv'
    BY <2>1 DEF IInv, CommittedInv
  <2>3. AskInv'
    <3>1. CASE ask = NoAsk /\ DOMAIN seen = {}
      BY <2>1, <3>1 DEF AskInv, NoAsk
    <3>2. CASE ask.report = "refused"
      BY <2>1, <3>2 DEF AskInv
    <3>3. CASE Asking
      BY <2>1, <3>3 DEF AskInv, Asking
    <3>. QED BY <3>1, <3>2, <3>3 DEF IInv, AskInv
  <2>4. ASSUME NEW q \in DOMAIN seen
        PROVE  \E J \in SUBSET journal' : (~disturbed' => J = journal') /\ Shows(J, q, seen[q])'
    <3>1. PICK J \in SUBSET journal : (~disturbed => J = journal) /\ Shows(J, q, seen[q])
      BY DEF IInv, SeenInv
    <3>2. PICK v : v = seen[q]
      OBVIOUS
    <3>3. SameAsk
      BY <2>1 DEF SameAsk
    <3>4. Shows(J, q, v)'
      BY <2>1, <3>1, <3>2, <3>3, ShowsSame
    <3>. QED BY <2>1, <3>1, <3>2, <3>4
  <2>5. SeenInv'
    BY <2>1, <2>4 DEF IInv, SeenInv
  <2>. QED BY <2>2, <2>3, <2>5 DEF IInv
<1>. QED BY <1>1, <1>2, <1>3, <1>4, <1>5, <1>6 DEF BooksNext

\* The answers a report has had are those of journals of some moments.
THEOREM Strong == BooksSpec => []IInv
BY InitHolds, StepKeeps, PTL DEF BooksSpec

-----------------------------------------------------------------------------
(* Trial balance and general ledger *)

\* A row of a trial balance has the lines of its account, and an account without
\* one has none.
LEMMA TrialRow ==
  ASSUME NEW L, Charted(L), NEW M, Charted(M),
         seen.opening = ByAccount(L), seen.period = ByAccount(M)
  PROVE  /\ DOMAIN TrialBalance = DOMAIN seen.opening \cup DOMAIN seen.period
         /\ IsFiniteSet(DOMAIN TrialBalance)
         /\ \A a \in DOMAIN TrialBalance :
              /\ TrialBalance[a].debit = SideOf(Mine(M, a), "DEBIT")
              /\ TrialBalance[a].credit = SideOf(Mine(M, a), "CREDIT")
              /\ TrialBalance[a].opening = Signed(a, NetDebit(Mine(L, a)))
              /\ TrialBalance[a].closing = Signed(a, NetDebit(Mine(L, a)) + NetDebit(Mine(M, a)))
         /\ \A a : /\ NetDebit(Mine(L, a)) \in Int /\ NetDebit(Mine(M, a)) \in Int
                   /\ a \notin DOMAIN TrialBalance =>
                        NetDebit(Mine(L, a)) = 0 /\ NetDebit(Mine(M, a)) = 0
<1>1. DOMAIN TrialBalance = DOMAIN seen.opening \cup DOMAIN seen.period
  BY DEF TrialBalance
<1>2. IsFiniteSet(DOMAIN TrialBalance)
  <2>1. IsFiniteSet(DOMAIN seen.opening) /\ IsFiniteSet(DOMAIN seen.period)
    BY RowHas
  <2>2. IsFiniteSet(DOMAIN seen.opening \cup DOMAIN seen.period)
    BY <2>1, FS_Union
  <2>. QED BY <1>1, <2>2, Zenon
<1>3. ASSUME NEW a
      PROVE  /\ NetDebit(Mine(L, a)) \in Int /\ NetDebit(Mine(M, a)) \in Int
             /\ Net(seen.opening, a) = NetDebit(Mine(L, a))
             /\ Net(seen.period, a) = NetDebit(Mine(M, a))
  BY NetOfRow
<1>4. ASSUME NEW a, a \notin DOMAIN TrialBalance
      PROVE  NetDebit(Mine(L, a)) = 0 /\ NetDebit(Mine(M, a)) = 0
  BY <1>1, <1>3, <1>4 DEF Net
<1>5. ASSUME NEW a \in DOMAIN TrialBalance
      PROVE  /\ TrialBalance[a].debit = SideOf(Mine(M, a), "DEBIT")
             /\ TrialBalance[a].credit = SideOf(Mine(M, a), "CREDIT")
             /\ TrialBalance[a].opening = Signed(a, NetDebit(Mine(L, a)))
             /\ TrialBalance[a].closing = Signed(a, NetDebit(Mine(L, a)) + NetDebit(Mine(M, a)))
  <2>. DEFINE period == IF a \in DOMAIN seen.period THEN seen.period[a]
                        ELSE [debit |-> 0, credit |-> 0]
  <2>1. TrialBalance[a] =
          [opening |-> Amount(seen.opening, a), debit |-> period.debit, credit |-> period.credit,
           closing |-> Signed(a, Net(seen.opening, a) + period.debit - period.credit)]
    BY <1>1 DEF TrialBalance
  <2>2. /\ period.debit = SideOf(Mine(M, a), "DEBIT")
        /\ period.credit = SideOf(Mine(M, a), "CREDIT")
        /\ period.debit \in Nat /\ period.credit \in Nat
    <3>1. CASE a \in DOMAIN seen.period
      BY <3>1, RowHas
    <3>2. CASE a \notin DOMAIN seen.period
      <4>1. Mine(M, a) = {}
        BY <3>2, RowHas
      <4>2. SideOf(Mine(M, a), "DEBIT") = 0 /\ SideOf(Mine(M, a), "CREDIT") = 0
        BY <4>1, NetOfNothing, Zenon
      <4>. QED BY <3>2, <4>2
    <3>. QED BY <3>1, <3>2
  <2>3. NetDebit(Mine(L, a)) + period.debit - period.credit
          = NetDebit(Mine(L, a)) + NetDebit(Mine(M, a))
    <3>. HIDE DEF period
    <3>. QED BY <1>3, <2>2 DEF NetDebit
  <2>4. Amount(seen.opening, a) = Signed(a, NetDebit(Mine(L, a)))
    BY <1>3 DEF Amount
  <2>. HIDE DEF period
  <2>. QED BY <1>3, <2>1, <2>2, <2>3, <2>4
<1>. QED BY <1>1, <1>2, <1>3, <1>4, <1>5

\* Lines that cancel make a trial balance that does.
LEMMA TrialCancels ==
  ASSUME NEW L, Charted(L), NetDebit(L) = 0, NEW M, Charted(M), NetDebit(M) = 0,
         seen.opening = ByAccount(L), seen.period = ByAccount(M)
  PROVE  LET rows == TrialBalance
         IN  /\ SumOver([a \in DOMAIN rows |-> rows[a].debit])
                  = SumOver([a \in DOMAIN rows |-> rows[a].credit])
             /\ SumOver([a \in DOMAIN rows |-> Signed(a, rows[a].closing)]) = 0
<1>. DEFINE D == DOMAIN TrialBalance
            debits == [a \in D |-> TrialBalance[a].debit]
            credits == [a \in D |-> TrialBalance[a].credit]
            closings == [a \in D |-> Signed(a, TrialBalance[a].closing)]
            first == [a \in D |-> NetDebit(Mine(L, a))]
            then == [a \in D |-> NetDebit(Mine(M, a))]
            keyL == [p \in L |-> LineOf(p).account]
            keyM == [p \in M |-> LineOf(p).account]
<1>1. /\ \A p \in L : keyL[p] \in D
      /\ \A p \in M : keyM[p] \in D
  BY TrialRow, RowHas
<1>2. /\ \A a : {p \in L : keyL[p] = a} = Mine(L, a)
      /\ \A a : {p \in M : keyM[p] = a} = Mine(M, a)
  BY DEF Mine
<1>3. AreNets(first, L, keyL, D) /\ AreNets(then, M, keyM, D)
  <2>1. \A a \in D : first[a] = NetDebit({p \in L : keyL[p] = a})
    BY <1>2, Zenon
  <2>2. \A a \in D : then[a] = NetDebit({p \in M : keyM[p] = a})
    BY <1>2, Zenon
  <2>. QED BY <1>1, <2>1, <2>2 DEF AreNets
<1>4. AreSides(debits, M, keyM, D, "DEBIT") /\ AreSides(credits, M, keyM, D, "CREDIT")
  <2>1. \A a \in D : /\ debits[a] = SideOf(Mine(M, a), "DEBIT")
                     /\ credits[a] = SideOf(Mine(M, a), "CREDIT")
    BY TrialRow
  <2>2. \A a \in D : /\ debits[a] = SideOf({p \in M : keyM[p] = a}, "DEBIT")
                     /\ credits[a] = SideOf({p \in M : keyM[p] = a}, "CREDIT")
    BY <1>2, <2>1
  <2>. QED BY <1>1, <2>2 DEF AreSides
<1>5. ASSUME NEW a \in D
      PROVE  first[a] \in Int /\ then[a] \in Int /\ closings[a] = first[a] + then[a]
  <2>1. /\ NetDebit(Mine(L, a)) \in Int /\ NetDebit(Mine(M, a)) \in Int
        /\ TrialBalance[a].closing = Signed(a, NetDebit(Mine(L, a)) + NetDebit(Mine(M, a)))
    BY TrialRow
  <2>. QED BY <2>1 DEF Signed
<1>6. IsFiniteSet(D) /\ Sound(L) /\ Sound(M)
  BY TrialRow DEF Charted
<1>7. DOMAIN debits = D /\ DOMAIN credits = D /\ DOMAIN closings = D
  OBVIOUS
<1>. HIDE DEF D, debits, credits, closings, first, then, keyL, keyM
<1>8. NetDebit(L) = SumOf(first, D) /\ NetDebit(M) = SumOf(then, D)
  BY <1>3, <1>6, NetOfFibers
<1>9. SideOf(M, "DEBIT") = SumOf(debits, D) /\ SideOf(M, "CREDIT") = SumOf(credits, D)
  BY <1>4, <1>6, SideOfFibers
<1>10. SumOf(closings, D) = SumOf(first, D) + SumOf(then, D)
  BY <1>5, <1>6, SumOfPlus
<1>11. SideOf(M, "DEBIT") = SideOf(M, "CREDIT")
  <2>1. M \in SUBSET M
    OBVIOUS
  <2>2. SideOf(M, "DEBIT") \in Nat /\ SideOf(M, "CREDIT") \in Nat
    BY <1>6, <2>1, SideIsSum
  <2>. QED BY <2>2 DEF NetDebit
<1>12. SumOver(debits) = SumOver(credits) /\ SumOver(closings) = 0
  <2>1. /\ SumOver(debits) = SumOf(debits, D) /\ SumOver(credits) = SumOf(credits, D)
        /\ SumOver(closings) = SumOf(closings, D)
    BY <1>7, SumOverIs
  <2>. QED BY <1>8, <1>9, <1>10, <1>11, <2>1
<1>. QED BY <1>12 DEF D, debits, credits, closings

\* A trial balance that nobody disturbs opens and closes with the balances.
LEMMA TrialAgrees ==
  ASSUME IsJournal(journal), ask.from \in Days, ask.to \in Days, ask.from <= ask.to,
         seen.opening = RowsIn(journal, AllTypes, First, Before(ask.from)),
         seen.period = RowsIn(journal, AllTypes, ask.from, ask.to),
         NEW a \in Accounts
  PROVE  LET row == IF a \in DOMAIN TrialBalance THEN TrialBalance[a]
                    ELSE [opening |-> 0, closing |-> 0]
         IN  /\ row.opening = Signed(a, Balance(a, Before(ask.from)))
             /\ row.closing = Signed(a, Balance(a, ask.to))
<1>. DEFINE L == LinesIn(journal, Accounts, First, Before(ask.from), ask.centre)
            M == LinesIn(journal, Accounts, ask.from, ask.to, ask.centre)
            before == NetDebit(LinesIn(journal, {a}, First, Before(ask.from), ask.centre))
            within == NetDebit(LinesIn(journal, {a}, ask.from, ask.to, ask.centre))
            through == NetDebit(LinesIn(journal, {a}, First, ask.to, ask.centre))
<1>1. seen.opening = ByAccount(L) /\ seen.period = ByAccount(M)
  <2>1. AccountsOfTypes(AllTypes) = Accounts
    BY Types
  <2>. QED BY <2>1, Zenon DEF RowsIn
<1>2. Charted(L) /\ Charted(M)
  BY FoundCharted
<1>3. NetDebit(Mine(L, a)) = before /\ NetDebit(Mine(M, a)) = within
  <2>1. /\ Mine(L, a) = LinesIn(journal, {a}, First, Before(ask.from), ask.centre)
        /\ Mine(M, a) = LinesIn(journal, {a}, ask.from, ask.to, ask.centre)
    BY DEF Mine, LinesIn
  <2>. QED BY <2>1, Zenon
<1>4. through = before + within /\ before \in Int /\ within \in Int
  <2>1. First \in Nat /\ First <= ask.from /\ ask.from \in Nat /\ ask.to \in Nat
    BY FirstOfDays, DaysAssumption
  <2>2. through = before + within
    BY <2>1, DaysAdd
  <2>. QED BY <2>2, FoundCharted
<1>5. Balance(a, Before(ask.from)) = before /\ Balance(a, ask.to) = through
  BY LinesOfIsIn DEF Balance
<1>. HIDE DEF L, M, before, within, through
<1>6. CASE a \in DOMAIN TrialBalance
  <2>1. /\ TrialBalance[a].opening = Signed(a, NetDebit(Mine(L, a)))
        /\ TrialBalance[a].closing = Signed(a, NetDebit(Mine(L, a)) + NetDebit(Mine(M, a)))
    BY <1>1, <1>2, <1>6, TrialRow
  <2>. QED BY <1>3, <1>4, <1>5, <1>6, <2>1
<1>7. CASE a \notin DOMAIN TrialBalance
  <2>1. NetDebit(Mine(L, a)) = 0 /\ NetDebit(Mine(M, a)) = 0
    BY <1>1, <1>2, <1>7, TrialRow
  <2>2. before = 0 /\ through = 0
    BY <1>3, <1>4, <2>1
  <2>3. \A x \in Int : Signed(a, x) \in Int /\ (Signed(a, x) = x \/ Signed(a, x) + x = 0)
    BY DEF Signed
  <2>4. through \in Int
    BY <1>4
  <2>. QED BY <1>4, <1>5, <1>7, <2>2, <2>3, <2>4
<1>. QED BY <1>6, <1>7

\* So does a ledger.
LEMMA LedgerAgrees ==
  ASSUME IsJournal(journal), ask.from \in Days, ask.to \in Days, ask.from <= ask.to,
         ask.account \in Accounts,
         seen.ownOpening = NetDebit(OwnIn(journal, First, Before(ask.from))),
         seen.lines = OwnIn(journal, ask.from, ask.to)
  PROVE  /\ GeneralLedger.opening = Signed(ask.account, Balance(ask.account, Before(ask.from)))
         /\ GeneralLedger.closing = Signed(ask.account, Balance(ask.account, ask.to))
<1>. DEFINE a == ask.account
            before == NetDebit(LinesIn(journal, {a}, First, Before(ask.from), ask.centre))
            within == NetDebit(LinesIn(journal, {a}, ask.from, ask.to, ask.centre))
            through == NetDebit(LinesIn(journal, {a}, First, ask.to, ask.centre))
<1>1. seen.ownOpening = before /\ NetDebit(seen.lines) = within
  BY DEF OwnIn
<1>2. through = before + within /\ before \in Int /\ within \in Int
  <2>1. First \in Nat /\ First <= ask.from /\ ask.from \in Nat /\ ask.to \in Nat
    BY FirstOfDays, DaysAssumption
  <2>2. through = before + within
    BY <2>1, DaysAdd
  <2>. QED BY <2>2, FoundCharted
<1>3. Balance(a, Before(ask.from)) = before /\ Balance(a, ask.to) = through
  BY LinesOfIsIn DEF Balance
<1>4. GeneralLedger = [opening |-> Signed(a, seen.ownOpening),
                       closing |-> Signed(a, seen.ownOpening) + Signed(a, NetDebit(seen.lines))]
  BY DEF GeneralLedger
<1>. HIDE DEF a, before, within, through
<1>5. Signed(a, before) + Signed(a, within) = Signed(a, through)
  BY <1>2 DEF Signed
<1>. QED BY <1>1, <1>3, <1>4, <1>5 DEF a

-----------------------------------------------------------------------------
(* Income statement and balance sheet *)

\* Balances of accounts add up to that of all of them.
LEMMA BalancesAdd ==
  ASSUME IsJournal(journal), NEW A \in SUBSET Accounts, NEW day
  PROVE  BalanceOf(A, day) = NetDebit(LinesIn(journal, A, First, day, ask.centre))
<1>. DEFINE balances == [a \in A |-> Balance(a, day)]
<1>1. BalanceOf(A, day) = SumOver(balances) /\ DOMAIN balances = A
  BY DEF BalanceOf
<1>2. AreBalances(balances, journal, A, First, day, ask.centre)
  BY LinesOfIsIn DEF Balance, AreBalances
<1>. HIDE DEF balances
<1>3. SumOver(balances) = SumOf(balances, A)
  BY <1>1, SumOverIs
<1>4. SumOf(balances, A) = NetDebit(LinesIn(journal, A, First, day, ask.centre))
  BY <1>2, AccountsAdd
<1>. QED BY <1>1, <1>3, <1>4

\* The result of a period is what the balances of its ends differ by.
LEMMA IncomeAgrees ==
  ASSUME IsJournal(journal), ask.from \in Days, ask.to \in Days, ask.from <= ask.to,
         seen.movement = RowsIn(journal, ResultTypes, ask.from, ask.to)
  PROVE  NetResult = BalanceOf(AccountsOfTypes(ResultTypes), Before(ask.from))
                       - BalanceOf(AccountsOfTypes(ResultTypes), ask.to)
<1>. DEFINE net(A, from, to) == NetDebit(LinesIn(journal, A, from, to, ask.centre))
            A == AccountsOfTypes(ResultTypes)
            revenue == net(AccountsOfTypes({"REVENUE"}), ask.from, ask.to)
            expense == net(AccountsOfTypes({"EXPENSE"}), ask.from, ask.to)
            before == net(A, First, Before(ask.from))
            within == net(A, ask.from, ask.to)
            through == net(A, First, ask.to)
<1>1. /\ TotalOfType(seen.movement, "REVENUE") = -revenue
      /\ TotalOfType(seen.movement, "EXPENSE") = expense
  <2>1. "REVENUE" \in ResultTypes \cap AllTypes /\ "EXPENSE" \in ResultTypes \cap AllTypes
    BY DEF ResultTypes, AllTypes
  <2>2. "REVENUE" \in CreditNormal /\ "EXPENSE" \notin CreditNormal
    BY DEF CreditNormal
  <2>. QED BY <2>1, <2>2, TypeTotal DEF RowsIn
<1>2. within = revenue + expense
  <2>1. /\ A = AccountsOfTypes({"REVENUE"}) \cup AccountsOfTypes({"EXPENSE"})
        /\ AccountsOfTypes({"REVENUE"}) \cap AccountsOfTypes({"EXPENSE"}) = {}
    <3>1. "REVENUE" \in AllTypes /\ "EXPENSE" \in AllTypes
      BY DEF AllTypes, ResultTypes
    <3>. QED BY <3>1, Types
  <2>2. net(AccountsOfTypes({"REVENUE"}) \cup AccountsOfTypes({"EXPENSE"}), ask.from, ask.to)
          = revenue + expense
    BY <2>1, TwoAdd
  <2>. QED BY <2>1, <2>2, Zenon
<1>3. through = before + within /\ before \in Int /\ within \in Int
  <2>1. First \in Nat /\ First <= ask.from /\ ask.from \in Nat /\ ask.to \in Nat
    BY FirstOfDays, DaysAssumption
  <2>2. through = before + within
    BY <2>1, DaysAdd
  <2>. QED BY <2>2, FoundCharted
<1>4. revenue \in Int /\ expense \in Int
  BY FoundCharted
<1>5. BalanceOf(A, Before(ask.from)) = before /\ BalanceOf(A, ask.to) = through
  BY BalancesAdd, Types
<1>. HIDE DEF A, revenue, expense, before, within, through
<1>. QED BY <1>1, <1>2, <1>3, <1>4, <1>5 DEF NetResult, A

\* The result of the balance sheet.
LEMMA IncomeOf ==
  ASSUME IsJournal(journal), seen.results = RowsIn(journal, ResultTypes, First, ask.to)
  PROVE  NetIncome = -NetDebit(LinesIn(journal, AccountsOfTypes(ResultTypes), First, ask.to,
                                       ask.centre))
<1>. DEFINE L == LinesIn(journal, AccountsOfTypes(ResultTypes), First, ask.to, ask.centre)
            D == DOMAIN ByAccount(L)
            nets == [a \in D |-> Net(ByAccount(L), a)]
<1>1. NetIncome = -SumOver(nets) /\ DOMAIN nets = D
  BY DEF NetIncome, RowsIn
<1>2. Charted(L)
  BY FoundCharted
<1>3. Accounts \cap D = D /\ OfAccounts(L, Accounts) = L
  BY <1>2, RowHas DEF OfAccounts, Charted
<1>4. \A a \in Accounts \cap DOMAIN ByAccount(L) : nets[a] = Net(ByAccount(L), a)
  OBVIOUS
<1>. HIDE DEF L, nets
<1>5. SumOf(nets, Accounts \cap D) = NetDebit(OfAccounts(L, Accounts))
  BY <1>2, <1>4, NetsAdd
<1>6. SumOf(nets, D) = NetDebit(L)
  BY <1>3, <1>5, Zenon
<1>7. SumOver(nets) = SumOf(nets, D)
  BY <1>1, SumOverIs
<1>. QED BY <1>1, <1>6, <1>7 DEF L

\* Assets are liabilities and equity, the result included.
LEMMA SheetBalances ==
  ASSUME IsJournal(journal), ask.centre = None,
         seen.balances = RowsIn(journal, BalanceTypes, First, ask.to),
         seen.results = RowsIn(journal, ResultTypes, First, ask.to)
  PROVE  /\ BalanceSheet.assets = BalanceSheet.liabilities + BalanceSheet.equity
         /\ TotalOfType(seen.balances, "LIABILITY") \in Int
         /\ TotalOfType(seen.balances, "EQUITY") \in Int /\ NetIncome \in Int
<1>. DEFINE net(A) == NetDebit(LinesIn(journal, A, First, ask.to, None))
            assets == AccountsOfTypes({"ASSET"})
            liabilities == AccountsOfTypes({"LIABILITY"})
            equity == AccountsOfTypes({"EQUITY"})
            balances == AccountsOfTypes(BalanceTypes)
            results == AccountsOfTypes(ResultTypes)
<1>1. /\ TotalOfType(seen.balances, "ASSET") = net(assets)
      /\ TotalOfType(seen.balances, "LIABILITY") = -net(liabilities)
      /\ TotalOfType(seen.balances, "EQUITY") = -net(equity)
  <2>1. {"ASSET", "LIABILITY", "EQUITY"} \subseteq BalanceTypes \cap AllTypes
    BY DEF BalanceTypes, AllTypes
  <2>2. "ASSET" \notin CreditNormal /\ "LIABILITY" \in CreditNormal /\ "EQUITY" \in CreditNormal
    BY DEF CreditNormal
  <2>. QED BY <2>1, <2>2, TypeTotal DEF RowsIn
<1>2. NetIncome = -net(results)
  BY IncomeOf
<1>3. net(Accounts) = 0
  BY FoundCancels
<1>4. /\ balances = (assets \cup liabilities) \cup equity /\ balances \cup results = Accounts
      /\ assets \cap liabilities = {} /\ (assets \cup liabilities) \cap equity = {}
      /\ balances \cap results = {}
  <2>1. "ASSET" \in AllTypes /\ "LIABILITY" \in AllTypes /\ "EQUITY" \in AllTypes
    BY DEF BalanceTypes, AllTypes
  <2>2. assets \cap liabilities = {} /\ assets \cap equity = {} /\ liabilities \cap equity = {}
    BY <2>1, Types
  <2>3. (assets \cup liabilities) \cap equity = {}
    <3>. HIDE DEF assets, liabilities, equity
    <3>. QED BY <2>2
  <2>. QED BY <2>2, <2>3, Types
<1>. HIDE DEF assets, liabilities, equity, balances, results
<1>5. /\ net(assets \cup liabilities) = net(assets) + net(liabilities)
      /\ net((assets \cup liabilities) \cup equity) = net(assets \cup liabilities) + net(equity)
      /\ net(balances \cup results) = net(balances) + net(results)
  BY <1>4, TwoAdd
<1>6. \A A : net(A) \in Int
  BY FoundCharted
<1>. HIDE DEF net
<1>7. net(balances) = (net(assets) + net(liabilities)) + net(equity)
  BY <1>4, <1>5, Zenon
<1>8. net(balances) + net(results) = 0
  BY <1>3, <1>4, <1>5, Zenon
<1>9. BalanceSheet.assets = BalanceSheet.liabilities + BalanceSheet.equity
  BY <1>1, <1>2, <1>6, <1>7, <1>8 DEF BalanceSheet
<1>. QED BY <1>1, <1>2, <1>6, <1>9

-----------------------------------------------------------------------------
(* Legal layouts *)

\* The totals of the groups of a type add up to that of the type.
LEMMA GroupsOfTypeAdd ==
  ASSUME NEW L, Charted(L), IsChart(seen.accounts), Classified(ByAccount(L)),
         NEW type \in AllTypes,
         NEW totals, \A g \in GroupsOfType(type) : totals[g] = Group(ByAccount(L), g)
  PROVE  /\ TotalOfType(ByAccount(L), type) = SumOf(totals, GroupsOfType(type))
         /\ \A g \in GroupsOfType(type) : totals[g] \in Int
<1>. DEFINE group == [a \in Accounts |-> seen.accounts[a].group]
<1>1. IsGrouping(group)
  BY DEF IsChart
<1>2. \A a \in DOMAIN ByAccount(L) : group[a] # None
  BY RowHas DEF Classified
<1>3. ASSUME NEW g \in GroupsOfType(type)
      PROVE  totals[g] = TotalOf(ByAccount(L), {a \in Accounts : group[a] = g})
  <2>1. {a \in Accounts : seen.accounts[a].group = g} = {a \in Accounts : group[a] = g}
    OBVIOUS
  <2>2. totals[g] = TotalOf(ByAccount(L), {a \in Accounts : seen.accounts[a].group = g})
    BY DEF Group
  <2>. QED BY <2>1, <2>2, Zenon
<1>. HIDE DEF group
<1>4. /\ TotalOf(ByAccount(L), AccountsOfTypes({type})) = SumOf(totals, GroupsOfType(type))
      /\ \A g \in GroupsOfType(type) : totals[g] \in Int
  BY <1>1, <1>2, <1>3, GroupsAdd DEF AllTypes
<1>. QED BY <1>4 DEF TotalOfType

\* The groups of a balance sheet have its totals ...
LEMMA LegalTotals ==
  ASSUME NEW L, Charted(L), seen.balances = ByAccount(L), IsChart(seen.accounts),
         Classified(seen.balances), NEW type \in AllTypes
  PROVE  GroupsTotal(GroupsOfType(type)) = TotalOfType(seen.balances, type)
<1>. DEFINE totals == [g \in GroupsOfType(type) |-> Group(seen.balances, g)]
<1>1. /\ GroupsTotal(GroupsOfType(type)) = SumOver(totals) /\ DOMAIN totals = GroupsOfType(type)
      /\ \A g \in GroupsOfType(type) : totals[g] = Group(ByAccount(L), g)
  BY DEF GroupsTotal
<1>. HIDE DEF totals
<1>2. SumOver(totals) = SumOf(totals, GroupsOfType(type))
  BY <1>1, SumOverIs
<1>3. TotalOfType(ByAccount(L), type) = SumOf(totals, GroupsOfType(type))
  BY <1>1, GroupsOfTypeAdd
<1>. QED BY <1>1, <1>2, <1>3

\* ... and those of an income statement its result.
LEMMA LegalResult ==
  ASSUME NEW L, Charted(L), seen.movement = ByAccount(L), IsChart(seen.accounts),
         Classified(seen.movement)
  PROVE  LucroLiquido = NetResult
<1>. DEFINE revenues == [g \in GroupsOfType("REVENUE") |-> Group(seen.movement, g)]
            expenses == [g \in GroupsOfType("EXPENSE") |-> Group(seen.movement, g)]
            R == {"RECEITA_BRUTA", "DEDUCOES_RECEITA", "RECEITAS_FINANCEIRAS",
                  "OUTRAS_RECEITAS_OPERACIONAIS"}
            E == {"CUSTO_MERCADORIAS_SERVICOS", "DESPESAS_VENDAS", "DESPESAS_ADMINISTRATIVAS",
                  "DESPESAS_FINANCEIRAS"}
            F == {"OUTRAS_DESPESAS_OPERACIONAIS", "IRPJ_CSLL", "PARTICIPACOES"}
<1>1. GroupsOfType("REVENUE") = R /\ GroupsOfType("EXPENSE") = E \cup F
  BY DEF GroupsOfType
<1>2. "REVENUE" \in AllTypes /\ "EXPENSE" \in AllTypes
  BY DEF AllTypes, ResultTypes
<1>3. /\ \A g \in GroupsOfType("REVENUE") : revenues[g] = Group(ByAccount(L), g)
      /\ \A g \in GroupsOfType("EXPENSE") : expenses[g] = Group(ByAccount(L), g)
  OBVIOUS
<1>. HIDE DEF revenues, expenses
<1>4. /\ TotalOfType(seen.movement, "REVENUE") = SumOf(revenues, GroupsOfType("REVENUE"))
      /\ \A g \in GroupsOfType("REVENUE") : revenues[g] \in Int
  BY <1>2, <1>3, GroupsOfTypeAdd
<1>5. /\ TotalOfType(seen.movement, "EXPENSE") = SumOf(expenses, GroupsOfType("EXPENSE"))
      /\ \A g \in GroupsOfType("EXPENSE") : expenses[g] \in Int
  BY <1>2, <1>3, GroupsOfTypeAdd
<1>6. (\A g \in R : revenues[g] \in Int) /\ (\A g \in E \cup F : expenses[g] \in Int)
  BY <1>1, <1>4, <1>5
<1>7. SumOf(revenues, R) = revenues["RECEITA_BRUTA"] + revenues["DEDUCOES_RECEITA"]
        + revenues["RECEITAS_FINANCEIRAS"] + revenues["OUTRAS_RECEITAS_OPERACIONAIS"]
  <2>1. AreFour(R, "RECEITA_BRUTA", "DEDUCOES_RECEITA", "RECEITAS_FINANCEIRAS",
                "OUTRAS_RECEITAS_OPERACIONAIS")
    BY DEF AreFour, AreThree
  <2>. HIDE DEF R
  <2>. QED BY <1>6, <2>1, SumOfFour
<1>8. SumOf(expenses, E) = expenses["CUSTO_MERCADORIAS_SERVICOS"] + expenses["DESPESAS_VENDAS"]
        + expenses["DESPESAS_ADMINISTRATIVAS"] + expenses["DESPESAS_FINANCEIRAS"]
  <2>1. AreFour(E, "CUSTO_MERCADORIAS_SERVICOS", "DESPESAS_VENDAS", "DESPESAS_ADMINISTRATIVAS",
                "DESPESAS_FINANCEIRAS")
    BY DEF AreFour, AreThree
  <2>. HIDE DEF E, F
  <2>2. \A g \in E : expenses[g] \in Int
    BY <1>6
  <2>. QED BY <2>1, <2>2, SumOfFour
<1>9. SumOf(expenses, F) = expenses["OUTRAS_DESPESAS_OPERACIONAIS"] + expenses["IRPJ_CSLL"]
        + expenses["PARTICIPACOES"]
  <2>1. AreThree(F, "OUTRAS_DESPESAS_OPERACIONAIS", "IRPJ_CSLL", "PARTICIPACOES")
    BY DEF AreThree
  <2>. HIDE DEF E, F
  <2>2. \A g \in F : expenses[g] \in Int
    BY <1>6
  <2>. QED BY <2>1, <2>2, SumOfThree
<1>10. SumOf(expenses, E \cup F) = SumOf(expenses, E) + SumOf(expenses, F)
  <2>1. IsFiniteSet(E) /\ IsFiniteSet(F) /\ E \cap F = {}
    BY FewFinite
  <2>. HIDE DEF E, F
  <2>. QED BY <1>6, <2>1, SumOfDisjoint
<1>11. /\ TotalOfType(seen.movement, "REVENUE") = SumOf(revenues, R)
       /\ TotalOfType(seen.movement, "EXPENSE") = SumOf(expenses, E) + SumOf(expenses, F)
  <2>. HIDE DEF R, E, F
  <2>. QED BY <1>1, <1>4, <1>5, <1>10, Zenon
<1>12. /\ \A g \in R : Group(seen.movement, g) = revenues[g]
       /\ \A g \in E \cup F : Group(seen.movement, g) = expenses[g]
  BY <1>1, <1>3
<1>13. /\ Group(seen.movement, "RECEITA_BRUTA") = revenues["RECEITA_BRUTA"]
       /\ Group(seen.movement, "DEDUCOES_RECEITA") = revenues["DEDUCOES_RECEITA"]
       /\ Group(seen.movement, "RECEITAS_FINANCEIRAS") = revenues["RECEITAS_FINANCEIRAS"]
       /\ Group(seen.movement, "OUTRAS_RECEITAS_OPERACIONAIS")
            = revenues["OUTRAS_RECEITAS_OPERACIONAIS"]
       /\ Group(seen.movement, "CUSTO_MERCADORIAS_SERVICOS")
            = expenses["CUSTO_MERCADORIAS_SERVICOS"]
       /\ Group(seen.movement, "DESPESAS_VENDAS") = expenses["DESPESAS_VENDAS"]
       /\ Group(seen.movement, "DESPESAS_ADMINISTRATIVAS") = expenses["DESPESAS_ADMINISTRATIVAS"]
       /\ Group(seen.movement, "DESPESAS_FINANCEIRAS") = expenses["DESPESAS_FINANCEIRAS"]
       /\ Group(seen.movement, "OUTRAS_DESPESAS_OPERACIONAIS")
            = expenses["OUTRAS_DESPESAS_OPERACIONAIS"]
       /\ Group(seen.movement, "IRPJ_CSLL") = expenses["IRPJ_CSLL"]
       /\ Group(seen.movement, "PARTICIPACOES") = expenses["PARTICIPACOES"]
  BY <1>12
<1>14. LucroLiquido
         = (((revenues["RECEITA_BRUTA"] + revenues["DEDUCOES_RECEITA"])
               - expenses["CUSTO_MERCADORIAS_SERVICOS"])
              - expenses["DESPESAS_VENDAS"] - expenses["DESPESAS_ADMINISTRATIVAS"]
              + revenues["OUTRAS_RECEITAS_OPERACIONAIS"]
              - expenses["OUTRAS_DESPESAS_OPERACIONAIS"]
              + (revenues["RECEITAS_FINANCEIRAS"] - expenses["DESPESAS_FINANCEIRAS"]))
             - expenses["IRPJ_CSLL"] - expenses["PARTICIPACOES"]
  BY <1>13 DEF LucroLiquido
<1>15. NetResult = SumOf(revenues, R) - (SumOf(expenses, E) + SumOf(expenses, F))
  BY <1>11 DEF NetResult
<1>16. /\ revenues["RECEITA_BRUTA"] \in Int /\ revenues["DEDUCOES_RECEITA"] \in Int
       /\ revenues["RECEITAS_FINANCEIRAS"] \in Int
       /\ revenues["OUTRAS_RECEITAS_OPERACIONAIS"] \in Int
       /\ expenses["CUSTO_MERCADORIAS_SERVICOS"] \in Int /\ expenses["DESPESAS_VENDAS"] \in Int
       /\ expenses["DESPESAS_ADMINISTRATIVAS"] \in Int
       /\ expenses["DESPESAS_FINANCEIRAS"] \in Int
       /\ expenses["OUTRAS_DESPESAS_OPERACIONAIS"] \in Int
       /\ expenses["IRPJ_CSLL"] \in Int /\ expenses["PARTICIPACOES"] \in Int
  BY <1>6
<1>. HIDE DEF R, E, F
<1>. QED BY <1>7, <1>8, <1>9, <1>14, <1>15, <1>16

-----------------------------------------------------------------------------
(* Cash flow *)

\* What moved cash, by category, is what cash changed by.
LEMMA CashExplained ==
  ASSUME IsJournal(journal), ask.from \in Days, ask.to \in Days, ask.from <= ask.to,
         seen.cashBefore = NetDebit(CashIn(journal, First, Before(ask.from))),
         seen.cashThrough = NetDebit(CashIn(journal, First, ask.to)),
         seen.cashEntries = [e \in {p[1] : p \in CashIn(journal, ask.from, ask.to)} |->
                               NetDebit({p \in CashIn(journal, ask.from, ask.to) : p[1] = e})]
  PROVE  CashFlow.opening + CashFlow.netChange = CashFlow.closing
<1>. DEFINE L == CashIn(journal, ask.from, ask.to)
            E == {p[1] : p \in L}
            key == [p \in L |-> p[1]]
            nets == seen.cashEntries
            category == [e \in Moving |-> CategoryOf(e)]
            Having(c) == {m \in Moving : CategoryOf(m) = c}
            totals == [c \in Categories |-> SumOver([e \in Having(c) |-> nets[e]])]
<1>1. Sound(L) /\ L \subseteq AllLines(journal)
  BY FoundSound DEF CashIn
<1>2. E \subseteq journal /\ IsFiniteSet(E)
  <2>1. \A p \in L : p[1] \in journal
    BY <1>1, AllLinesSound
  <2>2. E \subseteq journal
    BY <2>1
  <2>. HIDE DEF E
  <2>. QED BY <2>2, FS_Subset DEF IsJournal
<1>3. DOMAIN nets = E /\ \A e \in E : nets[e] = NetDebit({p \in L : p[1] = e})
  OBVIOUS
<1>4. AreNets(nets, L, key, E)
  <2>1. ASSUME NEW e \in E
        PROVE  nets[e] = NetDebit({p \in L : key[p] = e})
    <3>1. {p \in L : p[1] = e} = {p \in L : key[p] = e}
      OBVIOUS
    <3>2. nets[e] = NetDebit({p \in L : p[1] = e})
      BY <1>3
    <3>. QED BY <3>1, <3>2, Zenon
  <2>2. \A p \in L : key[p] \in E
    OBVIOUS
  <2>. HIDE DEF L, E, key, nets
  <2>. QED BY <2>1, <2>2 DEF AreNets
<1>5. ASSUME NEW e \in E
      PROVE  nets[e] \in Int
  <2>1. {p \in L : p[1] = e} \in SUBSET L
    OBVIOUS
  <2>2. nets[e] = NetDebit({p \in L : p[1] = e})
    BY <1>3
  <2>. HIDE DEF L, E, nets
  <2>3. NetDebit({p \in L : p[1] = e}) \in Int
    BY <1>1, <2>1, NetIsSum
  <2>. QED BY <2>2, <2>3, Zenon
<1>6. Moving \in SUBSET E /\ \A e \in E \ Moving : nets[e] = 0
  BY <1>3 DEF Moving
<1>7. /\ CashFlow.opening = seen.cashBefore /\ CashFlow.closing = seen.cashThrough
      /\ CashFlow.netChange = totals["OPERATING"] + totals["INVESTING"] + totals["FINANCING"]
  BY DEF CashFlow
<1>8. seen.cashThrough = seen.cashBefore + NetDebit(L) /\ seen.cashBefore \in Int
  <2>1. First \in Nat /\ First <= ask.from /\ ask.from \in Nat /\ ask.to \in Nat
    BY FirstOfDays, DaysAssumption
  <2>2. NetDebit(LinesIn(journal, seen.cash, First, ask.to, None))
          = NetDebit(LinesIn(journal, seen.cash, First, Before(ask.from), None))
              + NetDebit(LinesIn(journal, seen.cash, ask.from, ask.to, None))
    BY <2>1, DaysAdd
  <2>3. NetDebit(LinesIn(journal, seen.cash, First, Before(ask.from), None)) \in Int
    BY FoundCharted
  <2>. QED BY <2>2, <2>3 DEF CashIn
<1>9. \A m \in Moving : category[m] \in Categories
  BY DEF CategoryOf, Categories
<1>10. \A c \in Categories : {m \in Moving : category[m] = c} = Having(c)
  OBVIOUS
<1>. HIDE DEF L, E, key, nets, category
<1>11. NetDebit(L) = SumOf(nets, E)
  BY <1>1, <1>2, <1>4, NetOfFibers
<1>12. SumOf(nets, E) = SumOf(nets, Moving)
  BY <1>2, <1>5, <1>6, SumOfPart
<1>13. IsFiniteSet(Moving) /\ \A m \in Moving : nets[m] \in Int
  BY <1>2, <1>5, <1>6, FS_Subset
<1>14. ASSUME NEW c \in Categories
       PROVE  totals[c] = SumOf(nets, Having(c)) /\ totals[c] \in Int
  <2>. DEFINE f == [e \in Having(c) |-> nets[e]]
  <2>1. totals[c] = SumOver(f) /\ DOMAIN f = Having(c) /\ \A e \in Having(c) : f[e] = nets[e]
    OBVIOUS
  <2>2. Having(c) \in SUBSET Moving
    OBVIOUS
  <2>. HIDE DEF Having, f, totals
  <2>3. SumOver(f) = SumOf(f, Having(c))
    BY <2>1, SumOverIs
  <2>4. IsFiniteSet(Having(c)) /\ \A e \in Having(c) : nets[e] \in Int
    BY <1>13, <2>2, FS_Subset
  <2>5. SumOf(f, Having(c)) = SumOf(nets, Having(c))
    BY <2>1, <2>4, SumOfSame
  <2>6. SumOf(nets, Having(c)) \in Int
    BY <2>4, SumOfInt
  <2>. QED BY <2>1, <2>3, <2>5, <2>6
<1>15. AreParts(totals, nets, Moving, category, Categories)
  <2>1. ASSUME NEW c \in Categories
        PROVE  totals[c] = SumOf(nets, {m \in Moving : category[m] = c})
    <3>1. totals[c] = SumOf(nets, Having(c)) /\ {m \in Moving : category[m] = c} = Having(c)
      BY <1>10, <1>14
    <3>. HIDE DEF totals, Having
    <3>. QED BY <3>1, Zenon
  <2>. HIDE DEF totals
  <2>. QED BY <1>9, <2>1 DEF AreParts
<1>16. AreThree(Categories, "OPERATING", "INVESTING", "FINANCING") /\ IsFiniteSet(Categories)
  <2>1. AreThree(Categories, "OPERATING", "INVESTING", "FINANCING")
    BY DEF AreThree, Categories
  <2>2. IsFiniteSet(Categories)
    BY FewFinite DEF Categories
  <2>. QED BY <2>1, <2>2
<1>. HIDE DEF totals, Having
<1>17. SumOf(nets, Moving) = SumOf(totals, Categories)
  BY <1>13, <1>15, <1>16, SumOfFibers
<1>18. SumOf(totals, Categories) = totals["OPERATING"] + totals["INVESTING"] + totals["FINANCING"]
  BY <1>14, <1>16, SumOfThree
<1>19. SumOf(nets, Moving) \in Int
  BY <1>13, SumOfInt
<1>. QED BY <1>7, <1>8, <1>11, <1>12, <1>17, <1>18, <1>19

-----------------------------------------------------------------------------
(* The statements tie *)

\* A report that is done has had the answers of all its queries.
LEMMA DoneHas ==
  ASSUME IInv, NEW report \in Reports, IsDone(report)
  PROVE  /\ ask.from \in Days /\ ask.to \in Days /\ ask.from <= ask.to
         /\ report = "generalLedger" => ask.account \in Accounts
         /\ \A i \in 1 .. Len(Plan(report)) : Plan(report)[i] \in DOMAIN seen
<1>1. ask # NoAsk /\ ask.report = report /\ report # "refused"
      /\ Len(Plan(report)) = Cardinality(DOMAIN seen)
  BY DEF IsDone, Done
<1>2. Asking
  BY <1>1 DEF IInv, AskInv
<1>3. PICK n \in 0 .. Len(Plan(report)) : DOMAIN seen = {Plan(report)[i] : i \in 1 .. n}
  BY <1>1, <1>2 DEF Asking
<1>4. Cardinality({Plan(report)[i] : i \in 1 .. n}) = n
  BY FirstQueries
<1>5. n = Len(Plan(report))
  BY <1>1, <1>3, <1>4, Zenon
<1>6. \A i \in 1 .. Len(Plan(report)) : Plan(report)[i] \in DOMAIN seen
  BY <1>3, <1>5
<1>. QED BY <1>1, <1>2, <1>6 DEF Asking, Asks

\* Every answer is that of a journal.
LEMMA Answered ==
  ASSUME IInv, NEW q \in DOMAIN seen
  PROVE  \E J : IsJournal(J) /\ (~disturbed => J = journal) /\ Shows(J, q, seen[q])
<1>1. PICK J \in SUBSET journal : (~disturbed => J = journal) /\ Shows(J, q, seen[q])
  BY DEF IInv, SeenInv
<1>2. IsJournal(J)
  BY FS_Subset DEF IInv, CommittedInv, IsJournal
<1>. QED BY <1>1, <1>2

\* Rows of balances and of movements, and the result, whoever disturbs.
LEMMA RowsSeen ==
  ASSUME IInv
  PROVE  /\ "movement" \in DOMAIN seen =>
              \E L : Charted(L) /\ seen.movement = ByAccount(L)
         /\ "balances" \in DOMAIN seen =>
              \E L : Charted(L) /\ seen.balances = ByAccount(L)
<1>1. ASSUME "movement" \in DOMAIN seen
      PROVE  \E L : Charted(L) /\ seen.movement = ByAccount(L)
  <2>1. PICK J : IsJournal(J) /\ Shows(J, "movement", seen["movement"])
    BY <1>1, Answered
  <2>2. seen.movement = RowsIn(J, ResultTypes, ask.from, ask.to)
    BY <2>1 DEF Shows
  <2>. QED BY <2>1, <2>2, FoundCharted DEF RowsIn
<1>2. ASSUME "balances" \in DOMAIN seen
      PROVE  \E L : Charted(L) /\ seen.balances = ByAccount(L)
  <2>1. PICK J : IsJournal(J) /\ Shows(J, "balances", seen["balances"])
    BY <1>2, Answered
  <2>2. seen.balances = RowsIn(J, BalanceTypes, First, ask.to)
    BY <2>1 DEF Shows
  <2>. QED BY <2>1, <2>2, FoundCharted DEF RowsIn
<1>. QED BY <1>1, <1>2

\* A trial balance cancels, also when something is posted between its queries.
LEMMA TrialBalanceTies == IInv => TrialBalanceCancels
<1>. SUFFICES ASSUME IInv, IsDone("trialBalance"), ask.centre = None
              PROVE  LET rows == TrialBalance
                     IN  /\ SumOver([a \in DOMAIN rows |-> rows[a].debit])
                              = SumOver([a \in DOMAIN rows |-> rows[a].credit])
                         /\ SumOver([a \in DOMAIN rows |-> Signed(a, rows[a].closing)]) = 0
  BY Zenon DEF TrialBalanceCancels
<1>1. "opening" \in DOMAIN seen /\ "period" \in DOMAIN seen
  BY DoneHas DEF Reports, Plan
<1>2. PICK J : IsJournal(J) /\ Shows(J, "opening", seen["opening"])
  BY <1>1, Answered
<1>3. PICK K : IsJournal(K) /\ Shows(K, "period", seen["period"])
  BY <1>1, Answered
<1>. DEFINE L == LinesIn(J, Accounts, First, Before(ask.from), None)
            M == LinesIn(K, Accounts, ask.from, ask.to, None)
<1>4. seen.opening = ByAccount(L) /\ seen.period = ByAccount(M)
  <2>1. AccountsOfTypes(AllTypes) = Accounts
    BY Types
  <2>2. /\ seen.opening = RowsIn(J, AllTypes, First, Before(ask.from))
        /\ seen.period = RowsIn(K, AllTypes, ask.from, ask.to)
    BY <1>2, <1>3 DEF Shows
  <2>. QED BY <2>1, <2>2, Zenon DEF RowsIn
<1>5. Charted(L) /\ Charted(M) /\ NetDebit(L) = 0 /\ NetDebit(M) = 0
  BY <1>2, <1>3, FoundCharted, FoundCancels
<1>. HIDE DEF L, M
<1>. QED BY <1>4, <1>5, TrialCancels

\* A cash flow nobody disturbs explains cash.
LEMMA CashFlowTies == IInv => CashFlowExplainsCash
<1>. SUFFICES ASSUME IInv, IsDone("cashFlow"), ~disturbed
              PROVE  CashFlow.opening + CashFlow.netChange = CashFlow.closing
  BY Zenon DEF CashFlowExplainsCash, Undisturbed
<1>1. "cashBefore" \in DOMAIN seen /\ "cashThrough" \in DOMAIN seen /\ "cashEntries" \in DOMAIN seen
  BY DoneHas DEF Reports, Plan
<1>2. /\ Shows(journal, "cashBefore", seen["cashBefore"])
      /\ Shows(journal, "cashThrough", seen["cashThrough"])
      /\ Shows(journal, "cashEntries", seen["cashEntries"])
  BY <1>1, Answered
<1>3. /\ seen.cashBefore = NetDebit(CashIn(journal, First, Before(ask.from)))
      /\ seen.cashThrough = NetDebit(CashIn(journal, First, ask.to))
      /\ seen.cashEntries = [e \in {p[1] : p \in CashIn(journal, ask.from, ask.to)} |->
                               NetDebit({p \in CashIn(journal, ask.from, ask.to) : p[1] = e})]
  BY <1>2 DEF Shows
<1>4. ask.from \in Days /\ ask.to \in Days /\ ask.from <= ask.to
  BY DoneHas DEF Reports
<1>5. IsJournal(journal)
  BY DEF IInv, CommittedInv
<1>. QED BY <1>3, <1>4, <1>5, CashExplained

\* The legal layouts agree with the plain ones.
LEMMA LegalTies == IInv => LegalAgreesWithPlain
<1>. SUFFICES ASSUME IInv
              PROVE  LegalAgreesWithPlain
  OBVIOUS
<1>1. ASSUME IsDone("incomeStatementLegal"), Classified(seen.movement)
      PROVE  LucroLiquido = NetResult
  <2>1. "movement" \in DOMAIN seen /\ "accounts" \in DOMAIN seen
    BY <1>1, DoneHas DEF Reports, Plan
  <2>2. IsChart(seen.accounts)
    BY <2>1 DEF IInv, SeenInv
  <2>3. PICK L : Charted(L) /\ seen.movement = ByAccount(L)
    BY <2>1, RowsSeen
  <2>. QED BY <1>1, <2>2, <2>3, LegalResult
<1>2. ASSUME IsDone("balanceSheetLegal"), Classified(seen.balances)
      PROVE  /\ TotalAtivo = BalanceSheet.assets
             /\ ~disturbed /\ ask.centre = None => TotalAtivo = TotalPassivoMaisPatrimonioLiquido
  <2>1. "balances" \in DOMAIN seen /\ "results" \in DOMAIN seen /\ "accounts" \in DOMAIN seen
    BY <1>2, DoneHas DEF Reports, Plan
  <2>2. IsChart(seen.accounts)
    BY <2>1 DEF IInv, SeenInv
  <2>3. PICK L : Charted(L) /\ seen.balances = ByAccount(L)
    BY <2>1, RowsSeen
  <2>4. "ASSET" \in AllTypes /\ "LIABILITY" \in AllTypes /\ "EQUITY" \in AllTypes
    BY DEF AllTypes, BalanceTypes
  <2>5. \A t \in AllTypes : GroupsTotal(GroupsOfType(t)) = TotalOfType(seen.balances, t)
    BY <1>2, <2>2, <2>3, LegalTotals
  <2>6. TotalAtivo = BalanceSheet.assets
    BY <2>4, <2>5 DEF TotalAtivo, BalanceSheet
  <2>7. ASSUME ~disturbed, ask.centre = None
        PROVE  TotalAtivo = TotalPassivoMaisPatrimonioLiquido
    <3>1. /\ Shows(journal, "balances", seen["balances"])
          /\ Shows(journal, "results", seen["results"])
      BY <2>1, <2>7, Answered
    <3>2. /\ seen.balances = RowsIn(journal, BalanceTypes, First, ask.to)
          /\ seen.results = RowsIn(journal, ResultTypes, First, ask.to)
      BY <3>1 DEF Shows
    <3>3. IsJournal(journal)
      BY DEF IInv, CommittedInv
    <3>4. /\ BalanceSheet.assets = BalanceSheet.liabilities + BalanceSheet.equity
          /\ TotalOfType(seen.balances, "LIABILITY") \in Int
          /\ TotalOfType(seen.balances, "EQUITY") \in Int /\ NetIncome \in Int
      BY <2>7, <3>2, <3>3, SheetBalances
    <3>5. TotalPassivoMaisPatrimonioLiquido
            = TotalOfType(seen.balances, "LIABILITY") + TotalOfType(seen.balances, "EQUITY")
                + NetIncome
      BY <2>4, <2>5 DEF TotalPassivoMaisPatrimonioLiquido
    <3>. QED BY <2>6, <3>4, <3>5 DEF BalanceSheet
  <2>. QED BY <2>6, <2>7
<1>. QED BY <1>1, <1>2, Zenon DEF LegalAgreesWithPlain

\* What the invariant says of a state is all the statements need to tie.
LEMMA Ties == IInv => StatementsTie
<1>. SUFFICES ASSUME IInv
              PROVE  StatementsTie
  OBVIOUS
<1>1. TrialBalanceCancels /\ CashFlowExplainsCash /\ LegalAgreesWithPlain
  BY TrialBalanceTies, CashFlowTies, LegalTies
<1>2. IsJournal(journal)
  BY DEF IInv, CommittedInv
<1>3. ASSUME Undisturbed("trialBalance"), NEW a \in Accounts
      PROVE  LET row == IF a \in DOMAIN TrialBalance THEN TrialBalance[a]
                        ELSE [opening |-> 0, closing |-> 0]
             IN  /\ row.opening = Signed(a, Balance(a, Before(ask.from)))
                 /\ row.closing = Signed(a, Balance(a, ask.to))
  <2>1. IsDone("trialBalance") /\ ~disturbed /\ "trialBalance" \in Reports
    BY <1>3 DEF Undisturbed, Reports
  <2>2. "opening" \in DOMAIN seen /\ "period" \in DOMAIN seen
    BY <2>1, DoneHas DEF Plan
  <2>3. Shows(journal, "opening", seen["opening"]) /\ Shows(journal, "period", seen["period"])
    BY <2>1, <2>2, Answered
  <2>4. /\ seen.opening = RowsIn(journal, AllTypes, First, Before(ask.from))
        /\ seen.period = RowsIn(journal, AllTypes, ask.from, ask.to)
    BY <2>3 DEF Shows
  <2>5. ask.from \in Days /\ ask.to \in Days /\ ask.from <= ask.to
    BY <2>1, DoneHas
  <2>. QED BY <1>2, <2>4, <2>5, TrialAgrees
<1>4. ASSUME Undisturbed("generalLedger")
      PROVE  /\ GeneralLedger.opening = Signed(ask.account, Balance(ask.account, Before(ask.from)))
             /\ GeneralLedger.closing = Signed(ask.account, Balance(ask.account, ask.to))
  <2>1. IsDone("generalLedger") /\ ~disturbed /\ "generalLedger" \in Reports
    BY <1>4 DEF Undisturbed, Reports
  <2>2. "ownOpening" \in DOMAIN seen /\ "lines" \in DOMAIN seen
    BY <2>1, DoneHas DEF Plan
  <2>3. Shows(journal, "ownOpening", seen["ownOpening"]) /\ Shows(journal, "lines", seen["lines"])
    BY <2>1, <2>2, Answered
  <2>4. /\ seen.ownOpening = NetDebit(OwnIn(journal, First, Before(ask.from)))
        /\ seen.lines = OwnIn(journal, ask.from, ask.to)
    BY <2>3 DEF Shows
  <2>5. ask.from \in Days /\ ask.to \in Days /\ ask.from <= ask.to /\ ask.account \in Accounts
    BY <2>1, DoneHas
  <2>. QED BY <1>2, <2>4, <2>5, LedgerAgrees
<1>5. ASSUME Undisturbed("incomeStatement")
      PROVE  NetResult = BalanceOf(AccountsOfTypes(ResultTypes), Before(ask.from))
                           - BalanceOf(AccountsOfTypes(ResultTypes), ask.to)
  <2>1. IsDone("incomeStatement") /\ ~disturbed /\ "incomeStatement" \in Reports
    BY <1>5 DEF Undisturbed, Reports
  <2>2. "movement" \in DOMAIN seen
    BY <2>1, DoneHas DEF Plan
  <2>3. Shows(journal, "movement", seen["movement"])
    BY <2>1, <2>2, Answered
  <2>4. seen.movement = RowsIn(journal, ResultTypes, ask.from, ask.to)
    BY <2>3 DEF Shows
  <2>5. ask.from \in Days /\ ask.to \in Days /\ ask.from <= ask.to
    BY <2>1, DoneHas
  <2>. QED BY <1>2, <2>4, <2>5, IncomeAgrees
<1>6. ASSUME Undisturbed("balanceSheet"), ask.centre = None
      PROVE  BalanceSheet.assets = BalanceSheet.liabilities + BalanceSheet.equity
  <2>1. IsDone("balanceSheet") /\ ~disturbed /\ "balanceSheet" \in Reports
    BY <1>6 DEF Undisturbed, Reports
  <2>2. "balances" \in DOMAIN seen /\ "results" \in DOMAIN seen
    BY <2>1, DoneHas DEF Plan
  <2>3. /\ Shows(journal, "balances", seen["balances"])
        /\ Shows(journal, "results", seen["results"])
    BY <2>1, <2>2, Answered
  <2>4. /\ seen.balances = RowsIn(journal, BalanceTypes, First, ask.to)
        /\ seen.results = RowsIn(journal, ResultTypes, First, ask.to)
    BY <2>3 DEF Shows
  <2>. QED BY <1>2, <1>6, <2>4, SheetBalances
<1>. QED BY <1>1, <1>3, <1>4, <1>5, <1>6, Zenon DEF StatementsTie

\* Reports agree with the books and with each other: a trial balance cancels
\* whatever is posted between its two queries, and reports nobody posts under
\* open and close with the balances of the journal.
THEOREM StatementsAgree == BooksSpec => []StatementsTie
BY Strong, Ties, PTL

-----------------------------------------------------------------------------
(* Closing records *)

\* Every closing record of some lines counts the lines of its block.
Right(lines) ==
  /\ IsFiniteSet(lines)
  /\ \A l \in lines : l[2] = "990" => l[4] = <<InBlock(lines, l[1])>>

\* What a line is made of.
LEMMA LineHas ==
  ASSUME NEW b, NEW r, NEW a, NEW f
  PROVE  /\ Line(b, r, a, f)[1] = b /\ Line(b, r, a, f)[2] = r
         /\ Line(b, r, a, f)[3] = a /\ Line(b, r, a, f)[4] = f
         /\ Plain(b, r) = Line(b, r, None, <<>>) /\ Figures(b, r, f) = Line(b, r, None, f)
BY DEF Line, Plain, Figures

\* Lines of other blocks do not count.
LEMMA OthersDoNotCount ==
  ASSUME NEW L, NEW M, NEW b, \A l \in M : l[1] # b
  PROVE  InBlock(L \cup M, b) = InBlock(L, b) /\ InBlock(M \cup L, b) = InBlock(L, b)
<1>1. /\ {l \in L \cup M : l[1] = b} = {l \in L : l[1] = b}
      /\ {l \in M \cup L : l[1] = b} = {l \in L : l[1] = b}
  OBVIOUS
<1>. QED BY <1>1 DEF InBlock

\* Lines without a closing record are right, and so are some together with others
\* of other blocks.
LEMMA RightTogether ==
  ASSUME NEW L, NEW M
  PROVE  /\ IsFiniteSet(L) /\ (\A l \in L : l[2] # "990") => Right(L)
         /\ Right(L) /\ Right(M) /\ (\A l \in L, m \in M : l[1] # m[1]) => Right(L \cup M)
<1>1. ASSUME Right(L), Right(M), \A l \in L, m \in M : l[1] # m[1]
      PROVE  Right(L \cup M)
  <2>1. IsFiniteSet(L \cup M)
    BY <1>1, FS_Union DEF Right
  <2>2. ASSUME NEW l \in L
        PROVE  InBlock(L \cup M, l[1]) = InBlock(L, l[1])
    <3>1. \A m \in M : m[1] # l[1]
      BY <1>1
    <3>. QED BY <3>1, OthersDoNotCount, ZenonT(60)
  <2>3. ASSUME NEW m \in M
        PROVE  InBlock(L \cup M, m[1]) = InBlock(M, m[1])
    <3>1. \A l \in L : l[1] # m[1]
      BY <1>1
    <3>. QED BY <3>1, OthersDoNotCount, ZenonT(60)
  <2>. QED BY <1>1, <2>1, <2>2, <2>3 DEF Right
<1>. QED BY <1>1 DEF Right

\* Lines are right with the closing record of a block that had none.
LEMMA RightClosed ==
  ASSUME NEW L, Right(L), NEW b, \A l \in L : l[1] = b => l[2] # "990"
  PROVE  /\ Right(Closed(L, b))
         /\ \A l \in Closed(L, b) : l \in L \/ (l[1] = b /\ l[2] = "990")
<1>. DEFINE n == InBlock(L, b)
            x == Figures(b, "990", <<n + 1>>)
            mine == {l \in L : l[1] = b}
<1>1. x[1] = b /\ x[2] = "990" /\ x[4] = <<n + 1>> /\ x \notin L
  BY LineHas
<1>2. Closed(L, b) = L \cup {x}
  BY DEF Closed
<1>3. IsFiniteSet(L) /\ IsFiniteSet(mine) /\ Cardinality(mine) = n
  BY FS_Subset DEF Right, InBlock
<1>4. {l \in L \cup {x} : l[1] = b} = mine \cup {x} /\ x \notin mine
  BY <1>1
<1>. HIDE DEF x, mine
<1>5. IsFiniteSet(L \cup {x}) /\ Cardinality(mine \cup {x}) = n + 1
  BY <1>3, <1>4, FS_AddElement
<1>6. InBlock(L \cup {x}, b) = n + 1
  BY <1>4, <1>5 DEF InBlock
<1>7. ASSUME NEW l \in L, l[2] = "990"
      PROVE  InBlock(L \cup {x}, l[1]) = InBlock(L, l[1])
  <2>1. \A m \in {x} : m[1] # l[1]
    BY <1>1, <1>7
  <2>. QED BY <2>1, OthersDoNotCount, ZenonT(60)
<1>8. Right(L \cup {x})
  <2>1. ASSUME NEW l \in L, l[2] = "990"
        PROVE  l[4] = <<InBlock(L \cup {x}, l[1])>>
    <3>1. l[4] = <<InBlock(L, l[1])>>
      BY <2>1 DEF Right
    <3>. QED BY <1>7, <2>1, <3>1
  <2>2. x[4] = <<InBlock(L \cup {x}, x[1])>>
    BY <1>1, <1>6
  <2>. QED BY <1>5, <2>1, <2>2 DEF Right
<1>9. \A l \in L \cup {x} : l \in L \/ (l[1] = b /\ l[2] = "990")
  BY <1>1
<1>. QED BY <1>2, <1>8, <1>9, Zenon

\* The last record of a file counts its lines.
LEMMA EndedCounts ==
  ASSUME NEW L, Right(L), \A l \in L : l[1] # "9"
  PROVE  CountsItsLines(Ended(L))
<1>. DEFINE x == Plain("9", "001")
            y == Figures("9", "990", <<2>>)
            n == Cardinality(L)
            z == Figures("9", "999", <<n + 3>>)
            N == {x, y, z}
<1>1. /\ x[1] = "9" /\ x[2] = "001" /\ y[1] = "9" /\ y[2] = "990"
      /\ z[1] = "9" /\ z[2] = "999"
  BY DEF Plain, Figures, Line
<1>2. Ended(L) = L \cup {x, y, z} /\ Ended(L) = ((L \cup {x}) \cup {y}) \cup {z}
  BY DEF Ended
<1>3. x \notin L /\ y \notin L \cup {x} /\ z \notin (L \cup {x}) \cup {y}
  <2>. HIDE DEF x, y, z
  <2>. QED BY <1>1
<1>4. IsFiniteSet(L) /\ n \in Nat
  BY FS_CardinalityType DEF Right
<1>. HIDE DEF x, y, z
<1>5. IsFiniteSet(L \cup {x}) /\ Cardinality(L \cup {x}) = n + 1
  BY <1>3, <1>4, FS_AddElement
<1>6. IsFiniteSet((L \cup {x}) \cup {y}) /\ Cardinality((L \cup {x}) \cup {y}) = (n + 1) + 1
  BY <1>3, <1>5, FS_AddElement
<1>7. Cardinality(((L \cup {x}) \cup {y}) \cup {z}) = ((n + 1) + 1) + 1
  BY <1>3, <1>6, FS_AddElement
<1>8. Cardinality(Ended(L)) = n + 3
  BY <1>2, <1>4, <1>7
<1>9. Records(Ended(L), "9", "999") = {z}
  BY <1>1, <1>2 DEF Records
<1>10. ASSUME NEW l \in Ended(L), l[2] = "990", l[1] # "9"
       PROVE  l[4] = <<InBlock(Ended(L), l[1])>>
  <2>1. l \in L
    BY <1>1, <1>2, <1>10
  <2>2. l[4] = <<InBlock(L, l[1])>>
    BY <1>10, <2>1 DEF Right
  <2>3. \A m \in N : m[1] # l[1]
    BY <1>1, <1>10
  <2>4. InBlock(L \cup N, l[1]) = InBlock(L, l[1])
    BY <2>3, OthersDoNotCount, ZenonT(60)
  <2>. QED BY <1>2, <2>2, <2>4
<1>. QED BY <1>8, <1>9, <1>10 DEF CountsItsLines, z

\* Lines of a block but its closing record, of which n counts them and itself.
Written(lines, b, n) ==
  /\ IsFiniteSet(lines) /\ n = Cardinality(lines) + 1
  /\ \A l \in lines : l[1] = b /\ l[2] # "990"

\* A closing record with the number written down is right when it is that of its
\* lines.
LEMMA RightWritten ==
  ASSUME NEW L, NEW b, NEW n, Written(L, b, n)
  PROVE  /\ Right(L \cup {Figures(b, "990", <<n>>)})
         /\ \A l \in L \cup {Figures(b, "990", <<n>>)} : l[1] = b
<1>. USE DEF Written
<1>1. {l \in L : l[1] = b} = L
  OBVIOUS
<1>2. Right(L) /\ InBlock(L, b) = Cardinality(L)
  BY <1>1, RightTogether DEF InBlock
<1>3. Right(Closed(L, b))
  BY <1>2, RightClosed
<1>4. Closed(L, b) = L \cup {Figures(b, "990", <<n>>)}
  BY <1>2 DEF Closed
<1>5. Figures(b, "990", <<n>>)[1] = b
  BY DEF Figures, Line
<1>. QED BY <1>3, <1>4, <1>5

\* Three different lines, and five.
Differ(x, y) == x[2] # y[2]

LEMMA FewLines ==
  ASSUME NEW v, NEW w, NEW x, Differ(v, w), Differ(v, x), Differ(w, x)
  PROVE  IsFiniteSet({v, w, x}) /\ Cardinality({v, w, x}) = 3
<1>1. IsFiniteSet({v}) /\ Cardinality({v}) = 1
  BY FS_Singleton
<1>2. {v} \cup {w} = {v, w} /\ w \notin {v} /\ {v, w} \cup {x} = {v, w, x} /\ x \notin {v, w}
  BY DEF Differ
<1>3. IsFiniteSet({v, w}) /\ Cardinality({v, w}) = 2
  BY <1>1, <1>2, FS_AddElement
<1>. QED BY <1>2, <1>3, FS_AddElement

LEMMA FiveLines ==
  ASSUME NEW v, NEW w, NEW x, Differ(v, w), Differ(v, x), Differ(w, x),
         NEW y, Differ(v, y), Differ(w, y), Differ(x, y),
         NEW z, Differ(v, z), Differ(w, z), Differ(x, z), Differ(y, z)
  PROVE  IsFiniteSet({v, w, x, y, z}) /\ Cardinality({v, w, x, y, z}) = 5
<1>1. /\ {v, w, x} \cup {y} = {v, w, x, y} /\ y \notin {v, w, x}
      /\ {v, w, x, y} \cup {z} = {v, w, x, y, z} /\ z \notin {v, w, x, y}
  BY DEF Differ
<1>2. IsFiniteSet({v, w, x}) /\ Cardinality({v, w, x}) = 3
  BY FewLines
<1>3. IsFiniteSet({v, w, x, y}) /\ Cardinality({v, w, x, y}) = 4
  BY <1>1, <1>2, FS_AddElement
<1>. QED BY <1>1, <1>3, FS_AddElement


\* A finite union of finite sets is finite.
LEMMA UnionFinite ==
  ASSUME NEW S, IsFiniteSet(S), NEW w, \A x \in S : IsFiniteSet(w[x])
  PROVE  IsFiniteSet(UNION {w[x] : x \in S})
<1>. DEFINE R == {w[x] : x \in S}
<1>1. IsFiniteSet(R)
  BY ImageFinite
<1>2. \A T \in R : IsFiniteSet(T)
  OBVIOUS
<1>. HIDE DEF R
<1>3. IsFiniteSet(UNION R)
  BY <1>1, <1>2, FS_UNION
<1>. QED BY <1>3 DEF R

\* What the queries of a file have seen is finite, and what it should be.
LEMMA FileSees ==
  ASSUME IInv
  PROVE  /\ "documents" \in DOMAIN seen =>
              /\ IsFiniteSet(seen.documents)
              /\ \A d \in seen.documents :
                   IsFiniteSet(DOMAIN d.items) /\ d.icms \in Nat /\ d.total \in Nat
         /\ "entries" \in DOMAIN seen => IsJournal(seen.entries)
         /\ "centres" \in DOMAIN seen => IsFiniteSet(seen.centres)
<1>1. ASSUME "documents" \in DOMAIN seen
      PROVE  /\ IsFiniteSet(seen.documents)
             /\ \A d \in seen.documents :
                  IsFiniteSet(DOMAIN d.items) /\ d.icms \in Nat /\ d.total \in Nat
  <2>1. AreDocuments(seen.documents)
    BY <1>1 DEF IInv, SeenInv
  <2>2. ASSUME NEW d \in seen.documents
        PROVE  IsFiniteSet(DOMAIN d.items) /\ d.icms \in Nat /\ d.total \in Nat
    <3>1. d \in FiscalDraft
      BY <2>1, DraftsAssumption DEF AreDocuments
    <3>2. d.items \in Seq(STRING) /\ d.icms \in Nat /\ d.total \in Nat
      BY <3>1 DEF FiscalDraft
    <3>3. PICK n \in Nat : DOMAIN d.items = 1 .. n
      BY <3>2
    <3>. QED BY <3>2, <3>3, FS_Interval
  <2>. QED BY <2>1, <2>2 DEF AreDocuments
<1>2. ASSUME "entries" \in DOMAIN seen
      PROVE  IsJournal(seen.entries)
  <2>1. PICK J : IsJournal(J) /\ Shows(J, "entries", seen["entries"])
    BY <1>2, Answered
  <2>2. seen.entries = {e \in J : e.day \in ask.from .. ask.to}
    BY <2>1 DEF Shows
  <2>3. seen.entries \in SUBSET J
    BY <2>2
  <2>. QED BY <2>1, <2>3, FS_Subset DEF IsJournal
<1>3. ASSUME "centres" \in DOMAIN seen
      PROVE  IsFiniteSet(seen.centres)
  <2>1. PICK J : IsJournal(J) /\ Shows(J, "centres", seen["centres"])
    BY <1>3, Answered
  <2>. DEFINE S == {k \in LinesIn(J, Accounts, ask.from, ask.to, None) : LineOf(k).centre # None}
              w == [p \in S |-> <<LineOf(p).account, LineOf(p).centre>>]
  <2>2. seen.centres = {<<LineOf(p).account, LineOf(p).centre>> : p \in S}
    BY <2>1 DEF Shows
  <2>3. seen.centres = {w[p] : p \in S}
    BY <2>2
  <2>4. IsFiniteSet(S)
    BY <2>1, FoundSound, FS_Subset DEF Sound
  <2>. HIDE DEF S, w
  <2>. QED BY <2>3, <2>4, ImageFinite
<1>. QED BY <1>1, <1>2, <1>3

\* The closing records of an ECD.
LEMMA EcdCounts ==
  ASSUME IInv, IsDone("ecd")
  PROVE  CountsItsLines(Ecd)
<1>. DEFINE K == {Plain("0", "000"), Plain("0", "001"), Plain("I", "001"), Plain("I", "010"),
                  Plain("I", "030")}
            w1 == [a \in Accounts |-> Line("I", "050", a, <<>>)]
            w2 == [a \in Analytic |-> EcdBalance(a)]
            w3 == [c \in seen.centres |-> Line("I", "155", c, <<>>)]
            w4 == [e \in seen.entries |-> EcdEntry(e)]
            B1 == {w1[a] : a \in Accounts}
            B2 == {w2[a] : a \in Analytic}
            B3 == {w3[c] : c \in seen.centres}
            B4 == UNION {w4[e] : e \in seen.entries}
            L == K \cup B1 \cup B2 \cup B3 \cup B4
<1>1. "entries" \in DOMAIN seen /\ "centres" \in DOMAIN seen
  BY DoneHas DEF Reports, Plan
<1>2. IsJournal(seen.entries) /\ IsFiniteSet(seen.entries) /\ IsFiniteSet(seen.centres)
  BY <1>1, FileSees DEF IsJournal
<1>3. IsFiniteSet(Accounts) /\ IsFiniteSet(Analytic)
  BY ChartAssumption, FS_Subset DEF Analytic
<1>4. Ecd = Ended(Closed(L, "I"))
  <2>1. /\ B1 = {Line("I", "050", a, <<>>) : a \in Accounts}
        /\ B2 = {EcdBalance(a) : a \in Analytic}
        /\ B3 = {Line("I", "155", c, <<>>) : c \in seen.centres}
        /\ {w4[e] : e \in seen.entries} = {EcdEntry(e) : e \in seen.entries}
    OBVIOUS
  <2>. HIDE DEF K, B1, B2, B3
  <2>. QED BY <2>1, Zenon DEF Ecd, K
<1>5. \A l \in L : l[1] \in {"0", "I"} /\ l[2] # "990"
  <2>1. \A l \in K : l[1] \in {"0", "I"} /\ l[2] # "990"
    BY DEF Plain, Line
  <2>2. \A l \in B2 : l[1] = "I" /\ l[2] = "150"
    BY DEF EcdBalance, Line
  <2>3. \A l \in B1 : l[1] = "I" /\ l[2] = "050"
    BY DEF Line
  <2>4. ASSUME NEW e \in seen.entries, NEW l \in EcdEntry(e)
        PROVE  l[1] = "I" /\ l[2] \in {"200", "250"}
    BY DEF EcdEntry, EcdLine, Line
  <2>5. \A l \in B4 : l[1] = "I" /\ l[2] \in {"200", "250"}
    BY <2>4
  <2>6. \A l \in B3 : l[1] = "I" /\ l[2] = "155"
    <3>1. ASSUME NEW c \in seen.centres
          PROVE  w3[c][1] = "I" /\ w3[c][2] = "155"
      BY DEF Line
    <3>. HIDE DEF w3
    <3>. QED BY <3>1
  <2>. HIDE DEF K, B1, B2, B3, B4
  <2>. QED BY <2>1, <2>2, <2>3, <2>5, <2>6
<1>6. IsFiniteSet(L)
  <2>1. ASSUME NEW e \in seen.entries
        PROVE  IsFiniteSet(w4[e])
    <3>. DEFINE S == {e} \X DOMAIN e.lines
                w == [p \in S |-> EcdLine(p)]
    <3>1. w4[e] = {Line("I", "200", e, <<>>)} \cup {w[p] : p \in S}
      BY DEF EcdEntry
    <3>2. IsFiniteSet(S)
      BY <1>2, EntryHas, FS_Singleton, FS_Product DEF IsJournal
    <3>. HIDE DEF S, w, w4
    <3>3. IsFiniteSet({w[p] : p \in S})
      BY <3>2, ImageFinite
    <3>4. IsFiniteSet({Line("I", "200", e, <<>>)})
      BY FS_Singleton
    <3>. QED BY <3>1, <3>3, <3>4, FS_Union, ZenonT(60)
  <2>2. IsFiniteSet(K)
    BY FewFinite
  <2>. HIDE DEF w1, w2, w3, w4, K
  <2>3. IsFiniteSet(B1) /\ IsFiniteSet(B2) /\ IsFiniteSet(B3)
    BY <1>2, <1>3, ImageFinite
  <2>4. IsFiniteSet(B4)
    BY <1>2, <2>1, UnionFinite
  <2>. HIDE DEF B1, B2, B3, B4
  <2>. QED BY <2>2, <2>3, <2>4, FS_Union
<1>. HIDE DEF L
<1>7. Right(L)
  BY <1>5, <1>6, RightTogether
<1>8. Right(Closed(L, "I")) /\ \A l \in Closed(L, "I") : l[1] # "9"
  BY <1>5, <1>7, RightClosed
<1>. QED BY <1>4, <1>8, EndedCounts


\* Those of an ECF.
LEMMA EcfCounts ==
  ASSUME IInv, IsDone("ecf")
  PROVE  CountsItsLines(Ecf)
<1>. DEFINE zero == {Plain("0", "000"), Plain("0", "001"), Plain("0", "010")}
            n == Figures("0", "990", <<4>>)
            K == {Plain("J", "001"),
                  Figures("J", "215", <<TotalReceitas, TotalDespesas, TotalReceitas - TotalDespesas>>)}
            w1 == [a \in Accounts |-> Line("J", "050", a, <<>>)]
            w2 == [a \in ResultAccounts |-> Line("J", "210", a, <<Amount(seen.movement, a)>>)]
            B1 == {w1[a] : a \in Accounts}
            B2 == {w2[a] : a \in ResultAccounts}
            M == K \cup B1 \cup B2
            L == (zero \cup {n}) \cup M
<1>1. IsFiniteSet(Accounts) /\ IsFiniteSet(ResultAccounts)
  BY ChartAssumption, FS_Subset DEF ResultAccounts, Analytic
<1>2. Ecf = Ended(Closed(L, "J"))
  <2>1. /\ B1 = {Line("J", "050", a, <<>>) : a \in Accounts}
        /\ B2 = {Line("J", "210", a, <<Amount(seen.movement, a)>>) : a \in ResultAccounts}
    OBVIOUS
  <2>2. L = {Plain("0", "000"), Plain("0", "001"), Plain("0", "010"), Figures("0", "990", <<4>>),
             Plain("J", "001")}
            \cup B1 \cup B2
            \cup {Figures("J", "215", <<TotalReceitas, TotalDespesas, TotalReceitas - TotalDespesas>>)}
    <3>. HIDE DEF B1, B2
    <3>. QED OBVIOUS
  <2>. HIDE DEF L, B1, B2
  <2>. QED BY <2>1, <2>2, Zenon DEF Ecf
<1>3. Right(zero \cup {n}) /\ \A l \in zero \cup {n} : l[1] = "0"
  <2>1. /\ Differ(Plain("0", "000"), Plain("0", "001"))
        /\ Differ(Plain("0", "000"), Plain("0", "010"))
        /\ Differ(Plain("0", "001"), Plain("0", "010"))
    BY DEF Differ, Plain, Line
  <2>2. IsFiniteSet(zero) /\ Cardinality(zero) = 3
    BY <2>1, FewLines
  <2>3. \A l \in zero : l[1] = "0" /\ l[2] # "990"
    BY DEF Plain, Line
  <2>. HIDE DEF zero
  <2>4. Written(zero, "0", 4)
    BY <2>2, <2>3 DEF Written
  <2>. QED BY <2>4, RightWritten
<1>4. IsFiniteSet(M)
  <2>1. IsFiniteSet(K)
    BY FewFinite
  <2>. HIDE DEF w1, w2, K
  <2>2. IsFiniteSet(B1) /\ IsFiniteSet(B2)
    BY <1>1, ImageFinite
  <2>. HIDE DEF B1, B2
  <2>. QED BY <2>1, <2>2, FS_Union
<1>5. \A l \in M : l[1] = "J" /\ l[2] # "990"
  <2>1. \A l \in K : l[1] = "J" /\ l[2] # "990"
    BY DEF Plain, Figures, Line
  <2>2. \A l \in B1 : l[1] = "J" /\ l[2] # "990"
    BY DEF Line
  <2>3. \A l \in B2 : l[1] = "J" /\ l[2] # "990"
    BY DEF Line
  <2>. HIDE DEF K, B1, B2
  <2>. QED BY <2>1, <2>2, <2>3
<1>. HIDE DEF zero, n, M
<1>6. Right(L)
  BY <1>3, <1>4, <1>5, RightTogether
<1>7. \A l \in L : l[1] \in {"0", "J"} /\ (l[1] = "J" => l[2] # "990")
  BY <1>3, <1>5
<1>. HIDE DEF L
<1>8. Right(Closed(L, "J")) /\ \A l \in Closed(L, "J") : l[1] # "9"
  BY <1>6, <1>7, RightClosed
<1>. QED BY <1>2, <1>8, EndedCounts

\* Lines of goods are finitely many lines of block C, without its closing record.
LEMMA GoodsAre ==
  ASSUME NEW D, IsFiniteSet(D), \A d \in D : IsFiniteSet(DOMAIN d.items), NEW taxes
  PROVE  /\ IsFiniteSet(UNION {Goods(d, taxes[d]) : d \in D})
         /\ \A l \in UNION {Goods(d, taxes[d]) : d \in D} :
              l[1] = "C" /\ l[2] \in {"100", "170", "190"}
<1>. DEFINE g == [d \in D |-> Goods(d, taxes[d])]
<1>1. ASSUME NEW d \in D
      PROVE  IsFiniteSet(g[d]) /\ \A l \in g[d] : l[1] = "C" /\ l[2] \in {"100", "170", "190"}
  <2>. DEFINE S == DOMAIN d.items
              w == [i \in S |-> Line("C", "170", <<d, i>>, <<>>)]
              K == {Line("C", "100", d, <<>>), Line("C", "190", d, taxes[d])}
  <2>1. g[d] = K \cup {w[i] : i \in S}
    BY DEF Goods
  <2>2. IsFiniteSet(S) /\ IsFiniteSet(K)
    BY FewFinite
  <2>3. \A l \in K : l[1] = "C" /\ l[2] \in {"100", "170", "190"}
    BY DEF Line
  <2>4. \A i \in S : w[i][1] = "C" /\ w[i][2] \in {"100", "170", "190"}
    BY DEF Line
  <2>. HIDE DEF S, w, K, g
  <2>5. IsFiniteSet({w[i] : i \in S})
    BY <2>2, ImageFinite
  <2>6. IsFiniteSet(K \cup {w[i] : i \in S})
    BY <2>2, <2>5, FS_Union
  <2>7. \A l \in K \cup {w[i] : i \in S} : l[1] = "C" /\ l[2] \in {"100", "170", "190"}
    BY <2>3, <2>4
  <2>. QED BY <2>1, <2>6, <2>7, Zenon
<1>2. {g[d] : d \in D} = {Goods(d, taxes[d]) : d \in D}
  OBVIOUS
<1>. HIDE DEF g
<1>3. IsFiniteSet(UNION {g[d] : d \in D})
  BY <1>1, UnionFinite, SMTT(30)
<1>4. \A l \in UNION {g[d] : d \in D} : l[1] = "C" /\ l[2] \in {"100", "170", "190"}
  BY <1>1
<1>. QED BY <1>2, <1>3, <1>4


\* A block of services: one line to open it, two for each document, one to close.
LEMMA ServicesAre ==
  ASSUME NEW D, IsFiniteSet(D), NEW p
  PROVE  LET block == {Figures("A", "001", p)} \cup (UNION {EfdService(d) : d \in D})
                        \cup {Figures("A", "990", <<2 * Cardinality(D) + 2>>)}
         IN  Right(block) /\ \A l \in block : l[1] = "A"
<1>. DEFINE x == Figures("A", "001", p)
            w1 == [d \in D |-> Line("A", "100", d, <<>>)]
            w2 == [d \in D |-> Line("A", "170", d, <<d.pis, d.cofins>>)]
            B1 == {w1[d] : d \in D}
            B2 == {w2[d] : d \in D}
            key1 == [l \in B1 |-> l[3]]
            key2 == [l \in B2 |-> l[3]]
            L == (B1 \cup B2) \cup {x}
            k == 2 * Cardinality(D) + 1
            n == 2 * Cardinality(D) + 2
<1>1. {x} \cup (UNION {EfdService(d) : d \in D}) = L
  BY DEF EfdService
<1>2. IsImage(B1, D, w1, key1) /\ IsImage(B2, D, w2, key2)
  BY DEF IsImage, Line
<1>3. x[1] = "A" /\ x[2] = "001"
  BY DEF Figures, Line
<1>4. \A d \in D : /\ w1[d][1] = "A" /\ w1[d][2] = "100"
                   /\ w2[d][1] = "A" /\ w2[d][2] = "170"
  BY DEF Line
<1>. HIDE DEF x, w1, w2, key1, key2
<1>5. /\ IsFiniteSet(B1) /\ Cardinality(B1) = Cardinality(D)
      /\ IsFiniteSet(B2) /\ Cardinality(B2) = Cardinality(D)
  BY <1>2, ImageFinite
<1>6. (\A l \in B1 : l[1] = "A" /\ l[2] = "100") /\ (\A l \in B2 : l[1] = "A" /\ l[2] = "170")
  BY <1>4
<1>. HIDE DEF B1, B2
<1>7. Cardinality(D) \in Nat /\ Cardinality({}) = 0
  BY FS_CardinalityType, FS_EmptySet
<1>8. B1 \cap B2 = {} /\ x \notin B1 \cup B2
  BY <1>3, <1>6
<1>9. IsFiniteSet(B1 \cup B2) /\ Cardinality(B1 \cup B2) = Cardinality(D) + Cardinality(D) - 0
  BY <1>5, <1>7, <1>8, FS_Union
<1>10. IsFiniteSet(L) /\ Cardinality(L) = k
  <2>1. IsFiniteSet(L) /\ Cardinality(L) = Cardinality(B1 \cup B2) + 1
    BY <1>8, <1>9, FS_AddElement
  <2>. QED BY <1>7, <1>9, <2>1
<1>11. \A l \in L : l[1] = "A" /\ l[2] # "990"
  BY <1>3, <1>6
<1>12. n = k + 1
  BY <1>7
<1>. HIDE DEF L, k, n
<1>13. /\ Right(L \cup {Figures("A", "990", <<n>>)})
       /\ \A l \in L \cup {Figures("A", "990", <<n>>)} : l[1] = "A"
  <2>1. Written(L, "A", n)
    BY <1>10, <1>11, <1>12 DEF Written
  <2>. QED BY <2>1, RightWritten
<1>. QED BY <1>1, <1>13, Zenon DEF n, x

\* Those of an EFD-Contribuições.
LEMMA EfdContribuicoesCounts ==
  ASSUME IInv, IsDone("efdContribuicoes")
  PROVE  CountsItsLines(EfdContribuicoes)
<1>. DEFINE base == Base(Servicos) + Base(Mercadorias)
            pis == base * seen.rates.pis
            cofins == base * seen.rates.cofins
            zero == {Plain("0", "000"), Figures("0", "001", Presence(seen.documents)),
                     Plain("0", "140")}
            Z == zero \cup {Figures("0", "990", <<4>>)}
            A == {Figures("A", "001", Presence(Servicos))}
                   \cup (UNION {EfdService(d) : d \in Servicos})
                   \cup {Figures("A", "990", <<2 * Cardinality(Servicos) + 2>>)}
            G == UNION {EfdGoods(d) : d \in Mercadorias}
            C == {Figures("C", "001", Presence(Mercadorias))} \cup G
            five == {Plain("M", "001"), Figures("M", "200", <<pis>>),
                     Figures("M", "210", <<base, pis>>), Figures("M", "600", <<cofins>>),
                     Figures("M", "610", <<base, cofins>>)}
            M == five \cup {Figures("M", "990", <<6>>)}
            L == (Z \cup A) \cup C
<1>1. "documents" \in DOMAIN seen
  BY DoneHas DEF Reports, Plan
<1>2. /\ IsFiniteSet(Servicos) /\ IsFiniteSet(Mercadorias)
      /\ \A d \in Mercadorias : IsFiniteSet(DOMAIN d.items)
  BY <1>1, FileSees, FS_Subset DEF Servicos, Mercadorias
<1>3. EfdContribuicoes = Ended(Closed(L, "C") \cup M)
  <2>1. L = {Plain("0", "000"), Figures("0", "001", Presence(seen.documents)), Plain("0", "140"),
             Figures("0", "990", <<4>>), Figures("A", "001", Presence(Servicos)),
             Figures("A", "990", <<2 * Cardinality(Servicos) + 2>>),
             Figures("C", "001", Presence(Mercadorias))}
            \cup (UNION {EfdService(d) : d \in Servicos}) \cup G
    <3>. DEFINE a == Plain("0", "000")
                b == Figures("0", "001", Presence(seen.documents))
                c == Plain("0", "140")
                d0 == Figures("0", "990", <<4>>)
                e == Figures("A", "001", Presence(Servicos))
                f == Figures("A", "990", <<2 * Cardinality(Servicos) + 2>>)
                g == Figures("C", "001", Presence(Mercadorias))
                U == UNION {EfdService(d) : d \in Servicos}
    <3>. HIDE DEF a, b, c, d0, e, f, g, U, G
    <3>1. (({a, b, c} \cup {d0}) \cup ({e} \cup U \cup {f})) \cup ({g} \cup G)
            = {a, b, c, d0, e, f, g} \cup U \cup G
      OBVIOUS
    <3>. QED BY <3>1, Zenon DEF a, b, c, d0, e, f, g, U
  <2>2. M = {Plain("M", "001"), Figures("M", "200", <<pis>>), Figures("M", "210", <<base, pis>>),
             Figures("M", "600", <<cofins>>), Figures("M", "610", <<base, cofins>>),
             Figures("M", "990", <<6>>)}
    <3>. HIDE DEF base, pis, cofins
    <3>. QED OBVIOUS
  <2>. HIDE DEF L, M
  <2>. QED BY <2>1, <2>2, Zenon DEF EfdContribuicoes
<1>4. Right(Z) /\ \A l \in Z : l[1] = "0"
  <2>. DEFINE v == Plain("0", "000")
              w == Figures("0", "001", Presence(seen.documents))
              x == Plain("0", "140")
  <2>1. v[2] = "000" /\ w[2] = "001" /\ x[2] = "140" /\ \A l \in {v, w, x} : l[1] = "0"
    BY DEF Plain, Figures, Line
  <2>. HIDE DEF v, w, x
  <2>2. IsFiniteSet({v, w, x}) /\ Cardinality({v, w, x}) = 3
    BY <2>1, FewLines DEF Differ
  <2>3. zero = {v, w, x} /\ \A l \in zero : l[1] = "0" /\ l[2] # "990"
    BY <2>1 DEF v, w, x
  <2>. HIDE DEF zero
  <2>4. Written(zero, "0", 4)
    BY <2>2, <2>3 DEF Written
  <2>. QED BY <2>4, RightWritten
<1>5. Right(A) /\ \A l \in A : l[1] = "A"
  BY <1>2, ServicesAre
<1>6. Right(C) /\ \A l \in C : l[1] = "C" /\ l[2] # "990"
  <2>. DEFINE taxes == [d \in Mercadorias |-> <<d.pis, d.cofins>>]
              c == Figures("C", "001", Presence(Mercadorias))
  <2>1. G = UNION {Goods(d, taxes[d]) : d \in Mercadorias}
    BY DEF EfdGoods
  <2>. HIDE DEF taxes, G
  <2>2. IsFiniteSet(G) /\ \A l \in G : l[1] = "C" /\ l[2] \in {"100", "170", "190"}
    BY <1>2, <2>1, GoodsAre
  <2>3. c[1] = "C" /\ c[2] = "001"
    BY DEF Figures, Line
  <2>. HIDE DEF c
  <2>4. IsFiniteSet({c} \cup G) /\ \A l \in {c} \cup G : l[1] = "C" /\ l[2] # "990"
    BY <2>2, <2>3, FS_Singleton, FS_Union
  <2>. QED BY <2>4, RightTogether DEF c
<1>7. Right(M) /\ \A l \in M : l[1] = "M"
  <2>. DEFINE v == Plain("M", "001")
              w == Figures("M", "200", <<pis>>)
              x == Figures("M", "210", <<base, pis>>)
              y == Figures("M", "600", <<cofins>>)
              z == Figures("M", "610", <<base, cofins>>)
  <2>. HIDE DEF base, pis, cofins
  <2>1. /\ v[2] = "001" /\ w[2] = "200" /\ x[2] = "210" /\ y[2] = "600" /\ z[2] = "610"
        /\ \A l \in {v, w, x, y, z} : l[1] = "M"
    BY DEF Plain, Figures, Line
  <2>2. five = {v, w, x, y, z}
    OBVIOUS
  <2>. HIDE DEF v, w, x, y, z, five
  <2>3. IsFiniteSet(five) /\ Cardinality(five) = 5
    BY <2>1, <2>2, FiveLines DEF Differ
  <2>4. \A l \in five : l[1] = "M" /\ l[2] # "990"
    BY <2>1, <2>2
  <2>5. Written(five, "M", 6)
    BY <2>3, <2>4 DEF Written
  <2>. QED BY <2>5, RightWritten
<1>. HIDE DEF Z, A, C, M
<1>8. Right(Z \cup A) /\ \A l \in Z \cup A : l[1] \in {"0", "A"}
  BY <1>4, <1>5, RightTogether
<1>9. Right(L) /\ \A l \in L : l[1] \in {"0", "A", "C"} /\ (l[1] = "C" => l[2] # "990")
  BY <1>6, <1>8, RightTogether
<1>. HIDE DEF L
<1>10. Right(Closed(L, "C")) /\ \A l \in Closed(L, "C") : l[1] \in {"0", "A", "C"}
  BY <1>9, RightClosed
<1>11. Right(Closed(L, "C") \cup M) /\ \A l \in Closed(L, "C") \cup M : l[1] # "9"
  BY <1>7, <1>10, RightTogether
<1>. QED BY <1>3, <1>11, EndedCounts


\* Those of an EFD ICMS/IPI.
LEMMA EfdIcmsCounts ==
  ASSUME IInv, IsDone("efdIcms")
  PROVE  CountsItsLines(EfdIcms)
<1>. DEFINE D == DocumentosMercadoria
            icms == SumOver([d \in D |-> d.icms])
            places == UNION {{d} \X DOMAIN d.items : d \in D}
            w1 == [d \in D |-> Line("0", "150", d.party, <<>>)]
            w2 == [p \in places |-> Line("0", "200", p[1].items[p[2]], <<>>)]
            K == {Plain("0", "000"), Figures("0", "001", Presence(D))}
            B1 == {w1[d] : d \in D}
            B2 == {w2[p] : p \in places}
            Z == K \cup B1 \cup B2
            G == UNION {EfdIcmsDocument(d) : d \in D}
            c == Figures("C", "001", Presence(D))
            three == {Plain("E", "001"), Plain("E", "100"), Figures("E", "110", <<icms>>)}
            E == three \cup {Figures("E", "990", <<4>>)}
            L == Closed(Z, "0") \cup ({c} \cup G)
<1>1. "documents" \in DOMAIN seen
  BY DoneHas DEF Reports, Plan
<1>2. IsFiniteSet(D) /\ \A d \in D : IsFiniteSet(DOMAIN d.items)
  BY <1>1, FileSees, FS_Subset DEF DocumentosMercadoria
<1>3. EfdIcms = Ended(Closed(L, "C") \cup E)
  <2>1. Z = {Plain("0", "000"), Figures("0", "001", Presence(D))}
            \cup {Line("0", "150", d.party, <<>>) : d \in D}
            \cup {Line("0", "200", p[1].items[p[2]], <<>>) : p \in places}
    <3>1. /\ B1 = {Line("0", "150", d.party, <<>>) : d \in D}
          /\ B2 = {Line("0", "200", p[1].items[p[2]], <<>>) : p \in places}
      OBVIOUS
    <3>. HIDE DEF B1, B2, places
    <3>. QED BY <3>1, Zenon
  <2>2. L = Closed(Z, "0") \cup {c} \cup G
    <3>. HIDE DEF Z, c, G
    <3>. QED OBVIOUS
  <2>3. E = {Plain("E", "001"), Plain("E", "100"), Figures("E", "110", <<icms>>),
             Figures("E", "990", <<4>>)}
    <3>. HIDE DEF icms
    <3>. QED OBVIOUS
  <2>. HIDE DEF Z, L, E
  <2>. QED BY <2>1, <2>2, <2>3, Zenon DEF EfdIcms
<1>4. Right(Z) /\ \A l \in Z : l[1] = "0" /\ l[2] # "990"
  <2>1. \A l \in K : l[1] = "0" /\ l[2] # "990"
    BY DEF Plain, Figures, Line
  <2>2. \A d \in D : w1[d][1] = "0" /\ w1[d][2] = "150"
    BY DEF Line
  <2>3. \A p \in places : w2[p][1] = "0" /\ w2[p][2] = "200"
    BY DEF Line
  <2>4. IsFiniteSet(places)
    <3>. DEFINE w == [d \in D |-> {d} \X DOMAIN d.items]
    <3>1. places = UNION {w[d] : d \in D}
      OBVIOUS
    <3>2. \A d \in D : IsFiniteSet(w[d])
      BY <1>2, FS_Singleton, FS_Product
    <3>. HIDE DEF w, places
    <3>. QED BY <1>2, <3>1, <3>2, UnionFinite
  <2>5. IsFiniteSet(K)
    BY FewFinite
  <2>. HIDE DEF w1, w2, K, D, places
  <2>6. IsFiniteSet(B1) /\ IsFiniteSet(B2)
    BY <1>2, <2>4, ImageFinite
  <2>7. \A l \in B1 \cup B2 : l[1] = "0" /\ l[2] # "990"
    BY <2>2, <2>3
  <2>. HIDE DEF B1, B2
  <2>8. IsFiniteSet(Z) /\ \A l \in Z : l[1] = "0" /\ l[2] # "990"
    BY <2>1, <2>5, <2>6, <2>7, FS_Union
  <2>. HIDE DEF Z
  <2>. QED BY <2>8, RightTogether
<1>5. Right({c} \cup G) /\ \A l \in {c} \cup G : l[1] = "C" /\ l[2] # "990"
  <2>. DEFINE taxes == [d \in D |-> <<d.icms>>]
  <2>1. G = UNION {Goods(d, taxes[d]) : d \in D}
    BY DEF EfdIcmsDocument
  <2>. HIDE DEF taxes, G
  <2>2. IsFiniteSet(G) /\ \A l \in G : l[1] = "C" /\ l[2] \in {"100", "170", "190"}
    BY <1>2, <2>1, GoodsAre
  <2>3. c[1] = "C" /\ c[2] = "001"
    BY DEF Figures, Line
  <2>. HIDE DEF c
  <2>4. IsFiniteSet({c} \cup G) /\ \A l \in {c} \cup G : l[1] = "C" /\ l[2] # "990"
    BY <2>2, <2>3, FS_Singleton, FS_Union
  <2>. QED BY <2>4, RightTogether
<1>6. Right(E) /\ \A l \in E : l[1] = "E"
  <2>. DEFINE v == Plain("E", "001")
              w == Plain("E", "100")
              x == Figures("E", "110", <<icms>>)
  <2>. HIDE DEF icms
  <2>1. v[2] = "001" /\ w[2] = "100" /\ x[2] = "110" /\ \A l \in {v, w, x} : l[1] = "E"
    BY DEF Plain, Figures, Line
  <2>2. three = {v, w, x}
    OBVIOUS
  <2>. HIDE DEF v, w, x, three
  <2>3. IsFiniteSet(three) /\ Cardinality(three) = 3
    BY <2>1, <2>2, FewLines DEF Differ
  <2>4. \A l \in three : l[1] = "E" /\ l[2] # "990"
    BY <2>1, <2>2
  <2>5. Written(three, "E", 4)
    BY <2>3, <2>4 DEF Written
  <2>. QED BY <2>5, RightWritten
<1>. HIDE DEF Z, c, G, E
<1>7. Right(Closed(Z, "0")) /\ \A l \in Closed(Z, "0") : l[1] = "0"
  BY <1>4, RightClosed
<1>8. Right(L) /\ \A l \in L : l[1] \in {"0", "C"} /\ (l[1] = "C" => l[2] # "990")
  BY <1>5, <1>7, RightTogether
<1>. HIDE DEF L
<1>9. Right(Closed(L, "C")) /\ \A l \in Closed(L, "C") : l[1] \in {"0", "C"}
  BY <1>8, RightClosed
<1>10. Right(Closed(L, "C") \cup E) /\ \A l \in Closed(L, "C") \cup E : l[1] # "9"
  BY <1>6, <1>9, RightTogether
<1>. QED BY <1>3, <1>10, EndedCounts

\* However many accounts, entries, documents and items there are, every closing
\* record of a file counts the lines of its block and the last one all of them.
THEOREM FilesCount == BooksSpec => []ClosingRecordsCount
<1>1. IInv => ClosingRecordsCount
  <2>. SUFFICES ASSUME IInv, ask.report \in Files, Done
                PROVE  CountsItsLines(FileOf(ask.report))
    BY DEF ClosingRecordsCount
  <2>1. CASE ask.report = "ecd"
    <3>1. FileOf(ask.report) = Ecd
      BY <2>1 DEF FileOf
    <3>. QED BY <2>1, <3>1, EcdCounts DEF IsDone
  <2>2. CASE ask.report = "ecf"
    <3>1. FileOf(ask.report) = Ecf
      BY <2>2 DEF FileOf
    <3>. QED BY <2>2, <3>1, EcfCounts DEF IsDone
  <2>3. CASE ask.report = "efdContribuicoes"
    <3>1. FileOf(ask.report) = EfdContribuicoes
      BY <2>3 DEF FileOf
    <3>. QED BY <2>3, <3>1, EfdContribuicoesCounts DEF IsDone
  <2>4. CASE ask.report = "efdIcms"
    <3>1. FileOf(ask.report) = EfdIcms
      BY <2>4 DEF FileOf
    <3>. QED BY <2>4, <3>1, EfdIcmsCounts DEF IsDone
  <2>. QED BY <2>1, <2>2, <2>3, <2>4 DEF Files
<1>. QED BY <1>1, Strong, PTL

-----------------------------------------------------------------------------
(* Files agree with the books *)

\* Records of lines together, with a closing record, and with block 9.
LEMMA RecordsOf ==
  ASSUME NEW L, NEW b, NEW r
  PROVE  /\ \A M : Records(L \cup M, b, r) = Records(L, b, r) \cup Records(M, b, r)
         /\ r # "990" => \A c : Records(Closed(L, c), b, r) = Records(L, b, r)
         /\ b # "9" => Records(Ended(L), b, r) = Records(L, b, r)
<1>1. ASSUME NEW M
      PROVE  Records(L \cup M, b, r) = Records(L, b, r) \cup Records(M, b, r)
  BY DEF Records
<1>2. ASSUME r # "990", NEW c
      PROVE  Records(Closed(L, c), b, r) = Records(L, b, r)
  <2>1. \A x : Figures(c, "990", x)[2] = "990"
    BY DEF Figures, Line
  <2>. QED BY <1>2, <2>1 DEF Closed, Records
<1>3. ASSUME b # "9"
      PROVE  Records(Ended(L), b, r) = Records(L, b, r)
  <2>1. \A x : Figures("9", "990", x)[1] = "9" /\ Figures("9", "999", x)[1] = "9"
    BY DEF Figures, Line
  <2>2. Plain("9", "001")[1] = "9"
    BY DEF Plain, Line
  <2>. QED BY <1>3, <2>1, <2>2 DEF Ended, Records
<1>. QED BY <1>1, <1>2, <1>3

\* The balances and the entries of an ECD.
LEMMA EcdRecords ==
  /\ Records(Ecd, "I", "150") = {EcdBalance(a) : a \in Analytic}
  /\ Records(Ecd, "I", "250") = {EcdLine(p) : p \in AllLines(seen.entries)}
<1>. DEFINE K == {Plain("0", "000"), Plain("0", "001"), Plain("I", "001"), Plain("I", "010"),
                  Plain("I", "030")}
            B1 == {Line("I", "050", a, <<>>) : a \in Accounts}
            B2 == {EcdBalance(a) : a \in Analytic}
            B3 == {Line("I", "155", c, <<>>) : c \in seen.centres}
            B4 == UNION {EcdEntry(e) : e \in seen.entries}
            R == {EcdLine(p) : p \in AllLines(seen.entries)}
            L == K \cup B1 \cup B2 \cup B3 \cup B4
<1>1. Ecd = Ended(Closed(L, "I"))
  <2>. HIDE DEF K, B1, B2, B3, B4
  <2>. QED BY Zenon DEF Ecd, K, B1, B2, B3, B4
<1>2. \A l \in K : l[2] # "150" /\ l[2] # "250"
  BY DEF Plain, Line
<1>3. \A l \in B1 : l[2] = "050"
  BY DEF Line
<1>4. \A l \in B2 : l[1] = "I" /\ l[2] = "150"
  BY DEF EcdBalance, Line
<1>5. \A l \in B3 : l[2] = "155"
  <2>1. \A c : Line("I", "155", c, <<>>)[2] = "155"
    BY DEF Line
  <2>. QED BY <2>1
<1>6. ASSUME NEW e \in seen.entries, NEW l \in EcdEntry(e)
      PROVE  l[2] # "150" /\ (l[2] = "250" => l \in R)
  <2>1. CASE l = Line("I", "200", e, <<>>)
    BY <2>1 DEF Line
  <2>2. CASE \E p \in {e} \X DOMAIN e.lines : l = EcdLine(p)
    <3>1. PICK p \in {e} \X DOMAIN e.lines : l = EcdLine(p)
      BY <2>2
    <3>2. p \in AllLines(seen.entries)
      BY DEF AllLines, Places
    <3>3. l[2] = "250"
      BY <3>1 DEF EcdLine, Line
    <3>. QED BY <3>1, <3>2, <3>3
  <2>. QED BY <2>1, <2>2 DEF EcdEntry
<1>7. \A l \in R : l[1] = "I" /\ l[2] = "250" /\ l \in B4
  <2>1. ASSUME NEW p \in AllLines(seen.entries)
        PROVE  EcdLine(p)[1] = "I" /\ EcdLine(p)[2] = "250" /\ EcdLine(p) \in B4
    <3>1. PICK e \in seen.entries : p \in Places(e)
      BY DEF AllLines
    <3>2. EcdLine(p) \in EcdEntry(e)
      BY <3>1 DEF EcdEntry, Places
    <3>. QED BY <3>2 DEF EcdLine, Line
  <2>. QED BY <2>1
<1>8. \A l \in B4 : l[2] # "150" /\ (l[2] = "250" => l \in R)
  BY <1>6
<1>. HIDE DEF K, B1, B2, B3, B4, R
<1>9. Records(L, "I", "150") = B2 /\ Records(L, "I", "250") = R
  BY <1>2, <1>3, <1>4, <1>5, <1>7, <1>8 DEF Records
<1>10. /\ Records(Ended(Closed(L, "I")), "I", "150") = Records(L, "I", "150")
       /\ Records(Ended(Closed(L, "I")), "I", "250") = Records(L, "I", "250")
  <2>. HIDE DEF L
  <2>. QED BY RecordsOf
<1>. QED BY <1>1, <1>9, <1>10, Zenon DEF B2, R

\* A side of an account in the lines of entries is the side of its lines.
LEMMA SidesAre ==
  ASSUME NEW P, Sound(P), NEW a, NEW d \in {"DEBIT", "CREDIT"}
  PROVE  SideOfLines({EcdLine(p) : p \in P}, a, d) = SideOf(Mine(P, a), d)
<1>. DEFINE R == {EcdLine(p) : p \in P}
            w == [p \in P |-> EcdLine(p)]
            key == [l \in R |-> l[3]]
            g == [l \in R |-> IF Field(l, 1) = a /\ Field(l, 2) = d THEN Field(l, 3) ELSE 0]
            f == [p \in P |-> IF LineOf(p).account = a /\ LineOf(p).direction = d
                              THEN LineOf(p).amount ELSE 0]
            M == Mine(P, a)
            s == SideTerms(P, d)
<1>1. IsImage(R, P, w, key)
  BY DEF IsImage, EcdLine, Line
<1>2. \A p \in P : g[w[p]] \in Int /\ g[w[p]] = f[p]
  <2>1. ASSUME NEW p \in P
        PROVE  g[w[p]] \in Int /\ g[w[p]] = f[p]
    <3>1. w[p] = EcdLine(p) /\ EcdLine(p) \in R
      OBVIOUS
    <3>2. /\ Field(EcdLine(p), 1) = LineOf(p).account /\ Field(EcdLine(p), 2) = LineOf(p).direction
          /\ Field(EcdLine(p), 3) = LineOf(p).amount
      BY DEF Field, EcdLine, Line
    <3>3. LineOf(p).amount \in Int
      BY DEF Sound, EntryLine
    <3>. HIDE DEF R, w
    <3>. QED BY <3>1, <3>2, <3>3
  <2>. QED BY <2>1
<1>3. SideOfLines(R, a, d) = SumOver(g) /\ DOMAIN g = R
  BY DEF SideOfLines
<1>4. M \in SUBSET P /\ IsFiniteSet(P) /\ IsFiniteSet(M)
  BY FS_Subset DEF Mine, Sound
<1>5. /\ \A p \in M : f[p] = s[p]
      /\ \A p \in P \ M : f[p] = 0
  BY DEF Mine, SideTerms
<1>6. SideOf(M, d) = SumOf(s, M)
  <2>. HIDE DEF M
  <2>. QED BY <1>4, SideIsSum
<1>. HIDE DEF R, w, key, g, f, M, s
<1>7. SumOver(g) = SumOf(g, R)
  BY <1>3, SumOverIs
<1>8. SumOf(g, R) = SumOf(f, P)
  BY <1>1, <1>2, <1>4, SumOfImage
<1>9. SumOf(f, P) = SumOf(f, M)
  <2>1. \A p \in P : f[p] \in Int
    BY <1>2
  <2>. QED BY <1>4, <1>5, <2>1, SumOfPart
<1>10. SumOf(f, M) = SumOf(s, M)
  BY <1>4, <1>5, SumOfSame
<1>. QED BY <1>3, <1>6, <1>7, <1>8, <1>9, <1>10 DEF R, M

\* The lines of the entries of a period are those a query of it finds.
LEMMA EntriesFound ==
  ASSUME NEW J, IsJournal(J), NEW from, NEW to
  PROVE  AllLines({e \in J : e.day \in from .. to}) = LinesIn(J, Accounts, from, to, None)
<1>1. \A p \in AllLines(J) : LineOf(p).account \in Accounts
  BY AllLinesSound DEF Sound, EntryLine
<1>. QED BY <1>1 DEF LinesIn, AllLines, Places

\* The balances of an ECD nobody posts under are those of its entries.
LEMMA EcdAgrees ==
  ASSUME IInv, IsDone("ecd"), ~disturbed, NEW l \in Records(Ecd, "I", "150")
  PROVE  LET a == About(l)
             entries == Records(Ecd, "I", "250")
         IN  /\ Field(l, 2) = SideOfLines(entries, a, "DEBIT")
             /\ Field(l, 3) = SideOfLines(entries, a, "CREDIT")
             /\ Field(l, 4) = Balance(a, ask.to)
<1>1. PICK a \in Analytic : l = EcdBalance(a)
  BY EcdRecords
<1>. DEFINE L == LinesIn(journal, Accounts, First, Before(ask.from), None)
            M == LinesIn(journal, Accounts, ask.from, ask.to, None)
            before == NetDebit(LinesIn(journal, {a}, First, Before(ask.from), None))
            within == NetDebit(LinesIn(journal, {a}, ask.from, ask.to, None))
            through == NetDebit(LinesIn(journal, {a}, First, ask.to, None))
            period == IF a \in DOMAIN seen.period THEN seen.period[a]
                      ELSE [debit |-> 0, credit |-> 0]
            opening == Net(seen.opening, a)
<1>2. IsJournal(journal) /\ a \in Accounts /\ "ecd" \in Reports
  BY DEF IInv, CommittedInv, Analytic, Reports
<1>3. ask.from \in Days /\ ask.to \in Days /\ ask.from <= ask.to /\ ask.centre = None
  <2>1. ask # NoAsk /\ ask.report = "ecd"
    BY DEF IsDone, Done
  <2>2. Asking /\ "ecd" \notin ByCentre
    BY <2>1 DEF IInv, AskInv, ByCentre
  <2>. QED BY <1>2, <2>1, <2>2, DoneHas DEF Asking
<1>4. /\ seen.opening = ByAccount(L) /\ seen.period = ByAccount(M)
      /\ AllLines(seen.entries) = M
  <2>1. "opening" \in DOMAIN seen /\ "period" \in DOMAIN seen /\ "entries" \in DOMAIN seen
    BY DoneHas DEF Reports, Plan
  <2>2. /\ Shows(journal, "opening", seen["opening"]) /\ Shows(journal, "period", seen["period"])
        /\ Shows(journal, "entries", seen["entries"])
    BY <2>1, Answered
  <2>3. /\ seen.opening = RowsIn(journal, AllTypes, First, Before(ask.from))
        /\ seen.period = RowsIn(journal, AllTypes, ask.from, ask.to)
        /\ seen.entries = {e \in journal : e.day \in ask.from .. ask.to}
    BY <2>2 DEF Shows
  <2>4. AccountsOfTypes(AllTypes) = Accounts
    BY Types
  <2>5. seen.opening = ByAccount(L) /\ seen.period = ByAccount(M)
    BY <1>3, <2>3, <2>4, Zenon DEF RowsIn
  <2>6. AllLines(seen.entries) = M
    BY <1>2, <2>3, EntriesFound, Zenon
  <2>. QED BY <2>5, <2>6
<1>5. Charted(L) /\ Charted(M) /\ Sound(M)
  BY <1>2, FoundCharted DEF Charted
<1>6. Mine(M, a) = LinesIn(journal, {a}, ask.from, ask.to, None)
  BY <1>2 DEF Mine, LinesIn
<1>7. through = before + within /\ before \in Int /\ within \in Int
  <2>1. First \in Nat /\ First <= ask.from /\ ask.from \in Nat /\ ask.to \in Nat
    BY <1>3, FirstOfDays, DaysAssumption
  <2>2. through = before + within
    BY <1>2, <1>3, <2>1, DaysAdd
  <2>. QED BY <1>2, <2>2, FoundCharted
<1>8. opening = before
  <2>1. Net(ByAccount(L), a) = before
    BY <1>2, RowOfAccount
  <2>. HIDE DEF L, before
  <2>. QED BY <1>4, <2>1
<1>9. Balance(a, ask.to) = through
  BY <1>3, LinesOfIsIn DEF Balance
<1>. HIDE DEF L, M, before, through, opening
<1>10. period.debit = SideOf(Mine(M, a), "DEBIT") /\ period.credit = SideOf(Mine(M, a), "CREDIT")
  <2>1. CASE a \in DOMAIN seen.period
    BY <1>4, <1>5, <2>1, RowHas
  <2>2. CASE a \notin DOMAIN seen.period
    <3>1. Mine(M, a) = {}
      BY <1>4, <1>5, <2>2, RowHas
    <3>2. SideOf(Mine(M, a), "DEBIT") = 0 /\ SideOf(Mine(M, a), "CREDIT") = 0
      BY <3>1, NetOfNothing, Zenon
    <3>. QED BY <2>2, <3>2
  <2>. QED BY <2>1, <2>2
<1>11. within = period.debit - period.credit /\ period.debit \in Nat /\ period.credit \in Nat
  <2>1. Mine(M, a) \in SUBSET M
    BY DEF Mine
  <2>2. SideOf(Mine(M, a), "DEBIT") \in Nat /\ SideOf(Mine(M, a), "CREDIT") \in Nat
    BY <1>5, <2>1, SideIsSum
  <2>3. within = SideOf(Mine(M, a), "DEBIT") - SideOf(Mine(M, a), "CREDIT")
    BY <1>6, Zenon DEF NetDebit
  <2>. HIDE DEF within, period
  <2>. QED BY <1>10, <2>2, <2>3
<1>12. /\ About(l) = a /\ Field(l, 2) = period.debit /\ Field(l, 3) = period.credit
       /\ Field(l, 4) = opening + period.debit - period.credit
  <2>1. l = Line("I", "150", a, <<opening, period.debit, period.credit,
                                  opening + period.debit - period.credit>>)
    BY <1>1, Zenon DEF EcdBalance, opening
  <2>. HIDE DEF period
  <2>. QED BY <2>1 DEF Line, About, Field
<1>. HIDE DEF within, period
<1>13. /\ SideOfLines(Records(Ecd, "I", "250"), a, "DEBIT") = SideOf(Mine(M, a), "DEBIT")
       /\ SideOfLines(Records(Ecd, "I", "250"), a, "CREDIT") = SideOf(Mine(M, a), "CREDIT")
  <2>1. Records(Ecd, "I", "250") = {EcdLine(p) : p \in M}
    BY <1>4, EcdRecords, Zenon
  <2>. QED BY <1>5, <2>1, SidesAre
<1>14. Field(l, 4) = Balance(a, ask.to)
  BY <1>7, <1>8, <1>9, <1>11, <1>12
<1>. QED BY <1>10, <1>12, <1>13, <1>14

\* The result of an ECF is that of the books when what moved is analytic.
LEMMA EcfAgrees ==
  ASSUME MovedAreAnalytic(seen.movement), NEW l \in Records(Ecf, "J", "215")
  PROVE  Field(l, 3) = NetResult
<1>. DEFINE result == Figures("J", "215", <<TotalReceitas, TotalDespesas,
                                            TotalReceitas - TotalDespesas>>)
            K == {Plain("0", "000"), Plain("0", "001"), Plain("0", "010"),
                  Figures("0", "990", <<4>>), Plain("J", "001")}
            B1 == {Line("J", "050", a, <<>>) : a \in Accounts}
            B2 == {Line("J", "210", a, <<Amount(seen.movement, a)>>) : a \in ResultAccounts}
            L == K \cup B1 \cup B2 \cup {result}
<1>1. Ecf = Ended(Closed(L, "J"))
  <2>. HIDE DEF K, B1, B2, result
  <2>. QED BY Zenon DEF Ecf, K, B1, B2, result
<1>2. Records(Ended(Closed(L, "J")), "J", "215") = Records(L, "J", "215")
  <2>. HIDE DEF L
  <2>1. Records(Ended(Closed(L, "J")), "J", "215") = Records(Closed(L, "J"), "J", "215")
    BY RecordsOf
  <2>2. Records(Closed(L, "J"), "J", "215") = Records(L, "J", "215")
    BY RecordsOf
  <2>. QED BY <2>1, <2>2
<1>3. (\A k \in K : k[2] # "215") /\ (\A k \in B1 : k[2] # "215") /\ (\A k \in B2 : k[2] # "215")
  <2>1. \A k \in K : k[2] # "215"
    BY DEF Plain, Figures, Line
  <2>2. \A a : Line("J", "050", a, <<>>)[2] = "050"
    BY DEF Line
  <2>3. \A a, x : Line("J", "210", a, x)[2] = "210"
    BY DEF Line
  <2>. HIDE DEF K
  <2>. QED BY <2>1, <2>2, <2>3
<1>. HIDE DEF K, B1, B2, result
<1>4. l = result
  BY <1>1, <1>2, <1>3 DEF Records
<1>5. Field(l, 3) = TotalReceitas - TotalDespesas
  BY <1>4 DEF result, Figures, Line, Field
<1>6. ASSUME NEW type \in ResultTypes
      PROVE  TotalOf(seen.movement, ResultAccounts \cap AccountsOfTypes({type}))
               = TotalOfType(seen.movement, type)
  <2>1. (ResultAccounts \cap AccountsOfTypes({type})) \cap DOMAIN seen.movement
          = AccountsOfTypes({type}) \cap DOMAIN seen.movement
    BY DEF MovedAreAnalytic, ResultAccounts, Analytic, AccountsOfTypes
  <2>. QED BY <2>1, Zenon DEF TotalOf, TotalOfType
<1>7. "REVENUE" \in ResultTypes /\ "EXPENSE" \in ResultTypes
  BY DEF ResultTypes
<1>8. /\ TotalReceitas = TotalOfType(seen.movement, "REVENUE")
      /\ TotalDespesas = TotalOfType(seen.movement, "EXPENSE")
  BY <1>6, <1>7, Zenon DEF TotalReceitas, TotalDespesas
<1>. QED BY <1>5, <1>8, Zenon DEF NetResult

\* The lines of documents of goods: the header and the taxes of each.
AreGoods(lines, D, taxes) == lines = UNION {Goods(d, taxes[d]) : d \in D}
HaveRecords(lines, D, taxes) ==
  /\ Records(lines, "C", "100") = {Line("C", "100", d, <<>>) : d \in D}
  /\ Records(lines, "C", "190") = {Line("C", "190", d, taxes[d]) : d \in D}
  /\ \A l \in lines : l[1] = "C"

\* Those lines have a header and the taxes of each document.
LEMMA GoodsRecords ==
  ASSUME NEW D, NEW taxes, NEW G, AreGoods(G, D, taxes)
  PROVE  HaveRecords(G, D, taxes)
<1>1. \A l : l \in G <=> \E d \in D : l \in Goods(d, taxes[d])
  BY DEF AreGoods
<1>2. ASSUME NEW d \in D, NEW l \in Goods(d, taxes[d])
      PROVE  /\ l[1] = "C"
             /\ l[2] = "100" => l = Line("C", "100", d, <<>>)
             /\ l[2] = "190" => l = Line("C", "190", d, taxes[d])
  BY DEF Goods, Line
<1>3. ASSUME NEW d \in D
      PROVE  /\ Line("C", "100", d, <<>>) \in Goods(d, taxes[d])
             /\ Line("C", "190", d, taxes[d]) \in Goods(d, taxes[d])
             /\ Line("C", "100", d, <<>>)[1] = "C" /\ Line("C", "100", d, <<>>)[2] = "100"
             /\ Line("C", "190", d, taxes[d])[1] = "C" /\ Line("C", "190", d, taxes[d])[2] = "190"
  BY DEF Goods, Line
<1>4. \A l : l \in Records(G, "C", "100") <=> \E d \in D : l = Line("C", "100", d, <<>>)
  BY <1>1, <1>2, <1>3 DEF Records
<1>5. \A l : l \in Records(G, "C", "190") <=> \E d \in D : l = Line("C", "190", d, taxes[d])
  BY <1>1, <1>2, <1>3 DEF Records
<1>6. \A l \in G : l[1] = "C"
  BY <1>1, <1>2
<1>. QED BY <1>4, <1>5, <1>6 DEF HaveRecords

\* What headers are about.
LEMMA HeadersList ==
  ASSUME NEW D, NEW b, NEW file, Records(file, b, "100") = {Line(b, "100", d, <<>>) : d \in D}
  PROVE  Listed(file, b) = D
<1>1. \A d \in D : About(Line(b, "100", d, <<>>)) = d
  BY DEF About, Line
<1>2. \A l : l \in Records(file, b, "100") <=> \E d \in D : l = Line(b, "100", d, <<>>)
  OBVIOUS
<1>3. \A x : x \in Listed(file, b) <=> \E l \in Records(file, b, "100") : x = About(l)
  BY DEF Listed
<1>4. \A x : x \in Listed(file, b) <=> x \in D
  BY <1>1, <1>2, <1>3
<1>. QED BY <1>4

\* An EFD-Contribuições lists its services and its goods; its base is theirs.
LEMMA EfdContribuicoesAgrees ==
  LET file == EfdContribuicoes
  IN  /\ Listed(file, "A") = Servicos
      /\ Listed(file, "C") = Mercadorias
      /\ \A l \in Records(file, "M", "210") : Field(l, 1) = Base(Servicos) + Base(Mercadorias)
<1>. DEFINE base == Base(Servicos) + Base(Mercadorias)
            pis == base * seen.rates.pis
            cofins == base * seen.rates.cofins
            K == {Plain("0", "000"), Figures("0", "001", Presence(seen.documents)),
                  Plain("0", "140"), Figures("0", "990", <<4>>),
                  Figures("A", "001", Presence(Servicos)),
                  Figures("A", "990", <<2 * Cardinality(Servicos) + 2>>),
                  Figures("C", "001", Presence(Mercadorias))}
            A == UNION {EfdService(d) : d \in Servicos}
            G == UNION {EfdGoods(d) : d \in Mercadorias}
            total == Figures("M", "210", <<base, pis>>)
            M == {Plain("M", "001"), Figures("M", "200", <<pis>>), total,
                  Figures("M", "600", <<cofins>>), Figures("M", "610", <<base, cofins>>),
                  Figures("M", "990", <<6>>)}
            L == K \cup A \cup G
            F == Ended(Closed(L, "C") \cup M)
<1>1. EfdContribuicoes = F
  <2>. HIDE DEF K, A, G
  <2>. QED BY Zenon DEF EfdContribuicoes, K, A, G
<1>2. \A l \in K : l[1] \in {"0", "A", "C"} /\ l[2] # "100"
  BY DEF Plain, Figures, Line
<1>3. \A l \in M : l[1] = "M" /\ (l[2] = "210" => l = total)
  <2>. HIDE DEF base, pis, cofins
  <2>. QED BY DEF Plain, Figures, Line
<1>4. ASSUME NEW d \in Servicos, NEW l \in EfdService(d)
      PROVE  l[1] = "A" /\ (l[2] = "100" => l = Line("A", "100", d, <<>>))
  BY DEF EfdService, Line
<1>5. ASSUME NEW d \in Servicos
      PROVE  /\ Line("A", "100", d, <<>>) \in EfdService(d)
             /\ Line("A", "100", d, <<>>)[1] = "A" /\ Line("A", "100", d, <<>>)[2] = "100"
  BY DEF EfdService, Line
<1>6. \A l \in A : l[1] = "A"
  BY <1>4
<1>7. Records(A, "A", "100") = {Line("A", "100", d, <<>>) : d \in Servicos}
  <2>1. \A l : l \in Records(A, "A", "100") <=> \E d \in Servicos : l = Line("A", "100", d, <<>>)
    BY <1>4, <1>5 DEF Records
  <2>. HIDE DEF A
  <2>. QED BY <2>1
<1>8. /\ Records(G, "C", "100") = {Line("C", "100", d, <<>>) : d \in Mercadorias}
      /\ \A l \in G : l[1] = "C"
  <2>. DEFINE taxes == [d \in Mercadorias |-> <<d.pis, d.cofins>>]
  <2>1. AreGoods(G, Mercadorias, taxes)
    BY DEF AreGoods, EfdGoods
  <2>. HIDE DEF taxes, G
  <2>2. HaveRecords(G, Mercadorias, taxes)
    BY <2>1, GoodsRecords
  <2>. QED BY <2>2 DEF HaveRecords
<1>. HIDE DEF K, A, G, M, total
<1>9. /\ Records(L, "A", "100") = Records(A, "A", "100")
      /\ Records(L, "C", "100") = Records(G, "C", "100")
      /\ Records(L, "M", "210") = {}
  BY <1>2, <1>6, <1>8 DEF Records
<1>10. /\ Records(M, "A", "100") = {} /\ Records(M, "C", "100") = {}
       /\ \A l \in Records(M, "M", "210") : l = total
  BY <1>3 DEF Records
<1>. HIDE DEF L
<1>11. ASSUME NEW b \in {"A", "C", "M"}, NEW r \in {"100", "210"}
       PROVE  Records(F, b, r) = Records(L, b, r) \cup Records(M, b, r)
  <2>1. Records(F, b, r) = Records(Closed(L, "C") \cup M, b, r)
    BY RecordsOf
  <2>2. Records(Closed(L, "C") \cup M, b, r) = Records(Closed(L, "C"), b, r) \cup Records(M, b, r)
    BY RecordsOf
  <2>3. Records(Closed(L, "C"), b, r) = Records(L, b, r)
    BY RecordsOf
  <2>. QED BY <2>1, <2>2, <2>3
<1>. HIDE DEF F
<1>12. /\ Records(F, "A", "100") = {Line("A", "100", d, <<>>) : d \in Servicos}
       /\ Records(F, "C", "100") = {Line("C", "100", d, <<>>) : d \in Mercadorias}
       /\ \A l \in Records(F, "M", "210") : l = total
  <2>1. /\ Records(F, "A", "100") = Records(A, "A", "100")
        /\ Records(F, "C", "100") = Records(G, "C", "100")
        /\ Records(F, "M", "210") = Records(M, "M", "210")
    BY <1>9, <1>10, <1>11
  <2>. QED BY <1>7, <1>8, <1>10, <2>1, Zenon
<1>13. Listed(F, "A") = Servicos /\ Listed(F, "C") = Mercadorias
  BY <1>12, HeadersList
<1>14. Field(total, 1) = base
  <2>. HIDE DEF base, pis
  <2>. QED BY DEF total, Figures, Line, Field
<1>. QED BY <1>1, <1>12, <1>13, <1>14, Zenon

\* The ICMS of an EFD ICMS/IPI is that of its documents.
LEMMA EfdIcmsAgrees ==
  ASSUME IInv, IsDone("efdIcms"), NEW l \in Records(EfdIcms, "E", "110")
  PROVE  Field(l, 1) = SumOver([k \in Records(EfdIcms, "C", "190") |-> Field(k, 1)])
<1>. DEFINE D == DocumentosMercadoria
            icms == SumOver([d \in D |-> d.icms])
            B1 == {Line("0", "150", d.party, <<>>) : d \in D}
            B2 == {Line("0", "200", p[1].items[p[2]], <<>>) :
                     p \in UNION {{d} \X DOMAIN d.items : d \in D}}
            Z == {Plain("0", "000"), Figures("0", "001", Presence(D))} \cup B1 \cup B2
            c == Figures("C", "001", Presence(D))
            G == UNION {EfdIcmsDocument(d) : d \in D}
            total == Figures("E", "110", <<icms>>)
            E == {Plain("E", "001"), Plain("E", "100"), total, Figures("E", "990", <<4>>)}
            L == Closed(Z, "0") \cup {c} \cup G
            F == Ended(Closed(L, "C") \cup E)
            R == {Line("C", "190", d, <<d.icms>>) : d \in D}
<1>1. EfdIcms = F
  <2>. HIDE DEF B1, B2, c, G
  <2>. QED BY Zenon DEF EfdIcms, B1, B2, c, G
<1>2. IsFiniteSet(D) /\ \A d \in D : d.icms \in Int
  <2>1. "documents" \in DOMAIN seen
    BY DoneHas DEF Reports, Plan
  <2>. QED BY <2>1, FileSees, FS_Subset DEF DocumentosMercadoria
<1>3. \A k \in Z : k[1] = "0"
  <2>1. \A x : Plain("0", x)[1] = "0" /\ \A y : Figures("0", x, y)[1] = "0"
    BY DEF Plain, Figures, Line
  <2>2. \A x, y : Line("0", x, y, <<>>)[1] = "0"
    BY DEF Line
  <2>. QED BY <2>1, <2>2
<1>4. c[1] = "C" /\ c[2] = "001"
  BY DEF Figures, Line
<1>5. \A k \in E : k[1] = "E" /\ (k[2] = "110" => k = total)
  <2>. HIDE DEF icms
  <2>. QED BY DEF Plain, Figures, Line
<1>6. Records(G, "C", "190") = R /\ \A k \in G : k[1] = "C"
  <2>. DEFINE taxes == [d \in D |-> <<d.icms>>]
  <2>1. AreGoods(G, D, taxes)
    BY DEF AreGoods, EfdIcmsDocument
  <2>2. R = {Line("C", "190", d, taxes[d]) : d \in D}
    OBVIOUS
  <2>. HIDE DEF taxes, G, R, D
  <2>3. HaveRecords(G, D, taxes)
    BY <2>1, GoodsRecords
  <2>. QED BY <2>2, <2>3 DEF HaveRecords
<1>7. ASSUME NEW k \in Closed(Z, "0")
      PROVE  k[1] = "0"
  <2>1. \A x : Figures("0", "990", x)[1] = "0"
    BY DEF Figures, Line
  <2>. HIDE DEF Z
  <2>. QED BY <1>3, <2>1 DEF Closed
<1>. HIDE DEF Z, c, G, E, total, R
<1>8. Records(L, "C", "190") = R /\ Records(L, "E", "110") = {}
  BY <1>4, <1>6, <1>7 DEF Records
<1>9. Records(E, "C", "190") = {} /\ \A k \in Records(E, "E", "110") : k = total
  BY <1>5 DEF Records
<1>. HIDE DEF L
<1>10. ASSUME NEW b \in {"C", "E"}, NEW r \in {"110", "190"}
       PROVE  Records(F, b, r) = Records(L, b, r) \cup Records(E, b, r)
  <2>1. Records(F, b, r) = Records(Closed(L, "C") \cup E, b, r)
    BY RecordsOf
  <2>2. Records(Closed(L, "C") \cup E, b, r) = Records(Closed(L, "C"), b, r) \cup Records(E, b, r)
    BY RecordsOf
  <2>3. Records(Closed(L, "C"), b, r) = Records(L, b, r)
    BY RecordsOf
  <2>. QED BY <2>1, <2>2, <2>3
<1>11. Records(EfdIcms, "C", "190") = R /\ l = total
  <2>. HIDE DEF F
  <2>1. /\ Records(F, "C", "190") = R
        /\ Records(F, "E", "110") = Records(E, "E", "110")
    BY <1>8, <1>9, <1>10
  <2>2. l \in Records(F, "E", "110")
    BY <1>1
  <2>. QED BY <1>1, <1>9, <2>1, <2>2
<1>12. Field(l, 1) = icms
  <2>. HIDE DEF icms
  <2>. QED BY <1>11 DEF total, Figures, Line, Field
<1>. DEFINE w == [d \in D |-> Line("C", "190", d, <<d.icms>>)]
            key == [k \in R |-> k[3]]
            f == [d \in D |-> d.icms]
            g == [k \in R |-> Field(k, 1)]
<1>13. IsImage(R, D, w, key)
  BY DEF IsImage, Line, R
<1>14. \A d \in D : g[w[d]] \in Int /\ g[w[d]] = f[d]
  <2>1. ASSUME NEW d \in D
        PROVE  g[w[d]] \in Int /\ g[w[d]] = f[d]
    <3>1. w[d] \in R /\ Field(w[d], 1) = d.icms
      BY DEF R, Field, Line
    <3>. HIDE DEF w
    <3>. QED BY <1>2, <3>1
  <2>. QED BY <2>1
<1>15. DOMAIN f = D /\ DOMAIN g = R /\ icms = SumOver(f)
  OBVIOUS
<1>. HIDE DEF w, key, f, D, icms
<1>16. SumOver(f) = SumOf(f, D)
  BY <1>15, SumOverIs
<1>17. SumOver(g) = SumOf(g, R)
  <2>. HIDE DEF g
  <2>. QED BY <1>15, SumOverIs
<1>18. SumOf(g, R) = SumOf(f, D)
  <2>. HIDE DEF g
  <2>. QED BY <1>2, <1>13, <1>14, SumOfImage
<1>19. Field(l, 1) = SumOver(g)
  <2>. HIDE DEF g
  <2>. QED BY <1>12, <1>15, <1>16, <1>17, <1>18
<1>. QED BY <1>11, <1>19, Zenon

\* An ECD nobody posts under agrees with its entries, an ECF of analytic accounts
\* with the books, and the taxes of the others with the documents they list.
THEOREM FilesAgree == BooksSpec => []FilesAgreeWithBooks
<1>1. IInv => FilesAgreeWithBooks
  <2>. SUFFICES ASSUME IInv
                PROVE  FilesAgreeWithBooks
    OBVIOUS
  <2>1. ASSUME Undisturbed("ecd"), NEW l \in Records(Ecd, "I", "150")
        PROVE  LET a == About(l)
                   entries == Records(Ecd, "I", "250")
               IN  /\ Field(l, 2) = SideOfLines(entries, a, "DEBIT")
                   /\ Field(l, 3) = SideOfLines(entries, a, "CREDIT")
                   /\ Field(l, 4) = Balance(a, ask.to)
    <3>1. IsDone("ecd") /\ ~disturbed
      BY <2>1 DEF Undisturbed
    <3>. QED BY <3>1, EcdAgrees
  <2>2. ASSUME MovedAreAnalytic(seen.movement), NEW l \in Records(Ecf, "J", "215")
        PROVE  Field(l, 3) = NetResult
    BY <2>2, EcfAgrees
  <2>3. LET file == EfdContribuicoes IN
          /\ {d \in seen.documents : d.type \notin Reform}
               \subseteq Listed(file, "A") \cup Listed(file, "C")
          /\ Listed(file, "A") \cap Listed(file, "C") = {}
          /\ \A l \in Records(file, "M", "210") :
               Field(l, 1) = Base(Listed(file, "A")) + Base(Listed(file, "C"))
    <3>1. seen.documents = Servicos \cup Mercadorias /\ Servicos \cap Mercadorias = {}
      BY DEF Servicos, Mercadorias
    <3>2. /\ Listed(EfdContribuicoes, "A") = Servicos
          /\ Listed(EfdContribuicoes, "C") = Mercadorias
          /\ \A l \in Records(EfdContribuicoes, "M", "210") :
               Field(l, 1) = Base(Servicos) + Base(Mercadorias)
      BY EfdContribuicoesAgrees, Zenon
    <3>. QED BY <3>1, <3>2
  <2>4. ASSUME IsDone("efdIcms"), NEW l \in Records(EfdIcms, "E", "110")
        PROVE  Field(l, 1) = SumOver([k \in Records(EfdIcms, "C", "190") |-> Field(k, 1)])
    BY <2>4, EfdIcmsAgrees
  <2>. QED BY <2>1, <2>2, <2>3, <2>4, Zenon DEF FilesAgreeWithBooks
<1>. QED BY <1>1, Strong, PTL

-----------------------------------------------------------------------------
(* Amounts: rates, rounding and what it may take *)

\* What a quotient is.
LEMMA Quotient ==
  ASSUME NEW a \in Int, NEW b \in Nat \ {0}
  PROVE  /\ a \div b \in Int /\ b * (a \div b) <= a /\ a < b * (a \div b) + b
         /\ a >= 0 => a \div b \in Nat
OBVIOUS

\* A common factor may be left out.
LEMMA Cancelled ==
  ASSUME NEW a \in Int, NEW b \in Int, NEW u \in Nat \ {0}
  PROVE  /\ a * u <= b * u => a <= b
         /\ a * u = b * u => a = b
         /\ (a * u) \div u = a
OBVIOUS

\* What is no more stays so times a factor.
LEMMA InProportion ==
  ASSUME NEW a \in Int, NEW b \in Int, NEW u \in Nat
  PROVE  /\ a * u - b * u = (a - b) * u
         /\ a <= b => a * u <= b * u
<1>1. a * u - b * u = (a - b) * u /\ b * u - a * u = (b - a) * u
  OBVIOUS
<1>2. ASSUME a <= b
      PROVE  a * u <= b * u
  <2>. DEFINE d == b - a
              p == d * u
              q == a * u
              r == b * u
  <2>1. d \in Nat
    BY <1>2
  <2>2. p \in Nat
    <3>. HIDE DEF d
    <3>. QED BY <2>1
  <2>3. q \in Int /\ r \in Int /\ r - q = p
    BY <1>1
  <2>. HIDE DEF p, q, r
  <2>4. q <= r
    BY <2>2, <2>3
  <2>. QED BY <2>4 DEF q, r
<1>. QED BY <1>1, <1>2

\* A cent has units, and whole cents are so many of them.
LEMMA UnitTyped ==
  /\ Unit \in Nat \ {0}
  /\ \A c \in Nat : Units(c) \in Nat
  /\ \A c \in Int : Units(c) \in Int
<1>1. RateScale \in Nat \ {0}
  BY CalculationAssumption
<1>2. RateScale * RateScale \in Nat \ {0}
  BY <1>1
<1>3. Unit = 360 * (RateScale * RateScale)
  BY <1>1 DEF Unit
<1>4. Unit \in Nat \ {0}
  BY <1>2, <1>3
<1>. QED BY <1>4 DEF Units

\* Differences and the order of cents are those of their units.
LEMMA Increasing ==
  ASSUME NEW a \in Int, NEW b \in Int
  PROVE  /\ Units(a) - Units(b) = Units(a - b)
         /\ Units(a) <= Units(b) <=> a <= b
<1>1. Unit \in Nat \ {0} /\ Unit \in Nat
  BY UnitTyped
<1>2. Units(a) = a * Unit /\ Units(b) = b * Unit /\ Units(a - b) = (a - b) * Unit
  BY DEF Units
<1>3. a * Unit - b * Unit = (a - b) * Unit /\ (a <= b => a * Unit <= b * Unit)
  BY <1>1, InProportion
<1>4. a * Unit <= b * Unit => a <= b
  BY <1>1, Cancelled
<1>. QED BY <1>2, <1>3, <1>4

\* A part of an amount is an amount, and not more.
LEMMA OfTyped ==
  ASSUME NEW rate \in 0 .. RateScale, NEW x \in Nat
  PROVE  Of(rate, x) \in Nat /\ Of(rate, x) <= x
<1>1. RateScale \in Nat \ {0}
  BY CalculationAssumption
<1>2. x * rate \in Nat /\ x * rate <= x * RateScale
  BY <1>1
<1>3. Of(rate, x) \in Nat /\ RateScale * Of(rate, x) <= x * rate
  <2>. DEFINE a == x * rate
  <2>1. a \in Int /\ a >= 0 /\ Of(rate, x) = a \div RateScale
    BY <1>2 DEF Of
  <2>. HIDE DEF a
  <2>2. a \div RateScale \in Nat /\ RateScale * (a \div RateScale) <= a
    BY <1>1, <2>1, Quotient
  <2>. QED BY <2>1, <2>2 DEF a
<1>4. Of(rate, x) * RateScale <= x * RateScale
  BY <1>1, <1>2, <1>3
<1>. QED BY <1>1, <1>3, <1>4, Cancelled

\* Rounding takes half a cent at most, ...
LEMMA RoundedNear ==
  ASSUME NEW x \in Int
  PROVE  /\ Rounded(x) \in Int
         /\ 2 * (Rounded(x) * Unit - x) \in -Unit .. Unit
         /\ x >= 0 => Rounded(x) \in Nat
<1>1. Unit \in Nat \ {0}
  BY UnitTyped
<1>2. ASSUME NEW y \in Nat
      PROVE  LET q == (2 * y + Unit) \div (2 * Unit)
             IN  q \in Nat /\ 2 * (q * Unit - y) \in -Unit .. Unit
  <2>. DEFINE q == (2 * y + Unit) \div (2 * Unit)
  <2>1. 2 * y + Unit \in Nat /\ 2 * Unit \in Nat \ {0}
    BY <1>1
  <2>2. q \in Nat /\ (2 * Unit) * q <= 2 * y + Unit /\ 2 * y + Unit < (2 * Unit) * q + 2 * Unit
    BY <2>1, Quotient
  <2>. HIDE DEF q
  <2>3. (2 * Unit) * q = 2 * (q * Unit) /\ q * Unit \in Int
    BY <1>1, <2>2
  <2>4. q \in Nat /\ 2 * (q * Unit - y) \in -Unit .. Unit
    BY <1>1, <2>2, <2>3
  <2>. QED BY <2>4 DEF q
<1>3. CASE x >= 0
  BY <1>2, <1>3 DEF Rounded
<1>4. CASE x < 0
  <2>. DEFINE q == (2 * (-x) + Unit) \div (2 * Unit)
  <2>1. q \in Nat /\ 2 * (q * Unit - (-x)) \in -Unit .. Unit
    BY <1>2, <1>4
  <2>2. Rounded(x) = -q
    BY <1>4 DEF Rounded
  <2>. HIDE DEF q
  <2>3. (-q) * Unit = -(q * Unit) /\ q * Unit \in Int
    BY <1>1, <2>1
  <2>. QED BY <1>1, <1>4, <2>1, <2>2, <2>3
<1>. QED BY <1>3, <1>4

\* ... and nothing from whole cents.
LEMMA RoundedCents ==
  ASSUME NEW c \in Nat
  PROVE  Rounded(Units(c)) = c
<1>1. Unit \in Nat \ {0} /\ Units(c) \in Nat /\ Units(c) = c * Unit
  BY UnitTyped DEF Units
<1>. DEFINE q == Rounded(Units(c))
<1>2. q \in Int /\ 2 * (q * Unit - c * Unit) \in -Unit .. Unit
  BY <1>1, RoundedNear
<1>. HIDE DEF q
<1>3. q * Unit \in Int /\ c * Unit \in Int /\ (c + 1) * Unit = c * Unit + Unit
      /\ (c - 1) * Unit = c * Unit - Unit
  BY <1>1, <1>2
<1>4. q * Unit < (c + 1) * Unit /\ (c - 1) * Unit < q * Unit
  BY <1>1, <1>2, <1>3
<1>5. ~(c + 1 <= q) /\ ~(q <= c - 1)
  <2>1. ASSUME NEW a \in Int, NEW b \in Int, a <= b
        PROVE  a * Unit <= b * Unit
    BY <1>1, <2>1
  <2>. QED BY <1>1, <1>2, <1>3, <1>4, <2>1
<1>. QED BY <1>2, <1>5 DEF q

\* A greater amount is not rounded to less.
LEMMA RoundedInOrder ==
  ASSUME NEW x \in Nat, NEW y \in Nat, x <= y
  PROVE  Rounded(x) <= Rounded(y)
<1>1. Unit \in Nat \ {0}
  BY UnitTyped
<1>2. 2 * x + Unit <= 2 * y + Unit /\ 2 * x + Unit \in Nat /\ 2 * y + Unit \in Nat
      /\ 2 * Unit \in Nat \ {0}
  BY <1>1
<1>3. ASSUME NEW a \in Nat, NEW b \in Nat, a <= b, NEW d \in Nat \ {0}
      PROVE  a \div d <= b \div d
  BY <1>3
<1>4. (2 * x + Unit) \div (2 * Unit) <= (2 * y + Unit) \div (2 * Unit)
  BY <1>2, <1>3
<1>. QED BY <1>4 DEF Rounded

-----------------------------------------------------------------------------
(* Taxes *)

\* A set of places of a sequence has a first one.
LEMMA FirstPlace ==
  ASSUME NEW n \in Nat, NEW S \in SUBSET (1 .. n), S # {}
  PROVE  Min(S) \in S /\ \A j \in S : Min(S) <= j
<1>. DEFINE w == [x \in S |-> -x]
            R == {w[x] : x \in S}
<1>1. IsFiniteSet(S)
  <2>1. IsFiniteSet(1 .. n)
    BY FS_Interval
  <2>. QED BY <2>1, FS_Subset
<1>2. IsFiniteSet(R)
  <2>. HIDE DEF w
  <2>. QED BY <1>1, ImageFinite
<1>3. R # {} /\ R \subseteq Int
  <2>1. \A x \in S : w[x] \in Int
    OBVIOUS
  <2>. HIDE DEF w
  <2>. QED BY <2>1
<1>4. PICK k \in R : \A j \in R : j <= k
  <2>. HIDE DEF R
  <2>. QED BY <1>2, <1>3, GreatestIn
<1>5. PICK m \in S : w[m] = k
  OBVIOUS
<1>6. \A j \in S : m <= j
  <2>1. ASSUME NEW j \in S
        PROVE  m <= j
    <3>1. w[j] \in R
      OBVIOUS
    <3>2. w[j] <= w[m]
      BY <1>4, <1>5, <3>1
    <3>. QED BY <3>2
  <2>. QED BY <2>1
<1>7. \E x \in S : \A y \in S : x <= y
  BY <1>6
<1>. QED BY <1>7 DEF Min

\* The fields of a bracket.
LEMMA BracketTyped ==
  ASSUME NEW table \in Seq(Bracket), NEW i \in DOMAIN table
  PROVE  /\ table[i] \in Bracket
         /\ table[i].min \in Nat /\ table[i].max \in Nat \cup {Open}
         /\ table[i].rate \in 0 .. RateScale /\ table[i].deduction \in Nat
<1>1. table[i] \in Bracket
  OBVIOUS
<1>. QED BY <1>1 DEF Bracket

\* The tax is by a bracket of the table.
LEMMA BracketTaken ==
  ASSUME NEW base \in Int, NEW table \in Seq(Bracket), ~(base <= 0 \/ table = <<>>)
  PROVE  \E i \in DOMAIN table :
           /\ i = IF Hits(base, table) = {} THEN Len(table) ELSE Min(Hits(base, table))
           /\ ProgressiveTax(base, table)
                = NotNegative(Of(table[i].rate, base) - Units(table[i].deduction))
<1>. DEFINE i == IF Hits(base, table) = {} THEN Len(table) ELSE Min(Hits(base, table))
<1>1. Len(table) \in Nat /\ DOMAIN table = 1 .. Len(table) /\ Len(table) # 0
  OBVIOUS
<1>2. Hits(base, table) \subseteq 1 .. Len(table)
  BY <1>1 DEF Hits
<1>3. i \in DOMAIN table
  <2>1. CASE Hits(base, table) = {}
    BY <1>1, <2>1
  <2>2. CASE Hits(base, table) # {}
    BY <1>1, <1>2, <2>2, FirstPlace
  <2>. QED BY <2>1, <2>2
<1>4. ProgressiveTax(base, table)
        = NotNegative(Of(table[i].rate, base) - Units(table[i].deduction))
  BY DEF ProgressiveTax
<1>. QED BY <1>3, <1>4

\* A tax is an amount.
LEMMA TaxTyped ==
  ASSUME NEW base \in Int, NEW table \in Seq(Bracket)
  PROVE  ProgressiveTax(base, table) \in Nat
<1>1. CASE base <= 0 \/ table = <<>>
  BY <1>1 DEF ProgressiveTax
<1>2. CASE ~(base <= 0 \/ table = <<>>)
  <2>1. PICK i \in DOMAIN table :
          ProgressiveTax(base, table)
            = NotNegative(Of(table[i].rate, base) - Units(table[i].deduction))
    BY <1>2, BracketTaken
  <2>2. table[i].rate \in 0 .. RateScale /\ table[i].deduction \in Nat
    BY BracketTyped
  <2>3. Of(table[i].rate, base) \in Nat /\ Units(table[i].deduction) \in Nat
    <3>1. base \in Nat
      BY <1>2
    <3>2. \A rate \in 0 .. RateScale : Of(rate, base) \in Nat
      BY <3>1, OfTyped
    <3>. QED BY <2>2, <3>2, UnitTyped
  <2>. QED BY <2>1, <2>3 DEF NotNegative
<1>. QED BY <1>1, <1>2

\* What is known of the employee.
EmployeeOK ==
  /\ employee.salary \in Nat /\ employee.dependents \in Nat
  /\ employee.transport \in Nat /\ employee.meal \in Nat
  /\ employee.mealRate \in 0 .. RateScale
  /\ employee.vested \in Nat /\ employee.fgts \in Nat /\ employee.admission \in Dates

\* The employee of every date has the fields of one.
LEMMA EmployeeTyped ==
  ASSUME employee \in Employees
  PROVE  EmployeeOK
BY EmployeesAssumption DEF EmployeeOK

\* What is known of the settings.
LEMMA SettingsTyped ==
  /\ Settings.ceiling \in Nat /\ Settings.dependent \in Nat
  /\ Settings.fgts \in 0 .. RateScale /\ Settings.employer \in 0 .. RateScale
  /\ Settings.transport \in 0 .. RateScale
  /\ Settings.fineWithoutCause \in 0 .. RateScale /\ Settings.fineAgreed \in 0 .. RateScale
BY CalculationAssumption

\* Both taxes of an amount are amounts.
LEMMA TaxesTyped ==
  ASSUME EmployeeOK, NEW base \in Nat
  PROVE  Inss(base) \in Nat /\ Irrf(base) \in Nat
<1>1. ProgressiveTax(base, InssBrackets) \in Nat
  BY TaxTyped, CalculationAssumption
<1>2. Units(Settings.ceiling) \in Nat /\ Units(Settings.dependent) \in Nat
  BY SettingsTyped, UnitTyped
<1>3. Inss(base) \in Nat
  BY <1>1, <1>2 DEF Inss, AtMost
<1>4. employee.dependents * Units(Settings.dependent) \in Nat
  BY <1>2 DEF EmployeeOK
<1>5. IrrfBase(base) \in Int
  BY <1>3, <1>4 DEF IrrfBase
<1>6. ProgressiveTax(IrrfBase(base), IrrfBrackets) \in Nat
  BY <1>5, TaxTyped, CalculationAssumption
<1>. QED BY <1>3, <1>6 DEF Irrf

-----------------------------------------------------------------------------
(* The calendar *)

\* The months of a common year.
LEMMA CommonYear ==
  /\ \A r \in 0 .. 11 : MonthLengths[r + 1] \in 28 .. 31 /\ MonthOffsets[r + 1] \in 0 .. 334
  /\ \A r \in 0 .. 10 : MonthOffsets[r + 2] = MonthOffsets[r + 1] + MonthLengths[r + 1]
  /\ MonthOffsets[1] = 0 /\ MonthLengths[2] = 28 /\ MonthOffsets[12] + MonthLengths[12] = 365
BY DEF MonthLengths, MonthOffsets

\* A month and its place in the year.
LEMMA PlaceInYear ==
  ASSUME NEW m \in Nat
  PROVE  /\ m % 12 \in 0 .. 11 /\ m \div 12 \in Nat /\ m = 12 * (m \div 12) + (m % 12)
         /\ m % 12 < 11 => (m + 1) % 12 = (m % 12) + 1 /\ (m + 1) \div 12 = m \div 12
         /\ m % 12 = 11 => (m + 1) % 12 = 0 /\ (m + 1) \div 12 = m \div 12 + 1
         /\ m % 48 = 13 => m % 12 = 1
<1>1. m % 12 \in 0 .. 11 /\ m \div 12 \in Nat /\ m = 12 * (m \div 12) + (m % 12)
  <2>1. m % 12 \in 0 .. 11
    OBVIOUS
  <2>2. m \div 12 \in Nat
    OBVIOUS
  <2>3. m = 12 * (m \div 12) + (m % 12)
    OBVIOUS
  <2>. QED BY <2>1, <2>2, <2>3
<1>2. m % 12 < 11 => (m + 1) % 12 = (m % 12) + 1 /\ (m + 1) \div 12 = m \div 12
  OBVIOUS
<1>3. m % 12 = 11 => (m + 1) % 12 = 0 /\ (m + 1) \div 12 = m \div 12 + 1
  OBVIOUS
<1>4. ASSUME m % 48 = 13
      PROVE  m % 12 = 1
  <2>. DEFINE q == m \div 48
  <2>1. q \in Nat /\ m = 48 * q + 13
    BY <1>4
  <2>. HIDE DEF q
  <2>2. m = 12 * (4 * q + 1) + 1 /\ 4 * q + 1 \in Nat
    BY <2>1
  <2>. QED BY <2>2
<1>. QED BY <1>1, <1>2, <1>3, <1>4

\* Months have their days, ...
LEMMA MonthTyped ==
  ASSUME NEW m \in Nat
  PROVE  /\ DaysIn(m) \in 28 .. 31 /\ DaysBefore(m) \in Nat
         /\ FirstDay(m) \in Nat /\ LastDay(m) \in Nat
<1>1. m % 12 \in 0 .. 11 /\ m \div 12 \in Nat /\ (m + 34) \div 48 \in Nat
  BY PlaceInYear
<1>2. MonthLengths[(m % 12) + 1] \in 28 .. 31 /\ MonthOffsets[(m % 12) + 1] \in Nat
  <2>. DEFINE r == m % 12
  <2>1. r \in 0 .. 11
    BY <1>1
  <2>. HIDE DEF r
  <2>2. MonthLengths[r + 1] \in 28 .. 31 /\ MonthOffsets[r + 1] \in 0 .. 334
    BY <2>1, CommonYear
  <2>. QED BY <2>2 DEF r
<1>3. m % 48 = 13 => MonthLengths[(m % 12) + 1] = 28
  <2>1. ASSUME m % 48 = 13
        PROVE  (m % 12) + 1 = 2
    BY <2>1, PlaceInYear
  <2>. QED BY <2>1, CommonYear
<1>4. DaysIn(m) \in 28 .. 31
  BY <1>2, <1>3 DEF DaysIn
<1>5. DaysBefore(m) \in Nat
  BY <1>1, <1>2 DEF DaysBefore
<1>. QED BY <1>4, <1>5 DEF FirstDay, LastDay

\* ... the next one follows on the last of them, ...
LEMMA NextMonth ==
  ASSUME NEW m \in Nat
  PROVE  DaysBefore(m + 1) = DaysBefore(m) + DaysIn(m)
<1>. DEFINE r == m % 12
            y == m \div 12
            leap == IF m % 48 = 13 THEN 1 ELSE 0
<1>1. r \in 0 .. 11 /\ y \in Nat /\ (m + 34) \div 48 \in Nat
  BY PlaceInYear
<1>2. (m + 35) \div 48 = (m + 34) \div 48 + leap
  OBVIOUS
<1>3. MonthOffsets[r + 1] \in Nat /\ MonthLengths[r + 1] \in Nat
  <2>. HIDE DEF r
  <2>1. MonthLengths[r + 1] \in 28 .. 31 /\ MonthOffsets[r + 1] \in 0 .. 334
    BY <1>1, CommonYear
  <2>. QED BY <2>1
<1>4. DaysBefore(m) = 365 * y + MonthOffsets[r + 1] + (m + 34) \div 48
  BY DEF DaysBefore
<1>5. DaysIn(m) = MonthLengths[r + 1] + leap
  BY DEF DaysIn
<1>6. CASE r < 11
  <2>1. (m + 1) % 12 = r + 1 /\ (m + 1) \div 12 = y
    BY <1>6, PlaceInYear
  <2>2. DaysBefore(m + 1) = 365 * y + MonthOffsets[(r + 1) + 1] + (m + 35) \div 48
    BY <2>1 DEF DaysBefore
  <2>3. r \in 0 .. 10
    BY <1>1, <1>6
  <2>. HIDE DEF r, y, leap
  <2>4. (r + 1) + 1 = r + 2
    BY <2>3
  <2>5. MonthOffsets[(r + 1) + 1] = MonthOffsets[r + 1] + MonthLengths[r + 1]
    BY <2>3, <2>4, CommonYear
  <2>6. leap \in Int
    BY DEF leap
  <2>7. DaysBefore(m + 1) = 365 * y + (MonthOffsets[r + 1] + MonthLengths[r + 1])
                            + ((m + 34) \div 48 + leap)
    BY <1>2, <2>2, <2>5
  <2>. QED
    <3>. DEFINE o == MonthOffsets[r + 1]
                l == MonthLengths[r + 1]
                k == (m + 34) \div 48
    <3>1. o \in Nat /\ l \in Nat /\ k \in Nat
      BY <1>1, <1>3
    <3>2. DaysBefore(m + 1) = 365 * y + (o + l) + (k + leap) /\ DaysBefore(m) = 365 * y + o + k
          /\ DaysIn(m) = l + leap
      BY <1>4, <1>5, <2>7
    <3>. HIDE DEF o, l, k
    <3>. QED BY <1>1, <2>6, <3>1, <3>2
<1>7. CASE r = 11
  <2>1. (m + 1) % 12 = 0 /\ (m + 1) \div 12 = y + 1
    BY <1>7, PlaceInYear
  <2>2. DaysBefore(m + 1) = 365 * (y + 1) + MonthOffsets[1] + (m + 35) \div 48
    BY <2>1 DEF DaysBefore
  <2>3. leap \in Int
    OBVIOUS
  <2>. HIDE DEF r, y, leap
  <2>4. MonthOffsets[r + 1] + MonthLengths[r + 1] = 365 /\ MonthOffsets[1] = 0
    <3>1. r + 1 = 12
      BY <1>7
    <3>. QED BY <3>1, CommonYear
  <2>. QED
    <3>. DEFINE o == MonthOffsets[r + 1]
                l == MonthLengths[r + 1]
                k == (m + 34) \div 48
    <3>1. o \in Nat /\ l \in Nat /\ k \in Nat /\ o + l = 365
      BY <1>1, <1>3, <2>4
    <3>2. DaysBefore(m + 1) = 365 * (y + 1) + 0 + (k + leap) /\ DaysBefore(m) = 365 * y + o + k
          /\ DaysIn(m) = l + leap
      BY <1>2, <1>4, <1>5, <2>2, <2>4
    <3>. HIDE DEF o, l, k
    <3>. QED BY <1>1, <2>3, <3>1, <3>2
<1>8. r < 11 \/ r = 11
  BY <1>1
<1>. QED BY <1>6, <1>7, <1>8

\* ... and months do not overlap.
LEMMA MonthsInOrder ==
  ASSUME NEW m \in Nat, NEW n \in Nat, m < n
  PROVE  DaysBefore(m) + DaysIn(m) <= DaysBefore(n)
<1>. DEFINE r == (m + 1) % 12
            y == (m + 1) \div 12
            s == n % 12
            z == n \div 12
<1>1. /\ r \in 0 .. 11 /\ y \in Nat /\ m + 1 = 12 * y + r
      /\ s \in 0 .. 11 /\ z \in Nat /\ n = 12 * z + s
  <2>1. m + 1 \in Nat
    OBVIOUS
  <2>. QED BY <2>1, PlaceInYear
<1>2. (m + 35) \div 48 <= (n + 34) \div 48 /\ (m + 35) \div 48 \in Nat /\ (n + 34) \div 48 \in Nat
  OBVIOUS
<1>3. /\ DaysBefore(m + 1) = 365 * y + MonthOffsets[r + 1] + (m + 35) \div 48
      /\ DaysBefore(n) = 365 * z + MonthOffsets[s + 1] + (n + 34) \div 48
  BY DEF DaysBefore
<1>. HIDE DEF r, y, s, z
<1>4. MonthOffsets[r + 1] \in 0 .. 334 /\ MonthOffsets[s + 1] \in 0 .. 334
  BY <1>1, CommonYear
<1>5. \A a, b \in 0 .. 11 : a <= b => MonthOffsets[a + 1] <= MonthOffsets[b + 1]
  BY DEF MonthOffsets
<1>6. (y = z /\ r <= s) \/ y + 1 <= z
  BY <1>1
<1>. DEFINE o == MonthOffsets[r + 1]
            p == MonthOffsets[s + 1]
            k == (m + 35) \div 48
            l == (n + 34) \div 48
<1>7. o \in 0 .. 334 /\ p \in 0 .. 334 /\ (r <= s => o <= p) /\ k \in Nat /\ l \in Nat /\ k <= l
  BY <1>1, <1>2, <1>4, <1>5
<1>8. DaysBefore(m + 1) = 365 * y + o + k /\ DaysBefore(n) = 365 * z + p + l
  BY <1>3
<1>. HIDE DEF o, p, k, l
<1>9. DaysBefore(m + 1) <= DaysBefore(n)
  BY <1>1, <1>6, <1>7, <1>8
<1>. QED BY <1>9, NextMonth

\* The fields of a date.
LEMMA DateTyped ==
  ASSUME NEW d \in Dates
  PROVE  /\ d.month \in Nat /\ d.month <= LastMonth /\ d.day \in 1 .. 31 /\ d.day <= DaysIn(d.month)
         /\ Day(d) \in Nat /\ FirstDay(d.month) <= Day(d) /\ Day(d) <= LastDay(d.month)
<1>1. d \in [month : 0 .. LastMonth, day : 1 .. 31] /\ d.day <= DaysIn(d.month)
  BY DEF Dates
<1>2. d.month \in Nat /\ d.month <= LastMonth /\ d.day \in 1 .. 31
  BY <1>1, CalculationAssumption
<1>3. DaysBefore(d.month) \in Nat /\ DaysIn(d.month) \in Nat
  BY <1>2, MonthTyped
<1>. QED BY <1>1, <1>2, <1>3 DEF Day, FirstDay, LastDay

\* A date is not before another one.
NotBefore(d, e) == d.month > e.month \/ (d.month = e.month /\ d.day >= e.day)

\* Dates follow each other in days.
LEMMA DaysInOrder ==
  ASSUME NEW d \in Dates, NEW e \in Dates, NotBefore(d, e)
  PROVE  Day(e) <= Day(d)
<1>1. /\ d.month \in Nat /\ d.day \in 1 .. 31 /\ Day(d) \in Nat /\ FirstDay(d.month) <= Day(d)
      /\ e.month \in Nat /\ e.day \in 1 .. 31 /\ Day(e) \in Nat /\ Day(e) <= LastDay(e.month)
  BY DateTyped
<1>2. CASE d.month > e.month
  <2>1. DaysBefore(e.month) + DaysIn(e.month) <= DaysBefore(d.month)
    BY <1>1, <1>2, MonthsInOrder
  <2>2. DaysBefore(e.month) \in Nat /\ DaysIn(e.month) \in Nat /\ DaysBefore(d.month) \in Nat
    BY <1>1, MonthTyped
  <2>. QED BY <1>1, <2>1, <2>2 DEF FirstDay, LastDay
<1>3. CASE d.month = e.month /\ d.day >= e.day
  <2>1. DaysBefore(d.month) \in Nat
    BY <1>1, MonthTyped
  <2>. QED BY <1>1, <1>3, <2>1 DEF Day
<1>. QED BY <1>2, <1>3 DEF NotBefore

\* Tomorrow is one day later, and a date unless the calendar ends today.
LEMMA TomorrowNext ==
  ASSUME NEW d \in Dates
  PROVE  /\ Tomorrow(d).month \in Nat /\ Tomorrow(d).day \in 1 .. 31
         /\ Tomorrow(d).day <= DaysIn(Tomorrow(d).month)
         /\ Day(Tomorrow(d)) = Day(d) + 1
         /\ NotBefore(Tomorrow(d), d)
         /\ Day(d) < LastDay(LastMonth) => Tomorrow(d) \in Dates
<1>1. d \in [month : 0 .. LastMonth, day : 1 .. 31]
  BY DEF Dates
<1>2. /\ d.month \in Nat /\ d.month <= LastMonth /\ d.day \in 1 .. 31 /\ d.day <= DaysIn(d.month)
      /\ DaysBefore(d.month) \in Nat /\ DaysIn(d.month) \in 28 .. 31 /\ LastMonth \in Nat
  BY DateTyped, MonthTyped, CalculationAssumption
<1>3. CASE d.day < DaysIn(d.month)
  <2>1. Tomorrow(d) = [d EXCEPT !.day = @ + 1]
    BY <1>3 DEF Tomorrow
  <2>2. Tomorrow(d).month = d.month /\ Tomorrow(d).day = d.day + 1
        /\ Tomorrow(d) \in [month : 0 .. LastMonth, day : 1 .. 31]
    BY <1>1, <1>2, <1>3, <2>1
  <2>. QED BY <1>2, <1>3, <2>2 DEF Day, Dates, NotBefore
<1>4. CASE ~(d.day < DaysIn(d.month))
  <2>1. Tomorrow(d) = [month |-> d.month + 1, day |-> 1]
    BY <1>4 DEF Tomorrow
  <2>2. DaysBefore(d.month + 1) = DaysBefore(d.month) + DaysIn(d.month)
        /\ DaysIn(d.month + 1) \in 28 .. 31
    <3>1. d.month + 1 \in Nat
      BY <1>2
    <3>. QED BY <1>2, <3>1, NextMonth, MonthTyped
  <2>3. d.day = DaysIn(d.month)
    BY <1>2, <1>4
  <2>4. Day(Tomorrow(d)) = Day(d) + 1
    BY <1>2, <2>1, <2>2, <2>3 DEF Day
  <2>5. ASSUME Day(d) < LastDay(LastMonth)
        PROVE  Tomorrow(d) \in Dates
    <3>1. d.month # LastMonth
      <4>1. ASSUME d.month = LastMonth
            PROVE  FALSE
        <5>1. Day(d) = LastDay(LastMonth)
          BY <2>3, <4>1 DEF Day, LastDay
        <5>. QED BY <1>2, <2>3, <2>5, <4>1, <5>1 DEF Day
      <4>. QED BY <4>1
    <3>2. d.month + 1 \in 0 .. LastMonth
      BY <1>2, <3>1
    <3>. QED BY <2>1, <2>2, <3>2 DEF Dates
  <2>6. NotBefore(Tomorrow(d), d)
    <3>1. Tomorrow(d).month = d.month + 1
      BY <2>1
    <3>2. Tomorrow(d).month > d.month
      BY <1>2, <3>1
    <3>. QED BY <3>2 DEF NotBefore
  <2>. QED BY <1>2, <2>1, <2>2, <2>4, <2>5, <2>6
<1>. QED BY <1>3, <1>4

-----------------------------------------------------------------------------
(* What the stored figures of an event may miss *)

\* The names of the figures.
LEMMA NamesFinite ==
  /\ IsFiniteSet(Earned) /\ IsFiniteSet(Withheld) /\ Earned \cap Withheld = {}
  /\ Earned \subseteq Names /\ Withheld \subseteq Names /\ Owed \subseteq Names /\ "net" \in Names
  /\ "net" \notin Earned \cup Withheld
<1>1. IsFiniteSet(Withheld)
  BY FewFinite DEF Withheld
<1>2. IsFiniteSet(Earned)
  <2>. DEFINE A == {"salary", "bonus", "sold", "soldBonus", "notice"}
              B == {"thirteenth", "vested", "vacation", "vacationBonus"}
  <2>1. IsFiniteSet(A) /\ IsFiniteSet(B)
    BY FewFinite
  <2>2. Earned = A \cup B
    BY DEF Earned
  <2>. HIDE DEF A, B
  <2>. QED BY <2>1, <2>2, FS_Union
<1>. QED BY <1>1, <1>2 DEF Earned, Withheld, Owed, Names

\* Totals are sums, and that of what is withheld has five terms.
LEMMA TotalsTyped ==
  ASSUME NEW f, \A n \in Names : f[n] \in Int
  PROVE  /\ Total(f, Earned) = SumOf(f, Earned) /\ Total(f, Withheld) = SumOf(f, Withheld)
         /\ Total(f, Earned) \in Int /\ Total(f, Withheld) \in Int
         /\ Total(f, Withheld) = f["inss"] + f["irrf"] + f["transport"] + f["meal"] + f["previous"]
<1>1. Total(f, Earned) = SumOf(f, Earned) /\ Total(f, Withheld) = SumOf(f, Withheld)
  BY DEF Total, SumOf
<1>2. (\A n \in Earned : f[n] \in Int) /\ \A n \in Withheld : f[n] \in Int
  BY NamesFinite
<1>3. SumOf(f, Earned) \in Int /\ SumOf(f, Withheld) \in Int
  BY <1>2, NamesFinite, SumOfInt
<1>. DEFINE S == {"inss", "irrf", "transport", "meal"}
<1>4. S \cup {"previous"} = Withheld /\ IsFiniteSet(S) /\ "previous" \notin S
  BY FewFinite DEF Withheld
<1>5. AreFour(S, "inss", "irrf", "transport", "meal")
  BY DEF AreFour, AreThree
<1>6. (\A n \in S : f[n] \in Int) /\ \A n \in S \cup {"previous"} : f[n] \in Int
  BY <1>2 DEF Withheld
<1>. HIDE DEF S
<1>7. SumOf(f, S) = f["inss"] + f["irrf"] + f["transport"] + f["meal"]
  BY <1>5, <1>6, SumOfFour
<1>8. SumOf(f, S \cup {"previous"}) = SumOf(f, S) + f["previous"]
  BY <1>4, <1>6, SumOfAdded
<1>9. SumOf(f, Withheld) = SumOf(f, S) + f["previous"]
  BY <1>4, <1>8, Zenon
<1>. QED BY <1>1, <1>3, <1>7, <1>9

\* Figures that are amounts: the vouchers are withheld of the benefit, and what an
\* event of this kind does not compute is whole cents.
Figured(x, kind) ==
  /\ x \in [Names -> Nat]
  /\ x["meal"] <= x["benefit"]
  /\ \A n \in (Earned \cup Withheld) \ Computed(kind) : \E c \in Nat : x[n] = Units(c)

Kinds == {"payroll", "vacation", "thirteenth", "termination"}

\* The figures computed are of the entry, and few.
LEMMA ComputedTyped ==
  ASSUME NEW kind \in Kinds
  PROVE  /\ Computed(kind) \subseteq Earned \cup Withheld \cup {"net"} /\ "net" \in Computed(kind)
         /\ IsFiniteSet(Computed(kind)) /\ Cardinality(Computed(kind)) \in Nat
<1>1. IsFiniteSet({"net"})
  BY FS_Singleton
<1>2. IsFiniteSet(Earned \cup Withheld)
  BY NamesFinite, FS_Union
<1>3. IsFiniteSet((Earned \cup Withheld) \cup {"net"})
  BY <1>1, <1>2, FS_Union
<1>4. Computed(kind) \subseteq (Earned \cup Withheld) \cup {"net"} /\ "net" \in Computed(kind)
  BY DEF Computed, Kinds, Earned, Withheld
<1>5. IsFiniteSet(Computed(kind))
  BY <1>3, <1>4, FS_Subset
<1>. QED BY <1>4, <1>5, FS_CardinalityType

\* The stored figures.
LEMMA StoredTyped ==
  ASSUME NEW x, NEW kind, Figured(x, kind)
  PROVE  /\ Stored(x) \in [Names -> Int]
         /\ \A n \in Names \ {"net"} : Stored(x)[n] = Rounded(x[n]) /\ Stored(x)[n] \in Nat
         /\ Stored(x)["net"] = Rounded(NetPay(x)) /\ NetPay(x) \in Int
         /\ Stored(x)["meal"] <= Stored(x)["benefit"]
<1>1. \A n \in Names : x[n] \in Nat
  BY DEF Figured
<1>2. NetPay(x) \in Int
  BY <1>1, TotalsTyped DEF NetPay
<1>3. "meal" \in Names \ {"net"} /\ "benefit" \in Names \ {"net"}
  BY DEF Names, Earned, Withheld, Owed
<1>4. \A n \in Names \ {"net"} : Stored(x)[n] = Rounded(x[n]) /\ Rounded(x[n]) \in Nat
  BY <1>1, RoundedNear DEF Stored
<1>5. Stored(x)["net"] = Rounded(NetPay(x)) /\ Rounded(NetPay(x)) \in Int
  BY <1>2, RoundedNear, NamesFinite DEF Stored
<1>6. Stored(x) = [n \in Names |-> Stored(x)[n]]
  BY DEF Stored
<1>7. \A n \in Names : Stored(x)[n] \in Int
  BY <1>4, <1>5
<1>8. Stored(x) \in [Names -> Int]
  BY <1>6, <1>7
<1>9. Rounded(x["meal"]) <= Rounded(x["benefit"])
  BY <1>1, <1>3, RoundedInOrder DEF Figured
<1>. QED BY <1>2, <1>3, <1>4, <1>5, <1>8, <1>9

\* What the two sides of an entry miss.
Gap(f) == Debits(f) - Credits(f) - f.previous

\* The gap is that of the totals.
LEMMA GapOfTotals ==
  ASSUME NEW f \in [Names -> Int], f["meal"] <= f["benefit"]
  PROVE  /\ Gap(f) = Total(f, Earned) - Total(f, Withheld) - f["net"]
         /\ Gap(f) \in Int
<1>1. \A n \in Names : f[n] \in Int
  OBVIOUS
<1>2. /\ f["net"] \in Int /\ f["inss"] \in Int /\ f["irrf"] \in Int /\ f["transport"] \in Int
      /\ f["meal"] \in Int /\ f["previous"] \in Int
      /\ f["fgts"] \in Int /\ f["employer"] \in Int /\ f["benefit"] \in Int /\ f["fine"] \in Int
  BY DEF Names, Earned, Withheld, Owed
<1>3. /\ Total(f, Earned) \in Int
      /\ Total(f, Withheld) = f["inss"] + f["irrf"] + f["transport"] + f["meal"] + f["previous"]
  BY <1>1, TotalsTyped
<1>4. NotNegative(f.benefit - f.meal) = f["benefit"] - f["meal"]
  BY <1>2 DEF NotNegative
<1>. QED BY <1>2, <1>3, <1>4 DEF Gap, Debits, Credits

\* Each computed figure takes half a cent at most, and the others nothing.
LEMMA GapBound ==
  ASSUME NEW x, NEW kind \in Kinds, Figured(x, kind)
  PROVE  LET most == Cardinality(Computed(kind))
         IN  2 * Gap(Stored(x)) \in -most .. most
<1>. DEFINE s == Stored(x)
            v == [n \in Names |-> IF n = "net" THEN NetPay(x) ELSE x[n]]
            All == (Earned \cup Withheld) \cup {"net"}
            C == Computed(kind)
            e == [n \in All |-> IF n \in Earned THEN s[n] * Unit - v[n] ELSE v[n] - s[n] * Unit]
<1>1. Unit \in Nat \ {0}
  BY UnitTyped
<1>2. /\ s \in [Names -> Int] /\ s["meal"] <= s["benefit"] /\ NetPay(x) \in Int
      /\ \A n \in Names : x[n] \in Int
      /\ \A n \in Names : v[n] \in Int /\ s[n] = Rounded(v[n])
  <2>1. \A n \in Names : x[n] \in Int
    BY DEF Figured
  <2>. QED BY <2>1, StoredTyped
<1>3. /\ \A n \in Earned \cup Withheld : v[n] = x[n]
      /\ v["net"] = NetPay(x) /\ All \subseteq Names
  BY NamesFinite
<1>4. \A n \in Names : /\ s[n] \in Int /\ v[n] \in Int /\ s[n] * Unit \in Int
                       /\ 2 * (s[n] * Unit - v[n]) \in -Unit .. Unit
  <2>. HIDE DEF s, v
  <2>1. ASSUME NEW n \in Names
        PROVE  /\ s[n] \in Int /\ v[n] \in Int /\ s[n] * Unit \in Int
               /\ 2 * (s[n] * Unit - v[n]) \in -Unit .. Unit
    <3>1. v[n] \in Int /\ s[n] = Rounded(v[n])
      BY <1>2
    <3>2. Rounded(v[n]) \in Int /\ 2 * (Rounded(v[n]) * Unit - v[n]) \in -Unit .. Unit
      BY <3>1, RoundedNear
    <3>. QED BY <1>1, <3>1, <3>2
  <2>. QED BY <2>1
<1>5. \A n \in All : /\ e[n] \in Int
                     /\ 2 * e[n] <= Unit /\ -2 * e[n] <= Unit
  <2>1. ASSUME NEW n \in All
        PROVE  e[n] \in Int /\ 2 * e[n] <= Unit /\ -2 * e[n] <= Unit
    <3>. DEFINE a == s[n] * Unit
                b == v[n]
    <3>1. a \in Int /\ b \in Int /\ 2 * (a - b) \in -Unit .. Unit
      BY <1>3, <1>4
    <3>2. e[n] = IF n \in Earned THEN a - b ELSE b - a
      OBVIOUS
    <3>. HIDE DEF a, b, e
    <3>. QED BY <1>1, <3>1, <3>2
  <2>. QED BY <2>1
<1>6. \A n \in All \ C : e[n] = 0
  <2>1. ASSUME NEW n \in All \ C
        PROVE  e[n] = 0
    <3>1. n \in (Earned \cup Withheld) \ Computed(kind)
      BY ComputedTyped
    <3>2. PICK c \in Nat : x[n] = Units(c)
      BY <3>1 DEF Figured
    <3>3. v[n] = Units(c)
      BY <1>3, <3>1, <3>2
    <3>4. n \in Names
      BY <1>3
    <3>5. s[n] = c
      BY <1>2, <3>3, <3>4, RoundedCents
    <3>6. s[n] * Unit = v[n] /\ v[n] \in Int
      BY <1>2, <3>3, <3>4, <3>5 DEF Units
    <3>7. e[n] = s[n] * Unit - v[n] \/ e[n] = v[n] - s[n] * Unit
      OBVIOUS
    <3>. HIDE DEF e, s, v
    <3>. QED BY <3>6, <3>7
  <2>. QED BY <2>1
<1>7. IsFiniteSet(All) /\ C \in SUBSET All
  <2>1. IsFiniteSet(Earned \cup Withheld) /\ IsFiniteSet({"net"})
    BY NamesFinite, FS_Union, FS_Singleton
  <2>. QED BY <2>1, FS_Union, ComputedTyped
<1>8. SumOf(e, Earned) = SumOf(s, Earned) * Unit - SumOf(v, Earned)
  <2>1. \A n \in Earned : s[n] \in Int /\ v[n] \in Int /\ IsCombined(e[n], s[n], v[n], Unit, 1)
    BY <1>3, <1>4 DEF IsCombined
  <2>2. SumOf(s, Earned) \in Int /\ SumOf(v, Earned) \in Int
    <3>. HIDE DEF s, v
    <3>. QED BY <2>1, NamesFinite, SumOfInt
  <2>3. IsCombined(SumOf(e, Earned), SumOf(s, Earned), SumOf(v, Earned), Unit, 1)
    <3>. HIDE DEF e, s, v
    <3>. QED BY <1>1, <2>1, NamesFinite, SumOfCombination
  <2>. HIDE DEF e, s, v
  <2>. QED BY <1>1, <2>2, <2>3 DEF IsCombined
<1>9. SumOf(e, Withheld) = SumOf(v, Withheld) - SumOf(s, Withheld) * Unit
  <2>1. \A n \in Withheld : n \in All /\ n \notin Earned /\ n \in Names
    BY NamesFinite
  <2>2. \A n \in Withheld : s[n] \in Int /\ v[n] \in Int /\ e[n] = v[n] - s[n] * Unit
    BY <1>4, <2>1
  <2>3. -Unit \in Int /\ -1 \in Int
    BY <1>1
  <2>. HIDE DEF e, s, v
  <2>4. \A n \in Withheld : s[n] \in Int /\ v[n] \in Int /\ IsCombined(e[n], s[n], v[n], -Unit, -1)
    <3>1. ASSUME NEW a \in Int, NEW b \in Int
          PROVE  b - a * Unit = a * (-Unit) - b * (-1)
      BY <1>1
    <3>. QED BY <2>2, <3>1 DEF IsCombined
  <2>5. SumOf(s, Withheld) \in Int /\ SumOf(v, Withheld) \in Int
    BY <2>2, NamesFinite, SumOfInt
  <2>6. IsCombined(SumOf(e, Withheld), SumOf(s, Withheld), SumOf(v, Withheld), -Unit, -1)
    BY <2>3, <2>4, NamesFinite, SumOfCombination
  <2>7. SumOf(e, Withheld) = SumOf(s, Withheld) * (-Unit) - SumOf(v, Withheld) * (-1)
    BY <2>6 DEF IsCombined
  <2>8. ASSUME NEW a \in Int, NEW b \in Int
        PROVE  a * (-Unit) - b * (-1) = b - a * Unit
    BY <1>1
  <2>. QED BY <2>5, <2>7, <2>8
<1>10. SumOf(v, Earned) = Total(x, Earned) /\ SumOf(v, Withheld) = Total(x, Withheld)
  <2>1. (\A n \in Earned : v[n] = x[n]) /\ \A n \in Withheld : v[n] = x[n]
    BY <1>3
  <2>. HIDE DEF v
  <2>2. SumOf(v, Earned) = SumOf(x, Earned) /\ SumOf(v, Withheld) = SumOf(x, Withheld)
    BY <2>1, NamesFinite, SumOfSame
  <2>. QED BY <1>2, <2>2, TotalsTyped
<1>11. SumOf(e, All) = SumOf(e, Earned) + SumOf(e, Withheld) + e["net"]
  <2>1. \A n \in Earned \cup Withheld : e[n] \in Int
    BY <1>5
  <2>2. IsFiniteSet(Earned \cup Withheld)
    BY NamesFinite, FS_Union
  <2>3. \A n \in (Earned \cup Withheld) \cup {"net"} : e[n] \in Int
    BY <1>5
  <2>. HIDE DEF e
  <2>4. SumOf(e, Earned \cup Withheld) = SumOf(e, Earned) + SumOf(e, Withheld)
    BY <2>1, NamesFinite, SumOfDisjoint
  <2>5. SumOf(e, (Earned \cup Withheld) \cup {"net"}) = SumOf(e, Earned \cup Withheld) + e["net"]
    BY <2>2, <2>3, NamesFinite, SumOfAdded
  <2>. QED BY <2>4, <2>5
<1>12. e["net"] = NetPay(x) - s["net"] * Unit
  BY <1>3, NamesFinite
<1>13. Gap(s) = Total(s, Earned) - Total(s, Withheld) - s["net"] /\ Gap(s) \in Int
  BY <1>2, GapOfTotals
<1>14. /\ Total(s, Earned) = SumOf(s, Earned) /\ Total(s, Withheld) = SumOf(s, Withheld)
       /\ Total(s, Earned) \in Int /\ Total(s, Withheld) \in Int /\ s["net"] \in Int
       /\ Total(x, Earned) \in Int /\ Total(x, Withheld) \in Int
  <2>1. \A n \in Names : s[n] \in Int
    BY <1>4
  <2>. HIDE DEF s
  <2>. QED BY <1>2, <2>1, TotalsTyped, NamesFinite
<1>15. SumOf(e, All) = Gap(s) * Unit
  <2>. DEFINE a == Total(s, Earned)
              b == Total(s, Withheld)
              c == s["net"]
              p == Total(x, Earned)
              q == Total(x, Withheld)
  <2>1. SumOf(e, All) = (a * Unit - p) + (q - b * Unit) + ((p - q) - c * Unit)
    BY <1>8, <1>9, <1>10, <1>11, <1>12, <1>14 DEF NetPay
  <2>2. Gap(s) = a - b - c
    BY <1>13
  <2>3. a \in Int /\ b \in Int /\ c \in Int /\ p \in Int /\ q \in Int
    BY <1>14
  <2>. HIDE DEF a, b, c, p, q
  <2>4. (a - b - c) * Unit = a * Unit - b * Unit - c * Unit
        /\ a * Unit \in Int /\ b * Unit \in Int /\ c * Unit \in Int
    BY <1>1, <2>3
  <2>. HIDE DEF e, All, s
  <2>. QED BY <2>1, <2>2, <2>3, <2>4
<1>16. SumOf(e, All) = SumOf(e, C)
  <2>. HIDE DEF e, All, C
  <2>. QED BY <1>5, <1>6, <1>7, SumOfPart
<1>17. IsFiniteSet(C) /\ Cardinality(C) \in Nat
  BY ComputedTyped
<1>18. 2 * SumOf(e, C) <= Unit * Cardinality(C) /\ -2 * SumOf(e, C) <= Unit * Cardinality(C)
  <2>1. \A n \in C : e[n] \in Int /\ 2 * e[n] <= Unit /\ -2 * e[n] <= Unit
    BY <1>5, <1>7
  <2>. HIDE DEF e, C
  <2>. QED BY <1>1, <1>17, <2>1, SumOfSmall
<1>19. 2 * Gap(s) <= Cardinality(C) /\ -(2 * Gap(s)) <= Cardinality(C)
  <2>. DEFINE g == Gap(s)
              k == Cardinality(C)
  <2>1. g \in Int /\ k \in Nat /\ 2 * (g * Unit) <= Unit * k /\ -2 * (g * Unit) <= Unit * k
    BY <1>13, <1>15, <1>16, <1>17, <1>18
  <2>. HIDE DEF g, k
  <2>2. (2 * g) * Unit <= k * Unit /\ (-(2 * g)) * Unit <= k * Unit
    BY <1>1, <2>1
  <2>3. 2 * g \in Int /\ -(2 * g) \in Int /\ k \in Int
    BY <2>1
  <2>4. 2 * g <= k /\ -(2 * g) <= k
    BY <1>1, <2>2, <2>3, Cancelled
  <2>. QED BY <2>4 DEF g, k
<1>. HIDE DEF s, C
<1>20. 2 * Gap(s) \in -Cardinality(C) .. Cardinality(C)
  BY <1>13, <1>17, <1>19
<1>. QED BY <1>20 DEF s, C

-----------------------------------------------------------------------------
(* The figures of each kind of event *)

\* Nothing withheld, nothing earned.
LEMMA NothingTyped ==
  Nothing \in [Names -> Nat] /\ \A n \in Names : Nothing[n] = 0
BY DEF Nothing

\* Charges on a base.
LEMMA TaxedTyped ==
  ASSUME EmployeeOK, NEW f \in [Names -> Nat], NEW base \in Nat
  PROVE  /\ Taxed(f, base) \in [Names -> Nat]
         /\ \A n \in Names \ {"inss", "irrf", "fgts", "employer"} : Taxed(f, base)[n] = f[n]
<1>1. Inss(base) \in Nat /\ Irrf(base) \in Nat
  BY TaxesTyped
<1>2. Of(Settings.fgts, base) \in Nat /\ Of(Settings.employer, base) \in Nat
  BY SettingsTyped, OfTyped
<1>. QED BY <1>1, <1>2 DEF Taxed

\* Whole cents.
LEMMA WholeCents ==
  /\ \E c \in Nat : 0 = Units(c)
  /\ \A k \in Nat : \E c \in Nat : Units(k) = Units(c)
<1>1. Units(0) = 0
  BY UnitTyped DEF Units
<1>. QED BY <1>1

\* Parts of the salary.
LEMMA SalaryTyped ==
  ASSUME EmployeeOK
  PROVE  /\ Salary \in Nat /\ Salary = Units(employee.salary) /\ Daily \in Nat
         /\ \A k \in Nat : /\ Daily * k \in Nat /\ (Daily * k) \div 3 \in Nat
                           /\ (Salary * k) \div 12 \in Nat /\ ((Salary * k) \div 12) \div 3 \in Nat
                           /\ (Daily * k) \div 2 \in Nat
<1>1. Salary \in Nat /\ Salary = Units(employee.salary)
  BY UnitTyped DEF EmployeeOK, Salary
<1>2. Daily \in Nat
  BY <1>1 DEF Daily
<1>3. ASSUME NEW k \in Nat
      PROVE  /\ Daily * k \in Nat /\ (Daily * k) \div 3 \in Nat
             /\ (Salary * k) \div 12 \in Nat /\ ((Salary * k) \div 12) \div 3 \in Nat
             /\ (Daily * k) \div 2 \in Nat
  <2>1. Daily * k \in Nat /\ Salary * k \in Nat
    BY <1>1, <1>2
  <2>2. \A a \in Nat : a \div 2 \in Nat /\ a \div 3 \in Nat /\ a \div 12 \in Nat
    OBVIOUS
  <2>. QED BY <2>1, <2>2
<1>. QED BY <1>1, <1>2, <1>3

\* The monthly payroll.
LEMMA PayrollFigured ==
  ASSUME EmployeeOK
  PROVE  Figured(Payroll, "payroll")
<1>. DEFINE t == Taxed(Nothing, Salary)
            v == AtMost(Units(employee.transport), Of(Settings.transport, Salary))
            m == Of(employee.mealRate, Units(employee.meal))
            b == Units(employee.meal)
<1>1. t \in [Names -> Nat] /\ \A n \in Names \ {"inss", "irrf", "fgts", "employer"} : t[n] = 0
  <2>1. Salary \in Nat
    BY SalaryTyped
  <2>. QED BY <2>1, NothingTyped, TaxedTyped
<1>2. v \in Nat
  BY SettingsTyped, SalaryTyped, OfTyped, UnitTyped DEF EmployeeOK, AtMost
<1>3. m \in Nat /\ b \in Nat /\ m <= b
  BY OfTyped, UnitTyped DEF EmployeeOK
<1>4. Payroll = [t EXCEPT !.salary = Salary, !.transport = v, !.meal = m, !.benefit = b]
  BY DEF Payroll
<1>5. Salary \in Nat /\ Salary = Units(employee.salary) /\ employee.salary \in Nat
  BY SalaryTyped DEF EmployeeOK
<1>. HIDE DEF t, v, m, b
<1>6. Payroll \in [Names -> Nat]
  BY <1>1, <1>2, <1>3, <1>4, <1>5
<1>7. {"salary", "transport", "meal", "benefit"} \subseteq Names
  BY DEF Names, Earned, Withheld, Owed
<1>8. Payroll["meal"] = m /\ Payroll["benefit"] = b /\ Payroll["salary"] = Salary
  BY <1>1, <1>4, <1>7
<1>9. ASSUME NEW n \in (Earned \cup Withheld) \ Computed("payroll")
      PROVE  \E c \in Nat : Payroll[n] = Units(c)
  <2>1. n = "salary" \/ n \in Names \ {"inss", "irrf", "fgts", "employer", "salary", "transport", "meal", "benefit"}
    BY DEF Names, Earned, Withheld, Owed, Computed
  <2>2. CASE n = "salary"
    BY <1>5, <1>8, <2>2
  <2>3. CASE n \in Names \ {"inss", "irrf", "fgts", "employer", "salary", "transport", "meal", "benefit"}
    <3>1. Payroll[n] = 0
      BY <1>1, <1>4, <2>3
    <3>. QED BY <3>1, WholeCents
  <2>. QED BY <2>1, <2>2, <2>3
<1>. QED BY <1>3, <1>6, <1>8, <1>9 DEF Figured

\* A vacation.
LEMMA VacationFigured ==
  ASSUME EmployeeOK, NEW taken \in Nat, NEW sold \in Nat
  PROVE  Figured(Vacation(taken, sold), "vacation")
<1>. DEFINE base == Daily * taken + (Daily * taken) \div 3
            t == Taxed(Nothing, base)
            a == Daily * taken
            b == (Daily * taken) \div 3
            c == Daily * sold
            d == (Daily * sold) \div 3
            x == Vacation(taken, sold)
<1>1. a \in Nat /\ b \in Nat /\ c \in Nat /\ d \in Nat
  BY SalaryTyped
<1>2. t \in [Names -> Nat] /\ \A n \in Names \ {"inss", "irrf", "fgts", "employer"} : t[n] = 0
  <2>1. base \in Nat
    BY <1>1
  <2>. HIDE DEF base
  <2>. QED BY <2>1, NothingTyped, TaxedTyped
<1>3. x = [t EXCEPT !.salary = a, !.bonus = b, !.sold = c, !.soldBonus = d]
  BY DEF Vacation, VacationPay
<1>. HIDE DEF t, a, b, c, d, x
<1>4. x \in [Names -> Nat]
  BY <1>1, <1>2, <1>3
<1>5. \A n \in Names \ {"inss", "irrf", "fgts", "employer", "salary", "bonus", "sold", "soldBonus"} : x[n] = 0
  BY <1>2, <1>3
<1>6. x["meal"] = 0 /\ x["benefit"] = 0
  BY <1>5 DEF Names, Earned, Withheld, Owed
<1>7. ASSUME NEW n \in (Earned \cup Withheld) \ Computed("vacation")
      PROVE  \E k \in Nat : x[n] = Units(k)
  <2>1. n \in Names \ {"inss", "irrf", "fgts", "employer", "salary", "bonus", "sold", "soldBonus"}
    BY DEF Names, Earned, Withheld, Owed, Computed
  <2>2. x[n] = 0
    BY <1>5, <2>1
  <2>. QED BY <2>2, WholeCents
<1>8. Figured(x, "vacation")
  BY <1>4, <1>6, <1>7 DEF Figured
<1>. QED BY <1>8 DEF x

\* Months worked and months of the cycle are counts.
LEMMA MonthsTyped ==
  ASSUME NEW d \in Dates, NEW year \in Nat, NEW last \in Int
  PROVE  WorkedMonths(d, year, last) \in Nat
<1>. DEFINE from == Later(Day(d), FirstDay(12 * year))
            to == AtMost(last, LastDay(12 * year + 11))
            worked(m) == AtMost(to, LastDay(m)) - Later(from, FirstDay(m)) + 1
            S == {m \in 12 * year .. 12 * year + 11 : worked(m) >= 15}
<1>1. IsFiniteSet(12 * year .. 12 * year + 11)
  BY FS_Interval
<1>. HIDE DEF worked
<1>2. IsFiniteSet(S)
  BY <1>1, FS_Subset
<1>3. Cardinality(S) \in Nat
  BY <1>2, FS_CardinalityType
<1>4. WorkedMonths(d, year, last) = Cardinality(S)
  BY DEF WorkedMonths, worked
<1>. QED BY <1>3, <1>4

\* The months of a cycle are a number, ...
LEMMA CycleTyped ==
  ASSUME NEW d \in Dates, NEW e \in Dates
  PROVE  FullMonths(d, e) \in Nat /\ CycleMonths(d, e) \in Nat
<1>1. d.month \in Nat /\ e.month \in Nat /\ d.day \in Int /\ e.day \in Int
  BY DateTyped
<1>2. FullMonths(d, e) \in Nat
  BY <1>1 DEF FullMonths, NotNegative
<1>. DEFINE w == FullMonths(d, e)
            extra == IF Day(e) - DayAfterMonths(d, w) >= 15 THEN 1 ELSE 0
<1>3. w % 12 \in 0 .. 11 /\ extra \in 0 .. 1
  BY <1>2
<1>4. CycleMonths(d, e) = AtMost((w % 12) + extra, 12)
  BY DEF CycleMonths
<1>. HIDE DEF w, extra
<1>5. CycleMonths(d, e) \in Nat
  BY <1>3, <1>4 DEF AtMost
<1>. QED BY <1>2, <1>5

\* ... and so are the days of notice.
LEMMA NoticeTyped ==
  ASSUME NEW d \in Dates, NEW e \in Dates, NotBefore(e, d)
  PROVE  NoticeDays(d, e) \in Nat
<1>1. Day(e) - Day(d) \in Nat
  BY DaysInOrder, DateTyped
<1>2. ((Day(e) - Day(d)) * 4) \div 1461 \in Nat
  BY <1>1
<1>. QED BY <1>2 DEF NoticeDays, AtMost

\* The thirteenth salary of the year.
LEMMA BonusTyped ==
  ASSUME EmployeeOK, today \in Dates
  PROVE  YearlyBonus \in Nat
<1>1. YearOf(today) \in Nat
  BY DateTyped, PlaceInYear DEF YearOf
<1>2. Forever \in Int
  <2>1. LastMonth + 12 \in Nat
    BY CalculationAssumption
  <2>. QED BY <2>1, MonthTyped DEF Forever
<1>3. WorkedMonths(employee.admission, YearOf(today), Forever) \in Nat
  BY <1>1, <1>2, MonthsTyped DEF EmployeeOK
<1>. QED BY <1>3, SalaryTyped DEF YearlyBonus

\* The first installment, ...
LEMMA FirstFigured ==
  ASSUME EmployeeOK, today \in Dates
  PROVE  Figured(FirstInstallment, "thirteenth") /\ Stored(FirstInstallment).net \in Nat
<1>. DEFINE x == FirstInstallment
            b == YearlyBonus \div 2
<1>1. b \in Nat
  BY BonusTyped
<1>2. x = [Nothing EXCEPT !.thirteenth = b]
  BY DEF FirstInstallment
<1>. HIDE DEF x, b
<1>3. x \in [Names -> Nat] /\ \A n \in Names \ {"thirteenth"} : x[n] = 0
  BY <1>1, <1>2, NothingTyped
<1>4. x["meal"] = 0 /\ x["benefit"] = 0
  BY <1>3 DEF Names, Earned, Withheld, Owed
<1>5. ASSUME NEW n \in (Earned \cup Withheld) \ Computed("thirteenth")
      PROVE  \E k \in Nat : x[n] = Units(k)
  <2>1. n \in Names \ {"thirteenth"}
    BY DEF Names, Earned, Withheld, Owed, Computed
  <2>2. x[n] = 0
    BY <1>3, <2>1
  <2>. QED BY <2>2, WholeCents
<1>6. Figured(x, "thirteenth")
  BY <1>3, <1>4, <1>5 DEF Figured
<1>7. NetPay(x) \in Nat
  <2>1. \A n \in Names : x[n] \in Int
    BY <1>3
  <2>2. x["inss"] = 0 /\ x["irrf"] = 0 /\ x["transport"] = 0 /\ x["meal"] = 0 /\ x["previous"] = 0
    BY <1>3 DEF Names, Earned, Withheld, Owed
  <2>3. Total(x, Withheld) = 0
    BY <2>1, <2>2, TotalsTyped
  <2>4. Total(x, Earned) \in Nat
    <3>1. \A n \in Earned : x[n] \in Int /\ x[n] \in Nat
      BY <1>3, NamesFinite
    <3>2. SumOf(x, Earned) \in Nat
      BY <3>1, NamesFinite, SumOfInt
    <3>. QED BY <2>1, <3>2, TotalsTyped
  <2>. QED BY <2>3, <2>4 DEF NetPay
<1>8. Stored(x)["net"] \in Nat
  <2>1. NetPay(x) \in Int /\ NetPay(x) >= 0
    BY <1>7
  <2>. QED BY <1>6, <2>1, StoredTyped, RoundedNear
<1>. QED BY <1>6, <1>8 DEF x

\* ... and the second, or the only one.
LEMMA FinalFigured ==
  ASSUME EmployeeOK, today \in Dates, NEW previous \in Nat
  PROVE  Figured(FinalInstallment(previous), "thirteenth")
<1>. DEFINE t == Taxed(Nothing, YearlyBonus)
            p == Units(previous)
            x == FinalInstallment(previous)
<1>1. YearlyBonus \in Nat /\ p \in Nat
  BY BonusTyped, UnitTyped
<1>2. t \in [Names -> Nat] /\ \A n \in Names \ {"inss", "irrf", "fgts", "employer"} : t[n] = 0
  BY <1>1, NothingTyped, TaxedTyped
<1>3. x = [t EXCEPT !.thirteenth = YearlyBonus, !.previous = p]
  BY DEF FinalInstallment
<1>. HIDE DEF t, x
<1>4. /\ x \in [Names -> Nat]
      /\ \A n \in Names \ {"inss", "irrf", "fgts", "employer", "thirteenth", "previous"} : x[n] = 0
  <2>. HIDE DEF p
  <2>. QED BY <1>1, <1>2, <1>3
<1>5. x["meal"] = 0 /\ x["benefit"] = 0
  BY <1>4 DEF Names, Earned, Withheld, Owed
<1>6. ASSUME NEW n \in (Earned \cup Withheld) \ Computed("thirteenth")
      PROVE  \E k \in Nat : x[n] = Units(k)
  <2>1. n = "previous" \/ n \in Names \ {"inss", "irrf", "fgts", "employer", "thirteenth", "previous"}
    BY DEF Names, Earned, Withheld, Owed, Computed
  <2>2. CASE n = "previous"
    <3>1. "previous" \in Names
      BY NamesFinite DEF Withheld
    <3>2. x[n] = p
      BY <1>2, <1>3, <2>2, <3>1
    <3>. QED BY <3>2
  <2>3. CASE n \in Names \ {"inss", "irrf", "fgts", "employer", "thirteenth", "previous"}
    BY <1>4, <2>3, WholeCents
  <2>. QED BY <2>1, <2>2, <2>3
<1>7. Figured(x, "thirteenth")
  BY <1>4, <1>5, <1>6 DEF Figured
<1>. QED BY <1>7 DEF x

\* A termination.
LEMMA TerminationFigured ==
  ASSUME EmployeeOK, today \in Dates, NotBefore(today, employee.admission), NEW reason
  PROVE  Figured(Termination(reason), "termination")
<1>. DEFINE months == WorkedMonths(employee.admission, YearOf(today), Day(today))
            cycle == IF reason = "WITH_CAUSE" THEN 0 ELSE CycleMonths(employee.admission, today)
            notice == NoticeDays(employee.admission, today)
            balance == Daily * today.day
            bonus == (Salary * months) \div 12
            paid == Daily * notice
            share == CASE reason = "WITHOUT_CAUSE"    -> Settings.fineWithoutCause
                       [] reason = "MUTUAL_AGREEMENT" -> Settings.fineAgreed
                       [] OTHER                       -> 0
            a == Units(employee.vested)
            b == (Salary * cycle) \div 12
            c == ((Salary * cycle) \div 12) \div 3
            d == CASE reason = "WITHOUT_CAUSE"    -> paid
                   [] reason = "MUTUAL_AGREEMENT" -> paid \div 2
                   [] OTHER                       -> 0
            e == Of(share, Units(employee.fgts))
            g == Inss(balance) + Inss(bonus)
            h == Irrf(balance) + Irrf(bonus)
            x == Termination(reason)
            rest == Names \ {"salary", "thirteenth", "vested", "vacation", "vacationBonus",
                             "notice", "fine", "inss", "irrf"}
<1>1. employee.admission \in Dates /\ employee.vested \in Nat /\ employee.fgts \in Nat
  BY DEF EmployeeOK
<1>2. months \in Nat
  <2>1. YearOf(today) \in Nat /\ Day(today) \in Int
    BY DateTyped, PlaceInYear DEF YearOf
  <2>. QED BY <1>1, <2>1, MonthsTyped
<1>3. cycle \in Nat
  BY <1>1, CycleTyped
<1>4. notice \in Nat
  BY <1>1, NoticeTyped
<1>5. today.day \in Nat
  BY DateTyped
<1>6. balance \in Nat
  BY <1>5, SalaryTyped
<1>7. bonus \in Nat
  <2>. HIDE DEF months
  <2>. QED BY <1>2, SalaryTyped
<1>8. paid \in Nat /\ paid \div 2 \in Nat
  <2>. HIDE DEF notice
  <2>. QED BY <1>4, SalaryTyped
<1>9. b \in Nat /\ c \in Nat
  <2>. HIDE DEF cycle
  <2>. QED BY <1>3, SalaryTyped
<1>10. d \in Nat
  <2>. HIDE DEF paid
  <2>. QED BY <1>8
<1>11. a \in Nat /\ Units(employee.fgts) \in Nat
  BY <1>1, UnitTyped
<1>12. e \in Nat
  <2>1. share \in 0 .. RateScale
    BY SettingsTyped, CalculationAssumption
  <2>. HIDE DEF share
  <2>. QED BY <1>11, <2>1, OfTyped
<1>13. g \in Nat /\ h \in Nat
  <2>. HIDE DEF balance, bonus
  <2>1. Inss(balance) \in Nat /\ Inss(bonus) \in Nat /\ Irrf(balance) \in Nat /\ Irrf(bonus) \in Nat
    BY <1>6, <1>7, TaxesTyped
  <2>. QED BY <2>1
<1>14. x = [Nothing EXCEPT
              !.salary = balance, !.thirteenth = bonus, !.vested = a, !.vacation = b,
              !.vacationBonus = c, !.notice = d, !.fine = e, !.inss = g, !.irrf = h]
  BY DEF Termination, BalanceOfSalary, LastBonus
<1>. HIDE DEF months, cycle, notice, balance, bonus, paid, share, b, c, d, e, g, h, x
<1>15. x \in [Names -> Nat] /\ \A n \in rest : x[n] = 0
  <2>. HIDE DEF a
  <2>. QED BY <1>6, <1>7, <1>9, <1>10, <1>11, <1>12, <1>13, <1>14, NothingTyped
<1>16. x["vested"] = a
  <2>1. "vested" \in Names
    BY NamesFinite DEF Earned
  <2>. HIDE DEF a
  <2>. QED BY <1>14, <2>1, NothingTyped
<1>17. x["meal"] = 0 /\ x["benefit"] = 0
  BY <1>15 DEF Names, Earned, Withheld, Owed
<1>18. ASSUME NEW n \in (Earned \cup Withheld) \ Computed("termination")
       PROVE  \E k \in Nat : x[n] = Units(k)
  <2>1. n = "vested" \/ n \in rest
    BY DEF Names, Earned, Withheld, Owed, Computed
  <2>2. CASE n = "vested"
    BY <1>1, <1>16, <2>2
  <2>3. CASE n \in rest
    BY <1>15, <2>3, WholeCents
  <2>. QED BY <2>1, <2>2, <2>3
<1>19. Figured(x, "termination")
  BY <1>15, <1>17, <1>18 DEF Figured
<1>. QED BY <1>19 DEF x

-----------------------------------------------------------------------------
(* Entries balance but for rounding *)

\* The figures of the event are those of its kind.
EventOK ==
  \/ event = NoEvent
  \/ /\ event.kind \in Kinds
     /\ event.status \in {"CALCULATED", "POSTED"}
     /\ \E x : Figured(x, event.kind) /\ event.figures = Stored(x)

\* What every date leaves: the employee is known, and was admitted.
FiguresInv ==
  /\ employee \in Employees
  /\ today \in Dates
  /\ NotBefore(today, employee.admission)
  /\ EventOK

\* Every employee starts within the invariant.
LEMMA FiguresStart ==
  ASSUME FiguresInit
  PROVE  FiguresInv
<1>1. EmployeeOK
  BY EmployeeTyped DEF FiguresInit
<1>2. employee.admission.day \in Int /\ employee.admission.month \in Int
  BY <1>1, DateTyped DEF EmployeeOK
<1>. QED BY <1>1, <1>2 DEF FiguresInit, FiguresInv, EmployeeOK, NotBefore, EventOK

\* Calculating an event.
LEMMA CalculatesStep ==
  ASSUME FiguresInv, NEW kind \in Kinds, NEW x, Figured(x, kind), Calculates(kind, x)
  PROVE  FiguresInv'
<1>1. UNCHANGED <<employee, today>>
  BY DEF Calculates
<1>2. event' = [kind |-> kind, status |-> "CALCULATED", figures |-> Stored(x)]
  BY DEF Calculates
<1>3. event'.kind = kind /\ event'.status = "CALCULATED" /\ event'.figures = Stored(x)
  BY <1>2
<1>4. EventOK'
  BY <1>3 DEF EventOK
<1>. QED BY <1>1, <1>4 DEF FiguresInv, NotBefore

\* Every step keeps the invariant.
LEMMA FiguresStep ==
  ASSUME FiguresInv, [FiguresNext]_figureVars
  PROVE  FiguresInv'
<1>1. EmployeeOK /\ today \in Dates /\ NotBefore(today, employee.admission)
  BY EmployeeTyped DEF FiguresInv
<1>2. CASE CalculatePayroll
  BY <1>1, <1>2, PayrollFigured, CalculatesStep DEF CalculatePayroll, Kinds
<1>3. CASE CalculateVacation
  <2>1. PICK taken \in {20, 30}, sold \in {0, 10} : Calculates("vacation", Vacation(taken, sold))
    BY <1>3 DEF CalculateVacation
  <2>2. taken \in Nat /\ sold \in Nat
    OBVIOUS
  <2>3. Figured(Vacation(taken, sold), "vacation")
    BY <1>1, <2>2, VacationFigured
  <2>. QED BY <2>1, <2>3, CalculatesStep DEF Kinds
<1>4. CASE CalculateThirteenth
  <2>1. CASE Calculates("thirteenth", FirstInstallment)
    BY <1>1, <2>1, FirstFigured, CalculatesStep DEF Kinds
  <2>2. CASE \E previous \in {0, Stored(FirstInstallment).net} :
               Calculates("thirteenth", FinalInstallment(previous))
    <3>1. PICK previous \in {0, Stored(FirstInstallment).net} :
                 Calculates("thirteenth", FinalInstallment(previous))
      BY <2>2
    <3>2. previous \in Nat
      BY <1>1, FirstFigured
    <3>3. Figured(FinalInstallment(previous), "thirteenth")
      BY <1>1, <3>2, FinalFigured
    <3>. QED BY <3>1, <3>3, CalculatesStep DEF Kinds
  <2>. QED BY <1>4, <2>1, <2>2 DEF CalculateThirteenth
<1>5. CASE CalculateTermination
  <2>1. PICK reason \in Reasons : Calculates("termination", Termination(reason))
    BY <1>5 DEF CalculateTermination
  <2>2. Figured(Termination(reason), "termination")
    BY <1>1, TerminationFigured
  <2>. QED BY <2>1, <2>2, CalculatesStep DEF Kinds
<1>6. CASE Post
  <2>1. event.status = "CALCULATED" /\ event' = [event EXCEPT !.status = "POSTED"]
        /\ UNCHANGED <<employee, today>>
    BY <1>6 DEF Post
  <2>2. event # NoEvent
    BY <2>1 DEF NoEvent
  <2>3. EventOK'
    <3>1. PICK x : Figured(x, event.kind) /\ event.figures = Stored(x)
      BY <2>2 DEF FiguresInv, EventOK
    <3>2. event.kind \in Kinds
      BY <2>2 DEF FiguresInv, EventOK
    <3>3. event'.kind = event.kind /\ event'.figures = event.figures /\ event'.status = "POSTED"
      BY <2>1
    <3>. QED BY <3>1, <3>2, <3>3 DEF EventOK
  <2>. QED BY <2>1, <2>3 DEF FiguresInv, NotBefore
<1>7. CASE NextDay
  <2>1. Day(today) < LastDay(LastMonth) /\ today' = Tomorrow(today) /\ event' = NoEvent
        /\ employee' = employee
    BY <1>7 DEF NextDay
  <2>2. Tomorrow(today) \in Dates /\ NotBefore(Tomorrow(today), today)
    BY <1>1, <2>1, TomorrowNext
  <2>3. NotBefore(Tomorrow(today), employee.admission)
    <3>1. /\ today.month \in Int /\ today.day \in Int
          /\ Tomorrow(today).month \in Int /\ Tomorrow(today).day \in Int
          /\ employee.admission.month \in Int /\ employee.admission.day \in Int
      BY <1>1, <2>2, DateTyped DEF EmployeeOK
    <3>. QED BY <1>1, <2>2, <3>1 DEF NotBefore
  <2>4. EventOK'
    BY <2>1 DEF EventOK
  <2>. QED BY <2>1, <2>2, <2>3, <2>4 DEF FiguresInv, NotBefore
<1>8. CASE UNCHANGED figureVars
  BY <1>8 DEF figureVars, FiguresInv, EventOK, NotBefore
<1>. QED BY <1>2, <1>3, <1>4, <1>5, <1>6, <1>7, <1>8 DEF FiguresNext

\* The invariant bounds the gap.
LEMMA FiguresBalance ==
  ASSUME FiguresInv
  PROVE  BalancedToRounding
<1>1. CASE event = NoEvent
  <2>1. event.figures = Nothing /\ event.kind = "none" /\ event.status = "DRAFT"
    BY <1>1 DEF NoEvent
  <2>2. FiguresTypeOK
    <3>1. event.figures \in [Names -> Int] /\ \A n \in Names \ {"net"} : event.figures[n] >= 0
      BY <2>1, NothingTyped
    <3>. QED BY <2>1, <3>1 DEF FiguresTypeOK, FiguresInv
  <2>3. Computed(event.kind) = {}
    BY <2>1 DEF Computed
  <2>4. Gap(Nothing) = 0
    <3>1. Nothing \in [Names -> Int] /\ Nothing["meal"] <= Nothing["benefit"] /\ Nothing["net"] = 0
          /\ \A n \in Names : Nothing[n] = 0 /\ Nothing[n] \in Int
      BY NothingTyped DEF Names, Earned, Withheld, Owed
    <3>2. Gap(Nothing) = Total(Nothing, Earned) - Total(Nothing, Withheld) - Nothing["net"]
      BY <3>1, GapOfTotals
    <3>3. Total(Nothing, Withheld) = 0
      <4>1. Nothing["inss"] = 0 /\ Nothing["irrf"] = 0 /\ Nothing["transport"] = 0
            /\ Nothing["meal"] = 0 /\ Nothing["previous"] = 0
        BY NothingTyped DEF Names, Earned, Withheld, Owed
      <4>. QED BY <3>1, <4>1, TotalsTyped
    <3>4. Total(Nothing, Earned) = 0
      <4>1. \A n \in Earned : Nothing[n] = [m \in Earned |-> 0][n]
        BY NothingTyped, NamesFinite
      <4>2. SumOf(Nothing, Earned) = SumOf([m \in Earned |-> 0], Earned)
        BY <4>1, NamesFinite, SumOfSame
      <4>. QED BY <3>1, <4>2, NamesFinite, SumOfZeros, TotalsTyped
    <3>. QED BY <3>1, <3>2, <3>3, <3>4
  <2>5. Cardinality(Computed(event.kind)) = 0
    BY <2>3, FS_EmptySet
  <2>. QED BY <2>1, <2>2, <2>4, <2>5 DEF BalancedToRounding, Gap
<1>2. CASE event # NoEvent
  <2>1. /\ event.kind \in Kinds
        /\ event.status \in {"CALCULATED", "POSTED"}
        /\ \E x : Figured(x, event.kind) /\ event.figures = Stored(x)
    BY <1>2 DEF FiguresInv, EventOK
  <2>2. PICK x : Figured(x, event.kind) /\ event.figures = Stored(x)
    BY <2>1
  <2>3. FiguresTypeOK
    <3>1. Stored(x) \in [Names -> Int] /\ \A n \in Names \ {"net"} : Stored(x)[n] \in Nat
      BY <2>2, StoredTyped
    <3>2. \A n \in Names \ {"net"} : event.figures[n] >= 0
      BY <2>2, <3>1
    <3>. QED BY <2>1, <2>2, <3>1, <3>2 DEF FiguresTypeOK, FiguresInv
  <2>4. 2 * Gap(event.figures) \in -Cardinality(Computed(event.kind)) .. Cardinality(Computed(event.kind))
    BY <2>1, <2>2, GapBound
  <2>. QED BY <2>3, <2>4 DEF BalancedToRounding, Gap
<1>. QED BY <1>1, <1>2

\* Every figure is an amount, and the two sides of the entry of every event miss each
\* other by what the second installment takes off and by rounding only.
THEOREM FiguresBalanced == FiguresSpec => []BalancedToRounding
<1>1. FiguresSpec => []FiguresInv
  BY FiguresStart, FiguresStep, PTL DEF FiguresSpec
<1>2. FiguresInv => BalancedToRounding
  BY FiguresBalance
<1>. QED BY <1>1, <1>2, PTL

-----------------------------------------------------------------------------
(* The tax by its bracket is the tax bracket by bracket, to the cent *)

\* Bases are made of grains of RateScale units, any rate of which is whole; this is how
\* many of them a cent has.
Grain == 360 * RateScale

\* A cent, and so any whole number of them, is made of grains.
LEMMA GrainTyped ==
  /\ RateScale \in Nat \ {0} /\ RateScale \in Nat /\ Grain \in Nat \ {0} /\ Grain \in Nat
  /\ Unit = RateScale * Grain
  /\ \A c \in Int : Units(c) = RateScale * (c * Grain) /\ c * Grain \in Int
  /\ \A c \in Nat : c * Grain \in Nat
<1>1. RateScale \in Nat \ {0}
  BY CalculationAssumption
<1>2. Grain \in Nat \ {0}
  BY <1>1 DEF Grain
<1>3. Unit = RateScale * Grain
  BY <1>1 DEF Unit, Grain
<1>4. \A c \in Int : Units(c) = RateScale * (c * Grain) /\ c * Grain \in Int
  BY <1>1, <1>2, <1>3 DEF Units
<1>. QED BY <1>1, <1>2, <1>3, <1>4

\* Grains are in order, and their rates are exact.
LEMMA Grains ==
  ASSUME NEW y \in Int, NEW z \in Int
  PROVE  /\ RateScale * y \in Int
         /\ RateScale * y <= RateScale * z <=> y <= z
         /\ RateScale * y - RateScale * z = RateScale * (y - z)
         /\ Of(z, RateScale * y) = z * y
<1>1. RateScale \in Nat \ {0} /\ RateScale \in Nat
  BY GrainTyped
<1>2. RateScale * y = y * RateScale /\ RateScale * z = z * RateScale
      /\ RateScale * (y - z) = (y - z) * RateScale /\ y * RateScale \in Int
  BY <1>1
<1>3. y * RateScale <= z * RateScale <=> y <= z
  BY <1>1, Cancelled, InProportion
<1>4. y * RateScale - z * RateScale = (y - z) * RateScale
  BY <1>1, InProportion
<1>5. Of(z, RateScale * y) = z * y
  <2>1. (RateScale * y) * z = (z * y) * RateScale /\ z * y \in Int
    BY <1>1
  <2>2. ((z * y) * RateScale) \div RateScale = z * y
    BY <1>1, <2>1, Cancelled
  <2>. QED BY <2>1, <2>2 DEF Of
<1>. QED BY <1>2, <1>3, <1>4, <1>5

\* The brackets of a table that follow each other.
LEMMA ContinuousTyped ==
  ASSUME NEW table \in Seq(Bracket), Continuous(table, RateScale)
  PROVE  /\ Len(table) \in Nat \ {0} /\ DOMAIN table = 1 .. Len(table)
         /\ \A i \in 1 .. Len(table) :
              /\ table[i].min \in Nat /\ table[i].rate \in 0 .. RateScale
              /\ table[i].deduction \in Nat /\ table[i].rate \in Int
         /\ table[1].min = 0 /\ table[Len(table)].max = Open
         /\ \A i \in 1 .. Len(table) - 1 :
              /\ table[i].max \in Nat /\ table[i].max # Open /\ table[i].min <= table[i].max
              /\ table[i + 1].min = table[i].max + 1
              /\ Units(table[i].max) \in Nat /\ i \in 1 .. Len(table) /\ i + 1 \in 1 .. Len(table)
<1>1. Len(table) \in Nat /\ DOMAIN table = 1 .. Len(table)
  OBVIOUS
<1>2. Len(table) > 0
  BY DEF Continuous
<1>3. \A i \in 1 .. Len(table) :
        /\ table[i].min \in Nat /\ table[i].rate \in 0 .. RateScale
        /\ table[i].deduction \in Nat /\ table[i].rate \in Int
  <2>1. \A r \in 0 .. RateScale : r \in Int
    OBVIOUS
  <2>. QED BY <1>1, <2>1, BracketTyped
<1>4. Open \notin Nat
  BY CalculationAssumption
<1>5. ASSUME NEW i \in 1 .. Len(table) - 1
      PROVE  /\ table[i].max \in Nat /\ table[i].max # Open /\ table[i].min <= table[i].max
             /\ table[i + 1].min = table[i].max + 1
             /\ Units(table[i].max) \in Nat /\ i \in 1 .. Len(table) /\ i + 1 \in 1 .. Len(table)
  <2>1. /\ table[i].max \in Nat /\ table[i].min <= table[i].max
        /\ table[i + 1].min = table[i].max + 1
    BY DEF Continuous
  <2>2. i \in 1 .. Len(table) /\ i + 1 \in 1 .. Len(table)
    BY <1>1
  <2>3. Units(table[i].max) \in Nat
    BY <2>1, UnitTyped
  <2>. QED BY <1>4, <2>1, <2>2, <2>3
<1>6. table[1].min = 0 /\ table[Len(table)].max = Open
  BY DEF Continuous
<1>. QED BY <1>1, <1>2, <1>3, <1>5, <1>6

\* The deduction of a bracket before it is rounded, in cents and parts of a rate.
StepsOf(table) ==
  [i \in 1 .. Len(table) - 1 |-> (table[i + 1].rate - table[i].rate) * table[i].max]
Exact(table, i) == SumOf(StepsOf(table), 1 .. i - 1)

\* It grows by the step at each edge, and the deduction is within a cent of it.
LEMMA ExactDeductions ==
  ASSUME NEW table \in Seq(Bracket), Continuous(table, RateScale)
  PROVE  /\ Exact(table, 1) = 0
         /\ \A i \in 1 .. Len(table) :
              /\ Exact(table, i) \in Int
              /\ RateScale * table[i].deduction - Exact(table, i) \in -RateScale .. RateScale
         /\ \A i \in 1 .. Len(table) - 1 :
              Exact(table, i + 1)
                = Exact(table, i) + (table[i + 1].rate - table[i].rate) * table[i].max
<1>. DEFINE n == Len(table)
            f == StepsOf(table)
<1>1. n \in Nat \ {0}
  BY ContinuousTyped
<1>2. \A i \in 1 .. n - 1 : f[i] = (table[i + 1].rate - table[i].rate) * table[i].max /\ f[i] \in Int
  <2>1. ASSUME NEW i \in 1 .. n - 1
        PROVE  f[i] = (table[i + 1].rate - table[i].rate) * table[i].max /\ f[i] \in Int
    <3>1. f[i] = (table[i + 1].rate - table[i].rate) * table[i].max
      BY DEF StepsOf
    <3>2. i \in 1 .. n /\ i + 1 \in 1 .. n /\ table[i].max \in Int
      BY ContinuousTyped
    <3>3. \A k \in 1 .. n : table[k].rate \in Int
      BY ContinuousTyped
    <3>. QED BY <3>1, <3>2, <3>3
  <2>. QED BY <2>1
<1>3. Exact(table, 1) = 0
  <2>1. 1 .. 1 - 1 = {}
    OBVIOUS
  <2>. QED BY <2>1, SumOfNothing DEF Exact
<1>4. ASSUME NEW i \in 1 .. n
      PROVE  /\ Exact(table, i) \in Int
             /\ RateScale * table[i].deduction - Exact(table, i) \in -RateScale .. RateScale
  <2>1. IsFiniteSet(1 .. i - 1) /\ \A j \in 1 .. i - 1 : j \in 1 .. n - 1
    <3>1. 1 \in Int /\ i - 1 \in Int /\ i - 1 <= n - 1
      BY <1>1
    <3>. HIDE DEF n
    <3>. QED BY <1>1, <3>1, FS_Interval
  <2>. HIDE DEF f, n
  <2>2. SumOf(f, 1 .. i - 1) \in Int
    BY <1>2, <2>1, SumOfInt
  <2>3. Total(f, 1 .. i - 1) = SumOf(f, 1 .. i - 1)
    BY DEF Total, SumOf
  <2>4. RateScale * table[i].deduction - Total(f, 1 .. i - 1) \in -RateScale .. RateScale
    BY DEF Continuous, StepsOf, f, n
  <2>. QED BY <2>2, <2>3, <2>4 DEF Exact, f
<1>5. ASSUME NEW i \in 1 .. n - 1
      PROVE  Exact(table, i + 1)
               = Exact(table, i) + (table[i + 1].rate - table[i].rate) * table[i].max
  <2>. DEFINE J == 1 .. i - 1
  <2>1. IsFiniteSet(J)
    BY <1>1, FS_Interval
  <2>2. 1 .. (i + 1) - 1 = J \cup {i} /\ i \notin J /\ \A j \in J \cup {i} : j \in 1 .. n - 1
    BY <1>1
  <2>. HIDE DEF J, f, n
  <2>3. \A j \in J \cup {i} : f[j] \in Int
    BY <1>2, <2>2
  <2>4. SumOf(f, J \cup {i}) = SumOf(f, J) + f[i]
    BY <2>1, <2>2, <2>3, SumOfAdded
  <2>5. f[i] = (table[i + 1].rate - table[i].rate) * table[i].max
    BY <1>2
  <2>6. Exact(table, i + 1) = SumOf(f, J \cup {i}) /\ Exact(table, i) = SumOf(f, J)
    BY <2>2 DEF Exact, f, J
  <2>. QED BY <2>4, <2>5, <2>6
<1>. QED BY <1>3, <1>4, <1>5

\* The brackets that end at an amount or beyond it.
Reaching(b, table) == {i \in DOMAIN table : table[i].max = Open \/ b <= Units(table[i].max)}

\* The first of them, and those before and after it.
LEMMA FirstReaching ==
  ASSUME NEW table \in Seq(Bracket), Continuous(table, RateScale), NEW b \in Nat
  PROVE  LET h == Min(Reaching(b, table))
         IN  /\ h \in 1 .. Len(table) /\ h \in Reaching(b, table)
             /\ \A j \in Reaching(b, table) : h <= j
             /\ \A i \in 1 .. Len(table) - 1 : i < h => Units(table[i].max) < b
             /\ \A i \in 1 .. Len(table) - 1 : h <= i => b <= Units(table[i].max)
<1>. DEFINE n == Len(table)
            S == Reaching(b, table)
            h == Min(S)
<1>1. n \in Nat \ {0} /\ n \in Nat /\ S \in SUBSET (1 .. n) /\ n \in S
  BY ContinuousTyped DEF Reaching
<1>2. h \in S /\ \A j \in S : h <= j
  <2>. HIDE DEF n, S
  <2>. QED BY <1>1, FirstPlace
<1>. HIDE DEF h
<1>3. h \in 1 .. n
  BY <1>1, <1>2
<1>4. ASSUME NEW i \in 1 .. n - 1, i < h
      PROVE  Units(table[i].max) < b
  <2>1. i \notin S
    BY <1>2, <1>3, <1>4
  <2>2. i \in 1 .. n /\ Units(table[i].max) \in Nat
    BY ContinuousTyped
  <2>3. ~(b <= Units(table[i].max))
    BY <2>1, <2>2, ContinuousTyped DEF Reaching
  <2>. QED BY <2>2, <2>3
<1>5. ASSUME NEW i \in 1 .. n - 1, h <= i
      PROVE  b <= Units(table[i].max)
  <2>. DEFINE Bad == {j \in 1 .. n : j < n /\ h <= j /\ ~(b <= Units(table[j].max))}
              k == Min(Bad)
  <2>. SUFFICES ASSUME Bad # {} PROVE FALSE
    <3>1. i \in 1 .. n /\ i < n
      BY <1>1
    <3>. QED BY <1>5, <3>1
  <2>1. k \in Bad /\ \A j \in Bad : k <= j
    <3>. DEFINE B == Bad
    <3>1. B \in SUBSET (1 .. n) /\ B # {}
      OBVIOUS
    <3>. HIDE DEF B
    <3>2. Min(B) \in B /\ \A j \in B : Min(B) <= j
      BY <1>1, <3>1, FirstPlace
    <3>. QED BY <3>2 DEF B
  <2>. HIDE DEF k
  <2>2. k \in 1 .. n - 1 /\ h <= k /\ ~(b <= Units(table[k].max))
    BY <1>1, <2>1
  <2>3. k # h
    <3>1. b <= Units(table[k].max) \/ table[k].max = Open \/ k # h
      BY <1>2 DEF Reaching
    <3>2. table[k].max # Open
      BY <2>2, ContinuousTyped
    <3>. QED BY <2>2, <3>1, <3>2
  <2>4. k - 1 \in 1 .. n - 1 /\ h <= k - 1 /\ (k - 1) + 1 = k /\ k - 1 < k
        /\ k - 1 \in 1 .. n /\ k - 1 < n
    BY <1>1, <1>3, <2>2, <2>3
  <2>5. b <= Units(table[k - 1].max)
    <3>1. k - 1 \notin Bad
      <4>. HIDE DEF Bad
      <4>. QED BY <2>1, <2>2, <2>4
    <3>. QED BY <2>4, <3>1
  <2>. DEFINE l == table[k - 1].max
              m == table[k].max
  <2>6. l + 1 <= m /\ l \in Nat /\ m \in Nat
    <3>1. table[(k - 1) + 1].min = l + 1 /\ l \in Nat
      BY <2>4, ContinuousTyped
    <3>2. table[k].min <= m /\ m \in Nat
      BY <2>2, ContinuousTyped
    <3>. HIDE DEF l, m
    <3>. QED BY <2>4, <3>1, <3>2
  <2>7. b <= Units(l) /\ ~(b <= Units(m))
    BY <2>2, <2>5
  <2>. HIDE DEF l, m
  <2>8. l \in Int /\ m \in Int /\ l <= m
    BY <2>6
  <2>9. Units(l) <= Units(m) /\ Units(l) \in Nat /\ Units(m) \in Nat
    BY <2>6, <2>8, Increasing, UnitTyped
  <2>. QED BY <2>7, <2>9
<1>. QED BY <1>2, <1>3, <1>4, <1>5 DEF h

\* It is the bracket of the amount, unless that lies between two.
LEMMA BracketOf ==
  ASSUME NEW table \in Seq(Bracket), Continuous(table, RateScale), NEW b \in Nat, ~Between(b, table)
  PROVE  Hits(b, table) # {} /\ Min(Hits(b, table)) = Min(Reaching(b, table))
<1>. DEFINE n == Len(table)
            S == Reaching(b, table)
            h == Min(S)
            H == Hits(b, table)
<1>1. /\ n \in Nat /\ DOMAIN table = 1 .. n /\ h \in 1 .. n /\ h \in S /\ \A j \in S : h <= j
      /\ \A i \in 1 .. n - 1 : i < h => Units(table[i].max) < b
  BY FirstReaching, ContinuousTyped
<1>. HIDE DEF h
<1>2. table[h].min \in Nat /\ Units(table[h].min) \in Nat
  BY <1>1, ContinuousTyped, UnitTyped
<1>3. b >= Units(table[h].min)
  <2>1. CASE h = 1
    <3>1. table[h].min = 0 /\ Units(0) = 0
      BY <2>1, ContinuousTyped, UnitTyped DEF Units
    <3>. QED BY <3>1
  <2>2. CASE h # 1
    <3>1. h - 1 \in 1 .. n - 1 /\ (h - 1) + 1 = h /\ h - 1 < h /\ h - 1 \in 1 .. n
      BY <1>1, <2>2
    <3>2. Units(table[h - 1].max) < b
      BY <1>1, <3>1
    <3>3. ~(b < Units(table[(h - 1) + 1].min))
      <4>. DEFINE j == h - 1
      <4>1. j \in DOMAIN table /\ j + 1 \in DOMAIN table /\ Units(table[j].max) < b
        BY <1>1, <3>1, <3>2
      <4>. HIDE DEF j
      <4>2. ~(b < Units(table[j + 1].min))
        BY <4>1 DEF Between
      <4>. QED BY <4>2 DEF j
    <3>. QED BY <1>2, <3>1, <3>3
  <2>. QED BY <2>1, <2>2
<1>4. h \in H
  BY <1>1, <1>3 DEF Hits, Reaching
<1>5. H \in SUBSET S /\ H \in SUBSET (1 .. n)
  BY <1>1 DEF Hits, Reaching
<1>6. Min(H) = h
  <2>. HIDE DEF n, H, S
  <2>1. Min(H) \in H /\ \A j \in H : Min(H) <= j
    BY <1>1, <1>4, <1>5, FirstPlace
  <2>2. Min(H) <= h /\ h <= Min(H) /\ Min(H) \in 1 .. n
    BY <1>1, <1>4, <1>5, <2>1
  <2>. QED BY <1>1, <2>2
<1>. QED BY <1>4, <1>6 DEF h

\* The parts of an amount that lie in the brackets of a table.
Lower(table, i) == IF i = 1 THEN 0 ELSE Units(table[i - 1].max)
Upper(b, table, i) == IF table[i].max = Open THEN b ELSE Units(table[i].max)
Part(b, table, i) == NotNegative(AtMost(b, Upper(b, table, i)) - Lower(table, i))
TaxOfParts(b, table) == [i \in DOMAIN table |-> Of(table[i].rate, Part(b, table, i))]

LEMMA PartTaxed ==
  ASSUME NEW b \in Int, NEW table \in Seq(Bracket), Continuous(table, RateScale),
         NEW i \in 1 .. Len(table)
  PROVE  /\ Lower(table, i) \in Nat /\ Part(b, table, i) \in Nat
         /\ TaxOfParts(b, table)[i] = Of(table[i].rate, Part(b, table, i))
         /\ TaxOfParts(b, table)[i] \in Nat /\ TaxOfParts(b, table)[i] \in Int
         /\ b <= Lower(table, i) => TaxOfParts(b, table)[i] = 0
<1>. DEFINE n == Len(table)
<1>1. n \in Nat /\ DOMAIN table = 1 .. n
  BY ContinuousTyped
<1>2. Lower(table, i) \in Nat
  <2>1. CASE i = 1
    BY <2>1 DEF Lower
  <2>2. CASE i # 1
    <3>1. i - 1 \in 1 .. n - 1
      BY <1>1, <2>2
    <3>. QED BY <2>2, <3>1, ContinuousTyped DEF Lower
  <2>. QED BY <2>1, <2>2
<1>3. Upper(b, table, i) \in Int
  <2>1. CASE table[i].max = Open
    BY <2>1 DEF Upper
  <2>2. CASE table[i].max # Open
    <3>1. i \in 1 .. n - 1
      BY <1>1, <2>2, ContinuousTyped
    <3>2. Units(table[i].max) \in Nat
      BY <3>1, ContinuousTyped
    <3>. QED BY <2>2, <3>2 DEF Upper
  <2>. QED BY <2>1, <2>2
<1>4. Part(b, table, i) \in Nat /\ (b <= Lower(table, i) => Part(b, table, i) = 0)
  BY <1>2, <1>3 DEF Part, NotNegative, AtMost
<1>5. table[i].rate \in 0 .. RateScale
  BY ContinuousTyped
<1>6. TaxOfParts(b, table)[i] = Of(table[i].rate, Part(b, table, i))
  BY <1>1 DEF TaxOfParts
<1>7. Of(table[i].rate, Part(b, table, i)) \in Nat
      /\ Of(table[i].rate, Part(b, table, i)) <= Part(b, table, i)
  BY <1>4, <1>5, OfTyped
<1>8. b <= Lower(table, i) => TaxOfParts(b, table)[i] = 0
  BY <1>4, <1>6, <1>7
<1>. QED BY <1>2, <1>4, <1>6, <1>7, <1>8

LEMMA PartsTaxed ==
  ASSUME NEW b, NEW table \in Seq(Bracket), Continuous(table, RateScale)
  PROVE  MarginalTax(b, table) = SumOf(TaxOfParts(b, table), 1 .. Len(table))
<1>1. DOMAIN table = 1 .. Len(table)
  BY ContinuousTyped
<1>2. MarginalTax(b, table) = Total(TaxOfParts(b, table), DOMAIN table)
  BY DEF MarginalTax, TaxOfParts, Part, Upper, Lower
<1>. QED BY <1>1, <1>2 DEF Total, SumOf

\* Nothing is due on nothing.
LEMMA NothingDue ==
  ASSUME NEW b \in Int, b <= 0, NEW table \in Seq(Bracket), Continuous(table, RateScale)
  PROVE  MarginalTax(b, table) = 0
<1>. DEFINE n == Len(table)
            f == TaxOfParts(b, table)
<1>1. IsFiniteSet(1 .. n)
  BY ContinuousTyped, FS_Interval
<1>2. ASSUME NEW i \in 1 .. n
      PROVE  f[i] = [j \in 1 .. n |-> 0][i]
  <2>1. Lower(table, i) \in Nat /\ (b <= Lower(table, i) => f[i] = 0)
    BY PartTaxed
  <2>. HIDE DEF f, n
  <2>2. f[i] = 0
    BY <2>1
  <2>. QED BY <2>2
<1>3. SumOf(f, 1 .. n) = SumOf([j \in 1 .. n |-> 0], 1 .. n)
  <2>. DEFINE zero == [j \in 1 .. n |-> 0]
  <2>1. \A i \in 1 .. n : f[i] = zero[i]
    BY <1>2
  <2>. HIDE DEF f, n, zero
  <2>2. SumOf(f, 1 .. n) = SumOf(zero, 1 .. n)
    BY <1>1, <2>1, SumOfSame
  <2>. QED BY <2>2 DEF zero
<1>4. SumOf([j \in 1 .. n |-> 0], 1 .. n) = 0
  <2>. HIDE DEF n
  <2>. QED BY <1>1, SumOfZeros
<1>. QED BY <1>3, <1>4, PartsTaxed

\* Two brackets that follow each other, the second up to an amount: what the
\* first, by its exact deduction, is short of the second.
IsNext(g, r, q, m, d, v) ==
  (r * (m * g) - g * d) + q * (v - m * g) = q * v - g * (d + (q - r) * m)

LEMMA NextBracket ==
  \A g, r, q, m, d, v \in Int : IsNext(g, r, q, m, d, v)
BY DEF IsNext

\* What the parts of an amount of grains add up to, by its bracket.
LEMMA MarginalParts ==
  ASSUME NEW table \in Seq(Bracket), Continuous(table, RateScale), NEW y \in Nat \ {0}
  PROVE  LET h == Min(Reaching(RateScale * y, table))
         IN  /\ MarginalTax(RateScale * y, table) \in Nat
             /\ MarginalTax(RateScale * y, table) = table[h].rate * y - Grain * Exact(table, h)
<1>. DEFINE n == Len(table)
            base == RateScale * y
            h == Min(Reaching(base, table))
            f == TaxOfParts(base, table)
            low(i) == IF i = 1 THEN 0 ELSE table[i - 1].max * Grain
            cover(i) == IF i < h THEN table[i].max * Grain ELSE y
<1>1. base \in Nat /\ base \in Int /\ y \in Nat /\ y \in Int
  BY GrainTyped
<1>2. /\ n \in Nat /\ h \in 1 .. n /\ (table[h].max = Open \/ base <= Units(table[h].max))
      /\ \A i \in 1 .. n - 1 : i < h => Units(table[i].max) < base
      /\ \A i \in 1 .. n - 1 : h <= i => base <= Units(table[i].max)
  <2>. HIDE DEF base, n
  <2>1. h \in Reaching(base, table)
    BY <1>1, FirstReaching
  <2>. QED BY <1>1, <2>1, FirstReaching, ContinuousTyped DEF n, Reaching
<1>. HIDE DEF h
<1>3. \A i \in 1 .. n - 1 : /\ table[i].max * Grain \in Nat
                            /\ Units(table[i].max) = RateScale * (table[i].max * Grain)
  <2>1. \A i \in 1 .. n - 1 : table[i].max \in Nat /\ table[i].max \in Int
    BY ContinuousTyped
  <2>. HIDE DEF n
  <2>. QED BY <2>1, GrainTyped
<1>5. \A i \in 1 .. n : /\ f[i] = Of(table[i].rate, Part(base, table, i))
                        /\ f[i] \in Nat /\ f[i] \in Int
                        /\ base <= Lower(table, i) => f[i] = 0
  <2>. HIDE DEF base
  <2>1. ASSUME NEW i \in 1 .. n
        PROVE  /\ f[i] = Of(table[i].rate, Part(base, table, i))
               /\ f[i] \in Nat /\ f[i] \in Int
               /\ base <= Lower(table, i) => f[i] = 0
    BY <1>1, PartTaxed
  <2>. QED BY <2>1
<1>4. ASSUME NEW i \in 1 .. h
      PROVE  low(i) \in Nat /\ cover(i) \in Nat /\ f[i] = table[i].rate * (cover(i) - low(i))
  <2>1. i \in 1 .. n /\ (i < h => i \in 1 .. n - 1) /\ (i # 1 => i - 1 \in 1 .. n - 1 /\ i - 1 < h)
    BY <1>2
  <2>2. low(i) \in Nat /\ Lower(table, i) = RateScale * low(i)
    <3>1. CASE i = 1
      BY <3>1, GrainTyped DEF Lower
    <3>2. CASE i # 1
      BY <1>3, <2>1, <3>2 DEF Lower
    <3>. QED BY <3>1, <3>2
  <2>3. cover(i) \in Nat
    BY <1>1, <1>3, <2>1
  <2>4. AtMost(base, Upper(base, table, i)) = RateScale * cover(i)
    <3>1. CASE i < h
      <4>1. Upper(base, table, i) = Units(table[i].max) /\ Units(table[i].max) < base
            /\ Units(table[i].max) \in Nat
        BY <1>2, <2>1, <3>1, ContinuousTyped DEF Upper
      <4>2. Units(table[i].max) = RateScale * cover(i)
        BY <1>3, <2>1, <3>1
      <4>. HIDE DEF base, cover
      <4>. QED BY <1>1, <4>1, <4>2 DEF AtMost
    <3>2. CASE i = h
      <4>1. cover(i) = y
        BY <1>2, <3>2
      <4>2. CASE table[i].max = Open
        BY <1>1, <4>1, <4>2 DEF AtMost, Upper
      <4>3. CASE table[i].max # Open
        <5>1. base <= Units(table[i].max) /\ Upper(base, table, i) = Units(table[i].max)
          BY <1>2, <3>2, <4>3 DEF Upper
        <5>. QED BY <4>1, <5>1 DEF AtMost
      <4>. QED BY <4>2, <4>3
    <3>. QED BY <1>2, <3>1, <3>2
  <2>5. low(i) <= cover(i)
    <3>1. CASE i = 1
      BY <2>3, <3>1
    <3>2. CASE i # 1 /\ i < h
      <4>. DEFINE l == table[i - 1].max
                  m == table[i].max
      <4>1. table[(i - 1) + 1].min = l + 1 /\ l \in Nat /\ table[i].min <= m /\ m \in Nat
        BY <2>1, <3>2, ContinuousTyped
      <4>2. (i - 1) + 1 = i /\ low(i) = l * Grain /\ cover(i) = m * Grain
        BY <3>2
      <4>. HIDE DEF l, m, low, cover
      <4>3. l \in Int /\ m \in Int /\ l <= m
        BY <4>1, <4>2
      <4>. QED BY <4>2, <4>3, GrainTyped, InProportion
    <3>3. CASE i # 1 /\ ~(i < h)
      <4>1. cover(i) = y /\ low(i) = table[i - 1].max * Grain
        BY <3>3
      <4>2. RateScale * low(i) < RateScale * y
        BY <1>2, <1>3, <2>1, <3>3, <4>1
      <4>. HIDE DEF low, cover, base
      <4>3. low(i) \in Int /\ RateScale * low(i) \in Int /\ RateScale * y \in Int
        <5>1. low(i) \in Int
          BY <2>2
        <5>. QED BY <1>1, <5>1, Grains
      <4>4. RateScale * low(i) <= RateScale * y
        BY <4>2, <4>3
      <4>. QED BY <1>1, <4>1, <4>3, <4>4, Grains
    <3>. QED BY <3>1, <3>2, <3>3
  <2>. HIDE DEF low, cover, base
  <2>6. Part(base, table, i) = RateScale * (cover(i) - low(i))
    <3>1. low(i) \in Int /\ cover(i) \in Int /\ cover(i) - low(i) \in Nat /\ cover(i) - low(i) \in Int
      BY <2>2, <2>3, <2>5
    <3>2. RateScale * cover(i) - RateScale * low(i) = RateScale * (cover(i) - low(i))
      BY <3>1, Grains
    <3>3. RateScale * (cover(i) - low(i)) \in Nat
      <4>. DEFINE d == cover(i) - low(i)
      <4>. HIDE DEF d
      <4>1. d \in Nat /\ RateScale \in Nat
        BY <3>1, GrainTyped DEF d
      <4>2. RateScale * d \in Nat
        BY <4>1
      <4>. QED BY <4>2 DEF d
    <3>. QED BY <2>2, <2>4, <3>2, <3>3 DEF Part, NotNegative
  <2>7. f[i] = Of(table[i].rate, RateScale * (cover(i) - low(i)))
    BY <2>1, <2>6, <1>5
  <2>8. cover(i) - low(i) \in Int /\ table[i].rate \in Int
    BY <2>1, <2>2, <2>3, ContinuousTyped
  <2>. QED BY <2>2, <2>3, <2>7, <2>8, Grains
<1>6. ASSUME NEW i \in 1 .. n, h < i
      PROVE  f[i] = 0
  <2>1. i - 1 \in 1 .. n - 1 /\ h <= i - 1 /\ i # 1
    BY <1>2, <1>6
  <2>2. base <= Lower(table, i)
    BY <1>2, <2>1 DEF Lower
  <2>. QED BY <1>5, <2>2
<1>. HIDE DEF f, base, low, cover
<1>. DEFINE SoFar(k) == SumOf(f, 1 .. k) = table[k].rate * cover(k) - Grain * Exact(table, k)
<1>7. \A k \in 1 .. n : table[k].rate \in Int /\ Exact(table, k) \in Int
  BY ContinuousTyped, ExactDeductions
<1>8. \A k \in 1 .. h : SoFar(k)
  <2>. DEFINE Bad == {k \in 1 .. h : ~SoFar(k)}
              k == Min(Bad)
  <2>. SUFFICES ASSUME Bad # {} PROVE FALSE
    OBVIOUS
  <2>1. k \in 1 .. h /\ ~SoFar(k) /\ \A j \in 1 .. h : j < k => SoFar(j)
    <3>. DEFINE B == Bad
    <3>1. B \in SUBSET (1 .. h) /\ B # {} /\ h \in Nat
      BY <1>2
    <3>. HIDE DEF B
    <3>2. Min(B) \in B /\ \A j \in B : Min(B) <= j
      BY <3>1, FirstPlace
    <3>3. Min(B) \in 1 .. h /\ \A j \in 1 .. h : j < Min(B) => j \notin B
      <4>1. Min(B) \in 1 .. h
        BY <3>1, <3>2
      <4>2. ASSUME NEW j \in 1 .. h, j < Min(B), j \in B
            PROVE  FALSE
        <5>1. Min(B) <= j
          BY <3>2, <4>2
        <5>. QED BY <3>1, <4>1, <4>2, <5>1
      <4>. QED BY <4>1, <4>2
    <3>. HIDE DEF SoFar
    <3>. QED BY <3>2, <3>3 DEF B
  <2>. HIDE DEF k
  <2>2. k \in 1 .. n
    BY <1>2, <2>1
  <2>3. CASE k = 1
    <3>1. 1 .. k = {1} /\ low(1) = 0 /\ f[1] \in Int
      BY <1>5, <2>2, <2>3 DEF low
    <3>2. SumOf(f, 1 .. k) = f[1]
      <4>1. SumOf(f, {1}) = f[1]
        BY <3>1, SumOfOne
      <4>. QED BY <3>1, <4>1, Zenon
    <3>3. f[1] = table[1].rate * cover(1) /\ cover(1) \in Nat
      <4>1. f[1] = table[1].rate * (cover(1) - low(1)) /\ cover(1) \in Nat
        BY <1>4, <2>1, <2>3
      <4>. QED BY <3>1, <4>1
    <3>4. Grain * Exact(table, 1) = 0
      BY GrainTyped, ExactDeductions
    <3>5. table[1].rate * cover(1) \in Int
      BY <1>7, <2>2, <2>3, <3>3
    <3>. QED BY <2>1, <2>3, <3>2, <3>3, <3>4, <3>5
  <2>4. CASE k # 1
    <3>. DEFINE j == k - 1
                J == 1 .. j
    <3>1. j \in 1 .. h /\ j < k /\ j < h /\ j + 1 = k /\ j \in 1 .. n - 1 /\ j \in 1 .. n
      BY <1>2, <2>1, <2>4
    <3>2. SoFar(j)
      BY <2>1, <3>1
    <3>3. cover(j) = table[j].max * Grain /\ low(k) = table[j].max * Grain /\ table[j].max \in Int
      BY <2>4, <3>1, ContinuousTyped DEF cover, low
    <3>4. SumOf(f, 1 .. k) = SumOf(f, J) + f[k] /\ SumOf(f, J) \in Int /\ f[k] \in Int
      <4>1. 1 .. k = J \cup {k} /\ k \notin J
        <5>1. k \in Nat /\ j \in Nat /\ k = j + 1 /\ 1 <= k
          BY <1>2, <2>1, <3>1
        <5>. HIDE DEF j
        <5>. QED BY <5>1
      <4>2. IsFiniteSet(J)
        BY <1>2, <2>1, FS_Interval
      <4>3. \A i \in J \cup {k} : i \in 1 .. n
        BY <1>2, <2>2, <3>1
      <4>. HIDE DEF J
      <4>4. \A i \in J \cup {k} : f[i] \in Int
        BY <1>5, <4>3
      <4>5. SumOf(f, J \cup {k}) = SumOf(f, J) + f[k]
        BY <4>1, <4>2, <4>4, SumOfAdded
      <4>6. SumOf(f, J) \in Int
        BY <4>2, <4>4, SumOfInt
      <4>. QED BY <4>1, <4>4, <4>5, <4>6
    <3>5. f[k] = table[k].rate * (cover(k) - low(k)) /\ cover(k) \in Int
      BY <1>4, <2>1
    <3>6. Exact(table, k) = Exact(table, j) + (table[k].rate - table[j].rate) * table[j].max
      <4>. HIDE DEF j, J
      <4>1. Exact(table, j + 1) = Exact(table, j) + (table[j + 1].rate - table[j].rate) * table[j].max
        BY <3>1, ExactDeductions
      <4>. QED BY <3>1, <4>1, Zenon
    <3>. DEFINE r == table[j].rate
                d == Exact(table, j)
                m == table[j].max
                q == table[k].rate
                v == cover(k)
    <3>7. r \in Int /\ d \in Int /\ m \in Int /\ q \in Int /\ v \in Int /\ Grain \in Int
      <4>1. Grain \in Int
        BY GrainTyped
      <4>2. r \in Int /\ d \in Int /\ q \in Int
        BY <1>7, <2>2, <3>1
      <4>. QED BY <3>3, <3>5, <4>1, <4>2
    <3>8. SumOf(f, J) = r * (m * Grain) - Grain * d /\ f[k] = q * (v - m * Grain)
      BY <3>2, <3>3, <3>5
    <3>9. SumOf(f, 1 .. k) = q * v - Grain * (d + (q - r) * m)
      <4>. HIDE DEF r, d, m, q, v, J
      <4>1. (r * (m * Grain) - Grain * d) + q * (v - m * Grain) = q * v - Grain * (d + (q - r) * m)
        <5>1. IsNext(Grain, r, q, m, d, v)
          BY <3>7, NextBracket, Zenon
        <5>. QED BY <5>1 DEF IsNext
      <4>. QED BY <3>4, <3>8, <4>1
    <3>10. SoFar(k)
      BY <3>6, <3>9
    <3>. QED BY <2>1, <3>10
  <2>. QED BY <2>3, <2>4
<1>9. MarginalTax(base, table) = SumOf(f, 1 .. h) /\ SumOf(f, 1 .. h) \in Nat
  <2>1. IsFiniteSet(1 .. n) /\ 1 .. h \in SUBSET (1 .. n) /\ IsFiniteSet(1 .. h)
    BY <1>2, FS_Interval
  <2>2. \A i \in (1 .. n) \ (1 .. h) : f[i] = 0
    <3>1. ASSUME NEW i \in (1 .. n) \ (1 .. h)
          PROVE  f[i] = 0
      <4>1. h < i
        BY <1>2
      <4>. QED BY <1>6, <4>1
    <3>. QED BY <3>1
  <2>3. \A i \in 1 .. h : f[i] \in Nat /\ f[i] \in Int
    BY <1>5, <2>1
  <2>4. MarginalTax(base, table) = SumOf(f, 1 .. n)
    BY PartsTaxed DEF f
  <2>. HIDE DEF n
  <2>5. SumOf(f, 1 .. n) = SumOf(f, 1 .. h)
    BY <1>5, <2>1, <2>2, SumOfPart
  <2>6. SumOf(f, 1 .. h) \in Nat
    BY <2>1, <2>3, SumOfInt
  <2>. QED BY <2>4, <2>5, <2>6
<1>10. SumOf(f, 1 .. h) = table[h].rate * y - Grain * Exact(table, h)
  <2>1. h \in 1 .. h /\ cover(h) = y
    BY <1>2 DEF cover
  <2>2. SoFar(h)
    BY <1>8, <2>1
  <2>. QED BY <2>1, <2>2
<1>. QED BY <1>9, <1>10 DEF h, base

\* A bracket and its deduction differ by what the deduction is rounded: a part of a
\* rate of every grain.
LEMMA WithinACent ==
  ASSUME NEW m \in Nat, NEW e \in Int, NEW d \in Int, d - e \in -RateScale .. RateScale
  PROVE  NotNegative((m + Grain * e) - Grain * d) - m \in -Unit .. Unit
<1>1. Grain \in Nat /\ Grain \in Int /\ RateScale \in Nat /\ Unit = RateScale * Grain /\ Unit \in Nat
  BY GrainTyped, UnitTyped
<1>. DEFINE k == d - e
            p == k * Grain
<1>2. k \in Int /\ -RateScale <= k /\ k <= RateScale
  BY <1>1
<1>3. p \in Int /\ (m + Grain * e) - Grain * d = m - p
  <2>1. d * Grain - e * Grain = (d - e) * Grain
    BY <1>1, InProportion
  <2>2. d * Grain = Grain * d /\ e * Grain = Grain * e /\ Grain * d \in Int /\ Grain * e \in Int
    BY <1>1
  <2>. QED BY <2>1, <2>2
<1>. HIDE DEF k
<1>4. p <= Unit
  BY <1>1, <1>2, InProportion
<1>5. -p <= Unit
  <2>1. -k \in Int /\ -k <= RateScale /\ RateScale \in Int
    BY <1>1, <1>2
  <2>2. (-k) * Grain <= RateScale * Grain
    BY <1>1, <2>1, InProportion
  <2>3. (-k) * Grain = -(k * Grain)
    BY <1>1, <1>2
  <2>. QED BY <1>1, <2>2, <2>3
<1>. HIDE DEF p
<1>. QED BY <1>1, <1>3, <1>4, <1>5 DEF NotNegative

LEMMA TaxNearParts ==
  ASSUME NEW table \in Seq(Bracket), Continuous(table, RateScale), NEW y \in Int
  PROVE  Between(RateScale * y, table) \/ NearMarginal(RateScale * y, table)
<1>. DEFINE base == RateScale * y
<1>1. base \in Int /\ (base <= 0 <=> y <= 0)
  <2>1. RateScale * y <= RateScale * 0 <=> y <= 0
    BY Grains
  <2>. QED BY <2>1, Grains, GrainTyped
<1>2. CASE y <= 0
  <2>1. MarginalTax(base, table) = 0 /\ ProgressiveTax(base, table) = 0
    BY <1>1, <1>2, NothingDue DEF ProgressiveTax
  <2>2. 0 - 0 \in -Unit .. Unit
    BY UnitTyped
  <2>3. ProgressiveTax(base, table) - MarginalTax(base, table) \in -Unit .. Unit
    <3>. HIDE DEF base
    <3>. QED BY <2>1, <2>2
  <2>. QED BY <2>3 DEF NearMarginal
<1>3. CASE ~(y <= 0) /\ ~Between(base, table)
  <2>. DEFINE h == Min(Reaching(base, table))
              m == MarginalTax(base, table)
              e == Exact(table, h)
              d == RateScale * table[h].deduction
              t == table[h].rate * y
  <2>1. base \in Nat /\ ~(base <= 0) /\ y \in Nat \ {0}
    BY <1>1, <1>3
  <2>2. /\ h \in 1 .. Len(table) /\ Hits(base, table) # {} /\ Min(Hits(base, table)) = h
        /\ table # <<>>
    <3>. HIDE DEF base
    <3>1. table # <<>>
      BY ContinuousTyped
    <3>. QED BY <1>3, <2>1, <3>1, FirstReaching, BracketOf
  <2>3. m \in Nat /\ m = t - Grain * e
    BY <2>1, MarginalParts
  <2>. HIDE DEF h
  <2>4. table[h].rate \in Int /\ table[h].deduction \in Nat /\ table[h].deduction \in Int
    <3>1. table[h].rate \in Int /\ table[h].deduction \in Nat
      BY <2>2, ContinuousTyped
    <3>. QED BY <3>1
  <2>5. e \in Int /\ d - e \in -RateScale .. RateScale
    BY <2>2, ExactDeductions
  <2>6. Of(table[h].rate, base) = t
    BY <2>4, Grains
  <2>7. d \in Int /\ t \in Int /\ Units(table[h].deduction) = Grain * d
    <3>1. RateScale \in Int /\ Grain \in Int
      BY GrainTyped
    <3>2. Units(table[h].deduction) = RateScale * (table[h].deduction * Grain)
      BY <2>4, GrainTyped
    <3>. QED BY <2>4, <3>1, <3>2
  <2>8. ProgressiveTax(base, table) = NotNegative(t - Grain * d)
    <3>1. ProgressiveTax(base, table)
            = NotNegative(Of(table[h].rate, base) - Units(table[h].deduction))
      BY <2>1, <2>2 DEF ProgressiveTax
    <3>. HIDE DEF base, t, d
    <3>. QED BY <2>6, <2>7, <3>1
  <2>. HIDE DEF m, e, d, t, base
  <2>9. t = m + Grain * e
    <3>1. Grain * e \in Int
      BY <2>5, GrainTyped
    <3>. QED BY <2>3, <2>7, <3>1
  <2>10. NotNegative(t - Grain * d) - m \in -Unit .. Unit
    BY <2>3, <2>5, <2>7, <2>9, WithinACent
  <2>11. ProgressiveTax(base, table) - MarginalTax(base, table) \in -Unit .. Unit
    BY <2>8, <2>10 DEF m
  <2>. QED BY <2>11 DEF NearMarginal, base
<1>. QED BY <1>2, <1>3

\* The tax on a base of grains of grains is made of grains.
LEMMA TaxInGrains ==
  ASSUME NEW table \in Seq(Bracket), NEW x \in Int
  PROVE  \E z \in Int : ProgressiveTax(RateScale * (RateScale * x), table) = RateScale * z
<1>. DEFINE y == RateScale * x
            base == RateScale * y
<1>1. y \in Int /\ base \in Int
  BY Grains
<1>2. RateScale * 0 = 0
  BY GrainTyped
<1>3. CASE base <= 0 \/ table = <<>>
  BY <1>2, <1>3 DEF ProgressiveTax
<1>4. CASE ~(base <= 0 \/ table = <<>>)
  <2>1. PICK i \in DOMAIN table :
          ProgressiveTax(base, table)
            = NotNegative(Of(table[i].rate, base) - Units(table[i].deduction))
    <3>. HIDE DEF base
    <3>. QED BY <1>1, <1>4, BracketTaken
  <2>. DEFINE r == table[i].rate
              d == table[i].deduction
  <2>2. r \in Int /\ d \in Int
    <3>1. \A k \in 0 .. RateScale : k \in Int
      OBVIOUS
    <3>. QED BY <3>1, BracketTyped
  <2>. HIDE DEF r, d
  <2>3. Of(r, base) = RateScale * (r * x) /\ r * x \in Int
    <3>1. Of(r, base) = r * y
      <4>. HIDE DEF y
      <4>. QED BY <1>1, <2>2, Grains
    <3>2. r * y = RateScale * (r * x) /\ r * x \in Int
      BY <2>2, GrainTyped
    <3>. QED BY <3>1, <3>2
  <2>4. Units(d) = RateScale * (d * Grain) /\ d * Grain \in Int
    BY <2>2, GrainTyped
  <2>. DEFINE a == r * x
              b == d * Grain
  <2>5. a \in Int /\ b \in Int /\ a - b \in Int
    BY <2>3, <2>4
  <2>. HIDE DEF a, b, base, y
  <2>6. Of(r, base) - Units(d) = RateScale * (a - b) /\ RateScale * (a - b) \in Int
    <3>1. Of(r, base) = RateScale * a /\ Units(d) = RateScale * b
      BY <2>3, <2>4 DEF a, b
    <3>2. RateScale * a - RateScale * b = RateScale * (a - b) /\ RateScale * (a - b) \in Int
      BY <2>5, Grains
    <3>. QED BY <3>1, <3>2
  <2>7. ProgressiveTax(base, table) = NotNegative(RateScale * (a - b))
    BY <2>1, <2>6 DEF r, d
  <2>8. ProgressiveTax(base, table) \in {RateScale * (a - b), RateScale * 0}
    BY <1>2, <2>6, <2>7 DEF NotNegative
  <2>. QED BY <2>5, <2>8 DEF base, y
<1>. QED BY <1>3, <1>4

\* What INSS and the dependents leave of such a base is made of grains.
LEMMA IrrfBaseInGrains ==
  ASSUME EmployeeOK, NEW x \in Int
  PROVE  \E y \in Int : IrrfBase(RateScale * (RateScale * x)) = RateScale * y
<1>. DEFINE base == RateScale * (RateScale * x)
<1>1. RateScale * x \in Int /\ RateScale \in Int /\ Grain \in Int
  BY GrainTyped
<1>2. PICK z \in Int : ProgressiveTax(base, InssBrackets) = RateScale * z
  BY TaxInGrains, CalculationAssumption
<1>3. Units(Settings.ceiling) = RateScale * (Settings.ceiling * Grain)
      /\ Settings.ceiling * Grain \in Int
  BY SettingsTyped, GrainTyped
<1>4. PICK w \in Int : Inss(base) = RateScale * w
  <2>1. Inss(base) \in {RateScale * z, RateScale * (Settings.ceiling * Grain)}
    BY <1>2, <1>3 DEF Inss, AtMost
  <2>. QED BY <1>3, <2>1
<1>. DEFINE g == Settings.dependent * Grain
            v == employee.dependents * g
<1>5. employee.dependents * Units(Settings.dependent) = RateScale * v /\ v \in Int
  <2>1. Units(Settings.dependent) = RateScale * g /\ g \in Int /\ employee.dependents \in Int
    BY SettingsTyped, GrainTyped DEF EmployeeOK
  <2>. HIDE DEF g
  <2>. QED BY <1>1, <2>1
<1>. HIDE DEF v
<1>6. IrrfBase(base) = (base - RateScale * w) - RateScale * v
  BY <1>4, <1>5 DEF IrrfBase
<1>. DEFINE u == RateScale * x
            s == u - w
            t == s - v
<1>7. s \in Int /\ t \in Int /\ base = RateScale * u /\ u \in Int
  BY <1>1, <1>4, <1>5
<1>8. RateScale * u - RateScale * w = RateScale * s
  <2>. HIDE DEF u
  <2>. QED BY <1>7, Grains
<1>. HIDE DEF s, u
<1>9. RateScale * s - RateScale * v = RateScale * t
  BY <1>5, <1>7, Grains
<1>. HIDE DEF t, base
<1>10. IrrfBase(base) = RateScale * t
  BY <1>6, <1>7, <1>8, <1>9
<1>. QED BY <1>7, <1>10 DEF base

\* What the salary pays for a number of days or of months is made of grains of grains.
LEMMA PayInGrains ==
  ASSUME EmployeeOK, NEW k \in Nat
  PROVE  /\ \E x \in Nat : Daily * k = RateScale * (RateScale * x)
         /\ \E x \in Nat : VacationPay(k) = RateScale * (RateScale * x)
         /\ \E x \in Nat : (Salary * k) \div 12 = RateScale * (RateScale * x)
         /\ \E x \in Nat : Salary = RateScale * (RateScale * x)
<1>. DEFINE c == employee.salary
            q == RateScale * RateScale
<1>1. c \in Nat /\ RateScale \in Nat /\ q \in Nat
  BY GrainTyped DEF EmployeeOK
<1>2. \A x \in Nat : x * q = RateScale * (RateScale * x)
  BY <1>1
<1>3. Salary = (360 * c) * q
  BY <1>1 DEF Salary, Units, Unit
<1>. HIDE DEF c, q
<1>4. Daily = (12 * c) * q
  <2>. DEFINE a == (12 * c) * q
  <2>1. Salary = a * 30 /\ a \in Int
    BY <1>1, <1>3
  <2>. HIDE DEF a
  <2>. QED BY <2>1, Cancelled DEF Daily, a
<1>. DEFINE v == c * k
<1>5. v \in Nat
  BY <1>1
<1>6. Daily * k = (12 * v) * q
  BY <1>1, <1>4
<1>7. Salary * k = (360 * v) * q
  BY <1>1, <1>3
<1>. HIDE DEF v
<1>8. (Daily * k) \div 3 = (4 * v) * q
  <2>. DEFINE a == (4 * v) * q
  <2>1. Daily * k = a * 3 /\ a \in Int
    BY <1>1, <1>5, <1>6
  <2>. HIDE DEF a
  <2>2. (a * 3) \div 3 = a
    BY <2>1, Cancelled
  <2>. QED BY <2>1, <2>2 DEF a
<1>9. (Salary * k) \div 12 = (30 * v) * q
  <2>. DEFINE a == (30 * v) * q
  <2>1. Salary * k = a * 12 /\ a \in Int
    BY <1>1, <1>5, <1>7
  <2>. HIDE DEF a
  <2>2. (a * 12) \div 12 = a
    BY <2>1, Cancelled
  <2>. QED BY <2>1, <2>2 DEF a
<1>10. VacationPay(k) = (16 * v) * q
  BY <1>1, <1>5, <1>6, <1>8 DEF VacationPay
<1>11. 12 * v \in Nat /\ 16 * v \in Nat /\ 30 * v \in Nat /\ 360 * c \in Nat
  BY <1>1, <1>5
<1>. QED BY <1>2, <1>3, <1>6, <1>9, <1>10, <1>11

\* All that an event is taxed on.
LEMMA BasesInGrains ==
  ASSUME EmployeeOK, today \in Dates, NEW kind, NEW base \in TaxBases(kind)
  PROVE  \E x \in Nat : base = RateScale * (RateScale * x)
<1>1. YearOf(today) \in Nat /\ Day(today) \in Int /\ Forever \in Int /\ today.day \in Nat
  <2>1. LastMonth + 12 \in Nat
    BY CalculationAssumption
  <2>2. Forever \in Int
    BY <2>1, MonthTyped DEF Forever
  <2>3. today.month \in Nat /\ today.day \in 1 .. 31 /\ Day(today) \in Nat
    BY DateTyped
  <2>4. YearOf(today) \in Nat
    BY <2>3, PlaceInYear DEF YearOf
  <2>. QED BY <2>2, <2>3, <2>4
<1>2. /\ WorkedMonths(employee.admission, YearOf(today), Forever) \in Nat
      /\ WorkedMonths(employee.admission, YearOf(today), Day(today)) \in Nat
  BY <1>1, MonthsTyped DEF EmployeeOK
<1>3. base \in {Salary, VacationPay(20), VacationPay(30), YearlyBonus, BalanceOfSalary, LastBonus}
  BY DEF TaxBases
<1>4. 20 \in Nat /\ 30 \in Nat
  OBVIOUS
<1>5. \E x \in Nat : YearlyBonus = RateScale * (RateScale * x)
  BY <1>2, PayInGrains DEF YearlyBonus
<1>6. \E x \in Nat : LastBonus = RateScale * (RateScale * x)
  BY <1>2, PayInGrains DEF LastBonus
<1>7. \E x \in Nat : BalanceOfSalary = RateScale * (RateScale * x)
  BY <1>1, PayInGrains DEF BalanceOfSalary
<1>8. /\ \E x \in Nat : Salary = RateScale * (RateScale * x)
      /\ \E x \in Nat : VacationPay(20) = RateScale * (RateScale * x)
      /\ \E x \in Nat : VacationPay(30) = RateScale * (RateScale * x)
  BY <1>4, PayInGrains
<1>. QED BY <1>3, <1>5, <1>6, <1>7, <1>8

\* With tables whose brackets follow each other and whose deductions are what they
\* say, rounded to cents, INSS and IRRF by the bracket and its deduction are, to the
\* cent, what is due bracket by bracket: on every base of every event that does not
\* lie between two brackets.
THEOREM TaxesMarginal ==
  ASSUME Continuous(InssBrackets, RateScale), Continuous(IrrfBrackets, RateScale)
  PROVE  FiguresSpec => []TaxIsMarginalInBrackets
<1>1. FiguresSpec => []FiguresInv
  BY FiguresStart, FiguresStep, PTL DEF FiguresSpec
<1>2. FiguresInv => TaxIsMarginalInBrackets
  <2>. SUFFICES ASSUME FiguresInv, NEW base \in TaxBases(event.kind)
                PROVE  /\ Between(base, InssBrackets) \/ NearMarginal(base, InssBrackets)
                       /\ \/ Between(IrrfBase(base), IrrfBrackets)
                          \/ NearMarginal(IrrfBase(base), IrrfBrackets)
    BY DEF TaxIsMarginalInBrackets
  <2>1. EmployeeOK /\ today \in Dates
    BY EmployeeTyped DEF FiguresInv
  <2>2. PICK x \in Nat : base = RateScale * (RateScale * x)
    BY <2>1, BasesInGrains
  <2>3. RateScale * x \in Int /\ x \in Int
    BY GrainTyped
  <2>4. PICK y \in Int : IrrfBase(base) = RateScale * y
    BY <2>1, <2>2, <2>3, IrrfBaseInGrains
  <2>5. InssBrackets \in Seq(Bracket) /\ IrrfBrackets \in Seq(Bracket)
    BY CalculationAssumption
  <2>. QED BY <2>2, <2>3, <2>4, <2>5, TaxNearParts
<1>. QED BY <1>1, <1>2, PTL

-----------------------------------------------------------------------------
(* Months, cycles and notice agree with the calendar *)

\* First and last days are in order.
LEMMA FirstAndLast ==
  ASSUME NEW m \in Nat, NEW n \in Nat
  PROVE  /\ FirstDay(m) \in Nat /\ LastDay(m) \in Nat /\ LastDay(m) = FirstDay(m) + DaysIn(m) - 1
         /\ m < n => LastDay(m) < FirstDay(n)
         /\ m <= n => FirstDay(m) <= FirstDay(n) /\ LastDay(m) <= LastDay(n)
<1>1. /\ DaysBefore(m) \in Nat /\ DaysIn(m) \in 28 .. 31
      /\ DaysBefore(n) \in Nat /\ DaysIn(n) \in 28 .. 31
  BY MonthTyped
<1>2. m < n => DaysBefore(m) + DaysIn(m) <= DaysBefore(n)
  BY MonthsInOrder
<1>3. CASE m < n
  BY <1>1, <1>2, <1>3 DEF FirstDay, LastDay
<1>4. CASE ~(m < n)
  <2>1. m <= n => m = n
    BY <1>4
  <2>. QED BY <1>1, <1>4, <2>1 DEF FirstDay, LastDay
<1>. QED BY <1>3, <1>4

\* The months of a year of which fifteen days lie in a period.
MonthsOf(from, to, year) ==
  {m \in 12 * year .. 12 * year + 11 :
     AtMost(AtMost(to, LastDay(12 * year + 11)), LastDay(m))
     - Later(Later(from, FirstDay(12 * year)), FirstDay(m)) + 1 >= 15}

\* They are what countWorkedMonthsInYear counts.
LEMMA WorkedIsCount ==
  ASSUME NEW d, NEW year \in Nat, NEW last
  PROVE  /\ WorkedMonths(d, year, last) = Cardinality(MonthsOf(Day(d), last, year))
         /\ IsFiniteSet(MonthsOf(Day(d), last, year))
<1>1. IsFiniteSet(12 * year .. 12 * year + 11)
  BY FS_Interval
<1>2. MonthsOf(Day(d), last, year) \subseteq 12 * year .. 12 * year + 11
  BY DEF MonthsOf
<1>. QED BY <1>1, <1>2, FS_Subset DEF WorkedMonths, MonthsOf

\* Days of one month, from one day to another.
LEMMA MonthOf ==
  ASSUME NEW from \in Int, NEW to \in Int, NEW year \in Nat, NEW m \in 12 * year .. 12 * year + 11
  PROVE  /\ m \in Nat
         /\ m \in MonthsOf(from, to, year)
              <=> AtMost(to, LastDay(m)) - Later(from, FirstDay(m)) + 1 >= 15
<1>1. m \in Nat /\ 12 * year \in Nat /\ 12 * year + 11 \in Nat /\ 12 * year <= m /\ m <= 12 * year + 11
  OBVIOUS
<1>. DEFINE a == FirstDay(12 * year)
            b == LastDay(12 * year + 11)
            p == FirstDay(m)
            q == LastDay(m)
<1>2. a \in Nat /\ b \in Nat /\ p \in Nat /\ q \in Nat /\ a <= p /\ q <= b
  BY <1>1, FirstAndLast
<1>3. m \in MonthsOf(from, to, year)
        <=> AtMost(AtMost(to, b), q) - Later(Later(from, a), p) + 1 >= 15
  BY DEF MonthsOf
<1>. HIDE DEF a, b, p, q
<1>4. AtMost(AtMost(to, b), q) = AtMost(to, q) /\ Later(Later(from, a), p) = Later(from, p)
  BY <1>2 DEF AtMost, Later
<1>. QED BY <1>1, <1>3, <1>4 DEF p, q

\* Who leaves one day and is back the next has not lost a whole month.
LEMMA HalvesOfAYear ==
  ASSUME NEW a \in Dates, NEW d \in Dates, d.month > a.month, DaysIn(d.month) >= 29
  PROVE  LET whole == WorkedMonths(a, YearOf(d), Forever)
             parts == WorkedMonths(a, YearOf(d), Day(d)) + WorkedMonths(Tomorrow(d), YearOf(d), Forever)
         IN  parts \in {whole, whole + 1}
<1>. DEFINE year == YearOf(d)
            t == d.month
            M == 12 * year .. 12 * year + 11
            W == MonthsOf(Day(a), Forever, year)
            A == MonthsOf(Day(a), Day(d), year)
            B == MonthsOf(Day(Tomorrow(d)), Forever, year)
<1>1. /\ t \in Nat /\ t <= LastMonth /\ d.day \in 1 .. 31 /\ d.day <= DaysIn(t)
      /\ Day(d) \in Nat /\ a.month \in Nat /\ Day(a) \in Nat /\ Day(a) <= LastDay(a.month)
      /\ Day(Tomorrow(d)) = Day(d) + 1 /\ Day(d) = FirstDay(t) + d.day - 1
  <2>1. DaysBefore(t) \in Nat /\ d.day \in Int
    <3>1. t \in Nat /\ d.day \in 1 .. 31
      BY DateTyped
    <3>. HIDE DEF t
    <3>. QED BY <3>1, MonthTyped
  <2>2. Day(d) = FirstDay(t) + d.day - 1
    BY <2>1 DEF Day, FirstDay
  <2>. QED BY <2>2, DateTyped, TomorrowNext
<1>2. year \in Nat /\ t \in M
  <2>1. t \div 12 \in Nat /\ t = 12 * (t \div 12) + (t % 12) /\ t % 12 \in 0 .. 11
    BY <1>1, PlaceInYear
  <2>2. year = t \div 12
    BY DEF YearOf
  <2>. HIDE DEF year
  <2>3. year \in Nat /\ t = 12 * year + (t % 12)
    BY <2>1, <2>2
  <2>. QED BY <2>1, <2>3
<1>. HIDE DEF year
<1>3. /\ FirstDay(t) \in Nat /\ LastDay(t) \in Nat /\ LastDay(t) = FirstDay(t) + DaysIn(t) - 1
      /\ DaysIn(t) \in 28 .. 31
  BY <1>1, FirstAndLast, MonthTyped
<1>4. Day(a) < FirstDay(t)
  <2>1. LastDay(a.month) < FirstDay(t) /\ LastDay(a.month) \in Nat
    BY <1>1, FirstAndLast
  <2>. QED BY <1>1, <1>3, <2>1
<1>5. Forever \in Int /\ \A m \in M : LastDay(m) <= Forever
  <2>1. LastMonth + 12 \in Nat
    BY CalculationAssumption
  <2>2. Forever \in Int
    BY <2>1, MonthTyped DEF Forever
  <2>3. ASSUME NEW m \in M
        PROVE  LastDay(m) <= Forever
    <3>1. m \in Nat /\ m <= LastMonth + 12
      <4>1. t \in 12 * year .. 12 * year + 11 /\ m \in 12 * year .. 12 * year + 11 /\ LastMonth \in Nat
        BY <1>2, CalculationAssumption
      <4>2. t \in Nat /\ t <= LastMonth
        BY <1>1
      <4>. HIDE DEF M, t
      <4>. QED BY <1>2, <4>1, <4>2
    <3>. QED BY <2>1, <3>1, FirstAndLast DEF Forever
  <2>. QED BY <2>2, <2>3
<1>6. ASSUME NEW m \in M
      PROVE  /\ m \in W <=> LastDay(m) - Later(Day(a), FirstDay(m)) + 1 >= 15
             /\ m \in A <=> AtMost(Day(d), LastDay(m)) - Later(Day(a), FirstDay(m)) + 1 >= 15
             /\ m \in B <=> LastDay(m) - Later(Day(d) + 1, FirstDay(m)) + 1 >= 15
  <2>1. m \in Nat
    BY <1>2, MonthOf
  <2>2. LastDay(m) \in Nat /\ AtMost(Forever, LastDay(m)) = LastDay(m)
    BY <1>5, <2>1, FirstAndLast DEF AtMost
  <2>3. Day(d) + 1 \in Int /\ Day(d) \in Int /\ Day(a) \in Int /\ Day(Tomorrow(d)) = Day(d) + 1
    BY <1>1
  <2>4. m \in W <=> AtMost(Forever, LastDay(m)) - Later(Day(a), FirstDay(m)) + 1 >= 15
    BY <1>2, <1>5, <2>3, MonthOf
  <2>5. m \in A <=> AtMost(Day(d), LastDay(m)) - Later(Day(a), FirstDay(m)) + 1 >= 15
    BY <1>2, <2>3, MonthOf
  <2>6. m \in B <=> AtMost(Forever, LastDay(m)) - Later(Day(d) + 1, FirstDay(m)) + 1 >= 15
    BY <1>2, <1>5, <2>3, MonthOf
  <2>. QED BY <2>2, <2>4, <2>5, <2>6
<1>7. A \subseteq M /\ B \subseteq M /\ W \subseteq M
  BY DEF MonthsOf
<1>. HIDE DEF A, B, W
<1>8. ASSUME NEW m \in M, m < t
      PROVE  (m \in A <=> m \in W) /\ m \notin B
  <2>1. m \in Nat
    BY <1>2, <1>8
  <2>2. LastDay(m) < FirstDay(t) /\ LastDay(m) \in Nat /\ FirstDay(m) \in Nat
    BY <1>1, <1>8, <2>1, FirstAndLast
  <2>3. LastDay(m) < Day(d)
    BY <1>1, <1>3, <2>2
  <2>4. AtMost(Day(d), LastDay(m)) = LastDay(m)
    BY <1>1, <2>2, <2>3 DEF AtMost
  <2>5. Later(Day(d) + 1, FirstDay(m)) >= Day(d) + 1 /\ Later(Day(d) + 1, FirstDay(m)) \in Int
    BY <1>1, <2>2 DEF Later
  <2>6. m \notin B
    BY <1>1, <1>6, <2>2, <2>3, <2>5
  <2>. QED BY <1>6, <2>4, <2>6
<1>9. ASSUME NEW m \in M, t < m
      PROVE  (m \in B <=> m \in W) /\ m \notin A
  <2>1. m \in Nat
    BY <1>2, <1>9
  <2>2. LastDay(t) < FirstDay(m) /\ LastDay(m) \in Nat /\ FirstDay(m) \in Nat
    BY <1>1, <1>9, <2>1, FirstAndLast
  <2>3. Day(d) <= LastDay(t) /\ FirstDay(t) <= LastDay(t)
    BY <1>1, <1>3
  <2>4. Later(Day(d) + 1, FirstDay(m)) = FirstDay(m) /\ Later(Day(a), FirstDay(m)) = FirstDay(m)
    BY <1>1, <1>3, <1>4, <2>2, <2>3 DEF Later
  <2>5. AtMost(Day(d), LastDay(m)) <= Day(d) /\ AtMost(Day(d), LastDay(m)) \in Int
    BY <1>1, <2>2 DEF AtMost
  <2>6. m \notin A
    BY <1>1, <1>3, <1>6, <2>2, <2>3, <2>4, <2>5
  <2>. QED BY <1>6, <2>4, <2>6
<1>10. t \in W /\ (t \in A \/ t \in B)
  <2>1. Later(Day(a), FirstDay(t)) = FirstDay(t)
    BY <1>1, <1>3, <1>4 DEF Later
  <2>2. AtMost(Day(d), LastDay(t)) = Day(d)
    BY <1>1, <1>3 DEF AtMost
  <2>3. Later(Day(d) + 1, FirstDay(t)) = Day(d) + 1
    BY <1>1, <1>3 DEF Later
  <2>4. t \in W <=> DaysIn(t) >= 15
    BY <1>2, <1>3, <1>6, <2>1
  <2>5. t \in A <=> d.day >= 15
    BY <1>1, <1>2, <1>3, <1>6, <2>1, <2>2
  <2>6. t \in B <=> DaysIn(t) - d.day >= 15
    BY <1>1, <1>2, <1>3, <1>6, <2>3
  <2>. QED BY <1>1, <1>3, <2>4, <2>5, <2>6
<1>11. A \cup B = W /\ A \cap B \subseteq {t}
  <2>1. \A m \in M : m \in Int /\ t \in Int
    BY <1>1, <1>2
  <2>2. \A m \in M : m < t \/ t < m \/ m = t
    BY <2>1
  <2>. HIDE DEF M
  <2>. QED BY <1>7, <1>8, <1>9, <1>10, <2>2
<1>12. IsFiniteSet(A) /\ IsFiniteSet(B)
  BY <1>2, WorkedIsCount DEF A, B
<1>13. /\ Cardinality(A \cup B) = Cardinality(A) + Cardinality(B) - Cardinality(A \cap B)
       /\ Cardinality(A) \in Nat /\ Cardinality(B) \in Nat
  BY <1>12, FS_Union, FS_CardinalityType
<1>14. Cardinality(A \cap B) \in {0, 1}
  <2>1. CASE A \cap B = {}
    BY <2>1, FS_EmptySet
  <2>2. CASE A \cap B # {}
    <3>1. A \cap B = {t}
      BY <1>11, <2>2
    <3>. QED BY <3>1, FS_Singleton
  <2>. QED BY <2>1, <2>2
<1>15. Cardinality(A) + Cardinality(B) \in {Cardinality(W), Cardinality(W) + 1}
  <2>1. Cardinality(W) = Cardinality(A) + Cardinality(B) - Cardinality(A \cap B)
    BY <1>11, <1>13
  <2>. DEFINE k == Cardinality(A)
              l == Cardinality(B)
              n == Cardinality(W)
              c == Cardinality(A \cap B)
  <2>2. k \in Nat /\ l \in Nat /\ c \in {0, 1} /\ n = k + l - c
    BY <1>13, <1>14, <2>1
  <2>. HIDE DEF k, l, n, c
  <2>3. k + l \in {n, n + 1}
    BY <2>2
  <2>. QED BY <2>3 DEF k, l, n
<1>. QED BY <1>2, <1>15, WorkedIsCount DEF year, W, A, B

\* From one day to the next, either no month is completed and one more day is left over,
\* or one is completed that at least fifteen days were left over of.
LEMMA MonthCompleted ==
  ASSUME NEW a \in Dates, NEW d \in Dates, NotBefore(d, a)
  PROVE  LET w == FullMonths(a, d)
             v == FullMonths(a, Tomorrow(d))
             x == Day(d) - DayAfterMonths(a, w)
             y == Day(Tomorrow(d)) - DayAfterMonths(a, v)
         IN  /\ w \in Nat /\ x \in Int /\ y \in Int
             /\ \/ v = w /\ y = x + 1
                \/ v = w + 1 /\ x >= 15 /\ y < 15
<1>. DEFINE t == d.month
            s == a.month
            e == Tomorrow(d)
            w == FullMonths(a, d)
            v == FullMonths(a, e)
            x == Day(d) - DayAfterMonths(a, w)
            y == Day(e) - DayAfterMonths(a, v)
<1>1. /\ t \in Nat /\ d.day \in 1 .. 31 /\ d.day <= DaysIn(t)
      /\ s \in Nat /\ a.day \in 1 .. 31 /\ a.day <= DaysIn(s)
  BY DateTyped
<1>2. t > s \/ (t = s /\ d.day >= a.day)
  BY DEF NotBefore
<1>3. \A m \in Nat : /\ DaysBefore(m) \in Nat /\ DaysIn(m) \in 28 .. 31
                     /\ DaysBefore(m + 1) = DaysBefore(m) + DaysIn(m)
  BY MonthTyped, NextMonth
<1>4. Day(d) = DaysBefore(t) + d.day /\ Day(e) = DaysBefore(t) + d.day + 1
  <2>1. Day(d) = DaysBefore(t) + d.day
    BY DEF Day
  <2>. QED BY <2>1, TomorrowNext
<1>5. \A n \in Nat : DayAfterMonths(a, n) = DaysBefore(s + n) + a.day
  BY DEF DayAfterMonths
<1>6. w = t - s - (IF d.day < a.day THEN 1 ELSE 0) /\ w \in Nat
  <2>1. t - s - (IF d.day < a.day THEN 1 ELSE 0) \in Nat
    BY <1>1, <1>2
  <2>2. w = NotNegative(t - s - (IF d.day < a.day THEN 1 ELSE 0))
    BY DEF FullMonths
  <2>. QED BY <2>1, <2>2 DEF NotNegative
<1>. HIDE DEF t, s, e, w, v, x, y
<1>7. CASE d.day < DaysIn(t)
  <2>1. e.month = t /\ e.day = d.day + 1
    <3>1. e = [d EXCEPT !.day = @ + 1]
      BY <1>7 DEF Tomorrow, e, t
    <3>2. d \in [month : 0 .. LastMonth, day : 1 .. 31]
      BY DEF Dates
    <3>. QED BY <3>1, <3>2 DEF t
  <2>2. v = NotNegative(t - s - (IF d.day + 1 < a.day THEN 1 ELSE 0))
    BY <2>1 DEF v, FullMonths, s
  <2>3. CASE d.day + 1 = a.day
    <3>1. w = t - s - 1 /\ v = t - s /\ v = w + 1
      BY <1>1, <1>6, <2>2, <2>3 DEF NotNegative
    <3>2. s + w = t - 1 /\ s + v = t /\ s + w \in Nat /\ (s + w) + 1 = t /\ v \in Nat
      BY <1>1, <1>6, <3>1
    <3>3. DaysBefore(t) = DaysBefore(s + w) + DaysIn(s + w) /\ DaysIn(s + w) \in 28 .. 31
          /\ DaysBefore(s + w) \in Nat /\ DaysBefore(t) \in Nat
      BY <1>1, <1>3, <3>2
    <3>4. x = Day(d) - (DaysBefore(s + w) + a.day) /\ y = Day(e) - (DaysBefore(t) + a.day)
      BY <1>5, <1>6, <3>2 DEF x, y
    <3>5. x = DaysIn(s + w) - 1 /\ y = 0
      BY <1>1, <1>4, <2>3, <3>3, <3>4
    <3>. QED BY <1>6, <3>1, <3>3, <3>5 DEF w, v, x, y, e
  <2>4. CASE d.day + 1 # a.day
    <3>1. v = w
      BY <1>1, <1>2, <1>6, <2>2, <2>4 DEF NotNegative
    <3>2. x = Day(d) - (DaysBefore(s + w) + a.day) /\ y = Day(e) - (DaysBefore(s + w) + a.day)
          /\ DaysBefore(s + w) \in Nat /\ DaysBefore(t) \in Nat
      <4>1. s + w \in Nat
        BY <1>1, <1>6
      <4>. QED BY <1>1, <1>3, <1>5, <1>6, <3>1, <4>1 DEF x, y
    <3>3. x \in Int /\ y = x + 1
      <4>. DEFINE b == DaysBefore(s + w) + a.day
                  c == DaysBefore(t) + d.day
      <4>1. b \in Int /\ c \in Int
        BY <1>1, <3>2
      <4>2. x = c - b /\ y = (c + 1) - b
        BY <1>4, <3>2
      <4>. HIDE DEF b, c
      <4>. QED BY <4>1, <4>2
    <3>. QED BY <1>6, <3>1, <3>3 DEF w, v, x, y, e
  <2>. QED BY <2>3, <2>4
<1>8. CASE ~(d.day < DaysIn(t))
  <2>1. e.month = t + 1 /\ e.day = 1 /\ d.day = DaysIn(t)
    <3>1. e = [month |-> t + 1, day |-> 1]
      BY <1>8 DEF Tomorrow, e, t
    <3>2. DaysIn(t) \in Int
      BY <1>1, <1>3
    <3>. QED BY <1>1, <1>8, <3>1, <3>2
  <2>2. v = NotNegative((t + 1) - s - (IF 1 < a.day THEN 1 ELSE 0))
    BY <2>1 DEF v, FullMonths, s
  <2>3. DaysBefore(t) \in Nat /\ DaysIn(t) \in 28 .. 31 /\ DaysBefore(t + 1) = DaysBefore(t) + DaysIn(t)
    BY <1>1, <1>3
  <2>4. CASE a.day = 1
    <3>1. w = t - s /\ v = w + 1 /\ v \in Nat /\ s + w = t /\ s + v = t + 1
      BY <1>1, <1>2, <1>6, <2>2, <2>4 DEF NotNegative
    <3>2. x = Day(d) - (DaysBefore(t) + a.day) /\ y = Day(e) - (DaysBefore(t + 1) + a.day)
      BY <1>5, <1>6, <3>1 DEF x, y
    <3>3. x = DaysIn(t) - 1 /\ y = 0
      BY <1>1, <1>4, <2>1, <2>3, <2>4, <3>2
    <3>. QED BY <1>6, <2>3, <3>1, <3>3 DEF w, v, x, y, e
  <2>5. CASE a.day # 1 /\ d.day >= a.day
    <3>1. w = t - s /\ v = w /\ s + w = t
      BY <1>1, <1>2, <1>6, <2>2, <2>5 DEF NotNegative
    <3>2. x = Day(d) - (DaysBefore(t) + a.day) /\ y = Day(e) - (DaysBefore(t) + a.day)
      BY <1>5, <1>6, <3>1 DEF x, y
    <3>3. x \in Int /\ y = x + 1
      <4>. DEFINE b == DaysBefore(t) + a.day
                  c == DaysBefore(t) + d.day
      <4>1. b \in Int /\ c \in Int
        BY <1>1, <2>3
      <4>2. x = c - b /\ y = (c + 1) - b
        BY <1>4, <3>2
      <4>. HIDE DEF b, c
      <4>. QED BY <4>1, <4>2
    <3>. QED BY <1>6, <3>1, <3>3 DEF w, v, x, y, e
  <2>6. CASE a.day # 1 /\ d.day < a.day
    <3>1. w = t - s - 1 /\ v = w + 1 /\ v \in Nat /\ s + w = t - 1 /\ s + v = t /\ s + w \in Nat
          /\ (s + w) + 1 = t
      BY <1>1, <1>2, <1>6, <2>2, <2>6 DEF NotNegative
    <3>2. DaysBefore(t) = DaysBefore(s + w) + DaysIn(s + w) /\ DaysIn(s + w) \in 28 .. 31
          /\ DaysBefore(s + w) \in Nat
      BY <1>3, <3>1
    <3>3. x = Day(d) - (DaysBefore(s + w) + a.day) /\ y = Day(e) - (DaysBefore(t) + a.day)
      BY <1>5, <1>6, <3>1 DEF x, y
    <3>4. x = (DaysIn(s + w) + d.day) - a.day /\ y = (d.day + 1) - a.day
      <4>. DEFINE b == DaysBefore(s + w)
                  n == DaysIn(s + w)
                  c == DaysBefore(t)
      <4>1. b \in Int /\ n \in Int /\ c = b + n /\ d.day \in Int /\ a.day \in Int
        BY <1>1, <3>2
      <4>2. x = (c + d.day) - (b + a.day) /\ y = (c + d.day + 1) - (c + a.day)
        BY <1>4, <3>3
      <4>. HIDE DEF b, n, c
      <4>3. x = (n + d.day) - a.day /\ y = (d.day + 1) - a.day
        BY <4>1, <4>2
      <4>. QED BY <4>3 DEF n
    <3>5. d.day >= 28 /\ a.day <= 31
      BY <1>1, <2>1, <2>3
    <3>. QED BY <1>1, <1>6, <2>6, <3>1, <3>2, <3>4, <3>5 DEF w, v, x, y, e
  <2>. QED BY <1>1, <2>4, <2>5, <2>6
<1>. QED BY <1>7, <1>8

\* The twelfths of a vacation are earned one by one.
LEMMA TwelfthsInOrder ==
  ASSUME NEW a \in Dates, NEW d \in Dates, NotBefore(d, a)
  PROVE  LET before == CycleMonths(a, d)
             after  == CycleMonths(a, Tomorrow(d))
         IN  after \in {before, before + 1} \cup (IF before = 12 THEN {0} ELSE {})
<1>. DEFINE w == FullMonths(a, d)
            v == FullMonths(a, Tomorrow(d))
            x == Day(d) - DayAfterMonths(a, w)
            y == Day(Tomorrow(d)) - DayAfterMonths(a, v)
            p == IF x >= 15 THEN 1 ELSE 0
            q == IF y >= 15 THEN 1 ELSE 0
            before == CycleMonths(a, d)
            after == CycleMonths(a, Tomorrow(d))
<1>1. /\ w \in Nat /\ x \in Int /\ y \in Int
      /\ \/ v = w /\ y = x + 1
         \/ v = w + 1 /\ x >= 15 /\ y < 15
  BY MonthCompleted
<1>2. before = AtMost((w % 12) + p, 12) /\ after = AtMost((v % 12) + q, 12)
  BY DEF CycleMonths
<1>. HIDE DEF w, v, x, y, before, after
<1>3. w % 12 \in 0 .. 11
  BY <1>1
<1>4. before = (w % 12) + p
  BY <1>2, <1>3 DEF AtMost
<1>5. CASE v = w /\ y = x + 1
  <2>1. after = (w % 12) + q
    BY <1>2, <1>3, <1>5 DEF AtMost
  <2>2. q \in {p, p + 1}
    BY <1>1, <1>5
  <2>. DEFINE r == w % 12
  <2>3. r \in 0 .. 11 /\ before = r + p /\ after = r + q /\ p \in {0, 1}
    BY <1>3, <1>4, <2>1
  <2>. HIDE DEF p, q, r
  <2>4. after \in {before, before + 1}
    BY <2>2, <2>3
  <2>. QED BY <2>4 DEF before, after
<1>6. CASE v = w + 1 /\ x >= 15 /\ y < 15
  <2>1. p = 1 /\ q = 0
    BY <1>1, <1>6
  <2>2. after = v % 12
    <3>1. v % 12 \in 0 .. 11 /\ after = AtMost((v % 12) + 0, 12)
      BY <1>1, <1>2, <1>6, <2>1
    <3>. DEFINE r == v % 12
    <3>2. r \in 0 .. 11 /\ after = AtMost(r + 0, 12)
      BY <3>1
    <3>. HIDE DEF r
    <3>3. after = r
      BY <3>2 DEF AtMost
    <3>. QED BY <3>3 DEF r
  <2>3. (w % 12 < 11 => v % 12 = (w % 12) + 1) /\ (w % 12 = 11 => v % 12 = 0)
    BY <1>1, <1>6, PlaceInYear
  <2>. DEFINE r == w % 12
              s == v % 12
  <2>4. r \in 0 .. 11 /\ before = r + 1 /\ after = s /\ (r < 11 => s = r + 1) /\ (r = 11 => s = 0)
    BY <1>3, <1>4, <2>1, <2>2, <2>3
  <2>. HIDE DEF r, s
  <2>5. after = before \/ (before = 12 /\ after = 0)
    BY <2>4
  <2>. QED BY <2>5 DEF before, after
<1>. QED BY <1>1, <1>5, <1>6

\* The same month of a later year.
LEMMA YearsOn ==
  ASSUME NEW m \in Nat, NEW j \in Nat
  PROVE  /\ m + 12 * j \in Nat
         /\ DaysIn(m) <= DaysIn(m + 12 * j) + 1
         /\ 4 * (DaysBefore(m + 12 * j) - DaysBefore(m)) \in (1461 * j - 3) .. (1461 * j + 3)
<1>. DEFINE n == m + 12 * j
            r == m % 12
            y == m \div 12
            k == (m + 34) \div 48
            l == (n + 34) \div 48
<1>1. n \in Nat /\ r \in 0 .. 11 /\ y \in Nat /\ m = 12 * y + r
  <2>1. n \in Nat
    OBVIOUS
  <2>. QED BY <2>1, PlaceInYear
<1>2. n % 12 = r /\ n \div 12 = y + j
  <2>1. n % 12 \in 0 .. 11 /\ n \div 12 \in Nat /\ n = 12 * (n \div 12) + (n % 12)
    BY <1>1, PlaceInYear
  <2>. DEFINE p == n % 12
              z == n \div 12
  <2>2. p \in 0 .. 11 /\ z \in Nat /\ 12 * z + p = (12 * y + r) + 12 * j
    BY <1>1, <2>1
  <2>. HIDE DEF n, r, y, p, z
  <2>3. p = r /\ z = y + j
    BY <1>1, <2>2
  <2>. QED BY <2>3 DEF p, z
<1>3. /\ k \in Nat /\ l \in Nat
      /\ 48 * k <= m + 34 /\ m + 34 <= 48 * k + 47
      /\ 48 * l <= n + 34 /\ n + 34 <= 48 * l + 47
  <2>1. \A u \in Nat : /\ u \div 48 \in Nat /\ 48 * (u \div 48) <= u
                       /\ u <= 48 * (u \div 48) + 47
    OBVIOUS
  <2>2. m + 34 \in Nat /\ n + 34 \in Nat
    BY <1>1
  <2>. HIDE DEF n
  <2>. QED BY <2>1, <2>2
<1>4. /\ DaysBefore(m) = 365 * y + MonthOffsets[r + 1] + k
      /\ DaysBefore(n) = 365 * (y + j) + MonthOffsets[r + 1] + l
  <2>. HIDE DEF n
  <2>. QED BY <1>2 DEF DaysBefore
<1>5. /\ DaysIn(m) = MonthLengths[r + 1] + (IF m % 48 = 13 THEN 1 ELSE 0)
      /\ DaysIn(n) = MonthLengths[r + 1] + (IF n % 48 = 13 THEN 1 ELSE 0)
  <2>. HIDE DEF n
  <2>. QED BY <1>2 DEF DaysIn
<1>6. MonthOffsets[r + 1] \in Nat /\ MonthLengths[r + 1] \in Nat
  <2>1. r \in 0 .. 11
    BY <1>1
  <2>. HIDE DEF r
  <2>2. MonthLengths[r + 1] \in 28 .. 31 /\ MonthOffsets[r + 1] \in 0 .. 334
    BY <2>1, CommonYear
  <2>. QED BY <2>2
<1>. DEFINE o == MonthOffsets[r + 1]
<1>7. o \in Nat /\ DaysBefore(m) = 365 * y + o + k /\ DaysBefore(n) = 365 * (y + j) + o + l
      /\ n = m + 12 * j
  BY <1>4, <1>6
<1>8. DaysIn(m) <= DaysIn(n) + 1
  <2>. HIDE DEF n, r
  <2>. QED BY <1>5, <1>6
<1>. HIDE DEF n, r, y, k, l, o
<1>9. DaysBefore(n) - DaysBefore(m) = 365 * j + (l - k)
  BY <1>1, <1>3, <1>7
<1>10. 4 * (l - k) \in (j - 3) .. (j + 3)
  BY <1>1, <1>3, <1>7
<1>11. 4 * (DaysBefore(n) - DaysBefore(m)) \in (1461 * j - 3) .. (1461 * j + 3)
  BY <1>3, <1>9, <1>10
<1>. QED BY <1>1, <1>8, <1>11 DEF n

\* The days of whole years lie in a period of that many months.
LEMMA WholeYears ==
  ASSUME NEW a \in Dates, NEW d \in Dates, NotBefore(d, a)
  PROVE  LET y == FullMonths(a, d) \div 12
             days == Day(d) - Day(a)
         IN  /\ y \in Nat /\ days \in Nat
             /\ 1461 * y <= 4 * days + 3
             /\ 4 * days < 1461 * (y + 1)
<1>. DEFINE t == d.month
            s == a.month
            w == FullMonths(a, d)
            y == w \div 12
            days == Day(d) - Day(a)
            b == s + 12 * y
            c == s + 12 * (y + 1)
<1>1. /\ t \in Nat /\ d.day \in 1 .. 31 /\ d.day <= DaysIn(t)
      /\ s \in Nat /\ a.day \in 1 .. 31 /\ a.day <= DaysIn(s)
  BY DateTyped
<1>2. t > s \/ (t = s /\ d.day >= a.day)
  BY DEF NotBefore
<1>3. w = t - s - (IF d.day < a.day THEN 1 ELSE 0) /\ w \in Nat
  <2>1. t - s - (IF d.day < a.day THEN 1 ELSE 0) \in Nat
    BY <1>1, <1>2
  <2>2. w = NotNegative(t - s - (IF d.day < a.day THEN 1 ELSE 0))
    BY DEF FullMonths
  <2>. QED BY <2>1, <2>2 DEF NotNegative
<1>4. days \in Nat
  BY DaysInOrder, DateTyped
<1>5. Day(d) = DaysBefore(t) + d.day /\ Day(a) = DaysBefore(s) + a.day
  BY DEF Day
<1>. HIDE DEF t, s, w
<1>6. y \in Nat /\ 12 * y <= w /\ w <= 12 * y + 11
  BY <1>3
<1>. HIDE DEF y
<1>7. b \in Nat /\ c \in Nat
  BY <1>1, <1>6
<1>8. /\ DaysIn(s) <= DaysIn(b) + 1
      /\ 4 * (DaysBefore(b) - DaysBefore(s)) \in (1461 * y - 3) .. (1461 * y + 3)
      /\ 4 * (DaysBefore(c) - DaysBefore(s)) \in (1461 * (y + 1) - 3) .. (1461 * (y + 1) + 3)
  <2>1. y + 1 \in Nat
    BY <1>6
  <2>2. /\ DaysIn(s) <= DaysIn(b) + 1
        /\ 4 * (DaysBefore(b) - DaysBefore(s)) \in (1461 * y - 3) .. (1461 * y + 3)
    BY <1>1, <1>6, YearsOn
  <2>3. 4 * (DaysBefore(c) - DaysBefore(s)) \in (1461 * (y + 1) - 3) .. (1461 * (y + 1) + 3)
    BY <1>1, <2>1, YearsOn
  <2>. QED BY <2>2, <2>3
<1>9. \A m \in {s, t, b, c} : DaysBefore(m) \in Nat /\ DaysIn(m) \in Nat
  BY <1>1, <1>7, MonthTyped
<1>10. DaysBefore(b) + a.day <= Day(d)
  <2>1. (t = b /\ a.day <= d.day) \/ b < t
    BY <1>1, <1>2, <1>3, <1>6
  <2>2. CASE t = b /\ a.day <= d.day
    <3>. HIDE DEF b
    <3>. QED BY <1>1, <1>5, <1>9, <2>2
  <2>3. CASE b < t
    <3>1. DaysBefore(b) + DaysIn(b) <= DaysBefore(t)
      BY <1>1, <1>7, <2>3, MonthsInOrder
    <3>. HIDE DEF b
    <3>. QED BY <1>1, <1>5, <1>8, <1>9, <3>1
  <2>. QED BY <2>1, <2>2, <2>3
<1>11. Day(d) < DaysBefore(c) + a.day
  <2>1. (t = c /\ d.day < a.day) \/ t < c
    BY <1>1, <1>2, <1>3, <1>6
  <2>2. CASE t = c /\ d.day < a.day
    <3>. HIDE DEF c
    <3>. QED BY <1>1, <1>5, <1>9, <2>2
  <2>3. CASE t < c
    <3>1. DaysBefore(t) + DaysIn(t) <= DaysBefore(c)
      BY <1>1, <1>7, <2>3, MonthsInOrder
    <3>. HIDE DEF c
    <3>. QED BY <1>1, <1>5, <1>9, <3>1
  <2>. QED BY <2>1, <2>2, <2>3
<1>. DEFINE low == DaysBefore(b) - DaysBefore(s)
            high == DaysBefore(c) - DaysBefore(s)
<1>12. low \in Int /\ high \in Int /\ low <= days /\ days < high
  <2>1. DaysBefore(b) \in Nat /\ DaysBefore(c) \in Nat /\ DaysBefore(s) \in Nat /\ DaysBefore(t) \in Nat
    BY <1>9
  <2>. DEFINE k == DaysBefore(b)
              l == DaysBefore(c)
              m == DaysBefore(s)
              n == Day(d)
  <2>2. k \in Int /\ l \in Int /\ m \in Int /\ n \in Int /\ a.day \in Int
    BY <1>1, <1>5, <2>1
  <2>3. /\ low = k - m /\ high = l - m /\ days = n - (m + a.day)
        /\ k + a.day <= n /\ n < l + a.day
    BY <1>5, <1>10, <1>11
  <2>. HIDE DEF k, l, m, n, low, high, days
  <2>. QED BY <2>2, <2>3
<1>13. /\ 4 * low \in (1461 * y - 3) .. (1461 * y + 3)
       /\ 4 * high \in (1461 * (y + 1) - 3) .. (1461 * (y + 1) + 3)
  BY <1>8
<1>. HIDE DEF low, high, days, b, c
<1>14. 1461 * y <= 4 * days + 3 /\ 4 * days < 1461 * (y + 1)
  BY <1>4, <1>6, <1>12, <1>13
<1>. QED BY <1>4, <1>6, <1>14 DEF y, days, w

\* The notice of a complete year is due on its anniversary or on the day after.
LEMMA NoticeInTime ==
  ASSUME NEW a \in Dates, NEW d \in Dates, NotBefore(d, a)
  PROVE  AtMost(30 + 3 * (FullMonths(a, d) \div 12), 90)
           \in {NoticeDays(a, d), NoticeDays(a, Tomorrow(d))}
<1>. DEFINE y == FullMonths(a, d) \div 12
            days == Day(d) - Day(a)
            later == Day(Tomorrow(d)) - Day(a)
            g == (days * 4) \div 1461
            h == (later * 4) \div 1461
<1>1. y \in Nat /\ days \in Nat /\ 1461 * y <= 4 * days + 3 /\ 4 * days < 1461 * (y + 1)
  BY WholeYears
<1>2. later = days + 1
  BY TomorrowNext, DateTyped
<1>3. /\ NoticeDays(a, d) = AtMost(30 + 3 * g, 90)
      /\ NoticeDays(a, Tomorrow(d)) = AtMost(30 + 3 * h, 90)
  BY DEF NoticeDays
<1>. HIDE DEF y, days, later
<1>4. /\ g \in Int /\ h \in Int
      /\ 1461 * g <= days * 4 /\ days * 4 < 1461 * (g + 1)
      /\ 1461 * h <= later * 4 /\ later * 4 < 1461 * (h + 1)
  BY <1>1, <1>2
<1>. HIDE DEF g, h
<1>5. y = g \/ y = h
  BY <1>1, <1>2, <1>4
<1>6. AtMost(30 + 3 * y, 90) \in {NoticeDays(a, d), NoticeDays(a, Tomorrow(d))}
  BY <1>3, <1>5
<1>. QED BY <1>6 DEF y

\* Leaving one day and coming back the next costs no month of the year, the months of
\* the vacation cycle grow one by one, and a complete year gives its notice on the
\* anniversary or on the day after: for every employee and every date.
THEOREM MonthsKept == FiguresSpec => []NoMonthIsLost
<1>1. FiguresSpec => []FiguresInv
  BY FiguresStart, FiguresStep, PTL DEF FiguresSpec
<1>2. FiguresInv => NoMonthIsLost
  <2>. SUFFICES ASSUME FiguresInv
                PROVE  NoMonthIsLost
    OBVIOUS
  <2>1. /\ employee.admission \in Dates /\ today \in Dates
        /\ NotBefore(today, employee.admission)
    BY EmployeeTyped DEF FiguresInv, EmployeeOK
  <2>. QED BY <2>1, HalvesOfAYear, TwelfthsInOrder, NoticeInTime DEF NoMonthIsLost
<1>. QED BY <1>1, <1>2, PTL

=============================================================================

------------------------------ MODULE MCLedger ------------------------------
(* Small instances of Ledger.  Amounts in thousandths: 1000 is one unit. *)
EXTENDS Ledger, TLC

CONSTANTS o1, o2, drawer, revenue, petty, other, r1, r2, r3

MCOrgOf == [a \in LedgerAccounts |-> IF a = other THEN o2 ELSE o1]

\* petty cash, created during the run, is a child of the drawer.
MCParentOf == [a \in LedgerAccounts |-> IF a = petty THEN drawer ELSE NoAccount]
MCInitialRows == LedgerAccounts \ {petty}

Debit(a, n)  == [account |-> a, direction |-> "DEBIT", amount |-> n]
Credit(a, n) == [account |-> a, direction |-> "CREDIT", amount |-> n]

Sale    == <<Debit(drawer, 10), Credit(revenue, 10)>>
\* 0.016 against 0.008 + 0.008: passes validateBalance, rounds to 2 and 1 + 1.
Split   == <<Debit(drawer, 16), Credit(revenue, 8), Credit(revenue, 8)>>
\* 0.014 against 0.007 + 0.007: passes too, but rounds to 1 and 1 + 1 cents.
Uneven  == <<Debit(drawer, 14), Credit(revenue, 7), Credit(revenue, 7)>>
\* For one organization, and refused for the other.
Foreign == <<Debit(other, 10), Credit(other, 10)>>

SaleOnly    == {Sale}
MixedDrafts == {Split, Uneven, Foreign}

RequestSymmetry == Permutations(Requests)
=============================================================================

------------------------------ MODULE LedgerLog ------------------------------
(***************************************************************************)
(* What the journal promises to the reports, the reconciliation and the    *)
(* auditors that read it: for each organization one log, to which balanced *)
(* entries are appended and from which nothing is ever changed or removed. *)
(***************************************************************************)
EXTENDS Integers, Sequences

CONSTANTS Orgs, Balanced(_), Mirror(_)

VARIABLE log     \* log[o][n] is entry number n of organization o

\* Entry n of a log is sound: it balances and, when it is a reversal, it
\* mirrors an earlier entry that is none.
Sound(l, n) ==
  /\ Balanced(l[n].lines)
  /\ l[n].of # 0 =>
       /\ l[n].of \in 1 .. n - 1
       /\ l[l[n].of].of = 0
       /\ l[n].lines = Mirror(l[l[n].of].lines)

Init == log = [o \in Orgs |-> <<>>]

\* One transaction appends one or more entries to the log of one organization.
Extend(o) ==
  /\ Len(log'[o]) > Len(log[o])
  /\ \A n \in 1 .. Len(log[o]) : log'[o][n] = log[o][n]
  /\ \A n \in Len(log[o]) + 1 .. Len(log'[o]) : Sound(log'[o], n)
  /\ \A p \in Orgs \ {o} : log'[p] = log[p]

Next == \E o \in Orgs : Extend(o)

Spec == Init /\ [][Next]_log

=============================================================================

------------------------------ MODULE MCFiscal ------------------------------
(* A small instance of FiscalDocuments.                                       *)
EXTENDS FiscalValues, TLC

CONSTANTS r1, r2, r3

RequestSymmetry == Permutations(SettingsRequests)
=============================================================================

--------------------------- MODULE MCExecStatement ---------------------------
(* Small instances of ExecStatement for TLC: two SELECTs and an UPDATE. *)
EXTENDS ExecStatement, TLC

Symmetry == Permutations(Selects)

\* Every combination of faults.
MCAllFaultSets == SUBSET StatementFaultKinds
=============================================================================

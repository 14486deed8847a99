------------------------ MODULE MCDatabaseConnection ------------------------
(* Small instances of DatabaseConnection for TLC. *)
EXTENDS DatabaseConnection

\* Every combination of faults.
MCAllFaultSets == SUBSET FaultKinds
=============================================================================

----------------------------- MODULE MCLogging -----------------------------
(* Small instances of Logging for TLC. *)
EXTENDS Logging, TLC

Symmetry == Permutations(Threads) \union Permutations(StdHandlers)

\* Level setters one after the other, and in several threads at once.
MCSetters == {{}, {"setters"}}
\* Custom levels set before messages are logged, and meanwhile.
MCCustom == {{}, {"custom"}}
=============================================================================

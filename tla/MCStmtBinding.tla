--------------------------- MODULE MCStmtBinding ---------------------------
(* Small instances of StmtBinding for TLC. *)
EXTENDS StmtBinding, TLC

Symmetry == Permutations(Objects) \union Permutations(RawHandles)
              \union Permutations(Buffers) \union Permutations(Slots)

\* The discipline, what concerns binding and what concerns freeing, and everything
\* under which no statement may be lost.
MCFaultSets == {{"free_fails"}, {"bind_untracked", "unbind_fails"}, {"free_bound"},
                FaultKinds \ {"free_fails"}}

\* A caller frees a handle that buffers are bound to.
MCFreeBound == {{"free_bound"}}
=============================================================================

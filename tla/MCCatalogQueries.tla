-------------------------- MODULE MCCatalogQueries --------------------------
(* A database of two tables, one of them matched by the name of the other.   *)
EXTENDS CatalogQueries

CONSTANTS t_x, tax, s1

MCNames == {t_x, tax}
MCSpaces == {s1}
MCMatchedBy == [n \in MCNames \union MCSpaces |-> IF n = t_x THEN {t_x, tax} ELSE {n}]
MCTables == {Ask(n, s, c) : n \in MCNames, s \in {s1, NoName}, c \in {s1, NoName}}
MCFaultSets == {{}, {"identifier_default"}, {"outlives"}, {"init_fails", "free_fails"},
                {"close_fails"}, {"odbc2"}, {"unset", "long"}}
=============================================================================

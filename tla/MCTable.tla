------------------------------ MODULE MCTable ------------------------------
(* Small instances of Table for TLC. *)
EXTENDS Table

\* By WHERE clause, and by key.
MCAccess == {{"select_where", "count_where", "delete_where"},
             {"select_pk", "update_pk", "delete_pk", "insert"}}

MCFlags == {{"select"}, {"insert"}}
MCKeys == {{}, {1}}

\* The discipline, and the faults by what they concern.
MCFaultSets == {{}, {"mixed"}, {"rekey", "skip"}, {"both_selects", "commit_deletes"},
                {"create_open", "reset_fails"}}
=============================================================================

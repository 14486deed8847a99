-------------------------- MODULE MCInfoProperties --------------------------
(* Drivers of several versions, two products.                                *)
EXTENDS InfoProperties

CONSTANTS old, ninety, three, post, four, odd

MCConnections == {old, ninety, three, post, four, odd}
MCProduct == [c \in MCConnections |-> IF c \in {post, ninety} THEN "PostgreSQL" ELSE "other"]
MCDriverVersion == [c \in MCConnections |->
  CASE c = old -> <<2, 0>>  [] c = ninety -> <<2, 90>>  [] c = three -> <<3, 51>>
    [] c = post -> <<3, 80>>  [] c = four -> <<4, 0>>  [] c = odd -> <<3, -1>>]
MCFragile == {"DRIVER_ODBC_VER", "DBMS_NAME", "SEARCH_PATTERN_ESCAPE"}
MCFaultSets == {{}, {"fails"}, {"maps"}, {"no_reset"}, {"odd_size"}}
=============================================================================

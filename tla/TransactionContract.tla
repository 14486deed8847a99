------------------------ MODULE TransactionContract ------------------------
(***************************************************************************)
(* What exodbc::Database promises about the work done on its connection    *)
(* (the class comment and the comments of Close, CommitTrans,              *)
(* RollbackTrans and SetCommitMode in include/exodbc/Database.h): work     *)
(* becomes durable when it is done in auto commit mode or when the caller  *)
(* commits, and in no other way; changing the mode and closing give up     *)
(* what is pending.                                                        *)
(***************************************************************************)

CONSTANT Works  \* units of work, each done at most once

VARIABLES
  open,    \* IsOpen()
  auto,    \* GetCommitMode() is not MANUAL
  pending, \* work that can still be rolled back
  durable  \* work that cannot

vars == <<open, auto, pending, durable>>

Init ==
  /\ open = FALSE
  /\ auto \in BOOLEAN
  /\ pending = {}
  /\ durable = {}

Open ==
  /\ ~open
  /\ open' = TRUE
  /\ auto' \in BOOLEAN
  /\ UNCHANGED <<pending, durable>>

Do(w) ==
  /\ open
  /\ w \notin pending \union durable
  /\ IF auto THEN durable' = durable \union {w} /\ UNCHANGED pending
             ELSE pending' = pending \union {w} /\ UNCHANGED durable
  /\ UNCHANGED <<open, auto>>

Commit ==
  /\ durable' = durable \union pending
  /\ pending' = {}
  /\ UNCHANGED <<open, auto>>

\* Rollback, alone or on the way to another mode.
RollbackAndSetMode ==
  /\ pending' = {}
  /\ auto' \in BOOLEAN
  /\ UNCHANGED <<open, durable>>

\* A mode that is learned anew must not put pending work at risk.
ReadMode ==
  /\ pending = {}
  /\ auto' \in BOOLEAN
  /\ UNCHANGED <<open, pending, durable>>

Close ==
  /\ open
  /\ open' = FALSE
  /\ pending' = {}
  /\ UNCHANGED <<auto, durable>>

Next ==
  \/ Open \/ Commit \/ RollbackAndSetMode \/ ReadMode \/ Close
  \/ \E w \in Works : Do(w)

Spec == Init /\ [][Next]_vars
=============================================================================

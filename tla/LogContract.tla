----------------------------- MODULE LogContract -----------------------------
(***************************************************************************)
(* What exodbc::LogManager promises those who log and those who register   *)
(* handlers (include/exodbc/LogManager.h, include/exodbc/LogHandler.h),    *)
(* told without threads and mutexes: messages are put out one at a time,   *)
(* each of them by all handlers that are registered at that moment and do  *)
(* not hide it, and at no other time by any handler.                       *)
(***************************************************************************)
EXTENDS Integers, Sequences

CONSTANTS
  Handlers,    \* LogHandler objects
  StdHandlers, \* the StdLogHandlers among them; they are all equal
  Levels,      \* of messages
  NoLevel,     \* no custom level
  Messages     \* each is logged at most once

VARIABLES
  registered, \* the handlers that are registered
  level,      \* GetGlobalLogLevel()
  wanted,     \* the custom level each handler was given
  underway,   \* messages that were let through and have yet to be put out
  log,        \* the messages each handler has put out, in order
  settled     \* handlers get their levels before anything is logged; never changes

vars == <<registered, level, wanted, underway, log, settled>>

Equal(g, h) == g = h \/ {g, h} \subseteq StdHandlers
Hears(h, lvl) == wanted[h] = NoLevel \/ lvl >= wanted[h]

Init ==
  /\ \E h \in StdHandlers : registered = {h}
  /\ level \in Levels
  /\ wanted = [h \in Handlers |-> NoLevel]
  /\ underway = {}
  /\ log = [h \in Handlers |-> <<>>]
  /\ settled \in BOOLEAN

\* A new message of at least the global level is let through.
Accept(m, lvl) ==
  /\ lvl >= level
  /\ \A p \in underway : p.msg # m
  /\ \A h \in Handlers : \A i \in DOMAIN log[h] : log[h][i] # m
  /\ underway' = underway \union {[msg |-> m, lvl |-> lvl]}
  /\ UNCHANGED <<registered, level, wanted, log, settled>>

\* All of them put it out at once.
Publish(p) ==
  /\ \E H \in SUBSET registered :
       /\ settled => H = {h \in registered : Hears(h, p.lvl)}
       /\ log' = [h \in Handlers |-> IF h \in H THEN Append(log[h], p.msg) ELSE log[h]]
  /\ underway' = underway \ {p}
  /\ UNCHANGED <<registered, level, wanted, settled>>

UnchangedMessages == UNCHANGED <<underway, log, settled>>

Register(h) ==
  /\ \A g \in registered : ~Equal(g, h)
  /\ registered' = registered \union {h}
  /\ UnchangedMessages /\ UNCHANGED <<level, wanted>>

Remove(h) ==
  /\ \E g \in registered : Equal(g, h) /\ registered' = registered \ {g}
  /\ UnchangedMessages /\ UNCHANGED <<level, wanted>>

Clear == registered' = {} /\ UnchangedMessages /\ UNCHANGED <<level, wanted>>

SetLevel == level' \in Levels /\ UnchangedMessages /\ UNCHANGED <<registered, wanted>>

SetHandlerLevel(h) ==
  /\ \E lvl \in Levels \union {NoLevel} : wanted' = [wanted EXCEPT ![h] = lvl]
  /\ UnchangedMessages /\ UNCHANGED <<registered, level>>

Next ==
  \/ \E m \in Messages, lvl \in Levels : Accept(m, lvl)
  \/ \E p \in underway : Publish(p)
  \/ \E h \in Handlers : Register(h) \/ Remove(h) \/ SetHandlerLevel(h)
  \/ Clear \/ SetLevel

Spec == Init /\ [][Next]_vars
=============================================================================

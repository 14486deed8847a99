----------------------------- MODULE LoggingProofs -----------------------------
(***************************************************************************)
(* What the log manager promises, for any numbers of threads, handlers,    *)
(* messages and levels: handlers agree on the order of messages, only      *)
(* registered handlers are called, none is registered twice, lines are not *)
(* torn, and levels are what they were set to.                             *)
(***************************************************************************)
EXTENDS Logging, SequenceTheorems, TLAPS

-----------------------------------------------------------------------------
(* Types. *)

ACall == [at : {"idle", "lock", "deliver", "write", "line", "set", "setHandler"},
          msg : Nat, lvl : MaybeLevel, rest : Seq(Handlers)]

Typed ==
  /\ handlers \in Seq(Handlers)
  /\ handlersMutex \subseteq Threads
  /\ streamMutex \in [Streams -> SUBSET Threads]
  /\ call \in [Threads -> ACall]
  /\ log \in [Handlers -> Seq(Nat)]
  /\ messages \in Nat
  /\ level \in Levels /\ baseLevel \in Levels
  /\ hasCustom \in [Handlers -> BOOLEAN] /\ custom \in [Handlers -> Levels]
  /\ saved \in [Threads -> Seq(Levels)] /\ wanted \in [Handlers -> MaybeLevel]
  /\ faults \in FaultSets
  /\ \A t \in Threads : call[t].at \in {"deliver", "lock", "write", "line", "set", "setHandler"} => call[t].lvl \in Levels
  /\ \A t \in Threads : call[t].at = "setHandler" => \E h \in Handlers : call[t].rest = <<h>>

LEMMA CallTyped ==
  ASSUME NEW a \in {"idle", "lock", "deliver", "write", "line", "set", "setHandler"}, NEW m \in Nat,
         NEW l \in MaybeLevel, NEW r \in Seq(Handlers)
  PROVE  /\ Calling(a, m, l, r) \in ACall
         /\ Calling(a, m, l, r).at = a /\ Calling(a, m, l, r).msg = m
         /\ Calling(a, m, l, r).lvl = l /\ Calling(a, m, l, r).rest = r
BY DEF Calling, ACall

LEMMA IdleTyped == Idle \in ACall /\ Idle.at = "idle" /\ Idle.rest = << >> /\ Idle.msg = 0
BY DEF Idle, Calling, ACall, MaybeLevel

LEMMA TypedInit == Init => Typed
<1> SUFFICES ASSUME Init PROVE Typed
  OBVIOUS
<1>1. (CHOOSE l \in Levels : TRUE) \in Levels
  BY LevelsAssumption
<1>2. handlers \in Seq(Handlers)
  BY HandlersAssumption DEF Init
<1>3. streamMutex \in [Streams -> SUBSET Threads] /\ handlersMutex \subseteq Threads
  BY DEF Init
<1>4. call \in [Threads -> ACall] /\ \A t \in Threads : call[t].at = "idle"
  BY IdleTyped DEF Init
<1>5. log \in [Handlers -> Seq(Nat)] /\ messages \in Nat
  BY DEF Init
<1>6. hasCustom \in [Handlers -> BOOLEAN] /\ custom \in [Handlers -> Levels]
  BY <1>1 DEF Init
<1>7. saved \in [Threads -> Seq(Levels)] /\ wanted \in [Handlers -> MaybeLevel] /\ level \in Levels
      /\ baseLevel \in Levels /\ faults \in FaultSets
  BY DEF Init, MaybeLevel
<1> QED BY <1>2, <1>3, <1>4, <1>5, <1>6, <1>7 DEF Typed

(* Where a thread is after a step of its own. *)
LEMMA Moves ==
  ASSUME call \in [Threads -> ACall], NEW t \in Threads, NEW c \in ACall, call' = [call EXCEPT ![t] = c]
  PROVE  /\ call' \in [Threads -> ACall] /\ call'[t] = c
         /\ \A u \in Threads : u # t => call'[u] = call[u]
OBVIOUS

LEMMA GoesOn ==
  ASSUME call \in [Threads -> ACall], NEW t \in Threads, NEW r \in Seq(Handlers),
         NEW a \in {"idle", "lock", "deliver", "write", "line", "set", "setHandler"}, GoOn(t, a, r)
  PROVE  /\ call' \in [Threads -> ACall]
         /\ call'[t].at = a /\ call'[t].msg = call[t].msg /\ call'[t].lvl = call[t].lvl /\ call'[t].rest = r
         /\ \A u \in Threads : u # t => call'[u] = call[u]
<1> DEFINE c == Calling(a, call[t].msg, call[t].lvl, r)
<1>1. call[t].msg \in Nat /\ call[t].lvl \in MaybeLevel
  BY DEF ACall
<1>2. c \in ACall /\ c.at = a /\ c.msg = call[t].msg /\ c.lvl = call[t].lvl /\ c.rest = r
  BY <1>1, CallTyped
<1>3. call' = [call EXCEPT ![t] = c]
  BY DEF GoOn
<1> HIDE DEF c
<1> QED BY <1>2, <1>3, Moves

LEMMA Returns ==
  ASSUME call \in [Threads -> ACall], NEW t \in Threads, call' = [call EXCEPT ![t] = Idle]
  PROVE  /\ call' \in [Threads -> ACall]
         /\ call'[t].at = "idle" /\ call'[t].rest = << >>
         /\ \A u \in Threads : u # t => call'[u] = call[u]
<1> HIDE DEF Idle
<1> QED BY IdleTyped, Moves

LEMMA Calls ==
  ASSUME call \in [Threads -> ACall], NEW t \in Threads, NEW r \in Seq(Handlers), NEW m \in Nat, NEW l \in Levels,
         NEW a \in {"lock", "write", "set", "setHandler"}, call' = [call EXCEPT ![t] = Calling(a, m, l, r)]
  PROVE  /\ call' \in [Threads -> ACall]
         /\ call'[t].at = a /\ call'[t].msg = m /\ call'[t].lvl = l /\ call'[t].rest = r
         /\ \A u \in Threads : u # t => call'[u] = call[u]
<1> DEFINE c == Calling(a, m, l, r)
<1>1. l \in MaybeLevel
  BY DEF MaybeLevel
<1>2. c \in ACall /\ c.at = a /\ c.msg = m /\ c.lvl = l /\ c.rest = r
  BY <1>1, CallTyped
<1>3. call' = [call EXCEPT ![t] = c]
  OBVIOUS
<1> HIDE DEF c
<1> QED BY <1>2, <1>3, Moves

LEMMA RestTyped ==
  ASSUME Typed, NEW t \in Threads
  PROVE  /\ call[t].rest \in Seq(Handlers) /\ call[t].msg \in Nat /\ call[t].lvl \in MaybeLevel
         /\ call[t].rest # << >> =>
              /\ Current(t) \in Handlers /\ Current(t) = call[t].rest[1]
              /\ Tail(call[t].rest) \in Seq(Handlers)
BY DEF Typed, ACall, Current

(* What is put out goes to the end of the current handler's messages. *)
LEMMA Outputs ==
  ASSUME Typed, NEW t \in Threads, call[t].rest # << >>
  PROVE  /\ Output(t) \in [Handlers -> Seq(Nat)]
         /\ Output(t)[Current(t)] = Append(log[Current(t)], call[t].msg)
         /\ \A h \in Handlers : h # Current(t) => Output(t)[h] = log[h]
<1>1. Current(t) \in Handlers /\ call[t].msg \in Nat
  BY RestTyped
<1>2. log \in [Handlers -> Seq(Nat)]
  BY DEF Typed
<1> QED BY <1>1, <1>2 DEF Output

LEMMA Removed ==
  ASSUME NEW s \in Seq(Handlers), NEW i \in DOMAIN s
  PROVE  /\ RemoveAt(s, i) \in Seq(Handlers) /\ Len(RemoveAt(s, i)) = Len(s) - 1
         /\ \A j \in 1 .. Len(s) - 1 : RemoveAt(s, i)[j] = IF j < i THEN s[j] ELSE s[j + 1]
<1> DEFINE a == SubSeq(s, 1, i - 1)
           b == SubSeq(s, i + 1, Len(s))
<1>1. i \in Nat /\ 1 <= i /\ i <= Len(s) /\ Len(s) \in Nat
  OBVIOUS
<1>2. a \in Seq(Handlers) /\ Len(a) = i - 1 /\ \A j \in 1 .. i - 1 : a[j] = s[j]
  BY <1>1
<1>3. b \in Seq(Handlers) /\ Len(b) = Len(s) - i /\ \A j \in 1 .. Len(s) - i : b[j] = s[i + j]
  BY <1>1
<1>4. RemoveAt(s, i) = a \o b
  BY DEF RemoveAt
<1> HIDE DEF a, b
<1>5. /\ a \o b \in Seq(Handlers) /\ Len(a \o b) = Len(a) + Len(b)
      /\ \A j \in 1 .. Len(a) + Len(b) : (a \o b)[j] = IF j <= Len(a) THEN a[j] ELSE b[j - Len(a)]
  BY <1>2, <1>3
<1>6. Len(a) + Len(b) = Len(s) - 1
  BY <1>1, <1>2, <1>3
<1>7. ASSUME NEW j \in 1 .. Len(s) - 1 PROVE (a \o b)[j] = IF j < i THEN s[j] ELSE s[j + 1]
  <2>1. CASE j < i
    BY <1>1, <1>2, <1>5, <1>6, <2>1
  <2>2. CASE ~(j < i)
    <3>1. j - Len(a) \in 1 .. Len(s) - i /\ i + (j - Len(a)) = j + 1 /\ ~(j <= Len(a))
      BY <1>1, <1>2, <2>2
    <3>2. (a \o b)[j] = b[j - Len(a)]
      BY <1>5, <1>6, <3>1
    <3> QED BY <1>3, <2>2, <3>1, <3>2
  <2> QED BY <2>1, <2>2
<1> QED BY <1>4, <1>5, <1>6, <1>7

-----------------------------------------------------------------------------
(* What a step does.  The steps that are about levels are kept as they are. *)

Outside == {"idle", "set", "setHandler"}
Others(t) == call' \in [Threads -> ACall] /\ \A u \in Threads : u # t => call'[u] = call[u]
To(t, a, r) == Others(t) /\ call'[t].at = a /\ call'[t].rest = r /\ call'[t].msg = call[t].msg /\ call'[t].lvl = call[t].lvl
Back(t) == Others(t) /\ call'[t].at = "idle" /\ call'[t].rest = << >>

Starts(t) ==
  /\ call[t].at = "idle" /\ Others(t) /\ call'[t].at \in {"lock", "write"} /\ call'[t].rest = << >>
  /\ call'[t].msg = messages' /\ call'[t].lvl \in Levels /\ messages' = messages + 1
  /\ call'[t].at = "lock" => "custom" \in faults \/ \A u \in Threads : call[u].at # "setHandler"
  /\ UNCHANGED <<handlers, handlersMutex, streamMutex, log>> /\ UnchangedLevels
Drops == messages' = messages + 1 /\ UNCHANGED <<handlers, handlersMutex, streamMutex, call, log>> /\ UnchangedLevels
Locks(t) ==
  /\ call[t].at = "lock" /\ handlersMutex = {} /\ handlersMutex' = {t} /\ To(t, "deliver", handlers)
  /\ UNCHANGED <<handlers, streamMutex, log, messages>> /\ UnchangedLevels
Skips(t) ==
  /\ call[t].at = "deliver" /\ call[t].rest # << >> /\ To(t, "deliver", Tail(call[t].rest))
  /\ Hides(Current(t), call[t].lvl)
  /\ UNCHANGED <<handlers, handlersMutex, streamMutex, log, messages>> /\ UnchangedLevels
Writes(t) ==
  /\ call[t].at = "deliver" /\ call[t].rest # << >> /\ To(t, "write", call[t].rest)
  /\ ~Hides(Current(t), call[t].lvl)
  /\ UNCHANGED <<handlers, handlersMutex, streamMutex, log, messages>> /\ UnchangedLevels
Lines(t) ==
  /\ call[t].at = "write" /\ To(t, "line", call[t].rest) /\ StreamFree(StreamOf(call[t].lvl))
  /\ streamMutex' = [streamMutex EXCEPT ![StreamOf(call[t].lvl)] = @ \union {t}]
  /\ UNCHANGED <<handlers, handlersMutex, log, messages>> /\ UnchangedLevels
LeavesStream(t) == streamMutex' = [streamMutex EXCEPT ![StreamOf(call[t].lvl)] = @ \ {t}]
Puts(t) ==
  /\ call[t].rest # << >> /\ To(t, "deliver", Tail(call[t].rest)) /\ log' = Output(t)
  /\ \/ call[t].at = "deliver" /\ ~Hides(Current(t), call[t].lvl) /\ UNCHANGED streamMutex
     \/ call[t].at = "line" /\ LeavesStream(t)
  /\ UNCHANGED <<handlers, handlersMutex, messages>> /\ UnchangedLevels
Ends(t) ==
  /\ call[t].at = "line" /\ call[t].rest = << >> /\ Back(t) /\ LeavesStream(t)
  /\ UNCHANGED <<handlers, handlersMutex, log, messages>> /\ UnchangedLevels
Unlocks(t) ==
  /\ call[t].at = "deliver" /\ call[t].rest = << >> /\ Back(t) /\ handlersMutex' = handlersMutex \ {t}
  /\ UNCHANGED <<handlers, streamMutex, log, messages>> /\ UnchangedLevels
Changes ==
  /\ handlersMutex = {} /\ handlers' \in Seq(Handlers)
  /\ UNCHANGED <<handlersMutex, streamMutex, call, log, messages>> /\ UnchangedLevels
Quiet(t) ==
  /\ call[t].at \in Outside /\ Others(t) /\ call'[t].lvl \in MaybeLevel
  /\ \/ call'[t].at = "idle" /\ call'[t].rest = << >>
     \/ call'[t].at = "set" /\ call'[t].lvl \in Levels /\ call'[t].rest = << >>
     \/ call'[t].at = "setHandler" /\ call'[t].lvl \in Levels /\ \E h \in Handlers : call'[t].rest = <<h>>
  /\ UNCHANGED <<handlers, handlersMutex, streamMutex, log, messages>>
  /\ \/ SetOwnLevel(t) \/ SetHandlerLevel(t) \/ \E lvl \in Levels : ReadOriginalLevel(t, lvl)
     \/ \E h \in Tunable, lvl \in Levels : SetHandlerFlag(t, h, lvl)
Nothing ==
  /\ UNCHANGED <<handlers, handlersMutex, streamMutex, call, log, messages>>
  /\ \/ UnchangedLevels
     \/ \E t \in Threads : \/ RestoreLevel(t) \/ \E lvl \in Levels : SetGlobalLogLevel(t, lvl)
                           \/ \E h \in Tunable : ClearLogLevel(t, h)

Effect(t) ==
  \/ Starts(t) \/ Locks(t) \/ Skips(t) \/ Writes(t) \/ Lines(t) \/ Puts(t) \/ Ends(t) \/ Unlocks(t) \/ Quiet(t)

LEMMA ContinueEffect ==
  ASSUME Typed, NEW t \in Threads, Continue(t)
  PROVE  Effect(t)
<1>1. /\ call \in [Threads -> ACall] /\ call[t].rest \in Seq(Handlers) /\ handlers \in Seq(Handlers)
      /\ call[t].rest # << >> => Tail(call[t].rest) \in Seq(Handlers)
  BY RestTyped DEF Typed
<1>2. CASE LockHandlers(t)
  <2>1. To(t, "deliver", handlers)
    BY <1>1, <1>2, GoesOn DEF LockHandlers, To, Others
  <2> QED BY <1>2, <2>1 DEF LockHandlers, HandlersFree, Locks, Effect
<1>3. CASE CallHandler(t)
  <2>1. call[t].at = "deliver" /\ call[t].rest # << >> /\ UNCHANGED <<handlers, handlersMutex, streamMutex, messages>>
        /\ UnchangedLevels
    BY <1>3 DEF CallHandler
  <2> DEFINE hides == Hides(Current(t), call[t].lvl)
  <2>2. CASE hides
    <3>1. NextHandler(t) /\ log' = log
      BY <1>3, <2>2 DEF CallHandler
    <3>2. To(t, "deliver", Tail(call[t].rest))
      BY <1>1, <2>1, <3>1, GoesOn DEF NextHandler, To, Others
    <3> QED BY <2>1, <2>2, <3>1, <3>2 DEF Skips, Effect
  <2>3. CASE ~hides /\ Current(t) \in StdHandlers
    <3>1. GoTo(t, "write") /\ log' = log
      BY <1>3, <2>3 DEF CallHandler
    <3>2. To(t, "write", call[t].rest)
      BY <1>1, <3>1, GoesOn DEF GoTo, To, Others
    <3> QED BY <2>1, <2>3, <3>1, <3>2 DEF Writes, Effect
  <2>4. CASE ~hides /\ Current(t) \notin StdHandlers
    <3>1. NextHandler(t) /\ log' = Output(t)
      BY <1>3, <2>4 DEF CallHandler
    <3>2. To(t, "deliver", Tail(call[t].rest))
      BY <1>1, <2>1, <3>1, GoesOn DEF NextHandler, To, Others
    <3> QED BY <2>1, <2>4, <3>1, <3>2 DEF Puts, Effect
  <2> QED BY <2>2, <2>3, <2>4
<1>4. CASE BeginLine(t)
  <2>1. To(t, "line", call[t].rest)
    BY <1>1, <1>4, GoesOn DEF BeginLine, GoTo, To, Others
  <2> QED BY <1>4, <2>1 DEF BeginLine, Lines, Effect
<1>5. CASE EndLine(t)
  <2>1. call[t].at = "line" /\ LeavesStream(t) /\ UNCHANGED <<handlers, handlersMutex, messages>>
        /\ UnchangedLevels
    BY <1>5 DEF EndLine, LeavesStream
  <2>2. CASE call[t].rest = << >>
    <3>1. call' = [call EXCEPT ![t] = Idle] /\ log' = log
      BY <1>5, <2>2 DEF EndLine
    <3>2. Back(t)
      BY <1>1, <3>1, Returns DEF Back, Others
    <3> QED BY <2>1, <2>2, <3>1, <3>2 DEF Ends, Effect
  <2>3. CASE call[t].rest # << >>
    <3>1. NextHandler(t) /\ log' = Output(t)
      BY <1>5, <2>3 DEF EndLine
    <3>2. To(t, "deliver", Tail(call[t].rest))
      BY <1>1, <2>3, <3>1, GoesOn DEF NextHandler, To, Others
    <3> QED BY <2>1, <2>3, <3>1, <3>2 DEF Puts, Effect
  <2> QED BY <2>2, <2>3
<1>6. CASE UnlockHandlers(t)
  <2>1. Back(t)
    BY <1>1, <1>6, Returns DEF UnlockHandlers, Back, Others
  <2> QED BY <1>6, <2>1 DEF UnlockHandlers, Unlocks, Effect
<1>7. CASE SetOwnLevel(t) \/ SetHandlerLevel(t)
  <2>1. Back(t)
    BY <1>1, <1>7, Returns DEF SetOwnLevel, SetHandlerLevel, Back, Others
  <2>2. call'[t].lvl \in MaybeLevel
    BY <2>1 DEF Back, Others, ACall
  <2> QED BY <1>7, <2>1, <2>2 DEF SetOwnLevel, SetHandlerLevel, Back, Outside, Quiet, Effect
<1> QED BY <1>2, <1>3, <1>4, <1>5, <1>6, <1>7 DEF Continue

LEMMA BeginEffect ==
  ASSUME Typed, NEW t \in Threads, Begin(t)
  PROVE  Effect(t) \/ Drops \/ Changes \/ Nothing
<1>1. call \in [Threads -> ACall] /\ handlers \in Seq(Handlers) /\ messages \in Nat
  BY DEF Typed
<1>2. ASSUME NEW lvl \in Levels, LogMessage(t, lvl) \/ WriteDirectly(t, lvl) PROVE Effect(t) \/ Drops
  <2>1. /\ call[t].at = "idle" /\ messages' = messages + 1 /\ messages' \in Nat
        /\ UNCHANGED <<handlers, handlersMutex, streamMutex, log>> /\ UnchangedLevels
    BY <1>1, <1>2 DEF LogMessage, WriteDirectly
  <2>2. \/ call' = call
        \/ \E a \in {"lock", "write"} :
             /\ call' = [call EXCEPT ![t] = Calling(a, messages', lvl, << >>)]
             /\ a = "lock" => "custom" \in faults \/ \A u \in Threads : call[u].at # "setHandler"
    BY <1>2 DEF LogMessage, WriteDirectly
  <2>3. CASE call' = call
    BY <2>1, <2>3 DEF Drops
  <2>4. ASSUME NEW a \in {"lock", "write"}, call' = [call EXCEPT ![t] = Calling(a, messages', lvl, << >>)],
               a = "lock" => "custom" \in faults \/ \A u \in Threads : call[u].at # "setHandler"
        PROVE  Starts(t)
    <3> DEFINE c == Calling(a, messages', lvl, << >>)
    <3>1. lvl \in MaybeLevel /\ << >> \in Seq(Handlers)
          /\ a \in {"idle", "lock", "deliver", "write", "line", "set", "setHandler"}
      BY DEF MaybeLevel
    <3>2. c \in ACall /\ c.at = a /\ c.msg = messages' /\ c.lvl = lvl /\ c.rest = << >>
      BY <2>1, <3>1 DEF Calling, ACall
    <3>3. call' = [call EXCEPT ![t] = c]
      BY <2>4
    <3> HIDE DEF c
    <3>4. Others(t) /\ call'[t] = c
      BY <1>1, <3>2, <3>3, Moves DEF Others
    <3> QED BY <2>1, <2>4, <3>2, <3>4 DEF Starts
  <2> QED BY <2>2, <2>3, <2>4 DEF Effect
<1>3. ASSUME NEW lvl \in Levels, ReadOriginalLevel(t, lvl) PROVE Effect(t)
  <2>1. call' = [call EXCEPT ![t] = Calling("set", 0, lvl, << >>)]
    BY <1>3 DEF ReadOriginalLevel
  <2>2. Others(t) /\ call'[t].at = "set" /\ call'[t].lvl = lvl /\ call'[t].rest = << >>
    <3>1. << >> \in Seq(Handlers) /\ "set" \in {"lock", "write", "set", "setHandler"} /\ 0 \in Nat
      OBVIOUS
    <3> QED BY <1>1, <2>1, <3>1, Calls DEF Others
  <2> QED BY <1>3, <2>2 DEF ReadOriginalLevel, Quiet, Outside, MaybeLevel, Effect
<1>4. ASSUME NEW h \in Tunable, NEW lvl \in Levels, SetHandlerFlag(t, h, lvl) PROVE Effect(t)
  <2>1. call' = [call EXCEPT ![t] = Calling("setHandler", 0, lvl, <<h>>)] /\ h \in Handlers
    BY <1>4, HandlersAssumption DEF SetHandlerFlag
  <2>2. Others(t) /\ call'[t].at = "setHandler" /\ call'[t].lvl = lvl /\ call'[t].rest = <<h>>
    <3>1. <<h>> \in Seq(Handlers) /\ "setHandler" \in {"lock", "write", "set", "setHandler"} /\ 0 \in Nat
      BY <2>1
    <3> QED BY <1>1, <2>1, <3>1, Calls DEF Others
  <2> QED BY <1>4, <2>1, <2>2 DEF SetHandlerFlag, Quiet, Outside, MaybeLevel, Effect
<1>5. ASSUME NEW h \in Handlers, RegisterLogHandler(t, h) \/ RemoveLogHandler(t, h) PROVE Changes
  <2>1. handlersMutex = {} /\ UNCHANGED <<handlersMutex, streamMutex, call, log, messages>> /\ UnchangedLevels
    BY <1>5 DEF RegisterLogHandler, RemoveLogHandler, HandlersFree
  <2>2. handlers' \in Seq(Handlers)
    <3>1. CASE RegisterLogHandler(t, h)
      BY <1>1, <3>1 DEF RegisterLogHandler
    <3>2. CASE RemoveLogHandler(t, h)
      <4>1. PICK i \in DOMAIN handlers : handlers' = RemoveAt(handlers, i)
        BY <3>2 DEF RemoveLogHandler
      <4> QED BY <1>1, <4>1, Removed
    <3> QED BY <1>5, <3>1, <3>2
  <2> QED BY <2>1, <2>2 DEF Changes
<1>6. CASE ClearLogHandlers(t)
  BY <1>6 DEF ClearLogHandlers, HandlersFree, Changes
<1>7. CASE RestoreLevel(t) \/ (\E lvl \in Levels : SetGlobalLogLevel(t, lvl)) \/ (\E h \in Tunable : ClearLogLevel(t, h))
  <2>1. UNCHANGED <<handlers, handlersMutex, streamMutex, call, log, messages>>
    BY <1>7 DEF RestoreLevel, SetGlobalLogLevel, ClearLogLevel
  <2> QED BY <1>7, <2>1 DEF Nothing
<1> QED BY <1>2, <1>3, <1>4, <1>5, <1>6, <1>7 DEF Begin

LEMMA StepEffect ==
  ASSUME Typed, [Next]_vars
  PROVE  Drops \/ Changes \/ Nothing \/ \E t \in Threads : Effect(t)
BY ContinueEffect, BeginEffect DEF Next, vars, Nothing, UnchangedLevels

(* The steps leave everything typed. *)
LEMMA CallsTyped ==
  ASSUME Typed, NEW t \in Threads, Effect(t)
  PROVE  /\ handlers' \in Seq(Handlers) /\ handlersMutex' \subseteq Threads
         /\ streamMutex' \in [Streams -> SUBSET Threads]
         /\ call' \in [Threads -> ACall] /\ log' \in [Handlers -> Seq(Nat)] /\ messages' \in Nat
<1>1. handlers \in Seq(Handlers) /\ handlersMutex \subseteq Threads /\ messages \in Nat
  BY DEF Typed
<1>2. streamMutex \in [Streams -> SUBSET Threads] /\ log \in [Handlers -> Seq(Nat)]
  BY DEF Typed
<1>3. handlers' \in Seq(Handlers) /\ handlersMutex' \subseteq Threads /\ messages' \in Nat
  BY <1>1 DEF Effect, Starts, Locks, Skips, Writes, Lines, Puts, Ends, Unlocks, Quiet
<1>4. streamMutex' \in [Streams -> SUBSET Threads]
  <2>1. CASE Lines(t)
    BY <1>2, <2>1 DEF Lines
  <2>2. CASE LeavesStream(t)
    BY <1>2, <2>2 DEF LeavesStream
  <2>3. CASE UNCHANGED streamMutex
    BY <1>2, <2>3
  <2> QED BY <2>1, <2>2, <2>3 DEF Effect, Starts, Locks, Skips, Writes, Puts, Ends, Unlocks, Quiet
<1>5. call' \in [Threads -> ACall]
  BY DEF Effect, Starts, Locks, Skips, Writes, Lines, Puts, Ends, Unlocks, Quiet, To, Back, Others
<1>6. log' \in [Handlers -> Seq(Nat)]
  <2>1. CASE Puts(t)
    BY <2>1, Outputs DEF Puts
  <2>2. CASE UNCHANGED log
    BY <1>2, <2>2
  <2> QED BY <2>1, <2>2 DEF Effect, Starts, Locks, Skips, Writes, Lines, Ends, Unlocks, Quiet
<1> QED BY <1>3, <1>4, <1>5, <1>6

(* The levels the setters of a thread have read, as a stack. *)
LEMMA Pushed ==
  ASSUME NEW s \in Seq(Levels), NEW l \in Levels
  PROVE  /\ Append(s, l) \in Seq(Levels) /\ Append(s, l) # << >>
         /\ s = << >> => Append(s, l)[1] = l
         /\ s # << >> => Append(s, l)[1] = s[1]
OBVIOUS

LEMMA Popped ==
  ASSUME NEW s \in Seq(Levels), s # << >>
  PROVE  /\ Last(s) \in Levels /\ Front(s) \in Seq(Levels)
         /\ Front(s) = << >> => Last(s) = s[1]
         /\ Front(s) # << >> => Front(s)[1] = s[1]
<1> DEFINE f == Front(s)
           n == Len(s)
<1>1. n \in Nat /\ n > 0 /\ s[n] \in Levels /\ \A i \in 1 .. n - 1 : s[i] \in Levels
  OBVIOUS
<1>2. f \in Seq(Levels) /\ Len(f) = n - 1 /\ \A i \in 1 .. n - 1 : f[i] = s[i]
  <2>1. f = SubSeq(s, 1, n - 1)
    BY DEF Front
  <2> HIDE DEF f
  <2>2. n - 1 \in Int /\ 1 \in Int /\ \A i \in 1 .. n - 1 : s[i] \in Levels
    BY <1>1
  <2> HIDE DEF n
  <2>3. /\ f \in Seq(Levels) /\ Len(f) = IF 1 <= n - 1 THEN n - 1 - 1 + 1 ELSE 0
        /\ \A i \in 1 .. n - 1 - 1 + 1 : f[i] = s[1 + i - 1]
    BY <2>1, <2>2, SubSeqProperties
  <2> QED BY <1>1, <2>3
<1>3. Last(s) = s[n]
  BY DEF Last
<1> HIDE DEF f, n
<1>4. ASSUME f = << >> PROVE n = 1
  <2>1. Len(f) = 0
    BY <1>4
  <2> QED BY <1>1, <1>2, <2>1
<1>5. ASSUME f # << >> PROVE f[1] = s[1]
  <2>1. Len(f) # 0
    BY <1>2, <1>5
  <2>2. 1 \in 1 .. n - 1
    BY <1>1, <1>2, <2>1
  <2> QED BY <1>2, <2>2
<1> QED BY <1>1, <1>2, <1>3, <1>4, <1>5 DEF f

LEMMA LevelsTyped ==
  ASSUME Typed, [Next]_vars
  PROVE  /\ level' \in Levels /\ baseLevel' \in Levels
         /\ hasCustom' \in [Handlers -> BOOLEAN] /\ custom' \in [Handlers -> Levels]
         /\ saved' \in [Threads -> Seq(Levels)] /\ wanted' \in [Handlers -> MaybeLevel] /\ faults' \in FaultSets
<1>1. /\ level \in Levels /\ baseLevel \in Levels
      /\ hasCustom \in [Handlers -> BOOLEAN] /\ custom \in [Handlers -> Levels]
      /\ saved \in [Threads -> Seq(Levels)] /\ wanted \in [Handlers -> MaybeLevel] /\ faults \in FaultSets
  BY DEF Typed
<1>2. CASE UnchangedLevels
  BY <1>1, <1>2 DEF UnchangedLevels
<1>3. ASSUME NEW t \in Threads, NEW lvl \in Levels, SetGlobalLogLevel(t, lvl) \/ ReadOriginalLevel(t, lvl)
      PROVE  level' \in Levels /\ baseLevel' \in Levels /\ saved' \in [Threads -> Seq(Levels)]
             /\ UNCHANGED <<hasCustom, custom, wanted, faults>>
  <2>1. CASE SetGlobalLogLevel(t, lvl)
    BY <1>1, <2>1 DEF SetGlobalLogLevel
  <2>2. CASE ReadOriginalLevel(t, lvl)
    <3>1. Append(saved[t], level) \in Seq(Levels)
      BY <1>1, Pushed
    <3> QED BY <1>1, <2>2, <3>1 DEF ReadOriginalLevel
  <2> QED BY <1>3, <2>1, <2>2
<1>4. ASSUME NEW t \in Threads, RestoreLevel(t)
      PROVE  level' \in Levels /\ saved' \in [Threads -> Seq(Levels)]
             /\ UNCHANGED <<baseLevel, hasCustom, custom, wanted, faults>>
  BY <1>1, <1>4, Popped DEF RestoreLevel
<1>5. ASSUME NEW t \in Threads, SetOwnLevel(t)
      PROVE  level' \in Levels /\ UNCHANGED <<baseLevel, saved, hasCustom, custom, wanted, faults>>
  BY <1>5 DEF SetOwnLevel, Typed
<1>6. ASSUME NEW t \in Threads, SetHandlerLevel(t)
      PROVE  custom' \in [Handlers -> Levels] /\ wanted' \in [Handlers -> MaybeLevel]
             /\ UNCHANGED <<level, baseLevel, saved, hasCustom, faults>>
  <2>1. call[t].lvl \in Levels
    BY <1>6 DEF SetHandlerLevel, Typed
  <2> QED BY <1>1, <1>6, <2>1 DEF SetHandlerLevel, MaybeLevel
<1>7. ASSUME NEW t \in Threads, NEW h \in Tunable, ClearLogLevel(t, h) \/ \E lvl \in Levels : SetHandlerFlag(t, h, lvl)
      PROVE  hasCustom' \in [Handlers -> BOOLEAN] /\ wanted' \in [Handlers -> MaybeLevel]
             /\ UNCHANGED <<level, baseLevel, saved, custom, faults>>
  BY <1>1, <1>7 DEF ClearLogLevel, SetHandlerFlag, MaybeLevel
<1>8. CASE UNCHANGED vars
  BY <1>2, <1>8 DEF vars, UnchangedLevels
<1>9. ASSUME NEW t \in Threads, Continue(t)
      PROVE  UnchangedLevels \/ SetOwnLevel(t) \/ SetHandlerLevel(t)
  BY <1>9 DEF Continue, LockHandlers, CallHandler, BeginLine, EndLine, UnlockHandlers
<1>10. ASSUME NEW t \in Threads, Begin(t)
       PROVE  \/ UnchangedLevels \/ RestoreLevel(t)
              \/ \E lvl \in Levels : SetGlobalLogLevel(t, lvl) \/ ReadOriginalLevel(t, lvl)
              \/ \E h \in Tunable : ClearLogLevel(t, h) \/ \E lvl \in Levels : SetHandlerFlag(t, h, lvl)
  BY <1>10 DEF Begin, LogMessage, WriteDirectly, RegisterLogHandler, RemoveLogHandler, ClearLogHandlers
<1> QED BY <1>1, <1>2, <1>3, <1>4, <1>5, <1>6, <1>7, <1>8, <1>9, <1>10 DEF Next

LEMMA TypedStep == Typed /\ [Next]_vars => Typed'
<1> SUFFICES ASSUME Typed, [Next]_vars PROVE Typed'
  OBVIOUS
<1>1. /\ handlers' \in Seq(Handlers) /\ handlersMutex' \subseteq Threads
      /\ streamMutex' \in [Streams -> SUBSET Threads]
      /\ call' \in [Threads -> ACall] /\ log' \in [Handlers -> Seq(Nat)] /\ messages' \in Nat
  <2>1. CASE Drops \/ Changes \/ Nothing
    BY <2>1 DEF Drops, Changes, Nothing, Typed
  <2> QED BY <2>1, StepEffect, CallsTyped
<1>2. ASSUME NEW u \in Threads
      PROVE  /\ call'[u].at \in {"deliver", "lock", "write", "line", "set", "setHandler"} => call'[u].lvl \in Levels
             /\ call'[u].at = "setHandler" => \E h \in Handlers : call'[u].rest = <<h>>
  <2>1. /\ call[u].at \in {"deliver", "lock", "write", "line", "set", "setHandler"} => call[u].lvl \in Levels
        /\ call[u].at = "setHandler" => \E h \in Handlers : call[u].rest = <<h>>
    BY DEF Typed
  <2>2. CASE call'[u] = call[u]
    BY <2>1, <2>2
  <2>3. CASE Effect(u)
    BY <2>1, <2>3
    DEF Effect, Starts, Locks, Skips, Writes, Lines, Puts, Ends, Unlocks, Quiet, To, Back
  <2>4. ASSUME NEW t \in Threads, t # u, Effect(t) PROVE call'[u] = call[u]
    BY <2>4
    DEF Effect, Starts, Locks, Skips, Writes, Lines, Puts, Ends, Unlocks, Quiet, To, Back, Others
  <2>5. CASE Drops \/ Changes \/ Nothing
    BY <2>2, <2>5 DEF Drops, Changes, Nothing
  <2> QED BY <2>2, <2>3, <2>4, <2>5, StepEffect
<1> QED BY <1>1, <1>2, LevelsTyped DEF Typed

-----------------------------------------------------------------------------
(* Who is where. *)

Guarded == \A t \in Threads : t \in handlersMutex <=> Inside(t)
Alone == \A t, u \in Threads : Inside(t) /\ Inside(u) => t = u
\* Thread t is writing to stream s.
On(t, s) == call[t].at = "line" /\ StreamOf(call[t].lvl) = s
OnStream == \A s \in Streams : \A t \in Threads : t \in streamMutex[s] <=> On(t, s)
OneLine == \A s \in Streams : \A t, u \in Threads : On(t, s) /\ On(u, s) => t = u
Registered ==
  \A t \in Threads : Inside(t) => \A i \in DOMAIN call[t].rest : \E k \in DOMAIN handlers : call[t].rest[i] = handlers[k]
Places == Guarded /\ Alone /\ OnStream /\ OneLine /\ Registered

LEMMA OthersStay ==
  ASSUME NEW t \in Threads, Effect(t)
  PROVE  Others(t)
BY DEF Effect, Starts, Locks, Skips, Writes, Lines, Puts, Ends, Unlocks, Quiet, To, Back

LEMMA TailTyped ==
  ASSUME NEW s \in Seq(Handlers), s # << >>
  PROVE  /\ Tail(s) \in Seq(Handlers) /\ Len(Tail(s)) = Len(s) - 1 /\ 1 \in DOMAIN s /\ Head(s) = s[1]
         /\ DOMAIN Tail(s) = 1 .. Len(s) - 1 /\ DOMAIN s = 1 .. Len(s) /\ Len(s) \in Nat
         /\ \A i \in DOMAIN Tail(s) : i + 1 \in DOMAIN s /\ Tail(s)[i] = s[i + 1]
OBVIOUS

LEMMA GuardedStep ==
  ASSUME Typed, Guarded, Alone, NEW t \in Threads, Effect(t)
  PROVE  Guarded' /\ Alone'
<1>1. \A u \in Threads : u # t => (Inside(u)' <=> Inside(u))
  BY OthersStay DEF Others, Inside
<1>2. CASE Inside(t)' /\ Inside(t) /\ UNCHANGED handlersMutex
  BY <1>1, <1>2 DEF Guarded, Alone
<1>3. CASE ~Inside(t)' /\ ~Inside(t) /\ UNCHANGED handlersMutex
  BY <1>1, <1>3 DEF Guarded, Alone
<1>4. CASE Locks(t)
  <2>1. Inside(t)' /\ handlersMutex = {} /\ handlersMutex' = {t}
    BY <1>4 DEF Locks, To, Inside
  <2> QED BY <1>1, <2>1 DEF Guarded, Alone
<1>5. CASE Unlocks(t)
  <2>1. ~Inside(t)' /\ Inside(t) /\ handlersMutex' = handlersMutex \ {t}
    BY <1>5 DEF Unlocks, Back, Inside
  <2> QED BY <1>1, <2>1 DEF Guarded, Alone
<1>6. CASE Starts(t) \/ Quiet(t) \/ Ends(t)
  BY <1>3, <1>6 DEF Starts, Quiet, Ends, Back, Outside, Inside
<1>7. CASE Skips(t) \/ Writes(t) \/ Puts(t)
  BY <1>2, <1>7 DEF Skips, Writes, Puts, To, Inside
<1>8. CASE Lines(t)
  BY <1>2, <1>3, <1>8 DEF Lines, To, Inside
<1> QED BY <1>4, <1>5, <1>6, <1>7, <1>8 DEF Effect

LEMMA StreamTyped == \A lvl : StreamOf(lvl) \in Streams
BY DEF StreamOf, Streams

LEMMA OnStreamStep ==
  ASSUME Typed, OnStream, OneLine, NEW t \in Threads, Effect(t)
  PROVE  OnStream' /\ OneLine'
<1> DEFINE s0 == StreamOf(call[t].lvl)
<1>1. \A s \in Streams : \A u \in Threads : u # t => (On(u, s)' <=> On(u, s))
  BY OthersStay DEF Others, On, StreamOf
<1>2. s0 \in Streams /\ streamMutex \in [Streams -> SUBSET Threads]
  BY StreamTyped DEF Typed
<1>3. CASE Lines(t)
  <2>1. /\ \A s \in Streams : On(t, s)' <=> s = s0
        /\ \A s \in Streams : ~On(t, s)
        /\ streamMutex[s0] = {} /\ streamMutex' = [streamMutex EXCEPT ![s0] = @ \union {t}]
    BY <1>3 DEF Lines, To, On, StreamFree, StreamOf
  <2> HIDE DEF s0
  <2>2. streamMutex'[s0] = {t} /\ \A s \in Streams : s # s0 => streamMutex'[s] = streamMutex[s]
    BY <1>2, <2>1
  <2> QED BY <1>1, <1>2, <2>1, <2>2 DEF OnStream, OneLine
<1>4. CASE LeavesStream(t) /\ call[t].at = "line" /\ call'[t].at # "line"
  <2>1. /\ \A s \in Streams : ~On(t, s)' /\ (On(t, s) <=> s = s0)
        /\ streamMutex' = [streamMutex EXCEPT ![s0] = @ \ {t}]
    BY <1>4 DEF LeavesStream, On
  <2> HIDE DEF s0
  <2>2. streamMutex'[s0] = streamMutex[s0] \ {t} /\ \A s \in Streams : s # s0 => streamMutex'[s] = streamMutex[s]
    BY <1>2, <2>1
  <2> QED BY <1>1, <1>2, <2>1, <2>2 DEF OnStream, OneLine
<1>5. CASE UNCHANGED streamMutex /\ call[t].at # "line" /\ call'[t].at # "line"
  BY <1>1, <1>5 DEF OnStream, OneLine, On
<1>6. CASE Starts(t) \/ Locks(t) \/ Skips(t) \/ Writes(t) \/ Unlocks(t) \/ Quiet(t)
  BY <1>5, <1>6 DEF Starts, Locks, Skips, Writes, Unlocks, Quiet, To, Back, Outside
<1>7. CASE Puts(t) \/ Ends(t)
  BY <1>4, <1>5, <1>7 DEF Puts, Ends, To, Back
<1> QED BY <1>3, <1>6, <1>7 DEF Effect

LEMMA RegisteredStep ==
  ASSUME Typed, Registered, NEW t \in Threads, Effect(t)
  PROVE  Registered'
<1> DEFINE Known(s) == \A i \in DOMAIN s : \E k \in DOMAIN handlers : s[i] = handlers[k]
<1>1. UNCHANGED handlers
  BY DEF Effect, Starts, Locks, Skips, Writes, Lines, Puts, Ends, Unlocks, Quiet
<1>2. \A u \in Threads : u # t /\ Inside(u)' => Known(call'[u].rest)
  BY OthersStay DEF Others, Inside, Registered
<1>3. Inside(t)' => Known(call'[t].rest)
  <2>1. CASE Locks(t)
    BY <2>1 DEF Locks, To
  <2>2. CASE Skips(t) \/ Puts(t)
    <3>1. call[t].rest \in Seq(Handlers) /\ call[t].rest # << >> /\ call'[t].rest = Tail(call[t].rest) /\ Inside(t)
      BY <2>2, RestTyped DEF Skips, Puts, To, Inside
    <3>2. Known(call[t].rest)
      BY <3>1 DEF Registered
    <3> QED BY <3>1, <3>2, TailTyped
  <2>3. CASE Inside(t) /\ call'[t].rest = call[t].rest
    BY <2>3 DEF Registered
  <2>4. CASE ~Inside(t)'
    BY <2>4
  <2>5. CASE Writes(t) \/ Lines(t)
    BY <2>3, <2>4, <2>5 DEF Writes, Lines, To, Inside
  <2>6. CASE Starts(t) \/ Ends(t) \/ Unlocks(t) \/ Quiet(t)
    BY <2>4, <2>6 DEF Starts, Ends, Unlocks, Quiet, Back, Inside
  <2> QED BY <2>1, <2>2, <2>5, <2>6 DEF Effect
<1> QED BY <1>1, <1>2, <1>3 DEF Registered

LEMMA PlacesInit == Init => Places
BY IdleTyped DEF Init, Places, Guarded, Alone, OnStream, OneLine, Registered, Inside, On, Streams

LEMMA PlacesStep == Typed /\ Places /\ [Next]_vars => Places'
<1> SUFFICES ASSUME Typed, Places, [Next]_vars PROVE Places'
  OBVIOUS
<1>1. CASE Drops \/ Nothing
  BY <1>1 DEF Drops, Nothing, Places, Guarded, Alone, OnStream, OneLine, Registered, Inside, On, StreamOf
<1>2. CASE Changes
  <2>1. \A t \in Threads : ~Inside(t)
    BY <1>2 DEF Changes, Places, Guarded
  <2> QED BY <1>2, <2>1 DEF Changes, Places, Guarded, Alone, OnStream, OneLine, Registered, Inside, On, StreamOf
<1>3. ASSUME NEW t \in Threads, Effect(t) PROVE Places'
  BY <1>3, GuardedStep, OnStreamStep, RegisteredStep DEF Places
<1> QED BY <1>1, <1>2, <1>3, StepEffect

-----------------------------------------------------------------------------
(* No two equal handlers. *)

LEMMA TwinsStep == Typed /\ NoTwins /\ [Next]_vars => NoTwins'
<1> SUFFICES ASSUME Typed, NoTwins, [Next]_vars PROVE NoTwins'
  OBVIOUS
<1>1. handlers \in Seq(Handlers)
  BY DEF Typed
<1>2. CASE UNCHANGED handlers
  BY <1>2 DEF NoTwins, Equal
<1>3. ASSUME NEW t \in Threads, NEW h \in Handlers, RegisterLogHandler(t, h) PROVE NoTwins'
  <2>1. handlers' = Append(handlers, h) /\ \A k \in DOMAIN handlers : ~Equal(handlers[k], h)
    BY <1>1, <1>3 DEF RegisterLogHandler, ToSet
  <2>2. /\ DOMAIN handlers' = 1 .. Len(handlers) + 1 /\ handlers'[Len(handlers) + 1] = h /\ Len(handlers) \in Nat
        /\ DOMAIN handlers = 1 .. Len(handlers) /\ \A k \in DOMAIN handlers : handlers'[k] = handlers[k]
    BY <1>1, <2>1
  <2>3. ASSUME NEW i \in DOMAIN handlers', NEW j \in DOMAIN handlers', Equal(handlers'[i], handlers'[j]) PROVE i = j
    <3>1. CASE i \in DOMAIN handlers /\ j \in DOMAIN handlers
      BY <2>2, <2>3, <3>1 DEF NoTwins
    <3>2. CASE i \in DOMAIN handlers /\ j \notin DOMAIN handlers
      BY <2>1, <2>2, <2>3, <3>2
    <3>3. CASE i \notin DOMAIN handlers /\ j \in DOMAIN handlers
      <4>1. i = Len(handlers) + 1
        BY <2>2, <3>3
      <4>2. Equal(h, handlers[j])
        BY <2>2, <2>3, <3>3, <4>1
      <4> QED BY <2>1, <3>3, <4>2 DEF Equal
    <3>4. CASE i \notin DOMAIN handlers /\ j \notin DOMAIN handlers
      BY <2>2, <3>4
    <3> QED BY <3>1, <3>2, <3>3, <3>4
  <2> QED BY <2>3 DEF NoTwins, Equal
<1>4. ASSUME NEW t \in Threads, NEW h \in Handlers, RemoveLogHandler(t, h) PROVE NoTwins'
  <2>1. PICK r \in DOMAIN handlers : handlers' = RemoveAt(handlers, r)
    BY <1>4 DEF RemoveLogHandler
  <2> DEFINE Was(j) == IF j < r THEN j ELSE j + 1
  <2>2. /\ DOMAIN handlers' = 1 .. Len(handlers) - 1 /\ DOMAIN handlers = 1 .. Len(handlers) /\ Len(handlers) \in Nat
        /\ \A j \in 1 .. Len(handlers) - 1 : handlers'[j] = IF j < r THEN handlers[j] ELSE handlers[j + 1]
    <3>1. handlers' \in Seq(Handlers) /\ Len(handlers') = Len(handlers) - 1
      BY <1>1, <2>1, Removed
    <3>2. \A j \in 1 .. Len(handlers) - 1 : handlers'[j] = IF j < r THEN handlers[j] ELSE handlers[j + 1]
      BY <1>1, <2>1, Removed
    <3> QED BY <1>1, <3>1, <3>2
  <2>3. \A j \in DOMAIN handlers' : Was(j) \in DOMAIN handlers /\ handlers'[j] = handlers[Was(j)]
    BY <2>2
  <2>4. \A i, j \in DOMAIN handlers' : Was(i) = Was(j) => i = j
    BY <2>2
  <2> HIDE DEF Was
  <2>5. \A i, j \in DOMAIN handlers' : Equal(handlers'[i], handlers'[j]) => i = j
    BY <2>3, <2>4 DEF NoTwins
  <2> QED BY <2>5 DEF NoTwins, Equal
<1>5. ASSUME NEW t \in Threads, ClearLogHandlers(t) PROVE NoTwins'
  BY <1>5 DEF ClearLogHandlers, NoTwins
<1>6. ASSUME NEW t \in Threads, Continue(t) PROVE UNCHANGED handlers
  BY <1>6 DEF Continue, LockHandlers, CallHandler, BeginLine, EndLine, UnlockHandlers, SetOwnLevel, SetHandlerLevel
<1>7. ASSUME NEW t \in Threads, Begin(t)
      PROVE  UNCHANGED handlers \/ ClearLogHandlers(t) \/ \E h \in Handlers : RegisterLogHandler(t, h) \/ RemoveLogHandler(t, h)
  BY <1>7 DEF Begin, LogMessage, WriteDirectly, SetGlobalLogLevel, ReadOriginalLevel, RestoreLevel, ClearLogLevel, SetHandlerFlag
<1> QED BY <1>2, <1>3, <1>4, <1>5, <1>6, <1>7 DEF Next, vars

-----------------------------------------------------------------------------
(* The order of messages.  A message is put out under m_logHandlersMutex: it *)
(* is then the newest of every handler that has it, and no handler that is   *)
(* still to be called has it.                                                *)

Busy(t) == call[t].at \in {"lock", "deliver", "write", "line"}
Has(h, m) == \E i \in DOMAIN log[h] : log[h][i] = m
ToCome(t, h) == \E i \in DOMAIN call[t].rest : call[t].rest[i] = h

OwnMessages == \A t \in Threads : Busy(t) => call[t].msg <= messages /\ \A u \in Threads : Busy(u) /\ call[u].msg = call[t].msg => u = t
Counted == \A h \in Handlers : \A i \in DOMAIN log[h] : log[h][i] <= messages
Once == \A h \in Handlers : \A i, j \in DOMAIN log[h] : log[h][i] = log[h][j] => i = j
LockNew == \A t \in Threads : call[t].at = "lock" => \A h \in Handlers : ~Has(h, call[t].msg)
OnceToCome == \A t \in Threads : Inside(t) => \A i, j \in DOMAIN call[t].rest : call[t].rest[i] = call[t].rest[j] => i = j
Newest ==
  \A t \in Threads : Inside(t) => \A h \in Handlers :
    /\ ToCome(t, h) => ~Has(h, call[t].msg)
    /\ \A i \in DOMAIN log[h] : log[h][i] = call[t].msg => i = Len(log[h])
Order == OwnMessages /\ Counted /\ Once /\ LockNew /\ OnceToCome /\ Newest /\ SameOrder

LEMMA OrderInit == Init => Order
BY IdleTyped
DEF Init, Order, OwnMessages, Counted, Once, LockNew, OnceToCome, Newest, SameOrder, Busy, Inside

(* A step that puts nothing out, and whose thread goes on with handlers that *)
(* were still to be called.                                                  *)
LEMMA OrderKept ==
  ASSUME Typed, Order, NEW t \in Threads, Others(t), UNCHANGED <<log, messages>>,
         Busy(t)' => Busy(t) /\ call'[t].msg = call[t].msg,
         call'[t].at = "lock" => call[t].at = "lock",
         Inside(t)' => /\ \A i, j \in DOMAIN call'[t].rest : call'[t].rest[i] = call'[t].rest[j] => i = j
                       /\ \/ Inside(t) /\ \A h \in Handlers : ToCome(t, h)' => ToCome(t, h)
                          \/ call[t].at = "lock"
  PROVE  Order'
<1>1. \A u \in Threads : u # t => call'[u] = call[u]
  BY DEF Others
<1>2. OwnMessages'
  BY <1>1 DEF Order, OwnMessages, Busy
<1>3. Counted' /\ Once' /\ SameOrder'
  BY DEF Order, Counted, Once, SameOrder
<1>4. LockNew'
  <2>1. \A u \in Threads : call'[u].at = "lock" => call[u].at = "lock" /\ call'[u].msg = call[u].msg
    BY <1>1 DEF Busy
  <2> QED BY <2>1 DEF Order, LockNew, Has
<1>5. OnceToCome'
  BY <1>1 DEF Order, OnceToCome, Inside
<1>6. ASSUME NEW u \in Threads, Inside(u)', NEW h \in Handlers
      PROVE  /\ ToCome(u, h)' => ~Has(h, call'[u].msg)
             /\ \A i \in DOMAIN log[h] : log[h][i] = call'[u].msg => i = Len(log[h])
  <2>1. CASE u # t
    BY <1>1, <1>6, <2>1 DEF Order, Newest, Inside, ToCome, Has
  <2>2. CASE u = t /\ Inside(t) /\ (ToCome(t, h)' => ToCome(t, h))
    <3>1. call'[t].msg = call[t].msg
      BY <1>6, <2>2 DEF Inside, Busy
    <3> QED BY <2>2, <3>1 DEF Order, Newest
  <2>3. CASE u = t /\ call[t].at = "lock"
    <3>1. call'[t].msg = call[t].msg
      BY <1>6, <2>3 DEF Inside, Busy
    <3>2. ~Has(h, call[t].msg)
      BY <2>3 DEF Order, LockNew
    <3> QED BY <2>3, <3>1, <3>2 DEF Has
  <2> QED BY <1>6, <2>1, <2>2, <2>3
<1>7. Newest'
  BY <1>6 DEF Newest, Has
<1> QED BY <1>2, <1>3, <1>4, <1>5, <1>7 DEF Order

(* The next handler called is no longer to come. *)
LEMMA Passed ==
  ASSUME Typed, Order, NEW t \in Threads, Inside(t), call[t].rest # << >>, call'[t].rest = Tail(call[t].rest)
  PROVE  /\ \A i, j \in DOMAIN call'[t].rest : call'[t].rest[i] = call'[t].rest[j] => i = j
         /\ \A h \in Handlers : ToCome(t, h)' => ToCome(t, h) /\ h # Current(t)
         /\ Current(t) \in Handlers /\ ToCome(t, Current(t))
<1> DEFINE s == call[t].rest
<1>1. /\ s \in Seq(Handlers) /\ s # << >> /\ Current(t) \in Handlers /\ Current(t) = s[1]
      /\ \A i, j \in DOMAIN s : s[i] = s[j] => i = j
  BY RestTyped DEF Order, OnceToCome
<1>2. call'[t].rest = Tail(s)
  OBVIOUS
<1>3. (\E i \in DOMAIN s : s[i] = Current(t)) => ToCome(t, Current(t))
  BY DEF ToCome
<1>4. \A h : (\E i \in DOMAIN s : s[i] = h) => ToCome(t, h)
  BY DEF ToCome
<1>5. \A h : ToCome(t, h)' => \E i \in DOMAIN Tail(s) : Tail(s)[i] = h
  BY <1>2 DEF ToCome
<1> HIDE DEF s
<1>6. /\ \A i \in DOMAIN Tail(s) : i \in Nat /\ i >= 1 /\ i + 1 \in DOMAIN s /\ Tail(s)[i] = s[i + 1]
      /\ 1 \in DOMAIN s
  BY <1>1, TailTyped
<1>7. \A i, j \in DOMAIN Tail(s) : Tail(s)[i] = Tail(s)[j] => i = j
  <2> TAKE i, j \in DOMAIN Tail(s)
  <2> HAVE Tail(s)[i] = Tail(s)[j]
  <2>1. i + 1 = j + 1
    BY <1>1, <1>6
  <2> QED BY <1>6, <2>1
<1>8. ASSUME NEW h \in Handlers, NEW i \in DOMAIN Tail(s), Tail(s)[i] = h
      PROVE  ToCome(t, h) /\ h # Current(t)
  <2>1. i + 1 \in DOMAIN s /\ s[i + 1] = h /\ i + 1 # 1
    BY <1>6, <1>8
  <2> QED BY <1>1, <1>4, <1>6, <2>1
<1>9. \A h \in Handlers : ToCome(t, h)' => ToCome(t, h) /\ h # Current(t)
  BY <1>5, <1>8
<1>10. ToCome(t, Current(t))
  BY <1>1, <1>3, <1>6
<1> QED BY <1>1, <1>2, <1>7, <1>9, <1>10

(* The current handler puts the message out. *)
LEMMA OrderPut ==
  ASSUME Typed, Places, Order, NEW t \in Threads, Puts(t)
  PROVE  Order'
<1> DEFINE g == Current(t)
           m == call[t].msg
           n == Len(log[g])
           ComesThen(h) == \E i \in DOMAIN call'[t].rest : call'[t].rest[i] = h
           HasThen(h, x) == \E i \in DOMAIN log'[h] : log'[h][i] = x
<1>1. /\ Inside(t) /\ Busy(t) /\ call[t].rest # << >> /\ call'[t].rest = Tail(call[t].rest) /\ log' = Output(t)
      /\ call'[t].at = "deliver" /\ call'[t].msg = m /\ UNCHANGED messages
      /\ \A u \in Threads : u # t => call'[u] = call[u]
  BY DEF Puts, To, Others, Inside, Busy
<1>2. /\ \A i, j \in DOMAIN call'[t].rest : call'[t].rest[i] = call'[t].rest[j] => i = j
      /\ \A h \in Handlers : ComesThen(h) => ToCome(t, h) /\ h # g
      /\ g \in Handlers /\ ToCome(t, g)
  BY <1>1, Passed DEF ToCome
<1>3. log \in [Handlers -> Seq(Nat)] /\ m \in Nat /\ messages \in Nat
  BY RestTyped DEF Typed
<1>4. log'[g] = Append(log[g], m) /\ \A h \in Handlers : h # g => log'[h] = log[h]
  BY <1>1, Outputs
<1>5. m <= messages
  BY <1>1 DEF Order, OwnMessages
<1>6. /\ \A i \in DOMAIN log[g] : log[g][i] # m
      /\ \A h \in Handlers : \A i \in DOMAIN log[h] : log[h][i] = m => i = Len(log[h])
  BY <1>1, <1>2 DEF Order, Newest, Has
<1>7. \A u \in Threads : u # t => ~Inside(u)
  BY <1>1 DEF Places, Alone
<1> HIDE DEF g, m
<1>8. /\ n \in Nat /\ DOMAIN log[g] = 1 .. n /\ DOMAIN log'[g] = 1 .. n + 1 /\ log'[g][n + 1] = m
      /\ \A i \in 1 .. n : log'[g][i] = log[g][i]
      /\ Len(log'[g]) = n + 1
  BY <1>2, <1>3, <1>4
<1> HIDE DEF n
<1>9. OwnMessages'
  BY <1>1 DEF Order, OwnMessages, Busy, m
<1>10. Counted'
  <2> SUFFICES ASSUME NEW h \in Handlers, NEW i \in DOMAIN log'[h] PROVE log'[h][i] <= messages
    BY <1>1 DEF Counted
  <2>1. CASE h # g
    BY <1>4, <2>1 DEF Order, Counted
  <2>2. CASE h = g /\ i = n + 1
    BY <1>5, <1>8, <2>2
  <2>3. CASE h = g /\ i # n + 1
    BY <1>2, <1>8, <2>3 DEF Order, Counted
  <2> QED BY <2>1, <2>2, <2>3
<1>11. Once'
  <2> SUFFICES ASSUME NEW h \in Handlers, NEW i \in DOMAIN log'[h], NEW j \in DOMAIN log'[h], log'[h][i] = log'[h][j] PROVE i = j
    BY DEF Once
  <2>1. CASE h # g
    BY <1>4, <2>1 DEF Order, Once
  <2>2. CASE h = g /\ i \in 1 .. n /\ j \in 1 .. n
    BY <1>8, <2>2 DEF Order, Once
  <2>3. CASE h = g /\ i = n + 1
    BY <1>6, <1>8, <2>3
  <2>4. CASE h = g /\ j = n + 1
    BY <1>6, <1>8, <2>4
  <2> QED BY <1>8, <2>1, <2>2, <2>3, <2>4
<1>12. ASSUME NEW h \in Handlers, NEW x, HasThen(h, x), ~(h = g /\ x = m) PROVE Has(h, x)
  <2>1. CASE h # g
    BY <1>4, <1>12, <2>1 DEF Has
  <2>2. CASE h = g /\ x # m
    <3>1. PICK i \in 1 .. n + 1 : log'[g][i] = x
      BY <1>8, <1>12, <2>2
    <3>2. i \in 1 .. n
      BY <1>8, <2>2, <3>1
    <3>3. log[g][i] = x /\ i \in DOMAIN log[g]
      BY <1>8, <3>1, <3>2
    <3> QED BY <2>2, <3>3 DEF Has
  <2> QED BY <1>12, <2>1, <2>2
<1>13. LockNew'
  <2> SUFFICES ASSUME NEW u \in Threads, call'[u].at = "lock", NEW h \in Handlers PROVE ~HasThen(h, call'[u].msg)
    BY DEF LockNew, Has
  <2>1. u # t /\ call'[u] = call[u]
    BY <1>1
  <2>2. call[u].msg # m
    BY <1>1, <2>1 DEF Order, OwnMessages, Busy, m
  <2>3. ~Has(h, call[u].msg)
    BY <2>1 DEF Order, LockNew
  <2> QED BY <1>12, <2>1, <2>2, <2>3
<1>14. \A u \in Threads : Inside(u)' => u = t
  BY <1>1, <1>7 DEF Inside
<1>15. OnceToCome'
  BY <1>2, <1>14 DEF OnceToCome
<1>16. ASSUME NEW h \in Handlers
       PROVE  /\ ComesThen(h) => ~HasThen(h, m)
              /\ \A i \in DOMAIN log'[h] : log'[h][i] = m => i = Len(log'[h])
  <2>1. CASE h = g
    <3>1. ~ComesThen(g)
      BY <1>2
    <3>2. \A i \in DOMAIN log'[g] : log'[g][i] = m => i = Len(log'[g])
      BY <1>6, <1>8
    <3> QED BY <2>1, <3>1, <3>2
  <2>2. CASE h # g
    <3>1. ToCome(t, h) => ~Has(h, m)
      BY <1>1 DEF Order, Newest, m
    <3> QED BY <1>2, <1>4, <1>6, <2>2, <3>1 DEF Has
  <2> QED BY <2>1, <2>2
<1>17. Newest'
  BY <1>1, <1>14, <1>16 DEF Newest, Has, ToCome, m
<1>18. SameOrder'
  <2> DEFINE Agree(a, b) == \A i, j \in DOMAIN log'[a] : \A k, l \in DOMAIN log'[b] :
                              log'[a][i] = log'[b][k] /\ log'[a][j] = log'[b][l] => (i < j <=> k < l)
  <2>1. ASSUME NEW a \in Handlers, NEW b \in Handlers, a # g, b # g PROVE Agree(a, b)
    BY <1>4, <2>1 DEF Order, SameOrder
  <2>2. Agree(g, g)
    BY <1>2, <1>11 DEF Once
  <2>3. ASSUME NEW b \in Handlers, b # g,
               NEW i \in DOMAIN log'[g], NEW j \in DOMAIN log'[g], NEW k \in DOMAIN log[b], NEW l \in DOMAIN log[b],
               log'[g][i] = log[b][k], log'[g][j] = log[b][l]
        PROVE  i < j <=> k < l
    <3>1. /\ i \in Nat /\ j \in Nat /\ k \in Nat /\ l \in Nat /\ i <= n + 1 /\ j <= n + 1
          /\ DOMAIN log[b] = 1 .. Len(log[b]) /\ Len(log[b]) \in Nat /\ k <= Len(log[b]) /\ l <= Len(log[b])
      BY <1>3, <1>8
    <3>2. CASE i # n + 1 /\ j # n + 1
      <4>1. i \in DOMAIN log[g] /\ j \in DOMAIN log[g] /\ log[g][i] = log[b][k] /\ log[g][j] = log[b][l]
        BY <1>8, <2>3, <3>2
      <4> QED BY <1>2, <4>1 DEF Order, SameOrder
    <3>3. CASE i = n + 1 /\ j # n + 1
      <4>1. k = Len(log[b]) /\ log[b][l] # m
        BY <1>6, <1>8, <2>3, <3>3
      <4>2. l # k
        BY <1>8, <2>3, <3>3, <4>1
      <4> QED BY <3>1, <3>3, <4>1, <4>2
    <3>4. CASE i # n + 1 /\ j = n + 1
      <4>1. l = Len(log[b]) /\ log[b][k] # m
        BY <1>6, <1>8, <2>3, <3>4
      <4>2. l # k
        BY <1>8, <2>3, <3>4, <4>1
      <4> QED BY <3>1, <3>4, <4>1, <4>2
    <3>5. CASE i = n + 1 /\ j = n + 1
      <4>1. k = l
        BY <1>6, <1>8, <2>3, <3>5
      <4> QED BY <3>1, <3>5, <4>1
    <3> QED BY <3>2, <3>3, <3>4, <3>5
  <2>4. ASSUME NEW b \in Handlers, b # g PROVE Agree(g, b) /\ Agree(b, g)
    <3>1. log'[b] = log[b]
      BY <1>4, <2>4
    <3>2. \A i, j \in DOMAIN log'[g] : \A k, l \in DOMAIN log[b] :
            log'[g][i] = log[b][k] /\ log'[g][j] = log[b][l] => (i < j <=> k < l)
      BY <2>3, <2>4
    <3> QED BY <3>1, <3>2
  <2>5. \A a, b \in Handlers : Agree(a, b)
    BY <2>1, <2>2, <2>4
  <2> QED BY <2>5 DEF SameOrder
<1> QED BY <1>9, <1>10, <1>11, <1>13, <1>15, <1>17, <1>18 DEF Order

LEMMA OrderStart ==
  ASSUME Typed, Order, NEW t \in Threads, Starts(t)
  PROVE  Order'
<1>1. /\ \A u \in Threads : u # t => call'[u] = call[u]
      /\ call'[t].msg = messages + 1 /\ messages' = messages + 1 /\ log' = log /\ ~Inside(t)' /\ messages \in Nat
  BY DEF Starts, Others, Inside, Typed
<1>2. log \in [Handlers -> Seq(Nat)]
  BY DEF Typed
<1>3. \A u \in Threads : Busy(u) => call[u].msg \in Nat /\ call[u].msg <= messages
  BY RestTyped DEF Order, OwnMessages
<1>4. OwnMessages'
  BY <1>1, <1>3 DEF Order, OwnMessages, Busy
<1>5. \A h \in Handlers : \A i \in DOMAIN log[h] : log[h][i] \in Nat /\ log[h][i] <= messages
  BY <1>2 DEF Order, Counted
<1>6. Counted' /\ Once' /\ SameOrder'
  BY <1>1, <1>5 DEF Order, Counted, Once, SameOrder
<1>7. \A h \in Handlers : ~Has(h, messages + 1)
  BY <1>1, <1>5 DEF Has
<1>8. LockNew'
  BY <1>1, <1>7 DEF Order, LockNew, Has
<1>9. OnceToCome' /\ Newest'
  BY <1>1 DEF Order, OnceToCome, Newest, Inside, ToCome, Has
<1> QED BY <1>4, <1>6, <1>8, <1>9 DEF Order

LEMMA OrderStep == Typed /\ Places /\ NoTwins /\ Order /\ [Next]_vars => Order'
<1> SUFFICES ASSUME Typed, Places, NoTwins, Order, [Next]_vars PROVE Order'
  OBVIOUS
<1>1. CASE Changes \/ Nothing
  BY <1>1
  DEF Changes, Nothing, Order, OwnMessages, Counted, Once, LockNew, OnceToCome, Newest, SameOrder, Busy, Has, Inside, ToCome
<1>2. CASE Drops
  <2>1. /\ messages \in Nat /\ messages' = messages + 1 /\ UNCHANGED <<call, log>> /\ log \in [Handlers -> Seq(Nat)]
        /\ \A t \in Threads : call[t].msg \in Nat
    BY <1>2, RestTyped DEF Drops, Typed
  <2>2. OwnMessages' /\ Counted'
    BY <2>1 DEF Order, OwnMessages, Counted, Busy
  <2> QED BY <2>1, <2>2
    DEF Order, Once, LockNew, OnceToCome, Newest, SameOrder, Has, Inside, ToCome
<1>3. ASSUME NEW t \in Threads, Effect(t) PROVE Order'
  <2>1. CASE Starts(t)
    BY <2>1, OrderStart
  <2>2. CASE Puts(t)
    BY <2>2, OrderPut
  <2>3. Others(t)
    BY <1>3, OthersStay
  <2>4. CASE Locks(t)
    <3>1. /\ call[t].at = "lock" /\ call'[t].at = "deliver" /\ call'[t].msg = call[t].msg /\ call'[t].rest = handlers
          /\ UNCHANGED <<log, messages>>
      BY <2>4 DEF Locks, To
    <3>2. \A i, j \in DOMAIN call'[t].rest : call'[t].rest[i] = call'[t].rest[j] => i = j
      BY <3>1 DEF NoTwins, Equal
    <3> QED BY <2>3, <3>1, <3>2, OrderKept DEF Busy
  <2>5. CASE Skips(t)
    <3>1. /\ Inside(t) /\ call[t].rest # << >> /\ call'[t].rest = Tail(call[t].rest)
          /\ call[t].at = "deliver" /\ call'[t].at = "deliver" /\ call'[t].msg = call[t].msg /\ UNCHANGED <<log, messages>>
      BY <2>5 DEF Skips, To, Inside
    <3>2. /\ \A i, j \in DOMAIN call'[t].rest : call'[t].rest[i] = call'[t].rest[j] => i = j
          /\ \A h \in Handlers : ToCome(t, h)' => ToCome(t, h)
      BY <3>1, Passed
    <3> QED BY <2>3, <3>1, <3>2, OrderKept DEF Busy
  <2>6. CASE Writes(t) \/ Lines(t)
    <3>1. /\ Busy(t) /\ call'[t].at # "lock" /\ call'[t].msg = call[t].msg /\ call'[t].rest = call[t].rest
          /\ UNCHANGED <<log, messages>> /\ (Inside(t)' => Inside(t))
      BY <2>6 DEF Writes, Lines, To, Busy, Inside
    <3>2. Inside(t)' => /\ \A i, j \in DOMAIN call'[t].rest : call'[t].rest[i] = call'[t].rest[j] => i = j
                        /\ \A h \in Handlers : ToCome(t, h)' => ToCome(t, h)
      BY <3>1 DEF Order, OnceToCome, ToCome
    <3> QED BY <2>3, <3>1, <3>2, OrderKept
  <2>7. CASE Ends(t) \/ Unlocks(t) \/ Quiet(t)
    <3>1. ~Busy(t)' /\ ~Inside(t)' /\ call'[t].at # "lock" /\ UNCHANGED <<log, messages>>
      BY <2>7 DEF Ends, Unlocks, Quiet, Back, Busy, Inside
    <3> QED BY <2>3, <3>1, OrderKept
  <2> QED BY <1>3, <2>1, <2>2, <2>4, <2>5, <2>6, <2>7 DEF Effect
<1> QED BY <1>1, <1>2, <1>3, StepEffect

-----------------------------------------------------------------------------
(* Levels. *)

\* The setters alive are those of one thread, and the oldest of them has read
\* the level from before, which comes back with it whatever is set meanwhile.
Restores ==
  /\ \A t \in Threads : call[t].at = "set" => saved[t] # << >>
  /\ Without({"setters"}) =>
       /\ \A t, u \in Threads : saved[t] # << >> /\ saved[u] # << >> => t = u
       /\ \A t \in Threads : saved[t] # << >> => saved[t][1] = baseLevel
       /\ NoSetterAlive => level = baseLevel

\* While a thread gives a handler its custom level no message is delivered, and
\* otherwise the handler has the level it was given.
Setting(h) == \E t \in Threads : call[t].at = "setHandler" /\ call[t].rest = <<h>>
Settles ==
  Settled =>
    /\ \A t \in Threads : call[t].at = "setHandler" =>
         \A u \in Threads : call[u].at # "lock" /\ ~Inside(u) /\ (call[u].at = "setHandler" => u = t)
    /\ \A h \in Handlers :
         IF Setting(h) THEN hasCustom[h]
         ELSE (hasCustom[h] <=> wanted[h] # NoLevel) /\ (wanted[h] # NoLevel => custom[h] = wanted[h])

LEMMA LevelsInit == Init => Restores /\ Settles
BY IdleTyped DEF Init, Restores, NoSetterAlive, Settles, Settled, Without, Setting

LEMMA RestoresStep == Typed /\ Restores /\ [Next]_vars => Restores'
<1> SUFFICES ASSUME Typed, Restores, [Next]_vars PROVE Restores'
  OBVIOUS
<1>1. NoLevel \notin Levels /\ level \in Levels /\ baseLevel \in Levels /\ saved \in [Threads -> Seq(Levels)]
  BY LevelsAssumption DEF Typed
<1>2. ASSUME UnchangedLevels, \A t \in Threads : call'[t].at = "set" => call[t].at = "set" PROVE Restores'
  BY <1>2 DEF Restores, NoSetterAlive, UnchangedLevels, Without
<1>3. CASE Drops \/ Changes
  BY <1>2, <1>3 DEF Drops, Changes
<1>4. ASSUME NEW t \in Threads, NEW lvl \in Levels, SetGlobalLogLevel(t, lvl) PROVE Restores'
  BY <1>4 DEF SetGlobalLogLevel, Restores, NoSetterAlive, Without
<1>5. ASSUME NEW t \in Threads, RestoreLevel(t) PROVE Restores'
  <2>1. /\ saved[t] # << >> /\ level' = Last(saved[t]) /\ call[t].at = "idle" /\ UNCHANGED <<call, baseLevel, faults>>
        /\ saved'[t] = Front(saved[t]) /\ \A u \in Threads : u # t => saved'[u] = saved[u]
    BY <1>1, <1>5 DEF RestoreLevel
  <2>2. /\ Front(saved[t]) = << >> => Last(saved[t]) = saved[t][1]
        /\ Front(saved[t]) # << >> => Front(saved[t])[1] = saved[t][1]
    BY <1>1, <2>1, Popped
  <2> QED BY <2>1, <2>2 DEF Restores, NoSetterAlive, Without
<1>6. ASSUME NEW t \in Threads, NEW h \in Tunable, ClearLogLevel(t, h) PROVE Restores'
  BY <1>6 DEF ClearLogLevel, Restores, NoSetterAlive, Without
<1>7. CASE Nothing
  BY <1>2, <1>4, <1>5, <1>6, <1>7 DEF Nothing
<1>8. ASSUME NEW t \in Threads, Effect(t), UnchangedLevels, call'[t].at # "set" PROVE Restores'
  BY <1>2, <1>8, OthersStay DEF Others
<1>9. ASSUME NEW t \in Threads, NEW lvl \in Levels, ReadOriginalLevel(t, lvl), Others(t) PROVE Restores'
  <2>1. /\ saved'[t] = Append(saved[t], level) /\ UNCHANGED <<level, baseLevel, faults>>
        /\ \A u \in Threads : u # t => saved'[u] = saved[u] /\ call'[u] = call[u]
        /\ "setters" \in faults \/ \A u \in Threads \ {t} : saved[u] = << >>
    BY <1>1, <1>9 DEF ReadOriginalLevel, Others
  <2>2. /\ saved'[t] # << >>
        /\ saved[t] = << >> => saved'[t][1] = level
        /\ saved[t] # << >> => saved'[t][1] = saved[t][1]
    BY <1>1, <2>1, Pushed
  <2>3. "setters" \notin faults /\ saved[t] = << >> => level = baseLevel
    BY <2>1 DEF Restores, NoSetterAlive, Without
  <2> QED BY <2>1, <2>2, <2>3 DEF Restores, NoSetterAlive, Without
<1>10. ASSUME NEW t \in Threads, SetOwnLevel(t), Others(t) PROVE Restores'
  <2>1. /\ saved[t] # << >> /\ UNCHANGED <<saved, baseLevel, faults>>
        /\ \A u \in Threads : call'[u].at = "set" => saved[u] # << >>
    BY <1>10 DEF SetOwnLevel, Others, Restores
  <2> QED BY <2>1 DEF Restores, NoSetterAlive, Without
<1>11. ASSUME NEW t \in Threads, SetHandlerLevel(t) \/ (\E h \in Tunable, lvl \in Levels : SetHandlerFlag(t, h, lvl)),
              Others(t), call'[t].at # "set"
       PROVE  Restores'
  BY <1>11 DEF SetHandlerLevel, SetHandlerFlag, Others, Restores, NoSetterAlive, Without
<1>12. ASSUME NEW t \in Threads, Effect(t) PROVE Restores'
  <2>1. Others(t)
    BY <1>12, OthersStay
  <2>2. CASE Quiet(t)
    <3>1. SetHandlerLevel(t) \/ (\E h \in Tunable, lvl \in Levels : SetHandlerFlag(t, h, lvl)) => call'[t].at # "set"
      BY <2>1, IdleTyped, CallTyped DEF SetHandlerLevel, SetHandlerFlag, Calling, Typed
    <3> QED BY <1>9, <1>10, <1>11, <2>1, <2>2, <3>1 DEF Quiet
  <2>3. CASE ~Quiet(t)
    BY <1>8, <1>12, <2>3 DEF Effect, Starts, Locks, Skips, Writes, Lines, Puts, Ends, Unlocks, To, Back
  <2> QED BY <2>2, <2>3
<1> QED BY <1>3, <1>7, <1>12, StepEffect

(* Only one thread moves, and it is not one that sets a handler's level. *)
LEMMA SettlesKept ==
  ASSUME Typed, Settles, UNCHANGED <<hasCustom, custom, wanted, faults>>,
         \A t \in Threads : call'[t].at = "setHandler" <=> call[t].at = "setHandler",
         \A t \in Threads : call'[t].at = "setHandler" => call'[t] = call[t],
         \A t \in Threads : call'[t].at = "lock" \/ Inside(t)' =>
            \/ call[t].at = "lock" \/ Inside(t)
            \/ "custom" \in faults \/ \A u \in Threads : call[u].at # "setHandler"
  PROVE  Settles'
<1>1. \A h \in Handlers : Setting(h)' <=> Setting(h)
  BY DEF Setting
<1> SUFFICES ASSUME Settled' PROVE Settles'
  BY DEF Settles
<1>2. Settled /\ "custom" \notin faults
  BY DEF Settled, Without
<1>3. ASSUME NEW t \in Threads, call'[t].at = "setHandler", NEW u \in Threads
      PROVE  call'[u].at # "lock" /\ ~Inside(u)' /\ (call'[u].at = "setHandler" => u = t)
  BY <1>2, <1>3 DEF Settles
<1>4. ASSUME NEW h \in Handlers
      PROVE  IF Setting(h)' THEN hasCustom'[h]
             ELSE (hasCustom'[h] <=> wanted'[h] # NoLevel) /\ (wanted'[h] # NoLevel => custom'[h] = wanted'[h])
  BY <1>1, <1>2 DEF Settles
<1> QED BY <1>3, <1>4 DEF Settles

LEMMA FlagStep ==
  ASSUME Typed, Settles, NEW t \in Threads, NEW h \in Tunable, NEW lvl \in Levels, SetHandlerFlag(t, h, lvl), Others(t)
  PROVE  Settles'
<1> SUFFICES ASSUME Settled' PROVE Settles'
  BY DEF Settles
<1>1. /\ \A u \in Threads : call[u].at = "idle"
      /\ UNCHANGED <<custom, wanted, faults>> /\ Settled
      /\ hasCustom' = [hasCustom EXCEPT ![h] = TRUE]
      /\ call' = [call EXCEPT ![t] = Calling("setHandler", 0, lvl, <<h>>)]
  BY DEF SetHandlerFlag, Settled, Without
<1>2. call'[t].at = "setHandler" /\ call'[t].rest = <<h>> /\ \A u \in Threads : u # t => call'[u].at = "idle"
  BY <1>1 DEF Typed, Calling
<1>3. h \in Handlers /\ hasCustom'[h] /\ \A g \in Handlers : g # h => hasCustom'[g] = hasCustom[g]
  BY <1>1, HandlersAssumption DEF Typed
<1>4. \A g \in Handlers : Setting(g)' <=> g = h
  BY <1>2 DEF Setting
<1>5. \A g \in Handlers : ~Setting(g)
  BY <1>1 DEF Setting
<1>6. ASSUME NEW u \in Threads, call'[u].at = "setHandler", NEW v \in Threads
      PROVE  call'[v].at # "lock" /\ ~Inside(v)' /\ (call'[v].at = "setHandler" => v = u)
  BY <1>2, <1>6 DEF Inside
<1>7. ASSUME NEW g \in Handlers
      PROVE  IF Setting(g)' THEN hasCustom'[g]
             ELSE (hasCustom'[g] <=> wanted'[g] # NoLevel) /\ (wanted'[g] # NoLevel => custom'[g] = wanted'[g])
  BY <1>1, <1>3, <1>4, <1>5 DEF Settles
<1> QED BY <1>6, <1>7 DEF Settles

LEMMA LevelStep ==
  ASSUME Typed, Settles, NEW t \in Threads, SetHandlerLevel(t), Others(t)
  PROVE  Settles'
<1> SUFFICES ASSUME Settled' PROVE Settles'
  BY DEF Settles
<1>1. PICK h \in Handlers : call[t].rest = <<h>>
  BY DEF SetHandlerLevel, Typed
<1>2. /\ call[t].at = "setHandler" /\ call[t].lvl \in Levels /\ Current(t) = h
      /\ UNCHANGED <<hasCustom, faults>> /\ Settled
      /\ custom' = [custom EXCEPT ![h] = call[t].lvl] /\ wanted' = [wanted EXCEPT ![h] = call[t].lvl]
      /\ call' = [call EXCEPT ![t] = Idle]
  BY <1>1 DEF SetHandlerLevel, Settled, Without, Typed, Current
<1>3. call'[t].at = "idle" /\ \A u \in Threads : u # t => call'[u] = call[u]
  BY <1>2, IdleTyped DEF Typed, Others
<1>4. /\ custom'[h] = call[t].lvl /\ wanted'[h] = call[t].lvl /\ call[t].lvl # NoLevel
      /\ \A g \in Handlers : g # h => custom'[g] = custom[g] /\ wanted'[g] = wanted[g]
  BY <1>2, LevelsAssumption DEF Typed
<1>5. \A u \in Threads : u # t => call[u].at # "setHandler"
  BY <1>2 DEF Settles
<1>6. \A u \in Threads : call'[u].at # "setHandler"
  BY <1>3, <1>5
<1>7. \A g \in Handlers : ~Setting(g)'
  BY <1>6 DEF Setting
<1>8. \A g \in Handlers : Setting(g) <=> g = h
  BY <1>1, <1>2, <1>5 DEF Setting
<1>9. ASSUME NEW g \in Handlers
      PROVE  (hasCustom'[g] <=> wanted'[g] # NoLevel) /\ (wanted'[g] # NoLevel => custom'[g] = wanted'[g])
  <2>1. CASE g = h
    BY <1>2, <1>4, <1>8, <2>1 DEF Settles
  <2>2. CASE g # h
    BY <1>2, <1>4, <1>8, <2>2 DEF Settles
  <2> QED BY <2>1, <2>2
<1> QED BY <1>6, <1>7, <1>9 DEF Settles

LEMMA ClearStep ==
  ASSUME Typed, Settles, NEW t \in Threads, NEW h \in Tunable, ClearLogLevel(t, h)
  PROVE  Settles'
<1> SUFFICES ASSUME Settled' PROVE Settles'
  BY DEF Settles
<1>1. /\ \A u \in Threads : call[u].at = "idle"
      /\ UNCHANGED <<call, custom, faults>> /\ Settled
      /\ hasCustom' = [hasCustom EXCEPT ![h] = FALSE] /\ wanted' = [wanted EXCEPT ![h] = NoLevel]
  BY DEF ClearLogLevel, Settled, Without
<1>2. \A g \in Handlers : ~Setting(g) /\ ~Setting(g)'
  BY <1>1 DEF Setting
<1>3. /\ h \in Handlers /\ ~hasCustom'[h] /\ wanted'[h] = NoLevel
      /\ \A g \in Handlers : g # h => hasCustom'[g] = hasCustom[g] /\ wanted'[g] = wanted[g]
  BY <1>1, HandlersAssumption DEF Typed
<1>4. ASSUME NEW g \in Handlers
      PROVE  (hasCustom'[g] <=> wanted'[g] # NoLevel) /\ (wanted'[g] # NoLevel => custom'[g] = wanted'[g])
  BY <1>1, <1>2, <1>3 DEF Settles
<1> QED BY <1>1, <1>2, <1>4 DEF Settles

LEMMA SettlesStep == Typed /\ Settles /\ [Next]_vars => Settles'
<1> SUFFICES ASSUME Typed, Settles, [Next]_vars PROVE Settles'
  OBVIOUS
<1>1. ASSUME UNCHANGED <<call, hasCustom, custom, wanted, faults>> PROVE Settles'
  BY <1>1, SettlesKept DEF Inside
<1>2. CASE Drops \/ Changes
  BY <1>1, <1>2 DEF Drops, Changes, UnchangedLevels
<1>3. CASE Nothing
  BY <1>1, <1>3, ClearStep DEF Nothing, UnchangedLevels, RestoreLevel, SetGlobalLogLevel
<1>4. ASSUME NEW t \in Threads, Effect(t) PROVE Settles'
  <2>1. Others(t) /\ \A u \in Threads : u # t => call'[u] = call[u] /\ (Inside(u)' <=> Inside(u))
    BY <1>4, OthersStay DEF Others, Inside
  <2>2. ASSUME UNCHANGED <<hasCustom, custom, wanted, faults>>, call[t].at # "setHandler", call'[t].at # "setHandler",
               call'[t].at = "lock" \/ Inside(t)' =>
                 \/ call[t].at = "lock" \/ Inside(t)
                 \/ "custom" \in faults \/ \A u \in Threads : call[u].at # "setHandler"
        PROVE  Settles'
    BY <2>1, <2>2, SettlesKept
  <2>3. CASE Starts(t)
    BY <2>2, <2>3 DEF Starts, UnchangedLevels, Inside
  <2>4. CASE Locks(t) \/ Skips(t) \/ Writes(t) \/ Lines(t) \/ Puts(t)
    BY <2>2, <2>4 DEF Locks, Skips, Writes, Lines, Puts, To, UnchangedLevels, Inside
  <2>5. CASE Ends(t) \/ Unlocks(t)
    BY <2>2, <2>5 DEF Ends, Unlocks, Back, UnchangedLevels, Inside
  <2>6. CASE SetOwnLevel(t) \/ \E lvl \in Levels : ReadOriginalLevel(t, lvl)
    <3>1. /\ call[t].at \in {"set", "idle"} /\ call'[t].at \in {"set", "idle"}
          /\ UNCHANGED <<hasCustom, custom, wanted, faults>>
      BY <2>6, IdleTyped DEF SetOwnLevel, ReadOriginalLevel, Calling, Typed
    <3> QED BY <2>2, <3>1 DEF Inside
  <2> QED BY <1>4, <2>1, <2>3, <2>4, <2>5, <2>6, FlagStep, LevelStep DEF Effect, Quiet
<1> QED BY <1>2, <1>3, <1>4, StepEffect

-----------------------------------------------------------------------------
(* The inductive invariant, and what it says. *)

LogInv == Typed /\ Places /\ NoTwins /\ Order /\ Restores /\ Settles

\* Whatever threads do, in whatever order: the log manager is in one of the
\* states the mutexes and the order of their acquisition leave it
\* (LogManager.cpp, LogHandler.cpp).
THEOREM Holds == Spec => []LogInv
<1>1. Init => LogInv
  <2>1. Init => NoTwins
    <3> SUFFICES ASSUME Init PROVE NoTwins
      OBVIOUS
    <3>1. PICK h \in StdHandlers : handlers = <<h>>
      BY DEF Init
    <3>2. \A i, j \in DOMAIN handlers : i = j
      BY <3>1
    <3> QED BY <3>2 DEF NoTwins
  <2> QED BY <2>1, TypedInit, PlacesInit, OrderInit, LevelsInit DEF LogInv
<1>2. LogInv /\ [Next]_vars => LogInv'
  BY TypedStep, PlacesStep, TwinsStep, OrderStep, RestoresStep, SettlesStep DEF LogInv
<1> QED BY <1>1, <1>2, PTL DEF Spec

\* All handlers agree on the order of the messages, as LogMessage keeps
\* m_logHandlersMutex while it calls them.
THEOREM HandlersAgree == Spec => []SameOrder
<1>1. LogInv => SameOrder
  BY DEF LogInv, Order
<1> QED BY <1>1, Holds, PTL

\* RegisterLogHandler compares and appends under one mutex: no two registered
\* handlers are equal.
THEOREM RegisteredOnce == Spec => []NoTwins
<1>1. LogInv => NoTwins
  BY DEF LogInv
<1> QED BY <1>1, Holds, PTL

\* A handler that was removed is never called again.
THEOREM CallsRegistered == Spec => []OnlyRegisteredCalled
<1>1. ASSUME LogInv PROVE OnlyRegisteredCalled
  <2> SUFFICES ASSUME NEW t \in Threads, call[t].at \in {"deliver", "write", "line"}
               PROVE  ToSet(call[t].rest) \subseteq ToSet(handlers)
    BY DEF OnlyRegisteredCalled
  <2>1. CASE Inside(t)
    BY <1>1, <2>1 DEF LogInv, Places, Registered, ToSet
  <2>2. CASE call[t].rest = << >>
    BY <2>2 DEF ToSet
  <2> QED BY <2>1, <2>2 DEF Inside
<1> QED BY <1>1, Holds, PTL

\* The lines of WriteStdErr and WriteStdOut stay whole.
THEOREM LinesWhole == Spec => []LinesNotTorn
<1>1. ASSUME LogInv PROVE LinesNotTorn
  <2> SUFFICES ASSUME NEW t \in Threads, NEW u \in Threads, call[t].at = "line", call[u].at = "line",
                      StreamOf(call[t].lvl) = StreamOf(call[u].lvl)
               PROVE  t = u
    BY DEF LinesNotTorn
  <2>1. On(t, StreamOf(call[t].lvl)) /\ On(u, StreamOf(call[t].lvl)) /\ StreamOf(call[t].lvl) \in Streams
    BY StreamTyped DEF On
  <2> QED BY <1>1, <2>1 DEF LogInv, Places, OneLine
<1> QED BY <1>1, Holds, PTL

\* LogLevelSetters (LogManager.cpp:28-39), nested in one thread as they may be,
\* leave the level as it was before the first of them, while any thread logs and sets
\* the level; as long as those of two threads do not overlap.
THEOREM LevelsComeBack == Spec => []LevelRestored
<1>1. LogInv => LevelRestored
  BY DEF LogInv, Restores, LevelRestored
<1> QED BY <1>1, Holds, PTL

\* Handlers that are given their level before messages are logged hide what is
\* below it and nothing else.
THEOREM HidesAsTold == Spec => []HiddenIfSettled
<1>1. ASSUME LogInv PROVE HiddenIfSettled
  <2> SUFFICES ASSUME Settled, NEW t \in Threads, call[t].at = "deliver", call[t].rest # << >>
               PROVE  Hides(Current(t), call[t].lvl) <=>
                        wanted[Current(t)] # NoLevel /\ call[t].lvl < wanted[Current(t)]
    BY DEF HiddenIfSettled, HiddenAsConfigured
  <2>1. Current(t) \in Handlers
    BY <1>1, RestTyped DEF LogInv
  <2>2. \A u \in Threads : call[u].at # "setHandler"
    BY <1>1 DEF LogInv, Settles, Inside
  <2>3. ~Setting(Current(t))
    BY <2>2 DEF Setting
  <2> QED BY <1>1, <2>1, <2>3 DEF LogInv, Settles, Hides
<1> QED BY <1>1, Holds, PTL
-----------------------------------------------------------------------------
(* LogContract.  While LogMessage is calling handlers, exactly those it has  *)
(* called that do not hide the message have it.                              *)

Served(t, h) == h \in ToSet(handlers) /\ ~ToCome(t, h)
DeliveredBy(t) ==
  /\ \A h \in Handlers :
       /\ Has(h, call[t].msg) => Served(t, h)
       /\ Settled => /\ Has(h, call[t].msg) => Contract!Hears(h, call[t].lvl)
                     /\ Served(t, h) /\ Contract!Hears(h, call[t].lvl) => Has(h, call[t].msg)
  /\ Settled /\ call[t].at \in {"write", "line"} => Contract!Hears(Current(t), call[t].lvl)
Delivered == \A t \in Threads : Inside(t) => DeliveredBy(t)

LEMMA HidesWanted ==
  ASSUME LogInv, Settled, NEW t \in Threads, call[t].at = "deliver", call[t].rest # << >>
  PROVE  Hides(Current(t), call[t].lvl) <=> ~Contract!Hears(Current(t), call[t].lvl)
<1>1. Current(t) \in Handlers /\ call[t].lvl \in Levels
  BY RestTyped DEF LogInv, Typed
<1>2. \A u \in Threads : call[u].at # "setHandler"
  BY DEF LogInv, Settles, Inside
<1>3. ~Setting(Current(t))
  BY <1>2 DEF Setting
<1>4. /\ hasCustom[Current(t)] <=> wanted[Current(t)] # NoLevel
      /\ wanted[Current(t)] # NoLevel => custom[Current(t)] = wanted[Current(t)]
  BY <1>1, <1>3 DEF LogInv, Settles
<1>5. custom[Current(t)] \in Nat /\ call[t].lvl \in Nat
  BY <1>1, LevelsAssumption DEF LogInv, Typed
<1> QED BY <1>4, <1>5 DEF Hides, Contract!Hears

LEMMA FaultsKept == [Next]_vars => faults' = faults
<1> SUFFICES ASSUME [Next]_vars PROVE faults' = faults
  OBVIOUS
<1>1. ASSUME NEW t \in Threads, Continue(t) PROVE faults' = faults
  BY <1>1
  DEF Continue, LockHandlers, CallHandler, BeginLine, EndLine, UnlockHandlers, SetOwnLevel, SetHandlerLevel, UnchangedLevels
<1>2. ASSUME NEW t \in Threads, Begin(t) PROVE faults' = faults
  BY <1>2
  DEF Begin, LogMessage, WriteDirectly, SetGlobalLogLevel, ReadOriginalLevel, RegisterLogHandler, RemoveLogHandler,
      ClearLogLevel, SetHandlerFlag, ClearLogHandlers, RestoreLevel, UnchangedLevels
<1> QED BY <1>1, <1>2 DEF Next, vars

(* Nobody sets the level of a handler while handlers are called. *)
LEMMA WantedKept ==
  ASSUME LogInv, Settled, [Next]_vars, NEW u \in Threads, Inside(u)
  PROVE  wanted' = wanted
<1>1. \A t \in Threads : call[t].at # "setHandler"
  BY DEF LogInv, Settles
<1>2. "custom" \notin faults /\ call[u].at # "idle"
  BY DEF Settled, Without, Inside
<1>3. ASSUME NEW t \in Threads, Continue(t) PROVE wanted' = wanted
  BY <1>1, <1>3
  DEF Continue, LockHandlers, CallHandler, BeginLine, EndLine, UnlockHandlers, SetOwnLevel, SetHandlerLevel, UnchangedLevels
<1>4. ASSUME NEW t \in Threads, Begin(t) PROVE wanted' = wanted
  BY <1>2, <1>4
  DEF Begin, LogMessage, WriteDirectly, SetGlobalLogLevel, ReadOriginalLevel, RegisterLogHandler, RemoveLogHandler,
      ClearLogLevel, SetHandlerFlag, ClearLogHandlers, RestoreLevel, UnchangedLevels
<1> QED BY <1>3, <1>4 DEF Next, vars

LEMMA StillToCome ==
  ASSUME Typed, NEW t \in Threads, call[t].rest # << >>, call'[t].rest = Tail(call[t].rest),
         NEW h \in Handlers, ToCome(t, h), h # Current(t)
  PROVE  ToCome(t, h)'
<1> DEFINE s == call[t].rest
<1>1. s \in Seq(Handlers) /\ s # << >> /\ Current(t) = s[1]
  BY RestTyped
<1>2. PICK i \in DOMAIN s : s[i] = h
  BY DEF ToCome
<1>3. call'[t].rest = Tail(s)
  OBVIOUS
<1> HIDE DEF s
<1>4. i - 1 \in DOMAIN Tail(s) /\ Tail(s)[i - 1] = h
  BY <1>1, <1>2, TailTyped
<1> QED BY <1>3, <1>4 DEF ToCome

(* A thread that is calling handlers is not disturbed. *)
LEMMA DeliveredKept ==
  ASSUME LogInv, [Next]_vars, NEW u \in Threads, Inside(u), DeliveredBy(u),
         call'[u] = call[u], UNCHANGED <<handlers, log>>
  PROVE  DeliveredBy(u)'
<1>1. Settled' <=> Settled
  BY FaultsKept DEF Settled, Without
<1>2. \A h \in Handlers : (Has(h, call[u].msg))' <=> Has(h, call[u].msg)
  BY DEF Has
<1>3. \A h \in Handlers : Served(u, h)' <=> Served(u, h)
  BY DEF Served, ToCome
<1>4. Settled => wanted' = wanted
  BY WantedKept
<1>5. Settled => \A h : (Contract!Hears(h, call[u].lvl))' <=> Contract!Hears(h, call[u].lvl)
  BY <1>4 DEF Contract!Hears
<1>6. Current(u)' = Current(u)
  BY DEF Current
<1> QED BY <1>1, <1>2, <1>3, <1>5, <1>6 DEF DeliveredBy

LEMMA DeliveredLocks ==
  ASSUME LogInv, NEW t \in Threads, Locks(t)
  PROVE  DeliveredBy(t)'
<1>1. /\ call[t].at = "lock" /\ call'[t].at = "deliver" /\ call'[t].rest = handlers /\ call'[t].msg = call[t].msg
      /\ UNCHANGED <<handlers, log>>
  BY DEF Locks, To
<1>2. \A h \in Handlers : ~Has(h, call[t].msg)
  BY <1>1 DEF LogInv, Order, LockNew
<1>3. \A h \in Handlers : ~(Has(h, call[t].msg))'
  BY <1>1, <1>2 DEF Has
<1>4. \A h \in Handlers : ~Served(t, h)'
  BY <1>1 DEF Served, ToCome, ToSet
<1> QED BY <1>1, <1>3, <1>4 DEF DeliveredBy, Has

(* A handler that is told to hear the message puts it out, and no other. *)
LEMMA PutsHeard ==
  ASSUME LogInv, Settled, NEW t \in Threads, DeliveredBy(t)
  PROVE  /\ Skips(t) => ~Contract!Hears(Current(t), call[t].lvl)
         /\ Puts(t) => Contract!Hears(Current(t), call[t].lvl)
<1>1. CASE Skips(t)
  BY <1>1, HidesWanted DEF Skips, Puts
<1>2. CASE Puts(t) /\ call[t].at = "deliver"
  BY <1>2, HidesWanted DEF Skips, Puts
<1>3. CASE Puts(t) /\ call[t].at = "line"
  BY <1>3 DEF DeliveredBy, Skips
<1> QED BY <1>1, <1>2, <1>3 DEF Puts, Skips

(* Handler Current(t) is passed by, with the message or without it. *)
LEMMA DeliveredPasses ==
  ASSUME LogInv, [Next]_vars, NEW t \in Threads, DeliveredBy(t), Skips(t) \/ Puts(t)
  PROVE  DeliveredBy(t)'
<1> DEFINE g == Current(t)
           m == call[t].msg
           lvl == call[t].lvl
           HasThen(h) == \E i \in DOMAIN log'[h] : log'[h][i] = m
<1>1. /\ call[t].rest # << >> /\ call'[t].at = "deliver" /\ call'[t].rest = Tail(call[t].rest)
      /\ call'[t].msg = m /\ call'[t].lvl = lvl /\ UNCHANGED handlers /\ Inside(t)
  BY DEF Skips, Puts, To, Inside
<1>2. /\ \A h \in Handlers : ToCome(t, h)' <=> ToCome(t, h) /\ h # g
      /\ g \in Handlers /\ ToCome(t, g)
  BY <1>1, Passed, StillToCome DEF LogInv
<1>3. g \in ToSet(handlers)
  BY <1>1, RestTyped, TailTyped DEF LogInv, Places, Registered, ToSet
<1>4. \A h \in Handlers : HasThen(h) <=> Has(h, m) \/ (h = g /\ Puts(t))
  <2>1. CASE Skips(t) /\ ~Puts(t)
    BY <2>1 DEF Skips, Has
  <2>2. CASE Puts(t)
    <3>1. log' = Output(t) /\ log \in [Handlers -> Seq(Nat)] /\ m \in Nat
      BY <2>2, RestTyped DEF Puts, LogInv, Typed
    <3>2. log'[g] = Append(log[g], m) /\ \A h \in Handlers : h # g => log'[h] = log[h]
      BY <1>1, <3>1, Outputs DEF LogInv
    <3>3. HasThen(g)
      <4>1. Len(log[g]) + 1 \in DOMAIN Append(log[g], m) /\ Append(log[g], m)[Len(log[g]) + 1] = m
        BY <1>2, <3>1
      <4> QED BY <3>2, <4>1
    <3> QED BY <2>2, <3>2, <3>3 DEF Has
  <2> QED BY <2>1, <2>2
<1>5. Settled' <=> Settled
  BY FaultsKept DEF Settled, Without
<1>6. Settled => \A h : (Contract!Hears(h, lvl))' <=> Contract!Hears(h, lvl)
  BY <1>1, WantedKept DEF Contract!Hears, Skips, Puts, UnchangedLevels
<1>7. \A h \in Handlers : Served(t, h)' <=> Served(t, h) \/ h = g
  BY <1>1, <1>2, <1>3 DEF Served
<1>8. \A h \in Handlers : Has(h, m) => Served(t, h)
  BY DEF DeliveredBy
<1>9. ~Served(t, g)
  BY <1>2 DEF Served
<1>10. Settled => \A h \in Handlers : (Has(h, m) => Contract!Hears(h, lvl)) /\ (Served(t, h) /\ Contract!Hears(h, lvl) => Has(h, m))
  BY DEF DeliveredBy
<1>11. Settled => (Skips(t) => ~Contract!Hears(g, lvl)) /\ (Puts(t) => Contract!Hears(g, lvl))
  BY PutsHeard
<1>12. ASSUME NEW h \in Handlers
       PROVE  /\ HasThen(h) => Served(t, h)'
              /\ Settled => /\ HasThen(h) => Contract!Hears(h, lvl)
                            /\ Served(t, h)' /\ Contract!Hears(h, lvl) => HasThen(h)
  BY <1>4, <1>7, <1>8, <1>9, <1>10, <1>11
<1> QED BY <1>1, <1>5, <1>6, <1>12 DEF DeliveredBy, Has, Contract!Hears

(* The current handler goes on writing. *)
LEMMA DeliveredWrites ==
  ASSUME LogInv, [Next]_vars, NEW t \in Threads, Inside(t), DeliveredBy(t), Writes(t) \/ Lines(t)
  PROVE  DeliveredBy(t)'
<1>1. /\ call'[t].rest = call[t].rest /\ call'[t].msg = call[t].msg /\ call'[t].lvl = call[t].lvl
      /\ UNCHANGED <<handlers, log, wanted, faults>>
  BY DEF Writes, Lines, To, UnchangedLevels
<1>2. Current(t)' = Current(t)
  BY <1>1 DEF Current
<1>3. Settled => Contract!Hears(Current(t), call[t].lvl)
  <2>1. CASE Writes(t)
    BY <2>1, HidesWanted DEF Writes
  <2>2. CASE Lines(t)
    BY <2>2 DEF Lines, DeliveredBy
  <2> QED BY <2>1, <2>2
<1>4. \A h \in Handlers : (Served(t, h)' <=> Served(t, h)) /\ ((Has(h, call[t].msg))' <=> Has(h, call[t].msg))
  BY <1>1 DEF Served, ToCome, Has
<1>5. \A h : (Contract!Hears(h, call[t].lvl))' <=> Contract!Hears(h, call[t].lvl)
  BY <1>1 DEF Contract!Hears
<1>6. Settled' <=> Settled
  BY <1>1 DEF Settled, Without
<1> QED BY <1>1, <1>2, <1>3, <1>4, <1>5, <1>6 DEF DeliveredBy

LEMMA DeliveredStep == LogInv /\ Delivered /\ [Next]_vars => Delivered'
<1> SUFFICES ASSUME LogInv, Delivered, [Next]_vars, NEW u \in Threads, Inside(u)' PROVE DeliveredBy(u)'
  BY DEF Delivered
<1>1. Typed
  BY DEF LogInv
<1>2. CASE Drops \/ Nothing
  BY <1>2, DeliveredKept DEF Drops, Nothing, Delivered, Inside, UnchangedLevels
<1>3. CASE Changes
  <2>1. \A t \in Threads : ~Inside(t)
    BY <1>3 DEF Changes, LogInv, Places, Guarded
  <2> QED BY <1>3, <2>1 DEF Changes, Inside
<1>4. ASSUME NEW t \in Threads, Effect(t), t # u PROVE DeliveredBy(u)'
  <2>1. call'[u] = call[u] /\ Inside(u)
    BY <1>4, OthersStay DEF Others, Inside
  <2>2. ~Puts(t)
    BY <1>4, <2>1 DEF Puts, LogInv, Places, Alone, Inside
  <2>3. UNCHANGED <<handlers, log>>
    BY <1>4, <2>2 DEF Effect, Starts, Locks, Skips, Writes, Lines, Ends, Unlocks, Quiet
  <2> QED BY <2>1, <2>3, DeliveredKept DEF Delivered
<1>5. CASE Effect(u)
  <2>1. CASE Locks(u)
    BY <2>1, DeliveredLocks
  <2>2. CASE Skips(u) \/ Puts(u)
    BY <2>2, DeliveredPasses DEF Delivered, Skips, Puts, Inside
  <2>3. CASE Writes(u) \/ Lines(u)
    BY <2>3, DeliveredWrites DEF Delivered, Writes, Lines, To, Inside
  <2>4. CASE Starts(u) \/ Ends(u) \/ Unlocks(u) \/ Quiet(u)
    BY <2>4 DEF Starts, Ends, Unlocks, Quiet, Back, Inside
  <2> QED BY <1>5, <2>1, <2>2, <2>3, <2>4 DEF Effect
<1> QED BY <1>1, <1>2, <1>3, <1>4, <1>5, StepEffect

-----------------------------------------------------------------------------
(* What the log manager looks like from outside. *)

LEMMA FrontOfAppend ==
  ASSUME NEW s \in Seq(Nat), NEW e \in Nat
  PROVE  Front(Append(s, e)) = s
<1>1. /\ Append(s, e) \in Seq(Nat) /\ Len(Append(s, e)) = Len(s) + 1 /\ Len(s) \in Nat
      /\ \A i \in 1 .. Len(s) : Append(s, e)[i] = s[i]
  BY AppendProperties
<1> DEFINE a == Append(s, e)
<1> HIDE DEF a
<1>2. Front(a) \in Seq(Nat) /\ Len(Front(a)) = Len(s) /\ \A i \in 1 .. Len(s) : Front(a)[i] = a[i]
  BY <1>1 DEF Front, a
<1>3. \A i \in 1 .. Len(Front(a)) : Front(a)[i] = s[i]
  BY <1>1, <1>2 DEF a
<1>4. Front(a) = s
  BY <1>2, <1>3, SeqEqual
<1> QED BY <1>4 DEF a

LEMMA FrontProperties ==
  ASSUME NEW s \in Seq(Nat), s # << >>
  PROVE  /\ Front(s) \in Seq(Nat) /\ Append(Front(s), s[Len(s)]) = s /\ Len(s) \in DOMAIN s
         /\ \A i \in DOMAIN Front(s) : i \in DOMAIN s /\ Front(s)[i] = s[i]
<1> DEFINE f == Front(s)
           n == Len(s)
<1>1. n \in Nat /\ n > 0 /\ s[n] \in Nat /\ n \in DOMAIN s
  OBVIOUS
<1>2. f \in Seq(Nat) /\ Len(f) = n - 1 /\ \A i \in 1 .. n - 1 : f[i] = s[i]
  <2>1. f = SubSeq(s, 1, n - 1)
    BY DEF Front
  <2> HIDE DEF f
  <2>2. n - 1 \in Int /\ 1 \in Int /\ \A i \in 1 .. n - 1 : s[i] \in Nat
    BY <1>1
  <2> HIDE DEF n
  <2>3. /\ f \in Seq(Nat) /\ Len(f) = IF 1 <= n - 1 THEN n - 1 - 1 + 1 ELSE 0
        /\ \A i \in 1 .. n - 1 - 1 + 1 : f[i] = s[1 + i - 1]
    BY <2>1, <2>2, SubSeqProperties
  <2> QED BY <1>1, <2>3
<1> HIDE DEF f, n
<1>3. /\ Append(f, s[n]) \in Seq(Nat) /\ Len(Append(f, s[n])) = n
      /\ \A i \in 1 .. n - 1 : Append(f, s[n])[i] = f[i]
      /\ Append(f, s[n])[n] = s[n]
  BY <1>1, <1>2, AppendProperties
<1>4. ASSUME NEW i \in 1 .. n PROVE Append(f, s[n])[i] = s[i]
  BY <1>1, <1>2, <1>3, <1>4
<1>5. Append(f, s[n]) = s
  BY <1>3, <1>4, SeqEqual DEF n
<1>6. \A i \in DOMAIN f : i \in DOMAIN s /\ f[i] = s[i]
  BY <1>1, <1>2 DEF n
<1> QED BY <1>1, <1>2, <1>5, <1>6 DEF f, n

(* The message a thread is putting out is the last of the handlers that have it. *)
LEMMA PublishedInside ==
  ASSUME LogInv, NEW t \in Threads, Inside(t), NEW h \in Handlers
  PROVE  /\ Has(h, call[t].msg) => log[h] # << >> /\ log[h][Len(log[h])] = call[t].msg
         /\ PublishedLog[h] = IF Has(h, call[t].msg) THEN Front(log[h]) ELSE log[h]
<1>1. log[h] \in Seq(Nat)
  BY DEF LogInv, Typed
<1>2. \A u \in Threads : Inside(u) => u = t
  BY DEF LogInv, Places, Alone
<1>3. Has(h, call[t].msg) <=> log[h] # << >> /\ Last(log[h]) = call[t].msg
  <2>1. log[h] # << >> => Len(log[h]) \in DOMAIN log[h]
    BY <1>1
  <2>2. \A i \in DOMAIN log[h] : log[h][i] = call[t].msg => i = Len(log[h])
    BY DEF LogInv, Order, Newest
  <2> QED BY <1>1, <2>1, <2>2 DEF Has, Last
<1> QED BY <1>2, <1>3 DEF PublishedLog, Last

LEMMA PublishedOutside ==
  ASSUME Typed, \A t \in Threads : ~Inside(t)
  PROVE  PublishedLog = log
BY DEF PublishedLog, Typed

LEMMA PublishedKept ==
  ASSUME log' = log,
         \A u \in Threads : (Inside(u)' <=> Inside(u)) /\ (Inside(u) => call'[u].msg = call[u].msg)
  PROVE  PublishedLog' = PublishedLog
BY DEF PublishedLog

LEMMA UnderWayKept ==
  ASSUME \A u \in Threads : /\ UnderWay(u)' <=> UnderWay(u)
                            /\ UnderWay(u) => call'[u].msg = call[u].msg /\ call'[u].lvl = call[u].lvl
  PROVE  MessagesUnderWay' = MessagesUnderWay
BY DEF MessagesUnderWay

LEMMA SettledKept == [Next]_vars => Settled' = Settled
BY FaultsKept DEF Settled, Without

-----------------------------------------------------------------------------
(* Each step is one of LogContract, or none. *)

Undisturbed ==
  \A u \in Threads : /\ UnderWay(u)' <=> UnderWay(u)
                     /\ Inside(u)' <=> Inside(u)
                     /\ UnderWay(u) => call'[u].msg = call[u].msg /\ call'[u].lvl = call[u].lvl
Stutters == UNCHANGED <<ToSet(handlers), level, wanted, MessagesUnderWay, PublishedLog, Settled>>

LEMMA UndisturbedKeeps ==
  ASSUME Undisturbed, log' = log
  PROVE  UNCHANGED <<MessagesUnderWay, PublishedLog>>
<1>1. \A u \in Threads : Inside(u) => UnderWay(u)
  BY DEF UnderWay
<1> QED BY <1>1, UnderWayKept, PublishedKept DEF Undisturbed

LEMMA SameCalls == call' = call => Undisturbed
BY DEF Undisturbed, UnderWay, Inside

LEMMA InitMaps == Init => Contract!Init
<1> SUFFICES ASSUME Init PROVE Contract!Init
  OBVIOUS
<1>1. \A t \in Threads : ~Inside(t) /\ ~UnderWay(t)
  BY IdleTyped DEF Init, Inside, UnderWay
<1>2. MessagesUnderWay = {}
  BY <1>1 DEF MessagesUnderWay
<1>3. PublishedLog = [h \in Handlers |-> << >>]
  BY <1>1, TypedInit, PublishedOutside DEF Init
<1>4. PICK h \in StdHandlers : handlers = <<h>>
  BY DEF Init
<1>5. ToSet(handlers) = {h}
  BY <1>4 DEF ToSet
<1>6. Settled \in BOOLEAN
  BY DEF Settled, Without
<1> QED BY <1>2, <1>3, <1>5, <1>6 DEF Init, Contract!Init

(* LogMessage: the message is new to everybody. *)
LEMMA LogMessageMaps ==
  ASSUME LogInv, [Next]_vars, NEW t \in Threads, NEW lvl \in Levels, LogMessage(t, lvl)
  PROVE  Stutters \/ \E m \in 1 .. MaxMessages : Contract!Accept(m, lvl)
<1>1. /\ call \in [Threads -> ACall] /\ messages \in Nat /\ log \in [Handlers -> Seq(Nat)]
      /\ level \in Nat /\ lvl \in Nat
  BY LevelsAssumption DEF LogInv, Typed
<1>2. /\ call[t].at = "idle" /\ messages' = messages + 1 /\ messages' \in 1 .. MaxMessages
      /\ UNCHANGED <<handlers, log, level, wanted>> /\ Settled' = Settled
  BY <1>1, BoundsAssumption, SettledKept DEF LogMessage, UnchangedLevels
<1>3. CASE lvl < level
  BY <1>2, <1>3, SameCalls, UndisturbedKeeps DEF LogMessage, Stutters
<1>4. CASE ~(lvl < level)
  <2>1. call' = [call EXCEPT ![t] = Calling("lock", messages', lvl, << >>)]
    BY <1>4 DEF LogMessage
  <2>2. << >> \in Seq(Handlers) /\ messages' \in Nat /\ "lock" \in {"lock", "write", "set", "setHandler"}
    BY <1>1, <1>2
  <2>3. /\ call'[t].at = "lock" /\ call'[t].msg = messages' /\ call'[t].lvl = lvl
        /\ \A u \in Threads : u # t => call'[u] = call[u]
    BY <1>1, <2>1, <2>2, Calls
  <2>4. ~UnderWay(t) /\ UnderWay(t)' /\ \A u \in Threads : u # t => (UnderWay(u)' <=> UnderWay(u))
    BY <1>2, <2>3 DEF UnderWay, Inside
  <2>5. MessagesUnderWay' = MessagesUnderWay \union {[msg |-> messages', lvl |-> lvl]}
    BY <2>3, <2>4 DEF MessagesUnderWay
  <2>6. PublishedLog' = PublishedLog
    <3>1. \A u \in Threads : (Inside(u)' <=> Inside(u)) /\ (Inside(u) => call'[u].msg = call[u].msg)
      BY <1>2, <2>3 DEF Inside
    <3> QED BY <1>2, <3>1, PublishedKept
  <2>7. \A p \in MessagesUnderWay : p.msg # messages'
    <3>1. \A u \in Threads : UnderWay(u) => call[u].msg # messages'
      BY <1>1, <1>2, RestTyped DEF LogInv, Order, OwnMessages, Busy, UnderWay, Inside
    <3> QED BY <3>1 DEF MessagesUnderWay
  <2>8. ASSUME NEW h \in Handlers, NEW i \in DOMAIN PublishedLog[h] PROVE PublishedLog[h][i] # messages'
    <3>1. log[h] \in Seq(Nat) /\ \A k \in DOMAIN log[h] : log[h][k] # messages'
      BY <1>1, <1>2 DEF LogInv, Order, Counted
    <3>2. PublishedLog[h] = log[h] \/ (log[h] # << >> /\ PublishedLog[h] = Front(log[h]))
      BY DEF PublishedLog
    <3> QED BY <2>8, <3>1, <3>2, FrontProperties
  <2>9. lvl >= level
    BY <1>1, <1>4
  <2> QED BY <1>2, <2>5, <2>6, <2>7, <2>8, <2>9 DEF Contract!Accept
<1> QED BY <1>3, <1>4

(* What is written directly is none of the messages of LogMessage. *)
LEMMA WriteDirectlyMaps ==
  ASSUME LogInv, [Next]_vars, NEW t \in Threads, NEW lvl \in Levels, WriteDirectly(t, lvl)
  PROVE  Stutters
<1>1. call \in [Threads -> ACall] /\ << >> \in Seq(Handlers) /\ messages' \in Nat
      /\ "write" \in {"lock", "write", "set", "setHandler"}
  BY DEF LogInv, Typed, WriteDirectly
<1>2. call' = [call EXCEPT ![t] = Calling("write", messages', lvl, << >>)] /\ call[t].at = "idle"
      /\ UNCHANGED <<handlers, log, level, wanted>> /\ Settled' = Settled
  BY SettledKept DEF WriteDirectly, UnchangedLevels
<1>3. call'[t].at = "write" /\ call'[t].rest = << >> /\ \A u \in Threads : u # t => call'[u] = call[u]
  BY <1>1, <1>2, Calls
<1>4. Undisturbed
  BY <1>2, <1>3 DEF Undisturbed, UnderWay, Inside
<1> QED BY <1>2, <1>4, UndisturbedKeeps DEF Stutters

LEMMA HandlersMap ==
  ASSUME LogInv, [Next]_vars, NEW t \in Threads
  PROVE  /\ \A h \in Handlers : RegisterLogHandler(t, h) => Contract!Register(h)
         /\ \A h \in Handlers : RemoveLogHandler(t, h) => Contract!Remove(h)
         /\ ClearLogHandlers(t) => Contract!Clear
<1>1. handlers \in Seq(Handlers) /\ Settled' = Settled
  BY SettledKept DEF LogInv, Typed
<1>2. ASSUME UNCHANGED <<call, log>> PROVE UNCHANGED <<MessagesUnderWay, PublishedLog>>
  BY <1>2, SameCalls, UndisturbedKeeps
<1>3. ASSUME NEW h \in Handlers, RegisterLogHandler(t, h) PROVE Contract!Register(h)
  <2>1. /\ UNCHANGED <<MessagesUnderWay, PublishedLog, level, wanted>>
        /\ handlers' = Append(handlers, h) /\ \A g \in ToSet(handlers) : ~Equal(g, h)
    BY <1>2, <1>3 DEF RegisterLogHandler, UnchangedLevels
  <2>2. ToSet(Append(handlers, h)) = ToSet(handlers) \union {h}
    <3>1. /\ DOMAIN Append(handlers, h) = 1 .. Len(handlers) + 1 /\ DOMAIN handlers = 1 .. Len(handlers)
          /\ Append(handlers, h)[Len(handlers) + 1] = h /\ Len(handlers) \in Nat
          /\ \A k \in DOMAIN handlers : Append(handlers, h)[k] = handlers[k]
      BY <1>1
    <3>2. ASSUME NEW x \in ToSet(Append(handlers, h)) PROVE x \in ToSet(handlers) \union {h}
      <4>1. PICK k \in DOMAIN Append(handlers, h) : Append(handlers, h)[k] = x
        BY DEF ToSet
      <4> QED BY <3>1, <4>1 DEF ToSet
    <3>3. ASSUME NEW x \in ToSet(handlers) \union {h} PROVE x \in ToSet(Append(handlers, h))
      BY <3>1 DEF ToSet
    <3> QED BY <3>2, <3>3
  <2> QED BY <1>1, <2>1, <2>2 DEF Contract!Register, Contract!UnchangedMessages, Contract!Equal, Equal
<1>4. ASSUME NEW h \in Handlers, RemoveLogHandler(t, h) PROVE Contract!Remove(h)
  <2>1. UNCHANGED <<MessagesUnderWay, PublishedLog, level, wanted>>
    BY <1>2, <1>4 DEF RemoveLogHandler, UnchangedLevels
  <2>2. PICK i \in DOMAIN handlers : Equal(handlers[i], h) /\ handlers' = RemoveAt(handlers, i)
    BY <1>4 DEF RemoveLogHandler
  <2>3. ToSet(handlers') = ToSet(handlers) \ {handlers[i]}
    <3>1. /\ DOMAIN handlers' = 1 .. Len(handlers) - 1 /\ DOMAIN handlers = 1 .. Len(handlers) /\ Len(handlers) \in Nat
          /\ i \in 1 .. Len(handlers)
          /\ \A j \in 1 .. Len(handlers) - 1 : handlers'[j] = IF j < i THEN handlers[j] ELSE handlers[j + 1]
      <4>1. handlers' \in Seq(Handlers) /\ Len(handlers') = Len(handlers) - 1
        BY <1>1, <2>2, Removed
      <4>2. \A j \in 1 .. Len(handlers) - 1 : handlers'[j] = IF j < i THEN handlers[j] ELSE handlers[j + 1]
        BY <1>1, <2>2, Removed
      <4> QED BY <1>1, <4>1, <4>2
    <3>2. \A k \in DOMAIN handlers : handlers[k] = handlers[i] => k = i
      BY DEF LogInv, NoTwins, Equal
    <3>3. ASSUME NEW j \in DOMAIN handlers' PROVE handlers'[j] \in ToSet(handlers) \ {handlers[i]}
      <4>1. PICK k \in DOMAIN handlers : k # i /\ handlers'[j] = handlers[k]
        BY <3>1
      <4> QED BY <3>2, <4>1 DEF ToSet
    <3>4. ASSUME NEW k \in DOMAIN handlers, k # i PROVE handlers[k] \in ToSet(handlers')
      <4>1. CASE k < i
        <5>1. k \in DOMAIN handlers' /\ handlers'[k] = handlers[k]
          BY <3>1, <4>1
        <5> QED BY <5>1 DEF ToSet
      <4>2. CASE k > i
        <5>1. k - 1 \in DOMAIN handlers' /\ handlers'[k - 1] = handlers[k]
          BY <3>1, <4>2
        <5> QED BY <5>1 DEF ToSet
      <4> QED BY <3>1, <3>4, <4>1, <4>2
    <3>5. ToSet(handlers') \subseteq ToSet(handlers) \ {handlers[i]}
      BY <3>3 DEF ToSet
    <3>6. ToSet(handlers) \ {handlers[i]} \subseteq ToSet(handlers')
      BY <3>4 DEF ToSet
    <3> QED BY <3>5, <3>6
  <2>4. handlers[i] \in ToSet(handlers)
    BY DEF ToSet
  <2> QED BY <1>1, <2>1, <2>2, <2>3, <2>4 DEF Contract!Remove, Contract!UnchangedMessages, Contract!Equal, Equal
<1>5. ASSUME ClearLogHandlers(t) PROVE Contract!Clear
  <2>1. UNCHANGED <<MessagesUnderWay, PublishedLog, level, wanted>> /\ handlers' = << >>
    BY <1>2, <1>5 DEF ClearLogHandlers, UnchangedLevels
  <2>2. ToSet(handlers') = {}
    BY <2>1 DEF ToSet
  <2> QED BY <1>1, <2>1, <2>2 DEF Contract!Clear, Contract!UnchangedMessages
<1> QED BY <1>3, <1>4, <1>5

LEMMA LevelsMap ==
  ASSUME LogInv, [Next]_vars, NEW t \in Threads
  PROVE  /\ \A lvl \in Levels : SetGlobalLogLevel(t, lvl) => Contract!SetLevel
         /\ RestoreLevel(t) => Contract!SetLevel
         /\ \A h \in Tunable : ClearLogLevel(t, h) => Contract!SetHandlerLevel(h)
<1>1. Settled' = Settled /\ level' \in Levels
  BY SettledKept, LevelsTyped DEF LogInv
<1>2. ASSUME UNCHANGED <<call, log>> PROVE UNCHANGED <<MessagesUnderWay, PublishedLog>>
  BY <1>2, SameCalls, UndisturbedKeeps
<1>3. ASSUME UNCHANGED <<call, log, handlers, wanted>> PROVE Contract!SetLevel
  BY <1>1, <1>2, <1>3 DEF Contract!SetLevel, Contract!UnchangedMessages
<1>4. ASSUME NEW h \in Tunable, ClearLogLevel(t, h) PROVE Contract!SetHandlerLevel(h)
  BY <1>1, <1>2, <1>4 DEF ClearLogLevel, Contract!SetHandlerLevel, Contract!UnchangedMessages
<1> QED BY <1>3, <1>4 DEF SetGlobalLogLevel, RestoreLevel

(* A thread that sets a level is not under way. *)
LEMMA QuietMaps ==
  ASSUME LogInv, [Next]_vars, NEW t \in Threads, Quiet(t)
  PROVE  Stutters \/ Contract!SetLevel \/ \E h \in Handlers : Contract!SetHandlerLevel(h)
<1>1. Settled' = Settled /\ level' \in Levels
  BY SettledKept, LevelsTyped DEF LogInv
<1>2. Undisturbed /\ UNCHANGED <<handlers, log>>
  BY DEF Quiet, Outside, Others, Undisturbed, UnderWay, Inside
<1>3. UNCHANGED <<MessagesUnderWay, PublishedLog>>
  BY <1>2, UndisturbedKeeps
<1>4. CASE SetOwnLevel(t)
  BY <1>1, <1>2, <1>3, <1>4 DEF SetOwnLevel, Contract!SetLevel, Contract!UnchangedMessages
<1>5. CASE SetHandlerLevel(t)
  <2>1. PICK h \in Handlers : call[t].rest = <<h>>
    BY <1>5 DEF SetHandlerLevel, LogInv, Typed
  <2>2. Current(t) = h /\ call[t].lvl \in Levels
    BY <1>5, <2>1 DEF Current, SetHandlerLevel, LogInv, Typed
  <2>3. wanted' = [wanted EXCEPT ![h] = call[t].lvl] /\ level' = level
    BY <1>5, <2>2 DEF SetHandlerLevel
  <2> QED BY <1>1, <1>2, <1>3, <2>2, <2>3 DEF Contract!SetHandlerLevel, Contract!UnchangedMessages
<1>6. CASE (\E lvl \in Levels : ReadOriginalLevel(t, lvl)) \/ \E h \in Tunable, lvl \in Levels : SetHandlerFlag(t, h, lvl)
  BY <1>1, <1>2, <1>3, <1>6 DEF ReadOriginalLevel, SetHandlerFlag, Stutters
<1> QED BY <1>4, <1>5, <1>6 DEF Quiet

(* Handlers are called: nothing of it is seen before they are unlocked. *)
LEMMA CallsMap ==
  ASSUME LogInv, LogInv', [Next]_vars, NEW t \in Threads,
         Locks(t) \/ Skips(t) \/ Writes(t) \/ Lines(t) \/ Puts(t) \/ Ends(t)
  PROVE  Stutters
<1>1. Settled' = Settled /\ UNCHANGED <<handlers, level, wanted>>
  BY SettledKept DEF Locks, Skips, Writes, Lines, Puts, Ends, UnchangedLevels
<1>2. \A u \in Threads : u # t => call'[u] = call[u]
  BY DEF Locks, Skips, Writes, Lines, Puts, Ends, To, Back, Others
<1>3. MessagesUnderWay' = MessagesUnderWay
  <2>1. UnderWay(t)' <=> UnderWay(t)
    BY DEF Locks, Skips, Writes, Lines, Puts, Ends, To, Back, UnderWay, Inside
  <2>2. UnderWay(t) => call'[t].msg = call[t].msg /\ call'[t].lvl = call[t].lvl
    BY DEF Locks, Skips, Writes, Lines, Puts, Ends, To, Back, UnderWay, Inside
  <2>3. ASSUME NEW u \in Threads
        PROVE  (UnderWay(u)' <=> UnderWay(u)) /\ (UnderWay(u) => call'[u].msg = call[u].msg /\ call'[u].lvl = call[u].lvl)
    BY <1>2, <2>1, <2>2 DEF UnderWay, Inside
  <2> QED BY <2>3, UnderWayKept
<1>4. PublishedLog' = PublishedLog
  <2>1. CASE Skips(t) \/ Writes(t) \/ Lines(t) \/ Ends(t)
    <3>1. log' = log /\ (Inside(t)' <=> Inside(t)) /\ (Inside(t) => call'[t].msg = call[t].msg)
      BY <2>1 DEF Skips, Writes, Lines, Ends, To, Back, Inside
    <3>2. \A u \in Threads : (Inside(u)' <=> Inside(u)) /\ (Inside(u) => call'[u].msg = call[u].msg)
      BY <1>2, <3>1 DEF Inside
    <3> QED BY <3>1, <3>2, PublishedKept
  <2>2. CASE Locks(t)
    <3>1. Inside(t)' /\ call[t].at = "lock" /\ call'[t].msg = call[t].msg /\ log' = log /\ \A u \in Threads : ~Inside(u)
      BY <2>2 DEF Locks, To, Inside, LogInv, Places, Guarded
    <3>2. PublishedLog = log
      BY <3>1, PublishedOutside DEF LogInv
    <3>3. \A u \in Threads : Inside(u)' => u = t
      BY <1>2, <3>1 DEF Inside
    <3>4. \A h \in Handlers : \A i \in DOMAIN log[h] : log[h][i] # call[t].msg
      BY <3>1 DEF LogInv, Order, LockNew, Has
    <3>5. \A h \in Handlers : log[h] # << >> => Last(log[h]) # call[t].msg
      <4> TAKE h \in Handlers
      <4> HAVE log[h] # << >>
      <4>1. log[h] \in Seq(Nat)
        BY DEF LogInv, Typed
      <4>2. Len(log[h]) \in DOMAIN log[h]
        BY <4>1
      <4> QED BY <3>4, <4>2 DEF Last
    <3>6. PublishedLog' = [h \in Handlers |-> log[h]]
      BY <3>1, <3>3, <3>5 DEF PublishedLog
    <3> QED BY <3>2, <3>6 DEF LogInv, Typed
  <2>3. CASE Puts(t)
    <3> DEFINE g == Current(t)
               m == call[t].msg
    <3>1. /\ Inside(t) /\ Inside(t)' /\ call[t].rest # << >> /\ call'[t].msg = m /\ log' = Output(t)
      BY <2>3 DEF Puts, To, Inside
    <3>2. g \in Handlers /\ ToCome(t, g)
      BY <3>1, RestTyped, TailTyped DEF ToCome, LogInv
    <3>3. ~Has(g, m)
      BY <3>1, <3>2 DEF LogInv, Order, Newest
    <3>4. log'[g] = Append(log[g], m) /\ \A h \in Handlers : h # g => log'[h] = log[h]
      BY <3>1, Outputs DEF LogInv
    <3>5. log[g] \in Seq(Nat) /\ m \in Nat
      BY <3>2, RestTyped DEF LogInv, Typed
    <3>6. \A h \in Handlers : PublishedLog[h] = IF Has(h, m) THEN Front(log[h]) ELSE log[h]
      BY <3>1, PublishedInside
    <3> DEFINE HasThen(h) == \E i \in DOMAIN log'[h] : log'[h][i] = m
    <3>7. ASSUME NEW h \in Handlers PROVE PublishedLog'[h] = IF HasThen(h) THEN Front(log'[h]) ELSE log'[h]
      <4>1. \A u \in Threads : Inside(u) => u = t
        BY <3>1 DEF LogInv, Places, Alone
      <4>2. \A u \in Threads : Inside(u)' => u = t
        BY <1>2, <4>1 DEF Inside
      <4>3. log'[h] \in Seq(Nat)
        BY DEF LogInv, Typed
      <4>4. \A i \in DOMAIN log'[h] : log'[h][i] = m => i = Len(log'[h])
        BY <3>1 DEF LogInv, Order, Newest
      <4>5. log'[h] # << >> => Len(log'[h]) \in DOMAIN log'[h]
        BY <4>3
      <4>6. HasThen(h) <=> log'[h] # << >> /\ Last(log'[h]) = m
        BY <4>3, <4>4, <4>5 DEF Last
      <4>7. PublishedLog'[h] = IF log'[h] # << >> /\ Last(log'[h]) = m THEN Front(log'[h]) ELSE log'[h]
        BY <3>1, <4>2 DEF PublishedLog
      <4> QED BY <4>6, <4>7
    <3> HIDE DEF g, m
    <3>8. HasThen(g)
      <4>1. Len(log[g]) + 1 \in DOMAIN Append(log[g], m) /\ Append(log[g], m)[Len(log[g]) + 1] = m
        BY <3>5
      <4> QED BY <3>4, <4>1
    <3>9. PublishedLog'[g] = log[g]
      BY <3>2, <3>4, <3>5, <3>7, <3>8, FrontOfAppend
    <3>10. \A h \in Handlers : h # g => PublishedLog'[h] = PublishedLog[h]
      BY <3>4, <3>6, <3>7 DEF Has
    <3>11. \A h \in Handlers : PublishedLog'[h] = PublishedLog[h]
      BY <3>2, <3>3, <3>6, <3>9, <3>10
    <3>12. PublishedLog' = [h \in Handlers |-> PublishedLog'[h]] /\ PublishedLog = [h \in Handlers |-> PublishedLog[h]]
      BY DEF PublishedLog
    <3> QED BY <3>11, <3>12
  <2> QED BY <2>1, <2>2, <2>3
<1> QED BY <1>1, <1>3, <1>4 DEF Stutters

(* All handlers have been called: the message is put out by those that have it. *)
LEMMA UnlocksMap ==
  ASSUME LogInv, LogInv', Delivered, [Next]_vars, NEW t \in Threads, Unlocks(t)
  PROVE  \E p \in MessagesUnderWay : Contract!Publish(p)
<1> DEFINE m == call[t].msg
           lvl == call[t].lvl
           p == [msg |-> m, lvl |-> lvl]
           H == {h \in Handlers : Has(h, m)}
<1>1. /\ Inside(t) /\ UnderWay(t) /\ call[t].rest = << >> /\ ~Inside(t)' /\ ~UnderWay(t)' /\ log' = log
      /\ UNCHANGED <<handlers, level, wanted>> /\ \A u \in Threads : u # t => call'[u] = call[u]
  BY DEF Unlocks, Back, Others, UnderWay, Inside, UnchangedLevels
<1>2. p \in MessagesUnderWay
  BY <1>1 DEF MessagesUnderWay
<1>3. MessagesUnderWay' = MessagesUnderWay \ {p}
  <2>1. \A u \in Threads : UnderWay(u) /\ u # t => call[u].msg # m
    BY <1>1 DEF LogInv, Order, OwnMessages, Busy, UnderWay, Inside
  <2>2. \A u \in Threads : u # t => (UnderWay(u)' <=> UnderWay(u))
    BY <1>1 DEF UnderWay, Inside
  <2>3. ASSUME NEW q \in MessagesUnderWay' PROVE q \in MessagesUnderWay \ {p}
    <3>1. PICK u \in Threads : UnderWay(u)' /\ q = [msg |-> call'[u].msg, lvl |-> call'[u].lvl]
      BY <2>3 DEF MessagesUnderWay
    <3>2. u # t /\ UnderWay(u) /\ call'[u] = call[u]
      BY <1>1, <2>2, <3>1
    <3>3. q \in MessagesUnderWay
      BY <3>1, <3>2 DEF MessagesUnderWay
    <3>4. q # p
      BY <2>1, <3>1, <3>2
    <3> QED BY <3>3, <3>4
  <2>4. ASSUME NEW q \in MessagesUnderWay \ {p} PROVE q \in MessagesUnderWay'
    <3>1. PICK u \in Threads : UnderWay(u) /\ q = [msg |-> call[u].msg, lvl |-> call[u].lvl]
      BY <2>4 DEF MessagesUnderWay
    <3>2. u # t
      BY <2>4, <3>1
    <3>3. UnderWay(u)' /\ call'[u] = call[u]
      BY <1>1, <2>2, <3>1, <3>2
    <3> QED BY <3>1, <3>3 DEF MessagesUnderWay
  <2> QED BY <2>3, <2>4
<1>4. DeliveredBy(t)
  BY <1>1 DEF Delivered
<1>5. \A h \in Handlers : Served(t, h) <=> h \in ToSet(handlers)
  BY <1>1 DEF Served, ToCome
<1>6. H \in SUBSET ToSet(handlers)
  BY <1>4, <1>5 DEF DeliveredBy
<1>7. Settled => H = {h \in ToSet(handlers) : Contract!Hears(h, lvl)}
  <2>1. ToSet(handlers) \subseteq Handlers
    BY DEF LogInv, Typed, ToSet
  <2> QED BY <1>4, <1>5, <2>1 DEF DeliveredBy
<1>8. PublishedLog' = [h \in Handlers |-> IF h \in H THEN Append(PublishedLog[h], m) ELSE PublishedLog[h]]
  <2>1. \A u \in Threads : ~Inside(u)'
    BY <1>1 DEF LogInv, Places, Alone, Inside
  <2>2. PublishedLog' = log'
    <3>1. \A h \in Handlers : PublishedLog'[h] = log'[h]
      BY <2>1 DEF PublishedLog
    <3>2. PublishedLog' = [h \in Handlers |-> PublishedLog'[h]]
      BY DEF PublishedLog
    <3> QED BY <3>1, <3>2 DEF LogInv, Typed
  <2>3. ASSUME NEW h \in Handlers
        PROVE  log[h] = IF h \in H THEN Append(PublishedLog[h], m) ELSE PublishedLog[h]
    <3>1. log[h] \in Seq(Nat)
      BY DEF LogInv, Typed
    <3>2. /\ Has(h, m) => log[h] # << >> /\ log[h][Len(log[h])] = m
          /\ PublishedLog[h] = IF Has(h, m) THEN Front(log[h]) ELSE log[h]
      BY <1>1, PublishedInside
    <3> QED BY <3>1, <3>2, FrontProperties
  <2> HIDE DEF H, m
  <2> QED BY <1>1, <2>2, <2>3 DEF LogInv, Typed
<1>9. UNCHANGED <<ToSet(handlers), level, wanted, Settled>>
  BY <1>1, SettledKept
<1>10. p.msg = m /\ p.lvl = lvl
  OBVIOUS
<1> HIDE DEF p, H, m, lvl
<1>11. Contract!Publish(p)
  BY <1>3, <1>6, <1>7, <1>8, <1>9, <1>10 DEF Contract!Publish
<1> QED BY <1>2, <1>11

LEMMA NextMaps ==
  ASSUME LogInv, LogInv', Delivered, [Next]_vars
  PROVE  [Contract!Next]_(Contract!vars)
<1> DEFINE Maps == Stutters \/ Contract!Next
<1>1. Typed
  BY DEF LogInv
<1>2. ASSUME NEW t \in Threads, Effect(t), ~Starts(t) PROVE Maps
  <2>1. CASE Quiet(t)
    BY <2>1, QuietMaps DEF Contract!Next
  <2>2. CASE Unlocks(t)
    BY <2>2, UnlocksMap DEF Contract!Next
  <2>3. CASE Locks(t) \/ Skips(t) \/ Writes(t) \/ Lines(t) \/ Puts(t) \/ Ends(t)
    BY <2>3, CallsMap
  <2> QED BY <1>2, <2>1, <2>2, <2>3 DEF Effect
<1>3. ASSUME NEW t \in Threads, Continue(t) PROVE Maps
  <2>1. Effect(t)
    BY <1>1, <1>3, ContinueEffect
  <2>2. ~Starts(t)
    BY <1>3 DEF Starts, Continue, LockHandlers, CallHandler, BeginLine, EndLine, UnlockHandlers, SetOwnLevel, SetHandlerLevel
  <2> QED BY <1>2, <2>1, <2>2
<1>4. ASSUME NEW t \in Threads, NEW lvl \in Levels, LogMessage(t, lvl) \/ WriteDirectly(t, lvl) PROVE Maps
  BY <1>4, LogMessageMaps, WriteDirectlyMaps DEF Contract!Next
<1>5. ASSUME NEW t \in Threads, NEW h \in Handlers, RegisterLogHandler(t, h) \/ RemoveLogHandler(t, h) PROVE Maps
  BY <1>5, HandlersMap DEF Contract!Next
<1>6. ASSUME NEW t \in Threads, ClearLogHandlers(t) PROVE Maps
  BY <1>6, HandlersMap DEF Contract!Next
<1>7. ASSUME NEW t \in Threads, RestoreLevel(t) \/ (\E lvl \in Levels : SetGlobalLogLevel(t, lvl)) PROVE Maps
  BY <1>7, LevelsMap DEF Contract!Next
<1>8. ASSUME NEW t \in Threads, NEW h \in Tunable, ClearLogLevel(t, h) PROVE Maps
  BY <1>8, LevelsMap, HandlersAssumption DEF Contract!Next
<1>9. ASSUME NEW t \in Threads,
             (\E lvl \in Levels : ReadOriginalLevel(t, lvl)) \/ \E h \in Tunable, lvl \in Levels : SetHandlerFlag(t, h, lvl)
      PROVE  Maps
  <2>1. Begin(t)
    BY <1>9 DEF Begin
  <2>2. messages' = messages
    BY <1>9 DEF ReadOriginalLevel, SetHandlerFlag
  <2>3. ~Starts(t) /\ ~Drops
    BY <1>1, <2>2 DEF Starts, Drops, Typed
  <2>4. call[t].at = "idle" /\ call'[t].at # "idle"
    BY <1>9 DEF ReadOriginalLevel, SetHandlerFlag, Calling, LogInv, Typed
  <2>5. Effect(t)
    BY <1>1, <2>1, <2>3, <2>4, BeginEffect DEF Changes, Nothing
  <2> QED BY <1>2, <2>3, <2>5
<1>10. ASSUME UNCHANGED vars PROVE Maps
  <2>1. UNCHANGED <<MessagesUnderWay, PublishedLog, Settled>>
    BY <1>10, SameCalls, UndisturbedKeeps DEF vars, Settled, Without
  <2> QED BY <1>10, <2>1 DEF vars, Stutters
<1>11. Maps
  BY <1>3, <1>4, <1>5, <1>6, <1>7, <1>8, <1>9, <1>10 DEF Next, Begin
<1> QED BY <1>11 DEF Stutters, Contract!vars

\* "The class is thread-safe" (LogManager.h): with whatever threads log, register, remove
\* and set levels, LogManager behaves as if every message were put out at once, by the
\* handlers registered at that moment that do not hide it, and never by any other.
THEOREM ImplementsLogContract == Spec => MessagesKeepContract
<1>1. Init => Contract!Init /\ Delivered
  <2>1. Init => Delivered
    BY IdleTyped DEF Init, Delivered, Inside
  <2> QED BY <2>1, InitMaps
<1>2. LogInv /\ LogInv' /\ Delivered /\ [Next]_vars => Delivered' /\ [Contract!Next]_(Contract!vars)
  BY DeliveredStep, NextMaps
<1> QED BY <1>1, <1>2, Holds, PTL DEF Spec, MessagesKeepContract, Contract!Spec

-----------------------------------------------------------------------------
(* Messages are numbered from 1 on. *)

Numbered ==
  /\ \A t \in Threads : Busy(t) => call[t].msg >= 1
  /\ \A h \in Handlers : \A i \in DOMAIN log[h] : log[h][i] >= 1

LEMMA NumberedStep == LogInv /\ Numbered /\ [Next]_vars => Numbered'
<1> SUFFICES ASSUME LogInv, Numbered, [Next]_vars PROVE Numbered'
  OBVIOUS
<1>1. Typed /\ messages \in Nat /\ log \in [Handlers -> Seq(Nat)]
  BY DEF LogInv, Typed
<1>2. CASE Drops \/ Changes \/ Nothing
  BY <1>2 DEF Drops, Changes, Nothing, Numbered, Busy
<1>3. ASSUME NEW t \in Threads, Effect(t) PROVE Numbered'
  <2>1. \A u \in Threads : u # t => call'[u] = call[u]
    BY <1>3, OthersStay DEF Others
  <2>2. Busy(t)' => call'[t].msg >= 1
    <3>1. CASE Starts(t)
      BY <1>1, <3>1 DEF Starts
    <3>2. CASE ~Starts(t)
      BY <1>3, <3>2
      DEF Effect, Locks, Skips, Writes, Lines, Puts, Ends, Unlocks, Quiet, To, Back, Busy, Numbered
    <3> QED BY <3>1, <3>2
  <2>3. ASSUME NEW h \in Handlers, NEW i \in DOMAIN log'[h] PROVE log'[h][i] >= 1
    <3>1. CASE UNCHANGED log
      BY <2>3, <3>1 DEF Numbered
    <3>2. CASE Puts(t)
      <4> DEFINE g == Current(t)
                 m == call[t].msg
      <4>1. log'[g] = Append(log[g], m) /\ \A k \in Handlers : k # g => log'[k] = log[k]
        BY <1>1, <3>2, Outputs DEF Puts
      <4>2. g \in Handlers /\ m \in Nat /\ m >= 1 /\ log[g] \in Seq(Nat)
        BY <1>1, <3>2, RestTyped DEF Puts, Busy, Numbered
      <4> HIDE DEF g, m
      <4>3. CASE h = g
        BY <2>3, <4>1, <4>2, <4>3 DEF Numbered
      <4>4. CASE h # g
        BY <2>3, <4>1, <4>4 DEF Numbered
      <4> QED BY <4>3, <4>4
    <3> QED BY <1>3, <3>1, <3>2 DEF Effect, Starts, Locks, Skips, Writes, Lines, Ends, Unlocks, Quiet
  <2> QED BY <2>1, <2>2, <2>3 DEF Numbered, Busy
<1> QED BY <1>1, <1>2, <1>3, StepEffect

\* Handlers are only ever given messages that were logged, and all the rest is of its
\* type: LogManager, its handlers and its threads (LogManager.cpp, LogHandler.cpp).
THEOREM TypeCorrect == Spec => []TypeOK
<1>1. Init => Numbered
  BY IdleTyped DEF Init, Numbered, Busy
<1>2. ASSUME LogInv, Numbered PROVE TypeOK
  <2>1. Typed
    BY <1>2 DEF LogInv
  <2>2. \A s \in Seq(Handlers) : ToSet(s) \subseteq Handlers
    BY DEF ToSet
  <2>3. ASSUME NEW h \in Handlers PROVE ToSet(log[h]) \subseteq 1 .. messages
    <3>1. \A i \in DOMAIN log[h] : log[h][i] \in Nat /\ log[h][i] >= 1 /\ log[h][i] <= messages
      BY <1>2, <2>1 DEF LogInv, Order, Counted, Numbered, Typed
    <3>2. \A i \in DOMAIN log[h] : log[h][i] \in 1 .. messages
      BY <2>1, <3>1 DEF Typed
    <3> QED BY <3>2 DEF ToSet
  <2>4. ASSUME NEW t \in Threads
        PROVE  /\ call[t].at \in {"idle", "lock", "deliver", "write", "line", "set", "setHandler"}
               /\ call[t].lvl \in MaybeLevel /\ ToSet(call[t].rest) \subseteq Handlers
    BY <2>1, <2>2 DEF Typed, ACall
  <2>5. \A s \in Streams : streamMutex[s] \subseteq Threads
    BY <2>1 DEF Typed
  <2>6. \A t \in Threads : ToSet(saved[t]) \subseteq Levels
    BY <2>1 DEF Typed, ToSet
  <2> QED BY <2>1, <2>2, <2>3, <2>4, <2>5, <2>6 DEF Typed, TypeOK
<1> QED BY <1>1, <1>2, NumberedStep, Holds, PTL DEF Spec
=============================================================================

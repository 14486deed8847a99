------------------------------- MODULE Logging -------------------------------
(***************************************************************************)
(* exodbc::LogManager and its LogHandlers (src/LogManager.cpp,             *)
(* src/LogHandler.cpp) used by several threads.  A step is what happens    *)
(* between two acquisitions of a mutex; a function that takes one mutex,   *)
(* does not block in it and returns is a single step.                      *)
(***************************************************************************)
EXTENDS Integers, Sequences, FiniteSets, SequencesExt

CONSTANTS
  Threads,
  Handlers,     \* LogHandler objects
  StdHandlers,  \* the StdLogHandlers among them; they are all equal
  Tunable,      \* handlers that may get a custom level
  Levels,       \* of messages, ordered as enum class LogLevel
  Warning,      \* from here on StdLogHandler writes to stderr
  MaxMessages,  \* bound on the messages logged
  MaxSetters,   \* bound on the LogLevelSetters constructed
  NoLevel,      \* no custom level
  FaultSets     \* the sets of faults to be considered, below

(***************************************************************************)
(* What the code leaves to chance and to its callers; chosen at first and  *)
(* kept.                                                                   *)
(*   "uninit"    LogHandlerBase() leaves m_hasCustomLogLevel and           *)
(*               m_customLogLevel as it finds them                         *)
(*   "setters"   LogLevelSetters live in several threads at once           *)
(*   "custom"    a handler gets a custom level while messages are logged   *)
(***************************************************************************)
FaultKinds == {"uninit", "setters", "custom"}

ASSUME HandlersAssumption == StdHandlers \subseteq Handlers /\ Tunable \subseteq Handlers
ASSUME LevelsAssumption == Levels \subseteq Nat /\ Levels # {} /\ NoLevel \notin Levels
ASSUME BoundsAssumption == MaxMessages \in Nat /\ MaxSetters \in Nat
ASSUME FaultsAssumption == FaultSets \subseteq SUBSET FaultKinds

VARIABLES
  handlers,   \* m_logHandlers
  level,      \* m_globalLogLevel
  hasCustom,  \* m_hasCustomLogLevel of each handler
  custom,     \* m_customLogLevel of each handler
  handlersMutex, \* the threads in m_logHandlersMutex
  streamMutex,   \* the threads in m_stderrMutex and m_stdoutMutex
  call,       \* where each thread is
  saved,      \* m_originalLogLevel of the LogLevelSetters of each thread, the oldest first
  log,        \* messages each handler has put out, in order
  wanted,     \* the custom level each handler was given by a call that returned
  baseLevel,  \* the level from before the setters alive, or the level set since
  messages, setters, \* how many there have been
  faults      \* what happens beyond the discipline in this behaviour

vars == <<handlers, level, hasCustom, custom, handlersMutex, streamMutex, call, saved, log,
          wanted, baseLevel, messages, setters, faults>>

Streams == {"stderr", "stdout"}
Calling(at, msg, lvl, rest) == [at |-> at, msg |-> msg, lvl |-> lvl, rest |-> rest]
Idle == Calling("idle", 0, NoLevel, <<>>)
MaybeLevel == Levels \union {NoLevel}

-----------------------------------------------------------------------------
(* State formulae *)

\* operator== of the handlers; files are told apart by their paths.
Equal(g, h) == g = h \/ {g, h} \subseteq StdHandlers

\* CustomLogLevelHidesMsg
Hides(h, lvl) == hasCustom[h] /\ lvl < custom[h]

\* The handler whose OnLogMessage thread t is in.
Current(t) == Head(call[t].rest)

\* m_logHandlersMutex, and the mutex of a stream, can be locked.
HandlersNotGuarded == TRUE                          \* slip: no mutex
HandlersFree == handlersMutex = {}
OtherStreamFree(s) == streamMutex["stderr"] = {}    \* slip: one mutex checked for both
StreamFree(s) == streamMutex[s] = {}

\* What the handler puts out.
Output(t) == [log EXCEPT ![Current(t)] = Append(@, call[t].msg)]

\* Where a StdLogHandler that is not redirected writes to.
StreamOf(lvl) == IF lvl >= Warning THEN "stderr" ELSE "stdout"

\* Thread t goes on with its message, and has yet to call the handlers in rest.
GoOn(t, at, rest) == call' = [call EXCEPT ![t] = Calling(at, call[t].msg, call[t].lvl, rest)]
GoTo(t, at) == GoOn(t, at, call[t].rest)
UnchangedLevels == UNCHANGED <<level, hasCustom, custom, saved, wanted, baseLevel, setters, faults>>

-----------------------------------------------------------------------------
\* The handlers exist, one of them has been registered by LogManager(), every
\* thread is outside of the library.
Init ==
  /\ faults \in FaultSets
  /\ \E h \in StdHandlers : handlers = <<h>>
  /\ level \in Levels
  /\ hasCustom \in IF "uninit" \in faults THEN [Handlers -> BOOLEAN] ELSE [Handlers -> {FALSE}]
  /\ custom \in IF "uninit" \in faults THEN [Handlers -> Levels]
                ELSE [Handlers -> {CHOOSE l \in Levels : TRUE}]
  /\ handlersMutex = {}
  /\ streamMutex = [s \in Streams |-> {}]
  /\ call = [t \in Threads |-> Idle]
  /\ saved = [t \in Threads |-> << >>]
  /\ log = [h \in Handlers |-> <<>>]
  /\ wanted = [h \in Handlers |-> NoLevel]
  /\ baseLevel = level
  /\ messages = 0
  /\ setters = 0

\* LogMessage compares the level under m_globalLogLevelMutex ...
LogMessage(t, lvl) ==
  /\ call[t].at = "idle"
  /\ messages < MaxMessages
  /\ "custom" \in faults \/ \A u \in Threads : call[u].at # "setHandler"
  /\ messages' = messages + 1
  /\ call' = IF lvl < level THEN call
             ELSE [call EXCEPT ![t] = Calling("lock", messages', lvl, <<>>)]
  /\ UNCHANGED <<handlers, handlersMutex, streamMutex, log>>
  /\ UnchangedLevels

\* Slip: the mutex is given back before the handlers are called.
LockHandlersBriefly(t) ==
  /\ call[t].at = "lock"
  /\ HandlersFree
  /\ GoOn(t, "deliver", handlers)
  /\ UNCHANGED <<handlers, handlersMutex, streamMutex, log, messages>>
  /\ UnchangedLevels

\* ... then locks m_logHandlersMutex and keeps it while it calls the handlers.
LockHandlers(t) ==
  /\ call[t].at = "lock"
  /\ HandlersFree
  /\ handlersMutex' = handlersMutex \union {t}
  /\ GoOn(t, "deliver", handlers)
  /\ UNCHANGED <<handlers, streamMutex, log, messages>>
  /\ UnchangedLevels

NextHandler(t) == GoOn(t, "deliver", Tail(call[t].rest))

\* OnLogMessage hides the message, or writes it: other handlers than the
\* StdLogHandler have a sink of their own.
CallHandler(t) ==
  /\ call[t].at = "deliver"
  /\ call[t].rest # <<>>
  /\ IF Hides(Current(t), call[t].lvl) THEN NextHandler(t) /\ UNCHANGED log
     ELSE IF Current(t) \in StdHandlers THEN GoTo(t, "write") /\ UNCHANGED log
     ELSE NextHandler(t) /\ log' = Output(t)
  /\ UNCHANGED <<handlers, handlersMutex, streamMutex, messages>>
  /\ UnchangedLevels

\* WriteStdErr and WriteStdOut: the message, and std::endl, under the mutex of
\* the stream.
BeginLine(t) ==
  LET s == StreamOf(call[t].lvl)
  IN  /\ call[t].at = "write"
      /\ StreamFree(s)
      /\ streamMutex' = [streamMutex EXCEPT ![s] = @ \union {t}]
      /\ GoTo(t, "line")
      /\ UNCHANGED <<handlers, handlersMutex, log, messages>>
      /\ UnchangedLevels

EndLine(t) ==
  LET s == StreamOf(call[t].lvl)
  IN  /\ call[t].at = "line"
      /\ streamMutex' = [streamMutex EXCEPT ![s] = @ \ {t}]
      /\ IF call[t].rest = <<>>
           THEN call' = [call EXCEPT ![t] = Idle] /\ UNCHANGED log
           ELSE NextHandler(t) /\ log' = Output(t)
      /\ UNCHANGED <<handlers, handlersMutex, messages>>
      /\ UnchangedLevels

\* Slip: the mutex stays locked.
ReturnWithoutUnlock(t) ==
  /\ call[t].at = "deliver"
  /\ call[t].rest = <<>>
  /\ call' = [call EXCEPT ![t] = Idle]
  /\ UNCHANGED <<handlers, handlersMutex, streamMutex, log, messages>>
  /\ UnchangedLevels

\* All handlers have been called.
UnlockHandlers(t) ==
  /\ call[t].at = "deliver"
  /\ call[t].rest = <<>>
  /\ handlersMutex' = handlersMutex \ {t}
  /\ call' = [call EXCEPT ![t] = Idle]
  /\ UNCHANGED <<handlers, streamMutex, log, messages>>
  /\ UnchangedLevels

\* WRITE_STDERR_ENDL or WRITE_STDOUT_ENDL used directly.
WriteDirectly(t, lvl) ==
  /\ call[t].at = "idle"
  /\ messages < MaxMessages
  /\ messages' = messages + 1
  /\ call' = [call EXCEPT ![t] = Calling("write", messages', lvl, <<>>)]
  /\ UNCHANGED <<handlers, handlersMutex, streamMutex, log>>
  /\ UnchangedLevels

-----------------------------------------------------------------------------
\* Slip: handlers are compared by identity.
RegisterOtherObject(t, h) ==
  /\ call[t].at = "idle"
  /\ HandlersFree
  /\ h \notin ToSet(handlers)
  /\ handlers' = Append(handlers, h)
  /\ UNCHANGED <<handlersMutex, streamMutex, call, log, messages>>
  /\ UnchangedLevels

\* RegisterLogHandler: only if no equal one is registered.
RegisterLogHandler(t, h) ==
  /\ call[t].at = "idle"
  /\ HandlersFree
  /\ \A g \in ToSet(handlers) : ~Equal(g, h)
  /\ handlers' = Append(handlers, h)
  /\ UNCHANGED <<handlersMutex, streamMutex, call, log, messages>>
  /\ UnchangedLevels

\* RemoveLogHandler: the first that is equal, if any.
RemoveLogHandler(t, h) ==
  /\ call[t].at = "idle"
  /\ HandlersFree
  /\ \E i \in DOMAIN handlers :
       /\ Equal(handlers[i], h)
       /\ \A j \in 1 .. i - 1 : ~Equal(handlers[j], h)
       /\ handlers' = RemoveAt(handlers, i)
  /\ UNCHANGED <<handlersMutex, streamMutex, call, log, messages>>
  /\ UnchangedLevels

\* Slip: the list is cleared without the mutex.
ClearUnguarded(t) ==
  /\ call[t].at = "idle"
  /\ handlers' = <<>>
  /\ UNCHANGED <<handlersMutex, streamMutex, call, log, messages>>
  /\ UnchangedLevels

\* ClearLogHandlers
ClearLogHandlers(t) ==
  /\ call[t].at = "idle"
  /\ HandlersFree
  /\ handlers' = <<>>
  /\ UNCHANGED <<handlersMutex, streamMutex, call, log, messages>>
  /\ UnchangedLevels

-----------------------------------------------------------------------------
NoSetterAlive == \A t \in Threads : saved[t] = << >>

\* SetGlobalLogLevel, while setters are alive or not.
SetGlobalLogLevel(t, lvl) ==
  /\ call[t].at = "idle"
  /\ level' = lvl
  /\ baseLevel' = IF NoSetterAlive THEN lvl ELSE baseLevel
  /\ UNCHANGED <<handlers, hasCustom, custom, handlersMutex, streamMutex, call, saved, log,
                 wanted, messages, setters, faults>>

\* LogLevelSetter: reads the level, ...
ReadOriginalLevel(t, lvl) ==
  /\ call[t].at = "idle"
  /\ setters < MaxSetters
  /\ "setters" \in faults \/ \A u \in Threads \ {t} : saved[u] = << >>
  /\ saved' = [saved EXCEPT ![t] = Append(@, level)]
  /\ setters' = setters + 1
  /\ call' = [call EXCEPT ![t] = Calling("set", 0, lvl, <<>>)]
  /\ UNCHANGED <<handlers, level, hasCustom, custom, handlersMutex, streamMutex, log, wanted,
                 baseLevel, messages, faults>>

\* Slip: the original level is read after the new one is set.
SetOwnLevelFirst(t) ==
  /\ call[t].at = "set"
  /\ level' = call[t].lvl
  /\ saved' = [saved EXCEPT ![t] = Append(Front(@), call[t].lvl)]
  /\ call' = [call EXCEPT ![t] = Idle]
  /\ UNCHANGED <<handlers, hasCustom, custom, handlersMutex, streamMutex, log, wanted,
                 baseLevel, messages, setters, faults>>

\* ... sets the one it was given, ...
SetOwnLevel(t) ==
  /\ call[t].at = "set"
  /\ level' = call[t].lvl
  /\ call' = [call EXCEPT ![t] = Idle]
  /\ UNCHANGED <<handlers, hasCustom, custom, handlersMutex, streamMutex, saved, log, wanted,
                 baseLevel, messages, setters, faults>>

\* ... and ~LogLevelSetter sets back what it has read; within a thread the
\* youngest goes first.
RestoreLevel(t) ==
  /\ call[t].at = "idle"
  /\ saved[t] # << >>
  /\ level' = Last(saved[t])
  /\ saved' = [saved EXCEPT ![t] = Front(@)]
  /\ UNCHANGED <<handlers, hasCustom, custom, handlersMutex, streamMutex, call, log, wanted,
                 baseLevel, messages, setters, faults>>

\* LogHandlerBase::SetLogLevel takes no mutex: first the flag, then the level.
SetHandlerFlag(t, h, lvl) ==
  /\ call[t].at = "idle"
  /\ "custom" \in faults \/ \A u \in Threads : call[u].at = "idle"
  /\ hasCustom' = [hasCustom EXCEPT ![h] = TRUE]
  /\ call' = [call EXCEPT ![t] = Calling("setHandler", 0, lvl, <<h>>)]
  /\ UNCHANGED <<handlers, level, custom, handlersMutex, streamMutex, saved, log, wanted,
                 baseLevel, messages, setters, faults>>

SetHandlerLevel(t) ==
  LET h == Current(t)
  IN  /\ call[t].at = "setHandler"
      /\ custom' = [custom EXCEPT ![h] = call[t].lvl]
      /\ wanted' = [wanted EXCEPT ![h] = call[t].lvl]
      /\ call' = [call EXCEPT ![t] = Idle]
      /\ UNCHANGED <<handlers, level, hasCustom, handlersMutex, streamMutex, saved, log,
                     baseLevel, messages, setters, faults>>

\* LogHandlerBase::ClearLogLevel
ClearLogLevel(t, h) ==
  /\ call[t].at = "idle"
  /\ "custom" \in faults \/ \A u \in Threads : call[u].at = "idle"
  /\ hasCustom' = [hasCustom EXCEPT ![h] = FALSE]
  /\ wanted' = [wanted EXCEPT ![h] = NoLevel]
  /\ UNCHANGED <<handlers, level, custom, handlersMutex, streamMutex, call, saved, log,
                 baseLevel, messages, setters, faults>>

-----------------------------------------------------------------------------
\* What a thread does to finish what it has begun.
Continue(t) ==
  \/ LockHandlers(t) \/ CallHandler(t) \/ BeginLine(t) \/ EndLine(t) \/ UnlockHandlers(t)
  \/ SetOwnLevel(t) \/ SetHandlerLevel(t)

Begin(t) ==
  \/ \E lvl \in Levels : LogMessage(t, lvl) \/ WriteDirectly(t, lvl) \/ SetGlobalLogLevel(t, lvl)
                         \/ ReadOriginalLevel(t, lvl)
  \/ \E h \in Handlers : RegisterLogHandler(t, h) \/ RemoveLogHandler(t, h)
  \/ \E h \in Tunable : ClearLogLevel(t, h)
  \/ \E h \in Tunable, lvl \in Levels : SetHandlerFlag(t, h, lvl)
  \/ ClearLogHandlers(t) \/ RestoreLevel(t)

Next == \E t \in Threads : Begin(t) \/ Continue(t)

\* Every thread is scheduled, and gets a mutex that stays free.
Fairness == \A t \in Threads : WF_vars(Continue(t))

Spec == Init /\ [][Next]_vars /\ Fairness

-----------------------------------------------------------------------------
(* Properties *)

TypeOK ==
  /\ ToSet(handlers) \subseteq Handlers
  /\ {level, baseLevel} \subseteq Levels
  /\ hasCustom \in [Handlers -> BOOLEAN]
  /\ custom \in [Handlers -> Levels]
  /\ handlersMutex \subseteq Threads
  /\ \A s \in Streams : streamMutex[s] \subseteq Threads
  /\ \A t \in Threads : /\ call[t].at \in {"idle", "lock", "deliver", "write", "line", "set", "setHandler"}
                        /\ call[t].lvl \in MaybeLevel
                        /\ ToSet(call[t].rest) \subseteq Handlers
  /\ \A t \in Threads : ToSet(saved[t]) \subseteq Levels
  /\ wanted \in [Handlers -> MaybeLevel]
  /\ \A h \in Handlers : ToSet(log[h]) \subseteq 1 .. messages
  /\ faults \in FaultSets

\* Faults that do not happen.
Without(kinds) == faults \intersect kinds = {}

\* All handlers agree on the order of the messages they were both given: two
\* messages that arrive together are not delivered across each other.
SameOrder ==
  \A g, h \in Handlers :
    \A i, j \in DOMAIN log[g] : \A k, l \in DOMAIN log[h] :
      log[g][i] = log[h][k] /\ log[g][j] = log[h][l] => (i < j <=> k < l)

\* No two equal handlers are registered, whoever registers them when.
NoTwins == \A i, j \in DOMAIN handlers : Equal(handlers[i], handlers[j]) => i = j

\* A handler is only called while it is registered: once RemoveLogHandler or
\* ClearLogHandlers has returned, the handler can be given up.
OnlyRegisteredCalled ==
  \A t \in Threads :
    call[t].at \in {"deliver", "write", "line"} => ToSet(call[t].rest) \subseteq ToSet(handlers)

\* A line on stderr or stdout is never broken up by that of another thread.
LinesNotTorn ==
  \A t, u \in Threads :
    call[t].at = "line" /\ call[u].at = "line" /\ StreamOf(call[t].lvl) = StreamOf(call[u].lvl)
      => t = u

\* A handler hides exactly the messages below the custom level it was given; by
\* default it logs all it receives.
HiddenAsConfigured ==
  \A t \in Threads :
    call[t].at = "deliver" /\ call[t].rest # <<>> =>
      (Hides(Current(t), call[t].lvl) <=>
         wanted[Current(t)] # NoLevel /\ call[t].lvl < wanted[Current(t)])

\* The same for handlers that get their custom level before messages are logged
\* and whose memory happened to be zero.
Settled == Without({"uninit", "custom"})
HiddenIfSettled == Settled => HiddenAsConfigured

\* When no LogLevelSetter is left, the level is the one from before the first of
\* them, nested as they may be, whatever any thread has set in between, and
\* between the two halves of the constructor; as long as those of two threads do
\* not overlap.
LevelRestored == Without({"setters"}) /\ NoSetterAlive => level = baseLevel

\* LogMessage of thread t is calling handlers, under m_logHandlersMutex.
Inside(t) == call[t].at = "deliver" \/ (call[t].at \in {"write", "line"} /\ call[t].rest # <<>>)
UnderWay(t) == call[t].at = "lock" \/ Inside(t)

\* A message counts as put out once the handlers are unlocked.
PublishedLog ==
  [h \in Handlers |->
     IF \E t \in Threads : Inside(t) /\ log[h] # <<>> /\ Last(log[h]) = call[t].msg
       THEN Front(log[h]) ELSE log[h]]

MessagesUnderWay ==
  {[msg |-> call[t].msg, lvl |-> call[t].lvl] : t \in {u \in Threads : UnderWay(u)}}

Contract == INSTANCE LogContract
  WITH registered <- ToSet(handlers), log <- PublishedLog, Messages <- 1 .. MaxMessages,
       underway <- MessagesUnderWay, settled <- Settled

\* "The class is thread-safe": to whoever logs, registers, removes and sets levels at
\* the same time, every message seems to be put out at once, by exactly the handlers
\* that are registered then and do not hide it, and never again (module LogContract).
MessagesKeepContract == Contract!Spec

\* Every call returns, even if all threads log all the time.
CallsReturn == \A t \in Threads : call[t].at # "idle" ~> call[t].at = "idle"
=============================================================================

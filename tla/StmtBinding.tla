----------------------------- MODULE StmtBinding -----------------------------
(***************************************************************************)
(* The life of statement handles and of the buffers bound to them.         *)
(*                                                                         *)
(* A SqlStmtHandle object (include/exodbc/SqlHandle.h) owns at most one    *)
(* raw driver handle.  A ColumnBuffer is a ColumnBindable                  *)
(* (include/exodbc/ColumnBuffer.h): binding hands the driver a pointer     *)
(* into the buffer, and the buffer remembers the statement in a map keyed  *)
(* by the RAW handle value, together with a signal connection and a shared *)
(* pointer that keep the SqlStmtHandle object alive.  The driver is the    *)
(* environment: it recycles raw values and writes through every pointer it *)
(* still has, so a binding must never outlive its buffer.                  *)
(***************************************************************************)

CONSTANTS
  Objects,     \* identities of SqlStmtHandle objects
  RawHandles,  \* SQLHSTMT values the driver hands out, and recycles
  NullHandle,  \* SQL_NULL_HANDLE
  Buffers,     \* identities of ColumnBuffer objects
  Slots,       \* column numbers and parameter numbers
  FaultSets    \* the sets of faults to be considered, below

(***************************************************************************)
(* What callers and driver do beyond the discipline is chosen at first and  *)
(* kept.  Without faults a caller frees a handle explicitly only when no   *)
(* buffer is bound to it, as the library itself does, and bind calls,      *)
(* SQLFreeStmt and SQLFreeHandle succeed or leave everything as it was.    *)
(*   "free_bound"       Free() is called on a handle with bindings         *)
(*   "disconnect_open"  the connection goes while statements are allocated *)
(*   "bind_untracked"   a bind call takes effect in the driver and throws  *)
(*                      (SQL_SUCCESS_WITH_INFO, or a later                 *)
(*                      SetDescriptionField of a numeric column fails)     *)
(*   "unbind_fails"     SQLFreeStmt fails inside a buffer's destructor     *)
(*   "free_fails"       SQLFreeHandle fails inside a handle's destructor   *)
(***************************************************************************)
FaultKinds == {"free_bound", "disconnect_open", "bind_untracked", "unbind_fails",
               "free_fails"}

ASSUME NullHandleAssumption == NullHandle \notin RawHandles
ASSUME FaultsAssumption == FaultSets \subseteq SUBSET FaultKinds

\* m_unbindColumnsConnections and m_resetParamsConnections, treated alike
Kinds == {"columns", "params"}

VARIABLES
  handle,   \* m_handle of each SqlStmtHandle object
  held,     \* objects some owner (an ExecutableStatement, a caller) points to
  entries,  \* the entries of all buffers' connection maps
  alive,    \* buffers that exist
  liveRaw,  \* driver: allocated statement handles
  bound,    \* driver: which buffer a column or parameter writes to
  faults    \* what happens beyond the discipline in this behaviour

vars == <<handle, held, entries, alive, liveRaw, bound, faults>>

Entry   == [buf : Buffers, kind : Kinds, raw : RawHandles, obj : Objects]
Binding == [raw : RawHandles, kind : Kinds, slot : Slots, buf : Buffers]

-----------------------------------------------------------------------------
(* State formulae *)

\* The object is kept alive by its owner or by a connection map.
Referenced(o) == o \in held \/ \E e \in entries : e.obj = o

IsAllocated(o) == handle[o] # NullHandle

\* The slot of buffer b for signal k is connected to object o.
Connected(es, b, k, o) == \E e \in es : e.buf = b /\ e.kind = k /\ e.obj = o

\* Slip: the connections of both signals are dropped when one fires.
NotifiedOfBoth(es, o, k, h) == {e \in es : ~(e.raw = h /\ Connected(es, e.buf, k, o))}

\* OnResetParams / OnUnbindColumns of every connected buffer: the entry is
\* looked up by the value GetHandle() has when the signal fires.
Notified(es, o, k, h) ==
  {e \in es : ~(e.kind = k /\ e.raw = h /\ Connected(es, e.buf, k, o))}

\* What SQLFreeStmt(raw, SQL_UNBIND / SQL_RESET_PARAMS) takes back.
BoundTo(k, r) == {x \in bound : x.kind = k /\ x.raw = r}

NothingBound(o) == \A e \in entries : e.obj # o

-----------------------------------------------------------------------------
Init ==
  /\ handle = [o \in Objects |-> NullHandle]
  /\ held = {}
  /\ entries = {}
  /\ alive = {}
  /\ liveRaw = {}
  /\ bound = {}
  /\ faults \in FaultSets

\* A buffer is constructed.
CreateBuffer(b) ==
  /\ b \notin alive
  /\ alive' = alive \union {b}
  /\ UNCHANGED <<handle, held, entries, liveRaw, bound, faults>>

\* SqlHandle(pParent) for a new object, AllocateWithParent for an empty one.
AllocateWithParent(o, r) ==
  /\ o \in held \/ ~Referenced(o)
  /\ ~IsAllocated(o)
  /\ r \notin liveRaw
  /\ held' = held \union {o}
  /\ handle' = [handle EXCEPT ![o] = r]
  /\ liveRaw' = liveRaw \union {r}
  /\ UNCHANGED <<entries, alive, bound, faults>>

\* BindColumnImpl / BindParamImpl: the driver takes the pointer, then the
\* statement is remembered unless its raw value is a key already.
Bind(b, o, k, s) ==
  /\ b \in alive
  /\ o \in held
  /\ IsAllocated(o)
  /\ handle[o] \in liveRaw
  /\ bound' = {x \in bound : ~(x.raw = handle[o] /\ x.kind = k /\ x.slot = s)}
                \union {[raw |-> handle[o], kind |-> k, slot |-> s, buf |-> b]}
  /\ \/ entries' = IF \E e \in entries : e.buf = b /\ e.kind = k /\ e.raw = handle[o]
                     THEN entries
                     ELSE entries \union {[buf |-> b, kind |-> k, raw |-> handle[o], obj |-> o]}
     \/ /\ "bind_untracked" \in faults
        /\ UNCHANGED entries
  /\ UNCHANGED <<handle, held, alive, liveRaw, faults>>

\* Slip: the last owner goes without freeing the handle.
DestroyWithoutFree(bs) ==
  LET gone == {o \in Objects : o \notin held' /\ \A e \in entries' : e.obj # o}
  IN  /\ handle' = [o \in Objects |-> IF o \in gone THEN NullHandle ELSE handle[o]]
      /\ bound' = bs
      /\ UNCHANGED liveRaw

\* Objects to which no owner and no connection map points any more are
\* destroyed: ~SqlHandle frees what is still allocated, logging a failure.
DestroyUnreferenced(bs) ==
  LET gone == {o \in Objects : o \notin held' /\ \A e \in entries' : e.obj # o}
  IN  /\ handle' = [o \in Objects |-> IF o \in gone THEN NullHandle ELSE handle[o]]
      /\ \/ liveRaw' = liveRaw \ {handle[o] : o \in gone}
         \/ /\ "free_fails" \in faults
            /\ UNCHANGED liveRaw
      /\ bound' = {x \in bs : x.raw \in liveRaw'}

\* SqlHandle::UnbindColumns and ResetParams, called by an owner.
Unbind(o, k) ==
  /\ o \in held
  /\ IsAllocated(o)
  /\ handle[o] \in liveRaw
  /\ entries' = Notified(entries, o, k, handle[o])
  /\ UNCHANGED <<held, alive, faults>>
  /\ DestroyUnreferenced(bound \ BoundTo(k, handle[o]))

\* Slip: m_handle keeps its value after the driver has freed it.
FreeKeepsValue(o) ==
  /\ o \in held
  /\ handle[o] \in liveRaw
  /\ NothingBound(o)
  /\ liveRaw' = liveRaw \ {handle[o]}
  /\ UNCHANGED <<handle, held, entries, alive, bound, faults>>

\* SqlHandle::Free called explicitly, the driver answering SQL_SUCCESS:
\* m_handle is cleared first, the two signals fire afterwards.
FreeHandle(o) ==
  /\ o \in held
  /\ IsAllocated(o)
  /\ handle[o] \in liveRaw
  /\ NothingBound(o) \/ "free_bound" \in faults
  /\ handle' = [handle EXCEPT ![o] = NullHandle]
  /\ liveRaw' = liveRaw \ {handle[o]}
  /\ bound' = {x \in bound : x.raw # handle[o]}
  /\ entries' = LET afterParams == Notified(entries, o, "params", handle'[o])
                IN  Notified(afterParams, o, "columns", handle'[o])
  /\ UNCHANGED <<held, alive, faults>>

\* SqlHandle::Free answered with SQL_INVALID_HANDLE: the object forgets the
\* handle and throws; no signal is fired.
FreeInvalidHandle(o) ==
  /\ o \in held
  /\ IsAllocated(o)
  /\ handle[o] \notin liveRaw
  /\ handle' = [handle EXCEPT ![o] = NullHandle]
  /\ UNCHANGED <<held, entries, alive, liveRaw, bound, faults>>

\* An owner drops its shared pointer (ExecutableStatement::Reset, a destructor).
ReleaseHandle(o) ==
  /\ o \in held
  /\ held' = held \ {o}
  /\ UNCHANGED <<entries, alive, faults>>
  /\ DestroyUnreferenced(bound)

\* Slip: parameters are forgotten when the buffer goes.
UnbindColumnTargets(b) ==
  {<<e.kind, e.obj>> : e \in {f \in entries : /\ f.buf = b /\ f.kind = "columns"
                                               /\ handle[f.obj] \in liveRaw}}

\* What ~ColumnBindable can unbind: every object in its maps with a handle.
\* A handle that is gone, or a SQLFreeStmt that fails, is only logged.
UnbindTargets(b) ==
  {<<e.kind, e.obj>> : e \in {f \in entries : f.buf = b /\ handle[f.obj] \in liveRaw}}

\* ~ColumnBindable: disconnect, unbind the whole handle, forget the entry;
\* handle objects nobody else points to go with it.
DestroyBuffer(b) ==
  /\ b \in alive
  /\ alive' = alive \ {b}
  /\ \E done \in SUBSET UnbindTargets(b) :
       LET others == {e \in entries : e.buf # b}
       IN  /\ done = UnbindTargets(b) \/ "unbind_fails" \in faults
           /\ entries' = {e \in others :
                            ~\E t \in done : /\ e.kind = t[1]
                                             /\ e.raw = handle[t[2]]
                                             /\ Connected(others, e.buf, t[1], t[2])}
           /\ UNCHANGED <<held, faults>>
           /\ DestroyUnreferenced(
                {x \in bound : \A t \in done : x \notin BoundTo(t[1], handle[t[2]])})

\* SQLDisconnect (Database::Close) frees every statement handle of the
\* connection in the driver; the SqlStmtHandle objects are not told.
Disconnect ==
  /\ "disconnect_open" \in faults
  /\ liveRaw' = {}
  /\ bound' = {}
  /\ UNCHANGED <<handle, held, entries, alive, faults>>

Next ==
  \/ \E b \in Buffers : CreateBuffer(b) \/ DestroyBuffer(b)
  \/ \E o \in Objects, r \in RawHandles : AllocateWithParent(o, r)
  \/ \E b \in Buffers, o \in Objects, k \in Kinds, s \in Slots : Bind(b, o, k, s)
  \/ \E o \in Objects, k \in Kinds : Unbind(o, k)
  \/ \E o \in Objects : FreeHandle(o) \/ FreeInvalidHandle(o) \/ ReleaseHandle(o)
  \/ Disconnect

Spec == Init /\ [][Next]_vars

-----------------------------------------------------------------------------
(* Properties *)

TypeOK ==
  /\ handle \in [Objects -> RawHandles \union {NullHandle}]
  /\ held \subseteq Objects
  /\ entries \subseteq Entry
  /\ alive \subseteq Buffers
  /\ liveRaw \subseteq RawHandles
  /\ bound \subseteq Binding
  /\ faults \in FaultSets

\* Only the failure of SQLFreeHandle in a destructor may happen.
Disciplined == faults \subseteq {"free_fails"}

\* The driver never holds a pointer into a buffer that was destroyed: whatever
\* order buffers, statements and their owners go in, ~ColumnBindable has taken
\* the pointer back ("releases binding upon destruction").
NoDanglingBinding == \A x \in bound : x.buf \in alive

\* The same for disciplined callers.
NoDanglingIfDisciplined == Disciplined => NoDanglingBinding

\* Every pointer the driver holds is known to the buffer it points into, under
\* the object that has the handle now: this is what the destructor relies on.
BindingsTracked ==
  \A x \in bound : \E e \in entries :
    e.buf = x.buf /\ e.kind = x.kind /\ e.raw = x.raw /\ handle[e.obj] = x.raw

\* A connection map never names a raw handle its object no longer has: a stale
\* key would match the next statement the driver gives the same value to.
EntriesMatchHandles == \A e \in entries : handle[e.obj] = e.raw

\* The connection maps and the driver agree on what is bound for disciplined
\* callers; stale keys come from handles that go under their buffers only.
MapsAgree ==
  /\ Disciplined => BindingsTracked
  /\ faults \intersect {"free_bound", "disconnect_open"} = {} => EntriesMatchHandles

\* Two objects never hold the same raw handle, so that neither can free or
\* unbind the other's statement although raw values are recycled.  Only a
\* connection that goes too early makes the driver give out a value twice.
HandlesNotShared ==
  \A o, p \in Objects : IsAllocated(o) /\ handle[o] = handle[p] => o = p
HandlesOwnedOnce == "disconnect_open" \in faults \/ HandlesNotShared

\* No statement is lost: every handle allocated in the driver belongs to an
\* object that an owner or a buffer still points to, and is freed with it, as
\* long as the driver frees what it is told to.
NoOrphanHandle ==
  "free_fails" \in faults \/
    \A r \in liveRaw : \E o \in Objects : handle[o] = r /\ Referenced(o)
=============================================================================

-------------------------- MODULE StmtBindingProofs --------------------------
(***************************************************************************)
(* Proofs about StmtBinding, for any number of statements, raw handles,    *)
(* buffers and slots: under the library's own discipline no driver pointer *)
(* ever outlives the buffer it points into.                                *)
(***************************************************************************)
EXTENDS StmtBinding, TLAPS

\* A handle an object has is allocated in the driver.
AllocatedIsLive == \A o \in Objects : IsAllocated(o) => handle[o] \in liveRaw

\* Only existing buffers have entries: a destroyed buffer took its maps along.
EntriesOfLiving == \A e \in entries : e.buf \in alive

\* The inductive invariant.  NoDanglingBinding is not inductive: it needs that
\* the destructor finds every binding in its own maps (BindingsTracked), under
\* an object whose handle is still the key (EntriesMatchHandles), and that no
\* other object can take that handle away (HandlesNotShared).
IInv ==
  /\ TypeOK
  /\ AllocatedIsLive
  /\ HandlesNotShared
  /\ EntriesMatchHandles
  /\ EntriesOfLiving
  /\ BindingsTracked

-----------------------------------------------------------------------------
\* Which faults a behaviour shows is settled at first.
LEMMA FaultsKept == [Next]_vars => faults' = faults
BY DEF vars, Next, CreateBuffer, DestroyBuffer, AllocateWithParent, Bind, Unbind,
       FreeHandle, FreeInvalidHandle, ReleaseHandle, Disconnect

\* Every operation assigns values of the right types, under every fault.
LEMMA NextTypeOK == TypeOK /\ [Next]_vars => TypeOK'
<1> SUFFICES ASSUME TypeOK, [Next]_vars PROVE TypeOK'
  OBVIOUS
<1> USE DEF TypeOK
<1>1. ASSUME NEW bs, bs \subseteq Binding, DestroyUnreferenced(bs),
             entries' \subseteq entries, held' \subseteq held, alive' \subseteq alive,
             UNCHANGED faults
      PROVE  TypeOK'
  BY <1>1 DEF DestroyUnreferenced
<1>2. CASE UNCHANGED vars
  BY <1>2 DEF vars
<1>3. ASSUME NEW b \in Buffers, CreateBuffer(b) PROVE TypeOK'
  BY <1>3 DEF CreateBuffer
<1>4. ASSUME NEW b \in Buffers, DestroyBuffer(b) PROVE TypeOK'
  <2>1. PICK done : LET others == {e \in entries : e.buf # b}
                    IN  /\ entries' \subseteq others
                        /\ UNCHANGED <<held, faults>>
                        /\ DestroyUnreferenced({x \in bound : \A t \in done :
                                                  x \notin BoundTo(t[1], handle[t[2]])})
    BY <1>4 DEF DestroyBuffer
  <2> DEFINE bs == {x \in bound : \A t \in done : x \notin BoundTo(t[1], handle[t[2]])}
  <2>2. bs \subseteq Binding /\ DestroyUnreferenced(bs)
    BY <2>1
  <2>3. entries' \subseteq entries /\ held' = held /\ alive' \subseteq alive /\ UNCHANGED faults
    BY <1>4, <2>1 DEF DestroyBuffer
  <2> HIDE DEF bs
  <2>4. QED BY <2>2, <2>3, <1>1
<1>5. ASSUME NEW o \in Objects, NEW r \in RawHandles, AllocateWithParent(o, r) PROVE TypeOK'
  BY <1>5 DEF AllocateWithParent
<1>6. ASSUME NEW b \in Buffers, NEW o \in Objects, NEW k \in Kinds, NEW s \in Slots,
             Bind(b, o, k, s)
      PROVE  TypeOK'
  <2>1. handle[o] \in RawHandles
    BY <1>6 DEF Bind
  <2>2. /\ [buf |-> b, kind |-> k, raw |-> handle[o], obj |-> o] \in Entry
        /\ [raw |-> handle[o], kind |-> k, slot |-> s, buf |-> b] \in Binding
    BY <2>1 DEF Entry, Binding
  <2>3. QED BY <1>6, <2>2 DEF Bind
<1>7. ASSUME NEW o \in Objects, NEW k \in Kinds, Unbind(o, k) PROVE TypeOK'
  <2>1. DestroyUnreferenced(bound \ BoundTo(k, handle[o])) /\ entries' \subseteq entries
        /\ held' = held /\ alive' = alive /\ UNCHANGED faults
    BY <1>7 DEF Unbind, Notified
  <2>2. QED BY <2>1, <1>1
<1>8. ASSUME NEW o \in Objects, FreeHandle(o) PROVE TypeOK'
  BY <1>8 DEF FreeHandle, Notified
<1>9. ASSUME NEW o \in Objects, FreeInvalidHandle(o) PROVE TypeOK'
  BY <1>9 DEF FreeInvalidHandle
<1>10. ASSUME NEW o \in Objects, ReleaseHandle(o) PROVE TypeOK'
  BY <1>10, <1>1 DEF ReleaseHandle
<1>11. CASE Disconnect
  BY <1>11 DEF Disconnect
<1>12. QED
  BY <1>2, <1>3, <1>4, <1>5, <1>6, <1>7, <1>8, <1>9, <1>10, <1>11 DEF Next

-----------------------------------------------------------------------------
\* Destroying unreferenced objects keeps what IInv says of handles and entries,
\* and keeps the bindings tracked if the step left an entry for each.
LEMMA DestroyUnreferencedKeeps ==
  ASSUME IInv,
         NEW bs, bs \subseteq bound,
         DestroyUnreferenced(bs),
         entries' \subseteq entries,
         held' \subseteq held,
         alive' \subseteq Buffers,
         UNCHANGED faults,
         \A e \in entries' : e.buf \in alive',
         \A x \in bs : x.raw \in liveRaw =>
           \E e \in entries' : /\ e.buf = x.buf /\ e.kind = x.kind
                               /\ e.raw = x.raw /\ handle[e.obj] = x.raw
  PROVE  IInv'
<1>1. TypeOK'
  BY DEF IInv, TypeOK, DestroyUnreferenced
<1>2. \A o \in Objects : handle'[o] \in {handle[o], NullHandle}
  BY DEF IInv, TypeOK, DestroyUnreferenced
<1>3. \A e \in entries' : handle'[e.obj] = handle[e.obj]
  BY DEF IInv, TypeOK, DestroyUnreferenced, Entry
<1>4. AllocatedIsLive'
  BY DEF IInv, TypeOK, AllocatedIsLive, HandlesNotShared, IsAllocated, DestroyUnreferenced
<1>5. HandlesNotShared'
  BY <1>2 DEF IInv, HandlesNotShared, IsAllocated
<1>6. EntriesMatchHandles'
  BY <1>3 DEF IInv, EntriesMatchHandles
<1>7. EntriesOfLiving'
  BY DEF EntriesOfLiving
<1>8. BindingsTracked'
  <2> SUFFICES ASSUME NEW x \in bound'
               PROVE  \E e \in entries' : /\ e.buf = x.buf /\ e.kind = x.kind
                                          /\ e.raw = x.raw /\ handle'[e.obj] = x.raw
    BY DEF BindingsTracked
  <2>1. x \in bs /\ x.raw \in liveRaw
    BY DEF DestroyUnreferenced
  <2>2. QED BY <2>1, <1>3
<1>9. QED BY <1>1, <1>4, <1>5, <1>6, <1>7, <1>8 DEF IInv

\* A new buffer is bound nowhere (the constructors of ColumnBindable).
LEMMA CreateBufferKeeps ==
  ASSUME IInv, NEW b \in Buffers, CreateBuffer(b) PROVE IInv'
BY DEF IInv, TypeOK, AllocatedIsLive, HandlesNotShared, EntriesMatchHandles,
       EntriesOfLiving, BindingsTracked, IsAllocated, CreateBuffer

\* A raw value is given out only when nobody has it.
LEMMA AllocateKeeps ==
  ASSUME IInv, NEW o \in Objects, NEW r \in RawHandles, AllocateWithParent(o, r)
  PROVE  IInv'
<1>1. TypeOK'
  BY DEF IInv, TypeOK, AllocateWithParent
<1>2. \A p \in Objects : p # o => handle'[p] = handle[p]
  BY DEF IInv, TypeOK, AllocateWithParent
<1>3. handle'[o] = r /\ handle[o] = NullHandle
  BY DEF IInv, TypeOK, AllocateWithParent, IsAllocated
<1>4. \A e \in entries : e.obj # o /\ e.raw \in RawHandles /\ e.obj \in Objects
  BY <1>3, NullHandleAssumption DEF IInv, TypeOK, EntriesMatchHandles, Entry
<1>5. AllocatedIsLive'
  BY <1>2, <1>3 DEF IInv, AllocatedIsLive, AllocateWithParent, IsAllocated
<1>6. HandlesNotShared'
  BY <1>2, <1>3 DEF IInv, AllocatedIsLive, HandlesNotShared, AllocateWithParent, IsAllocated
<1>7. EntriesMatchHandles' /\ EntriesOfLiving'
  BY <1>2, <1>4 DEF IInv, EntriesMatchHandles, EntriesOfLiving, AllocateWithParent
<1>8. BindingsTracked'
  BY <1>2, <1>4 DEF IInv, BindingsTracked, AllocateWithParent
<1>9. QED BY <1>1, <1>5, <1>6, <1>7, <1>8 DEF IInv

\* Binding tracks: either the key was there, and then for this very object, or
\* the entry is added.
LEMMA BindKeeps ==
  ASSUME IInv, Disciplined,
         NEW b \in Buffers, NEW o \in Objects, NEW k \in Kinds, NEW s \in Slots,
         Bind(b, o, k, s)
  PROVE  IInv'
<1> DEFINE new == [buf |-> b, kind |-> k, raw |-> handle[o], obj |-> o]
           ptr == [raw |-> handle[o], kind |-> k, slot |-> s, buf |-> b]
<1>1. handle[o] \in RawHandles
  BY DEF IInv, TypeOK, Bind, IsAllocated
<1>2. entries' = IF \E e \in entries : e.buf = b /\ e.kind = k /\ e.raw = handle[o]
                   THEN entries ELSE entries \union {new}
  BY DEF Bind, Disciplined
<1>3. bound' \subseteq bound \union {ptr}
  BY DEF Bind
<1>4. TypeOK'
  <2>1. new \in Entry /\ ptr \in Binding
    BY <1>1 DEF Entry, Binding
  <2>2. QED BY <2>1, <1>2, <1>3 DEF IInv, TypeOK, Bind
<1>5. AllocatedIsLive' /\ HandlesNotShared'
  BY DEF IInv, AllocatedIsLive, HandlesNotShared, IsAllocated, Bind
<1>6. EntriesMatchHandles' /\ EntriesOfLiving'
  BY <1>2 DEF IInv, EntriesMatchHandles, EntriesOfLiving, Bind
<1>7. entries \subseteq entries'
  BY <1>2
<1>8. \E e \in entries' : e.buf = b /\ e.kind = k /\ e.raw = handle[o] /\ handle[e.obj] = handle[o]
  <2>1. CASE \E e \in entries : e.buf = b /\ e.kind = k /\ e.raw = handle[o]
    <3>1. PICK e \in entries : e.buf = b /\ e.kind = k /\ e.raw = handle[o]
      BY <2>1
    <3>2. handle[e.obj] = e.raw
      BY DEF IInv, EntriesMatchHandles
    <3>3. QED BY <3>1, <3>2, <1>7
  <2>2. CASE ~\E e \in entries : e.buf = b /\ e.kind = k /\ e.raw = handle[o]
    <3>1. new \in entries'
      BY <2>2, <1>2
    <3>2. new.buf = b /\ new.kind = k /\ new.raw = handle[o] /\ new.obj = o
      OBVIOUS
    <3> HIDE DEF new
    <3>3. QED BY <3>1, <3>2
  <2>3. QED BY <2>1, <2>2
<1>9. BindingsTracked'
  <2> SUFFICES ASSUME NEW x \in bound'
               PROVE  \E e \in entries' : /\ e.buf = x.buf /\ e.kind = x.kind
                                          /\ e.raw = x.raw /\ handle[e.obj] = x.raw
    BY DEF BindingsTracked, Bind
  <2>1. CASE x \in bound
    BY <2>1, <1>7 DEF IInv, BindingsTracked
  <2>2. CASE x = ptr
    BY <2>2, <1>8
  <2>3. QED BY <2>1, <2>2, <1>3
<1>10. QED BY <1>4, <1>5, <1>6, <1>9 DEF IInv

\* UnbindColumns and ResetParams take back the bindings of one kind and the
\* entries of exactly these: the signal reaches every buffer that has one.
LEMMA UnbindKeeps ==
  ASSUME IInv, NEW o \in Objects, NEW k \in Kinds, Unbind(o, k)
  PROVE  IInv'
<1> DEFINE bs == bound \ BoundTo(k, handle[o])
<1>1. entries' \subseteq entries /\ held' = held /\ alive' = alive /\ UNCHANGED faults
  BY DEF Unbind, Notified
<1>2. \A x \in bs : \E e \in entries' : /\ e.buf = x.buf /\ e.kind = x.kind
                                        /\ e.raw = x.raw /\ handle[e.obj] = x.raw
  BY DEF IInv, BindingsTracked, Unbind, Notified, BoundTo
<1>3. DestroyUnreferenced(bs)
  BY DEF Unbind
<1>4. alive' \subseteq Buffers /\ \A e \in entries' : e.buf \in alive'
  BY <1>1 DEF IInv, TypeOK, EntriesOfLiving
<1> HIDE DEF bs
<1>5. bs \subseteq bound
  BY DEF bs
<1>6. QED BY <1>1, <1>2, <1>3, <1>4, <1>5, DestroyUnreferencedKeeps

\* A handle that is freed explicitly has no binding left.
LEMMA FreeHandleKeeps ==
  ASSUME IInv, Disciplined, NEW o \in Objects, FreeHandle(o)
  PROVE  IInv'
<1>1. \A e \in entries : e.obj # o /\ e.obj \in Objects
  BY DEF IInv, TypeOK, FreeHandle, Disciplined, NothingBound, Entry
<1>2. \A p \in Objects : p # o => handle'[p] = handle[p]
  BY DEF IInv, TypeOK, FreeHandle
<1>3. handle'[o] = NullHandle
  BY DEF IInv, TypeOK, FreeHandle
<1>4. entries' = entries
  <2>1. \A e \in entries : ~Connected(entries, e.buf, "params", o)
                           /\ ~Connected(entries, e.buf, "columns", o)
    BY <1>1 DEF Connected
  <2>2. Notified(entries, o, "params", handle'[o]) = entries
    BY <2>1 DEF Notified
  <2>3. Notified(entries, o, "columns", handle'[o]) = entries
    BY <2>1 DEF Notified
  <2>4. QED BY <2>2, <2>3 DEF FreeHandle
<1>5. TypeOK'
  BY <1>4 DEF IInv, TypeOK, FreeHandle
<1>6. AllocatedIsLive' /\ HandlesNotShared'
  BY <1>2, <1>3 DEF IInv, TypeOK, AllocatedIsLive, HandlesNotShared, IsAllocated, FreeHandle
<1>7. EntriesMatchHandles' /\ EntriesOfLiving'
  BY <1>1, <1>2, <1>4 DEF IInv, EntriesMatchHandles, EntriesOfLiving, FreeHandle
<1>8. BindingsTracked'
  BY <1>1, <1>2, <1>4 DEF IInv, BindingsTracked, FreeHandle
<1>9. QED BY <1>5, <1>6, <1>7, <1>8 DEF IInv

\* A handle with a driver allocation is never invalid.
LEMMA FreeInvalidHandleKeeps ==
  ASSUME IInv, NEW o \in Objects, FreeInvalidHandle(o)
  PROVE  IInv'
BY DEF IInv, AllocatedIsLive, FreeInvalidHandle

\* An owner that goes leaves the handle to the buffers that still know it.
LEMMA ReleaseHandleKeeps ==
  ASSUME IInv, NEW o \in Objects, ReleaseHandle(o)
  PROVE  IInv'
<1>1. held' \subseteq held /\ entries' = entries /\ alive' = alive /\ UNCHANGED faults
      /\ DestroyUnreferenced(bound)
  BY DEF ReleaseHandle
<1>2. alive' \subseteq Buffers /\ \A e \in entries' : e.buf \in alive'
  BY <1>1 DEF IInv, TypeOK, EntriesOfLiving
<1>3. \A x \in bound : \E e \in entries' : /\ e.buf = x.buf /\ e.kind = x.kind
                                           /\ e.raw = x.raw /\ handle[e.obj] = x.raw
  BY <1>1 DEF IInv, BindingsTracked
<1>4. QED BY <1>1, <1>2, <1>3, DestroyUnreferencedKeeps

\* The destructor finds all bindings of its buffer, and only the bindings it
\* took back lose their entries in other buffers.
LEMMA DestroyBufferKeeps ==
  ASSUME IInv, Disciplined, NEW b \in Buffers, DestroyBuffer(b)
  PROVE  IInv'
<1> DEFINE T == UnbindTargets(b)
           others == {e \in entries : e.buf # b}
           bs == {x \in bound : \A t \in T : x \notin BoundTo(t[1], handle[t[2]])}
<1>1. /\ entries' = {e \in others :
                       ~\E t \in T : /\ e.kind = t[1]
                                     /\ e.raw = handle[t[2]]
                                     /\ Connected(others, e.buf, t[1], t[2])}
      /\ held' = held
      /\ UNCHANGED faults
      /\ alive' = alive \ {b}
      /\ DestroyUnreferenced(bs)
  BY DEF DestroyBuffer, Disciplined
<1>2. entries' \subseteq entries /\ \A e \in entries' : e.buf # b
  BY <1>1
<1>3. ASSUME NEW x \in bs, x.raw \in liveRaw
      PROVE  \E e \in entries' : /\ e.buf = x.buf /\ e.kind = x.kind
                                 /\ e.raw = x.raw /\ handle[e.obj] = x.raw
  <2>1. PICK e \in entries : /\ e.buf = x.buf /\ e.kind = x.kind
                             /\ e.raw = x.raw /\ handle[e.obj] = x.raw
    BY DEF IInv, BindingsTracked
  <2>2. x \in bound /\ \A t \in T : ~(x.kind = t[1] /\ x.raw = handle[t[2]])
    BY DEF BoundTo
  <2>3. e.buf # b
    <3> SUFFICES ASSUME e.buf = b PROVE FALSE
      OBVIOUS
    <3>1. <<e.kind, e.obj>> \in T
      BY <1>3, <2>1 DEF UnbindTargets
    <3>2. QED BY <3>1, <2>1, <2>2
  <2>4. e \in entries'
    <3> HIDE DEF T
    <3>1. QED BY <1>1, <2>1, <2>2, <2>3
  <2>5. QED BY <2>1, <2>4
<1>4. alive' \subseteq Buffers /\ \A e \in entries' : e.buf \in alive'
  BY <1>1, <1>2 DEF IInv, TypeOK, EntriesOfLiving
<1>5. bs \subseteq bound
  OBVIOUS
<1> HIDE DEF bs
<1>6. QED BY <1>1, <1>2, <1>3, <1>4, <1>5, DestroyUnreferencedKeeps

-----------------------------------------------------------------------------
\* Nothing is allocated, constructed or bound at first.
LEMMA InitIInv == Init => IInv
BY DEF Init, IInv, TypeOK, AllocatedIsLive, HandlesNotShared, EntriesMatchHandles,
       EntriesOfLiving, BindingsTracked, IsAllocated

\* Every operation of the discipline keeps the invariant; the other ones are
\* not enabled without their fault.
LEMMA NextIInv == IInv /\ Disciplined /\ [Next]_vars => IInv' /\ Disciplined'
<1> SUFFICES ASSUME IInv, Disciplined, [Next]_vars PROVE IInv' /\ Disciplined'
  OBVIOUS
<1>1. CASE UNCHANGED vars
  BY <1>1 DEF vars, IInv, TypeOK, AllocatedIsLive, HandlesNotShared,
              EntriesMatchHandles, EntriesOfLiving, BindingsTracked, IsAllocated, Disciplined
<1>2. CASE Next
  <2>1. ASSUME NEW b \in Buffers, CreateBuffer(b) PROVE IInv'
    BY <2>1, CreateBufferKeeps
  <2>2. ASSUME NEW b \in Buffers, DestroyBuffer(b) PROVE IInv'
    BY <2>2, DestroyBufferKeeps
  <2>3. ASSUME NEW o \in Objects, NEW r \in RawHandles, AllocateWithParent(o, r) PROVE IInv'
    BY <2>3, AllocateKeeps
  <2>4. ASSUME NEW b \in Buffers, NEW o \in Objects, NEW k \in Kinds, NEW s \in Slots,
               Bind(b, o, k, s)
        PROVE  IInv'
    BY <2>4, BindKeeps
  <2>5. ASSUME NEW o \in Objects, NEW k \in Kinds, Unbind(o, k) PROVE IInv'
    BY <2>5, UnbindKeeps
  <2>6. ASSUME NEW o \in Objects, FreeHandle(o) PROVE IInv'
    BY <2>6, FreeHandleKeeps
  <2>7. ASSUME NEW o \in Objects, FreeInvalidHandle(o) PROVE IInv'
    BY <2>7, FreeInvalidHandleKeeps
  <2>8. ASSUME NEW o \in Objects, ReleaseHandle(o) PROVE IInv'
    BY <2>8, ReleaseHandleKeeps
  <2>9. ~Disconnect
    BY DEF Disconnect, Disciplined
  <2>10. IInv'
    BY <1>2, <2>1, <2>2, <2>3, <2>4, <2>5, <2>6, <2>7, <2>8, <2>9 DEF Next
  <2>11. QED BY <1>2, <2>10, FaultsKept DEF Disciplined
<1>3. QED BY <1>1, <1>2

\* The invariant holds for ever, by induction on the steps.
LEMMA IInvAlways == Spec => [](Disciplined => IInv)
<1>1. Init => (Disciplined => IInv)
  BY InitIInv
<1>2. (Disciplined => IInv) /\ [Next]_vars => (Disciplined => IInv)'
  BY NextIInv, FaultsKept DEF vars, Disciplined
<1>3. QED BY <1>1, <1>2, PTL DEF Spec

-----------------------------------------------------------------------------
(* What holds beyond the discipline.  These invariants do without the        *)
(* bindings, so that they survive every fault but the one they exclude.      *)

\* A raw value an object has is allocated, and no other object has it.
Owned == AllocatedIsLive /\ HandlesNotShared

\* A connection that stays open never makes an object's handle invalid.
LEMMA NextOwned ==
  ASSUME TypeOK, Owned, "disconnect_open" \notin faults, [Next]_vars
  PROVE  Owned'
<1> USE DEF Owned, AllocatedIsLive, HandlesNotShared, IsAllocated
<1>1. ASSUME NEW bs, DestroyUnreferenced(bs) PROVE Owned'
  <2> DEFINE gone == {o \in Objects : o \notin held' /\ \A e \in entries' : e.obj # o}
  <2>1. /\ handle' = [o \in Objects |-> IF o \in gone THEN NullHandle ELSE handle[o]]
        /\ liveRaw' = liveRaw \ {handle[o] : o \in gone} \/ liveRaw' = liveRaw
    BY <1>1 DEF DestroyUnreferenced
  <2>2. gone \subseteq Objects
    OBVIOUS
  <2> HIDE DEF gone
  <2>3. \A o \in Objects : handle'[o] # NullHandle => o \notin gone /\ handle'[o] = handle[o]
    BY <2>1
  <2>4. \A o \in Objects : handle'[o] # NullHandle => handle'[o] \in liveRaw'
    BY <2>1, <2>2, <2>3
  <2> QED BY <2>3, <2>4
<1>2. CASE UNCHANGED vars
  BY <1>2 DEF vars
<1>3. ASSUME NEW b \in Buffers, CreateBuffer(b) \/ DestroyBuffer(b) PROVE Owned'
  BY <1>1, <1>3 DEF CreateBuffer, DestroyBuffer
<1>4. ASSUME NEW o \in Objects, NEW r \in RawHandles, AllocateWithParent(o, r) PROVE Owned'
  <2>1. handle[o] = NullHandle /\ r \notin liveRaw /\ liveRaw' = liveRaw \union {r}
        /\ handle'[o] = r /\ \A q \in Objects : q # o => handle'[q] = handle[q]
    BY <1>4 DEF AllocateWithParent, TypeOK
  <2> QED BY <2>1
<1>5. ASSUME NEW b \in Buffers, NEW o \in Objects, NEW k \in Kinds, NEW s \in Slots, Bind(b, o, k, s)
      PROVE  Owned'
  BY <1>5 DEF Bind
<1>6. ASSUME NEW o \in Objects, NEW k \in Kinds, Unbind(o, k) PROVE Owned'
  BY <1>1, <1>6 DEF Unbind
<1>7. ASSUME NEW o \in Objects, FreeHandle(o) PROVE Owned'
  <2>1. handle[o] # NullHandle /\ liveRaw' = liveRaw \ {handle[o]}
        /\ handle'[o] = NullHandle /\ \A q \in Objects : q # o => handle'[q] = handle[q]
    BY <1>7 DEF FreeHandle, TypeOK
  <2> QED BY <2>1
<1>8. ASSUME NEW o \in Objects, FreeInvalidHandle(o) PROVE Owned'
  BY <1>8 DEF FreeInvalidHandle
<1>9. ASSUME NEW o \in Objects, ReleaseHandle(o) PROVE Owned'
  BY <1>1, <1>9 DEF ReleaseHandle
<1>10. ~Disconnect
  BY DEF Disconnect
<1> QED BY <1>2, <1>3, <1>4, <1>5, <1>6, <1>7, <1>8, <1>9, <1>10 DEF Next

\* If besides nobody frees a handle that is bound, no key becomes stale: a handle
\* goes with the last entry that names its object.
LEMMA NextEntriesMatch ==
  ASSUME TypeOK, Owned, EntriesMatchHandles, [Next]_vars,
         faults \intersect {"free_bound", "disconnect_open"} = {}
  PROVE  EntriesMatchHandles'
<1> USE DEF EntriesMatchHandles
<1>1. \A e \in entries : e.obj \in Objects /\ e.raw \in RawHandles /\ IsAllocated(e.obj)
  BY NullHandleAssumption DEF TypeOK, Entry, IsAllocated
<1>2. ASSUME NEW bs, DestroyUnreferenced(bs), entries' \subseteq entries PROVE EntriesMatchHandles'
  <2>1. \A e \in entries' : handle'[e.obj] = handle[e.obj]
    BY <1>1, <1>2 DEF DestroyUnreferenced
  <2> QED BY <1>2, <2>1
<1>3. CASE UNCHANGED vars
  BY <1>3 DEF vars
<1>4. ASSUME NEW b \in Buffers, CreateBuffer(b) \/ DestroyBuffer(b) PROVE EntriesMatchHandles'
  BY <1>2, <1>4 DEF CreateBuffer, DestroyBuffer
<1>5. ASSUME NEW o \in Objects, NEW r \in RawHandles, AllocateWithParent(o, r) PROVE EntriesMatchHandles'
  <2>1. ~IsAllocated(o) /\ entries' = entries /\ \A q \in Objects : q # o => handle'[q] = handle[q]
    BY <1>5 DEF AllocateWithParent, TypeOK
  <2> QED BY <1>1, <2>1
<1>6. ASSUME NEW b \in Buffers, NEW o \in Objects, NEW k \in Kinds, NEW s \in Slots, Bind(b, o, k, s)
      PROVE  EntriesMatchHandles'
  BY <1>6 DEF Bind
<1>7. ASSUME NEW o \in Objects, NEW k \in Kinds, Unbind(o, k) PROVE EntriesMatchHandles'
  BY <1>2, <1>7 DEF Unbind, Notified
<1>8. ASSUME NEW o \in Objects, FreeHandle(o) PROVE EntriesMatchHandles'
  <2>1. \A e \in entries : e.obj # o
    BY <1>8 DEF FreeHandle, NothingBound
  <2>2. entries' \subseteq entries /\ \A q \in Objects : q # o => handle'[q] = handle[q]
    BY <1>8 DEF FreeHandle, Notified, TypeOK
  <2> QED BY <1>1, <2>1, <2>2
<1>9. ASSUME NEW o \in Objects, FreeInvalidHandle(o) PROVE EntriesMatchHandles'
  BY <1>9 DEF FreeInvalidHandle, Owned, AllocatedIsLive
<1>10. ASSUME NEW o \in Objects, ReleaseHandle(o) PROVE EntriesMatchHandles'
  BY <1>2, <1>10 DEF ReleaseHandle
<1>11. ~Disconnect
  BY DEF Disconnect
<1> QED BY <1>3, <1>4, <1>5, <1>6, <1>7, <1>8, <1>9, <1>10, <1>11 DEF Next

\* Each allocated handle keeps an object somebody points to, or is freed.
LEMMA NextNoOrphan ==
  ASSUME TypeOK, NoOrphanHandle, [Next]_vars
  PROVE  NoOrphanHandle'
<1> DEFINE Kept(r) == \E o \in Objects : handle[o] = r /\ Referenced(o)
           KeptThen(r) == \E o \in Objects : handle'[o] = r /\ Referenced(o)'
<1> SUFFICES ASSUME "free_fails" \notin faults, NEW r \in liveRaw' PROVE KeptThen(r)
  BY FaultsKept DEF NoOrphanHandle
<1>1. \A x \in liveRaw : Kept(x)
  BY DEF NoOrphanHandle
<1>2. r \in RawHandles /\ r # NullHandle
  BY NextTypeOK, NullHandleAssumption DEF TypeOK
<1> HIDE DEF Kept
<1>3. ASSUME NEW bs, DestroyUnreferenced(bs) PROVE KeptThen(r)
  <2>1. r \in liveRaw /\ \A o \in Objects : handle[o] = r => handle'[o] = r /\ Referenced(o)'
    BY <1>3 DEF DestroyUnreferenced, Referenced
  <2> QED BY <1>1, <2>1 DEF Kept
<1>4. ASSUME r \in liveRaw,
             \A o \in Objects : handle[o] = r => handle'[o] = r,
             held \subseteq held', entries \subseteq entries'
      PROVE  KeptThen(r)
  BY <1>1, <1>4 DEF Kept, Referenced
<1>5. CASE UNCHANGED vars
  BY <1>4, <1>5 DEF vars
<1>6. ASSUME NEW b \in Buffers, CreateBuffer(b) \/ DestroyBuffer(b) PROVE KeptThen(r)
  BY <1>3, <1>4, <1>6 DEF CreateBuffer, DestroyBuffer
<1>7. ASSUME NEW o \in Objects, NEW n \in RawHandles, AllocateWithParent(o, n) PROVE KeptThen(r)
  <2>1. /\ handle[o] = NullHandle /\ handle'[o] = n /\ \A q \in Objects : q # o => handle'[q] = handle[q]
        /\ o \in held' /\ held \subseteq held' /\ entries' = entries /\ liveRaw' = liveRaw \union {n}
    BY <1>7 DEF AllocateWithParent, IsAllocated, TypeOK
  <2>2. CASE r = n
    BY <2>1, <2>2 DEF Referenced
  <2>3. CASE r # n
    BY <1>2, <1>4, <2>1, <2>3
  <2> QED BY <2>2, <2>3
<1>8. ASSUME NEW b \in Buffers, NEW o \in Objects, NEW k \in Kinds, NEW s \in Slots, Bind(b, o, k, s)
      PROVE  KeptThen(r)
  BY <1>4, <1>8 DEF Bind
<1>9. ASSUME NEW o \in Objects, NEW k \in Kinds, Unbind(o, k) PROVE KeptThen(r)
  BY <1>3, <1>9 DEF Unbind
<1>10. ASSUME NEW o \in Objects, FreeHandle(o) PROVE KeptThen(r)
  \* The signals fire with a cleared handle, and no entry is found.
  <2>1. handle'[o] = NullHandle /\ \A q \in Objects : q # o => handle'[q] = handle[q]
    BY <1>10 DEF FreeHandle, TypeOK
  <2>2. \A e \in entries : e.raw # NullHandle
    BY NullHandleAssumption DEF TypeOK, Entry
  <2>3. Notified(entries, o, "params", handle'[o]) = entries
        /\ Notified(entries, o, "columns", handle'[o]) = entries
    BY <2>1, <2>2 DEF Notified
  <2>4. entries' = entries /\ held' = held /\ r \in liveRaw /\ r # handle[o]
    BY <1>10, <2>3 DEF FreeHandle
  <2> QED BY <1>4, <2>1, <2>4
<1>11. ASSUME NEW o \in Objects, FreeInvalidHandle(o) PROVE KeptThen(r)
  <2>1. /\ r \in liveRaw /\ handle[o] # r /\ held' = held /\ entries' = entries
        /\ \A q \in Objects : q # o => handle'[q] = handle[q]
    BY <1>11 DEF FreeInvalidHandle, TypeOK
  <2> QED BY <1>4, <2>1
<1>12. ASSUME NEW o \in Objects, ReleaseHandle(o) PROVE KeptThen(r)
  BY <1>3, <1>12 DEF ReleaseHandle
<1>13. ~Disconnect
  BY DEF Disconnect
<1> QED BY <1>5, <1>6, <1>7, <1>8, <1>9, <1>10, <1>11, <1>12, <1>13 DEF Next

-----------------------------------------------------------------------------
\* The variables keep their types whatever goes wrong (SqlHandle.h,
\* ColumnBuffer.h).
THEOREM TypeCorrect == Spec => []TypeOK
<1>1. Init => TypeOK
  BY DEF Init, TypeOK
<1>2. TypeOK /\ [Next]_vars => TypeOK'
  BY NextTypeOK
<1>3. QED BY <1>1, <1>2, PTL DEF Spec

\* Under the discipline every pointer the driver holds is in its buffer's
\* connection map, under the statement that has the handle now (BindColumnImpl,
\* BindParamImpl).
THEOREM BindingsAlwaysTracked == Spec => [](Disciplined => BindingsTracked)
<1>1. IInv => BindingsTracked
  BY DEF IInv
<1>2. QED BY <1>1, IInvAlways, PTL

\* Under the discipline the driver never holds a pointer into a destroyed buffer
\* (~ColumnBindable).
THEOREM NoDanglingBindingEver == Spec => []NoDanglingIfDisciplined
<1>1. (Disciplined => IInv) => NoDanglingIfDisciplined
  BY DEF IInv, NoDanglingIfDisciplined, NoDanglingBinding, BindingsTracked, EntriesOfLiving
<1>2. QED BY <1>1, IInvAlways, PTL

\* Two objects never hold the same raw handle while the connection stays: neither
\* can free or unbind the other's statement, though raw values are recycled
\* (SqlHandle::AllocateWithParent, Free).
THEOREM HandlesAlwaysOwnedOnce == Spec => []HandlesOwnedOnce
<1> DEFINE Inv == "disconnect_open" \in faults \/ Owned
<1>1. Init => Inv
  BY DEF Init, Owned, AllocatedIsLive, HandlesNotShared, IsAllocated
<1>2. TypeOK /\ Inv /\ [Next]_vars => Inv'
  BY NextOwned, FaultsKept
<1>3. Inv => HandlesOwnedOnce
  BY DEF Owned, HandlesOwnedOnce
<1> QED BY <1>1, <1>2, <1>3, TypeCorrect, PTL DEF Spec

\* The connection maps of the buffers and the driver agree (BindColumnImpl,
\* OnUnbindColumns, OnResetParams): no binding is missing for disciplined callers,
\* and no key is stale unless handles go under their buffers.
THEOREM MapsAlwaysAgree == Spec => []MapsAgree
<1> DEFINE Calm == faults \intersect {"free_bound", "disconnect_open"} = {}
           Inv == Calm => Owned /\ EntriesMatchHandles
<1>1. Init => Inv
  BY DEF Init, Owned, AllocatedIsLive, HandlesNotShared, IsAllocated, EntriesMatchHandles
<1>2. TypeOK /\ Inv /\ [Next]_vars => Inv'
  BY NextOwned, NextEntriesMatch, FaultsKept
<1>3. Inv /\ (Disciplined => BindingsTracked) => MapsAgree
  BY DEF MapsAgree
<1> QED BY <1>1, <1>2, <1>3, TypeCorrect, BindingsAlwaysTracked, PTL DEF Spec

\* No statement is lost (~SqlHandle, ~ColumnBindable, ExecutableStatement::Reset):
\* whichever goes last, the handle goes with it, if the driver frees it.
THEOREM NoHandleOrphaned == Spec => []NoOrphanHandle
<1>1. Init => NoOrphanHandle
  BY DEF Init, NoOrphanHandle
<1>2. TypeOK /\ NoOrphanHandle /\ [Next]_vars => NoOrphanHandle'
  BY NextNoOrphan
<1> QED BY <1>1, <1>2, TypeCorrect, PTL DEF Spec
=============================================================================

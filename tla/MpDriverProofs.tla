--------------------------- MODULE MpDriverProofs ---------------------------
(***************************************************************************)
(* Proofs about MpDriver, for any finite number of interfaces, handles and *)
(* adapters.                                                               *)
(*                                                                         *)
(* The reference counts are right because a thread that names an adapter   *)
(* is one of its holders or the one that destroys it, and an adapter that  *)
(* can be found in the list has a holder, the miniport that runs on it:    *)
(* MpFindAdapter never takes a reference on a count of zero.               *)
(***************************************************************************)
EXTENDS MpDriver, FiniteSetTheorems, TLAPS

Live == {a \in Adapters : adapter[a].live}
Creating == {i \in Interfaces : work[i].pc = "create"}

\* The references of the control device: the adapters, the initialisations that
\* have none yet, and those that could not allocate theirs.
DeviceCounted ==
    /\ devRefs = Cardinality(Live) + Cardinality(Creating) + lost
    /\ device <=> devRefs > 0

\* An adapter is held, with an exact count, or destroyed by one thread.
AdapterInv(a) ==
    \/ /\ Destroyers(a) = {} /\ Holders(a) # {}
       /\ adapter[a].ReferenceCount = Cardinality(Holders(a))
    \/ /\ Holders(a) = {}
       /\ \E t \in Threads : Destroyers(a) = {t}

\* What a thread names, and what the list and the timers refer to.
Pointers ==
    /\ \A t \in Threads : IF work[t].pc \in {"idle", "create"} THEN work[t].a = None
                          ELSE work[t].a \in Live
    /\ \A a \in listed : \E i \in Interfaces : work[i] = [pc |-> "running", a |-> a]
    /\ \A a \in Adapters \ Live : adapter[a].timer = "none"

\* The miniport an interface is set up or running with is its own, and not halted.
Owns(i) ==
    work[i].pc \in {"setup", "running"} =>
        adapter[work[i].a].IfIndex = i /\ adapter[work[i].a].MiniportHandle

IInv ==
    /\ TypeOK
    /\ stopped # "assert"
    /\ Pointers
    /\ \A i \in Interfaces : Owns(i)
    /\ \A a \in Live : AdapterInv(a)
    /\ DeviceCounted

-----------------------------------------------------------------------------
(* Facts about the sets that are counted.                                  *)

\* The size of a set with one more element.
LEMMA CountAdd ==
    ASSUME NEW S, IsFiniteSet(S), NEW x, x \notin S
    PROVE  Cardinality(S \cup {x}) = Cardinality(S) + 1
BY FS_AddElement

\* The size of a set with one element less.
LEMMA CountRemove ==
    ASSUME NEW S, IsFiniteSet(S), NEW x \in S
    PROVE  /\ Cardinality(S \ {x}) = Cardinality(S) - 1
           /\ Cardinality(S) \in Nat \ {0}
<1>1. Cardinality(S \ {x}) = Cardinality(S) - 1
  BY FS_RemoveElement
<1>2. Cardinality(S) \in Nat /\ Cardinality(S) # 0
  BY FS_CardinalityType, FS_EmptySet
<1> QED BY <1>1, <1>2

\* The sets that are counted are finite.
LEMMA AllFinite ==
    /\ IsFiniteSet(Live) /\ IsFiniteSet(Creating)
    /\ \A a : IsFiniteSet(Holders(a))
<1>1. IsFiniteSet(Threads)
  BY MpDriverAssumption, FS_Union DEF Threads
<1>2. Live \subseteq Adapters /\ Creating \subseteq Interfaces
  BY DEF Live, Creating
<1>3. ASSUME NEW a PROVE IsFiniteSet(Holders(a))
  <2>1. Holders(a) \subseteq Threads
    BY DEF Holders
  <2> QED BY <1>1, <2>1, FS_Subset
<1> QED BY <1>2, <1>3, MpDriverAssumption, FS_Subset

\* A step that leaves the adapters and the counts of the device alone.
LEMMA DeviceUnchanged ==
    ASSUME DeviceCounted, Live' = Live, Creating' = Creating,
           UNCHANGED <<device, devRefs, lost>>
    PROVE  DeviceCounted'
BY DEF DeviceCounted

\* A step that leaves an adapter as it is.
LEMMA SameAdapter ==
    ASSUME NEW a, AdapterInv(a), Holders(a)' = Holders(a), Destroyers(a)' = Destroyers(a),
           adapter'[a].ReferenceCount = adapter[a].ReferenceCount
    PROVE  AdapterInv(a)'
BY DEF AdapterInv

\* A step that leaves an interface and its adapter as they are.
LEMMA SameOwner ==
    ASSUME NEW i, Owns(i), work'[i] = work[i],
           adapter'[work[i].a].IfIndex = adapter[work[i].a].IfIndex,
           adapter'[work[i].a].MiniportHandle = adapter[work[i].a].MiniportHandle
    PROVE  Owns(i)'
BY DEF Owns

PCs == {"idle", "create", "setup", "running", "opening", "open", "dereference",
        "cleanup", "wait"}

-----------------------------------------------------------------------------
(* The steps.                                                              *)

\* A thread that holds an adapter goes on holding it.
LEMMA HolderMoves ==
    ASSUME IInv, NEW t \in Threads, NEW pc \in PCs \ {"idle", "create", "cleanup", "wait"},
           work[t].pc \in PCs \ {"idle", "create", "cleanup", "wait"}, Goes(t, pc),
           listed' \in SUBSET Adapters,
           \A a \in listed' : \E i \in Interfaces : work'[i] = [pc |-> "running", a |-> a],
           \A i \in Interfaces : Owns(i)',
           adapter' \in [Adapters -> AdapterContext],
           \A a \in Adapters : /\ adapter'[a].live = adapter[a].live
                              /\ adapter'[a].ReferenceCount = adapter[a].ReferenceCount
                              /\ adapter'[a].timer = adapter[a].timer,
           UNCHANGED <<loaded, device, devRefs, lost, stopped>>
    PROVE  IInv'
<1>1. TypeOK'
  BY DEF IInv, TypeOK, Goes, PCs
<1>2. /\ work[t].a \in Live
      /\ \A u \in Threads : work'[u] = IF u = t THEN [work[t] EXCEPT !.pc = pc] ELSE work[u]
      /\ work[t] = [pc |-> work[t].pc, a |-> work[t].a]
  BY DEF IInv, TypeOK, Goes, Pointers
<1>3. Live' = Live
  BY DEF Live
<1>4. Pointers'
  BY <1>2, <1>3 DEF IInv, Pointers
<1>5. ASSUME NEW a PROVE Holders(a)' = Holders(a) /\ Destroyers(a)' = Destroyers(a)
  BY <1>2 DEF Holders, Destroyers
<1>6. \A a \in Live' : AdapterInv(a)'
  BY <1>3, <1>5, SameAdapter DEF IInv, Live
<1>7. Creating' = Creating
  BY <1>2 DEF Creating, Threads
<1>8. DeviceCounted'
  BY <1>3, <1>7, DeviceUnchanged DEF IInv
<1> QED BY <1>1, <1>4, <1>6, <1>8 DEF IInv

\* The steps of the initialisation and the halt that move a miniport, and the
\* opens and closes that move a handle, without touching a count.
LEMMA MovesPreserve ==
    ASSUME IInv, NEW t \in Threads,
           \/ t \in Interfaces /\ (\/ MiniportInitializeFails(t)
                                   \/ MiniportInitializeHandler(t)
                                   \/ MiniportHaltHandler(t))
           \/ \E ok \in BOOLEAN : MpIrpCreate(t, ok)
           \/ MpIrpClose(t)
    PROVE  IInv'
<1>0. /\ work \in [Threads -> [pc : PCs, a : Adapters \cup {None}]]
      /\ \A a \in listed : \E i \in Interfaces : work[i] = [pc |-> "running", a |-> a]
      /\ \A i \in Interfaces : Owns(i)
      /\ Interfaces \subseteq Threads /\ listed \subseteq Adapters
      /\ adapter \in [Adapters -> AdapterContext]
  BY DEF IInv, TypeOK, Pointers, PCs, Threads
<1>1. CASE t \in Interfaces /\ MiniportInitializeHandler(t)
  <2>1. work'[t] = [pc |-> "running", a |-> work[t].a]
    BY <1>0, <1>1 DEF MiniportInitializeHandler, Goes
  <2>2. work[t].a \in Adapters
    BY <1>1 DEF MiniportInitializeHandler, At, IInv, Pointers, Live
  <2>3. \A a \in listed' : \E i \in Interfaces : work'[i] = [pc |-> "running", a |-> a]
    BY <1>0, <1>1, <2>1 DEF MiniportInitializeHandler, Goes, At
  <2>4. listed' \in SUBSET Adapters /\ adapter' = adapter
    BY <1>0, <1>1, <2>2 DEF MiniportInitializeHandler
  <2>5. \A i \in Interfaces : Owns(i)'
    BY <1>0, <1>1, <2>1, <2>4 DEF MiniportInitializeHandler, Goes, At, Owns
  <2> QED BY <1>0, <1>1, <2>3, <2>4, <2>5, HolderMoves DEF MiniportInitializeHandler, At, PCs
<1>2. CASE t \in Interfaces /\ MiniportHaltHandler(t)
  <2>1. \A a \in listed' : \E i \in Interfaces : work'[i] = [pc |-> "running", a |-> a]
    BY <1>0, <1>2 DEF MiniportHaltHandler, Goes
  <2>2. listed' \in SUBSET Adapters
    BY <1>0, <1>2 DEF MiniportHaltHandler
  <2>3. adapter' \in [Adapters -> AdapterContext]
    <3>1. PICK q : q = adapter[work[t].a]
      OBVIOUS
    <3>2. work[t].a \in Adapters
      BY <1>2 DEF MiniportHaltHandler, At, IInv, Pointers, Live
    <3>3. q \in AdapterContext
      BY <1>0, <3>1, <3>2
    <3>4. [q EXCEPT !.MiniportHandle = FALSE] \in AdapterContext
      BY <3>3 DEF AdapterContext
    <3>5. PICK r : r = [q EXCEPT !.MiniportHandle = FALSE]
      OBVIOUS
    <3>6. adapter' = [adapter EXCEPT ![work[t].a] = r]
      BY <1>2, <3>1, <3>5 DEF MiniportHaltHandler
    <3> QED BY <1>0, <3>2, <3>4, <3>5, <3>6
  <2>4. \A a \in Adapters : /\ adapter'[a].live = adapter[a].live
                           /\ adapter'[a].ReferenceCount = adapter[a].ReferenceCount
                           /\ adapter'[a].timer = adapter[a].timer
    BY <1>0, <1>2 DEF MiniportHaltHandler, AdapterContext
  <2>5. ASSUME NEW i \in Interfaces PROVE Owns(i)'
    <3>1. CASE i = t
      BY <1>0, <1>2, <3>1 DEF MiniportHaltHandler, Goes, Owns
    <3>2. CASE i # t /\ work[i].pc \in {"setup", "running"}
      <4>1. work'[i] = work[i] /\ work[i].a \in Adapters
        BY <1>0, <1>2, <3>2 DEF MiniportHaltHandler, Goes, IInv, Pointers, Live
      <4>2. work[i].a # work[t].a
        BY <1>0, <1>2, <3>2 DEF MiniportHaltHandler, At, Owns
      <4>3. adapter'[work[i].a] = adapter[work[i].a]
        BY <1>0, <1>2, <4>1, <4>2 DEF MiniportHaltHandler
      <4> QED BY <1>0, <4>1, <4>3, SameOwner
    <3>3. CASE i # t /\ work[i].pc \notin {"setup", "running"}
      BY <1>0, <1>2, <3>3 DEF MiniportHaltHandler, Goes, Owns
    <3> QED BY <3>1, <3>2, <3>3
  <2> QED BY <1>2, <2>1, <2>2, <2>3, <2>4, <2>5, HolderMoves DEF MiniportHaltHandler, At, PCs
<1>3. ASSUME NEW pc \in {"dereference", "open"}, Goes(t, pc),
             work[t].pc \in {"setup", "opening", "open"},
             UNCHANGED <<loaded, adapter, listed, device, devRefs, lost, stopped>>
      PROVE  IInv'
  <2>1. \A a \in listed' : \E i \in Interfaces : work'[i] = [pc |-> "running", a |-> a]
    BY <1>0, <1>3 DEF Goes
  <2>2. listed' \in SUBSET Adapters /\ \A i \in Interfaces : Owns(i)'
    BY <1>0, <1>3 DEF Goes, Owns
  <2> QED BY <1>0, <1>3, <2>1, <2>2, HolderMoves DEF PCs
<1> QED BY <1>1, <1>2, <1>3 DEF MiniportInitializeFails, MpIrpCreate, MpIrpClose, At

\* The device reference of an initialisation, and its loss without memory.
LEMMA ReferencePreserves ==
    ASSUME IInv, NEW i \in Interfaces, MpIoctlReference(i) \/ MpCreateAdapterNoMemory(i)
    PROVE  IInv'
<1>1. i \in Threads /\ work \in [Threads -> [pc : PCs, a : Adapters \cup {None}]]
  BY DEF IInv, TypeOK, PCs, Threads
<1>2. /\ work[i].pc \in {"idle", "create"} /\ work[i].a = None
      /\ work'[i].pc \in {"idle", "create"} /\ work'[i].a = None
      /\ \A u \in Threads \ {i} : work'[u] = work[u]
      /\ work' \in [Threads -> [pc : PCs, a : Adapters \cup {None}]]
      /\ UNCHANGED <<loaded, adapter, listed, stopped>>
  BY <1>1 DEF MpIoctlReference, MpCreateAdapterNoMemory, Goes, At, IInv, Pointers, PCs
<1>3. Live' = Live
  BY <1>2 DEF Live
<1>4. Pointers'
  <2>1. \A t \in Threads : IF work'[t].pc \in {"idle", "create"} THEN work'[t].a = None
                           ELSE work'[t].a \in Live'
    BY <1>2, <1>3 DEF IInv, Pointers
  <2>2. \A a \in listed' : \E j \in Interfaces : work'[j] = [pc |-> "running", a |-> a]
    BY <1>2 DEF IInv, Pointers, Threads
  <2> QED BY <1>2, <1>3, <2>1, <2>2 DEF IInv, Pointers
<1>5. ASSUME NEW a \in Adapters PROVE Holders(a)' = Holders(a) /\ Destroyers(a)' = Destroyers(a)
  BY <1>2, MpDriverAssumption DEF Holders, Destroyers
<1>6. \A a \in Live' : AdapterInv(a)'
  BY <1>2, <1>3, <1>5, SameAdapter DEF IInv, Live
<1>7. DeviceCounted' /\ TypeOK'
  <2>1. CASE MpIoctlReference(i)
    <3>1. Creating' = Creating \cup {i} /\ i \notin Creating
      BY <1>1, <2>1 DEF Creating, MpIoctlReference, Goes, At, Threads
    <3>2. Cardinality(Creating') = Cardinality(Creating) + 1
      BY <3>1, AllFinite, CountAdd
    <3>3. /\ devRefs' = devRefs + 1 /\ device' = TRUE /\ lost' = lost /\ devRefs \in Nat
          /\ lost \in 0 .. MaxLost
      BY <2>1 DEF MpIoctlReference, IInv, TypeOK
    <3>4. Cardinality(Live) \in Nat /\ Cardinality(Creating) \in Nat
      BY AllFinite, FS_CardinalityType
    <3>5. DeviceCounted'
      BY <1>3, <3>2, <3>3, <3>4, MpDriverAssumption DEF IInv, DeviceCounted
    <3> QED BY <1>2, <3>3, <3>5 DEF IInv, TypeOK, PCs
  <2>2. CASE MpCreateAdapterNoMemory(i)
    <3>1. Creating' = Creating \ {i} /\ i \in Creating
      BY <1>1, <2>2 DEF Creating, MpCreateAdapterNoMemory, Goes, At, Threads
    <3>2. Cardinality(Creating') = Cardinality(Creating) - 1 /\ Cardinality(Creating) \in Nat
      BY <3>1, AllFinite, CountRemove
    <3>3. /\ devRefs' = devRefs /\ device' = device /\ lost' = lost + 1
          /\ lost \in 0 .. MaxLost /\ lost' \in 0 .. MaxLost
      BY <2>2, MpDriverAssumption DEF MpCreateAdapterNoMemory, IInv, TypeOK
    <3>4. Cardinality(Live) \in Nat
      BY AllFinite, FS_CardinalityType
    <3>5. DeviceCounted'
      BY <1>3, <3>2, <3>3, <3>4, MpDriverAssumption DEF IInv, DeviceCounted
    <3> QED BY <1>2, <3>3, <3>5 DEF IInv, TypeOK, PCs
  <2> QED BY <2>1, <2>2
<1>20. \A j \in Interfaces : Owns(j)'
  BY <1>2 DEF IInv, Owns, Threads
<1> QED BY <1>2, <1>4, <1>6, <1>7, <1>20 DEF IInv

\* A new adapter has one thread, which holds it or, when a part of it could not
\* be created, destroys it.
LEMMA CreatePreserves ==
    ASSUME IInv, NEW i \in Interfaces, NEW b \in Adapters, NEW outcome \in CreateOutcomes,
           MpCreateAdapter(i, b, outcome)
    PROVE  IInv'
<1>1. /\ i \in Threads /\ work \in [Threads -> [pc : PCs, a : Adapters \cup {None}]]
      /\ work[i].pc = "create" /\ b \notin Live
  BY DEF IInv, TypeOK, PCs, Threads, MpCreateAdapter, At, Live, Pointers
<1>2. /\ work'[i] = [pc |-> IF outcome = "failed" THEN "cleanup" ELSE "setup", a |-> b]
      /\ \A u \in Threads \ {i} : work'[u] = work[u]
      /\ work' \in [Threads -> [pc : PCs, a : Adapters \cup {None}]]
      /\ UNCHANGED <<loaded, listed, device, devRefs, lost>>
      /\ stopped' \in {"no", "assert", "null"} /\ stopped' # "assert"
  BY <1>1 DEF MpCreateAdapter, PCs, IInv, TypeOK
<1>3. /\ adapter'[b].live
      /\ adapter'[b].ReferenceCount = 1
      /\ adapter'[b].IfIndex = i /\ adapter'[b].MiniportHandle
      /\ \A a \in Adapters \ {b} : adapter'[a] = adapter[a]
      /\ adapter' \in [Adapters -> AdapterContext]
  BY DEF MpCreateAdapter, IInv, TypeOK, AdapterContext
<1>4. TypeOK'
  BY <1>2, <1>3 DEF IInv, TypeOK, PCs
<1>5. Live' = Live \cup {b}
  BY <1>3 DEF Live
<1>6. Pointers'
  <2>1. \A t \in Threads : IF work'[t].pc \in {"idle", "create"} THEN work'[t].a = None
                           ELSE work'[t].a \in Live'
    BY <1>2, <1>5 DEF IInv, Pointers
  <2>2. \A a \in listed' : \E j \in Interfaces : work'[j] = [pc |-> "running", a |-> a]
    BY <1>1, <1>2 DEF IInv, Pointers, Threads
  <2>3. \A a \in Adapters \ Live' : adapter'[a].timer = "none"
    BY <1>3, <1>5 DEF IInv, Pointers
  <2> QED BY <2>1, <2>2, <2>3 DEF Pointers
<1>7. ASSUME NEW a \in Live' PROVE AdapterInv(a)'
  <2>1. CASE a = b
    <3>1. \A u \in Threads \ {i} : work'[u].a # b
      BY <1>1, <1>2, MpDriverAssumption DEF IInv, Pointers
    <3>2. CASE outcome # "failed"
      <4>1. Holders(b)' = {i} /\ Destroyers(b)' = {}
        BY <1>1, <1>2, <3>1, <3>2 DEF Holders, Destroyers
      <4> QED BY <1>3, <2>1, <4>1, FS_Singleton DEF AdapterInv
    <3>3. CASE outcome = "failed"
      <4>1. Holders(b)' = {} /\ Destroyers(b)' = {i}
        BY <1>1, <1>2, <3>1, <3>3 DEF Holders, Destroyers
      <4> QED BY <1>1, <2>1, <4>1 DEF AdapterInv
    <3> QED BY <3>2, <3>3
  <2>2. CASE a # b
    <3>1. a \in Live /\ a # None
      BY <1>5, <2>2, MpDriverAssumption DEF Live
    <3>2. Holders(a)' = Holders(a) /\ Destroyers(a)' = Destroyers(a)
      BY <1>1, <1>2, <2>2, <3>1 DEF Holders, Destroyers, IInv, Pointers
    <3> QED BY <1>3, <2>2, <3>1, <3>2, SameAdapter DEF IInv, Live
  <2> QED BY <2>1, <2>2
<1>8. DeviceCounted'
  <2>1. Creating' = Creating \ {i} /\ i \in Creating
    BY <1>1, <1>2 DEF Creating, Threads
  <2>2. Cardinality(Creating') = Cardinality(Creating) - 1 /\ Cardinality(Creating) \in Nat
    BY <2>1, AllFinite, CountRemove
  <2>3. Cardinality(Live') = Cardinality(Live) + 1 /\ Cardinality(Live) \in Nat
    BY <1>1, <1>5, AllFinite, CountAdd, FS_CardinalityType
  <2> QED BY <1>2, <2>2, <2>3 DEF IInv, TypeOK, DeviceCounted
<1>20. ASSUME NEW j \in Interfaces PROVE Owns(j)'
  <2>1. CASE j = i
    BY <1>2, <1>3, <2>1 DEF Owns
  <2>2. CASE j # i /\ work[j].pc \in {"setup", "running"}
    <3>1. work'[j] = work[j] /\ work[j].a \in Live
      BY <1>2, <2>2 DEF IInv, Pointers, Threads
    <3>2. adapter'[work[j].a] = adapter[work[j].a]
      BY <1>1, <1>3, <3>1 DEF Live
    <3> QED BY <3>1, <3>2, SameOwner DEF IInv
  <2>3. CASE j # i /\ work[j].pc \notin {"setup", "running"}
    BY <1>2, <2>3 DEF Owns, Threads
  <2> QED BY <2>1, <2>2, <2>3
<1> QED BY <1>2, <1>4, <1>6, <1>7, <1>8, <1>20 DEF IInv

\* An open adds itself to the holders of an adapter that has one already.
LEMMA FindPreserves ==
    ASSUME IInv, NEW h \in Handles, NEW b \in Adapters, MpFindAdapter(h, b)
    PROVE  IInv'
<1>1. /\ h \in Threads /\ work \in [Threads -> [pc : PCs, a : Adapters \cup {None}]]
      /\ work[h] = [pc |-> "idle", a |-> None] /\ b \in listed
  BY DEF IInv, TypeOK, PCs, Threads, MpFindAdapter, At, Pointers
<1>2. PICK i \in Interfaces : work[i] = [pc |-> "running", a |-> b]
  BY <1>1 DEF IInv, Pointers
<1>3. i \in Threads /\ b \in Live /\ i \in Holders(b)
  BY <1>2 DEF Threads, Holders, IInv, Pointers
<1>4. /\ Destroyers(b) = {} /\ adapter[b].ReferenceCount = Cardinality(Holders(b))
      /\ Cardinality(Holders(b)) \in Nat \ {0}
  BY <1>3, AllFinite, CountRemove DEF IInv, AdapterInv
<1>5. /\ work'[h] = [pc |-> "opening", a |-> b]
      /\ \A u \in Threads \ {h} : work'[u] = work[u]
      /\ work' \in [Threads -> [pc : PCs, a : Adapters \cup {None}]]
      /\ UNCHANGED <<loaded, listed, device, devRefs, lost>>
  BY <1>1 DEF MpFindAdapter, PCs
<1>6. /\ adapter'[b] = [adapter[b] EXCEPT !.ReferenceCount = adapter[b].ReferenceCount + 1]
      /\ adapter'[b].ReferenceCount = adapter[b].ReferenceCount + 1
      /\ adapter'[b].live = adapter[b].live /\ adapter'[b].timer = adapter[b].timer
      /\ adapter'[b].MiniportHandle = adapter[b].MiniportHandle
      /\ adapter'[b].IfIndex = adapter[b].IfIndex
      /\ \A a \in Adapters \ {b} : adapter'[a] = adapter[a]
  BY DEF MpFindAdapter, IInv, TypeOK, AdapterContext
<1>7. stopped' \in {"no", "assert", "null"} /\ stopped' # "assert"
  <2>1. (adapter[b].ReferenceCount < 1) = FALSE
    BY <1>4
  <2>2. stopped' = stopped
    BY <2>1, Zenon DEF MpFindAdapter
  <2> QED BY <2>2 DEF IInv, TypeOK
<1>8. TypeOK'
  <2>1. adapter' \in [Adapters -> AdapterContext]
    <3>1. PICK q : q = adapter[b]
      OBVIOUS
    <3>2. q \in AdapterContext /\ q.ReferenceCount + 1 \in Nat
      BY <1>4, <3>1 DEF IInv, TypeOK
    <3>3. [q EXCEPT !.ReferenceCount = q.ReferenceCount + 1] \in AdapterContext
      BY <3>2 DEF AdapterContext
    <3>4. PICK r : r = [q EXCEPT !.ReferenceCount = q.ReferenceCount + 1]
      OBVIOUS
    <3>5. adapter' = [adapter EXCEPT ![b] = r]
      BY <3>1, <3>4 DEF MpFindAdapter
    <3> QED BY <3>3, <3>4, <3>5 DEF IInv, TypeOK
  <2> QED BY <1>5, <1>7, <2>1 DEF IInv, TypeOK, PCs
<1>9. Live' = Live
  BY <1>6 DEF Live
<1>10. Pointers'
  <2>1. \A t \in Threads : IF work'[t].pc \in {"idle", "create"} THEN work'[t].a = None
                           ELSE work'[t].a \in Live'
    BY <1>3, <1>5, <1>9 DEF IInv, Pointers
  <2>2. \A a \in listed' : \E j \in Interfaces : work'[j] = [pc |-> "running", a |-> a]
    BY <1>1, <1>5 DEF IInv, Pointers, Threads
  <2>3. \A a \in Adapters \ Live' : adapter'[a].timer = "none"
    <3>1. \A a \in Adapters : adapter'[a].timer = adapter[a].timer
      BY <1>6
    <3> QED BY <1>9, <3>1 DEF IInv, Pointers
  <2> QED BY <2>1, <2>2, <2>3 DEF Pointers
<1>11. ASSUME NEW a \in Live' PROVE AdapterInv(a)'
  <2>1. CASE a = b
    <3>1. /\ Holders(b)' = Holders(b) \cup {h} /\ h \notin Holders(b)
          /\ Destroyers(b)' = Destroyers(b)
      BY <1>1, <1>5, MpDriverAssumption DEF Holders, Destroyers
    <3>2. Cardinality(Holders(b)') = Cardinality(Holders(b)) + 1
      BY <3>1, AllFinite, CountAdd
    <3> QED BY <1>4, <1>6, <2>1, <3>1, <3>2 DEF AdapterInv
  <2>2. CASE a # b
    <3>1. a \in Live /\ a # None
      BY <1>9, MpDriverAssumption DEF Live
    <3>2. Holders(a)' = Holders(a) /\ Destroyers(a)' = Destroyers(a)
      BY <1>1, <1>5, <2>2, <3>1 DEF Holders, Destroyers
    <3> QED BY <1>6, <2>2, <3>1, <3>2, SameAdapter DEF IInv, Live
  <2> QED BY <2>1, <2>2
<1>12. Creating' = Creating
  BY <1>1, <1>5, MpDriverAssumption DEF Creating, Threads
<1>13. DeviceCounted'
  BY <1>5, <1>9, <1>12, DeviceUnchanged DEF IInv
<1>20. ASSUME NEW j \in Interfaces PROVE Owns(j)'
  <2>1. CASE work'[j].pc \in {"setup", "running"}
    <3>1. work'[j] = work[j] /\ work[j].a \in Adapters
      BY <1>1, <1>5, <2>1, MpDriverAssumption DEF IInv, Pointers, Threads, Live, Idle
    <3> QED BY <1>6, <3>1, SameOwner DEF IInv
  <2>2. CASE work'[j].pc \notin {"setup", "running"}
    BY <2>2 DEF Owns
  <2> QED BY <2>1, <2>2
<1> QED BY <1>7, <1>8, <1>10, <1>11, <1>13, <1>20 DEF IInv

\* The last holder becomes the thread that destroys the adapter; any other one
\* leaves the remaining holders counted.
LEMMA DereferencePreserves ==
    ASSUME IInv, NEW t \in Threads, MpDereferenceAdapter(t)
    PROVE  IInv'
<1>0. PICK b : b = work[t].a
  OBVIOUS
<1> DEFINE new == adapter[b].ReferenceCount - 1
<1>1. /\ work \in [Threads -> [pc : PCs, a : Adapters \cup {None}]]
      /\ work[t] = [pc |-> "dereference", a |-> b] /\ b \in Live /\ b \in Adapters
      /\ t \in Holders(b)
  BY <1>0 DEF IInv, TypeOK, PCs, MpDereferenceAdapter, At, Pointers, Live, Holders
<1>2. /\ Destroyers(b) = {} /\ adapter[b].ReferenceCount = Cardinality(Holders(b))
      /\ Cardinality(Holders(b)) \in Nat \ {0}
      /\ Cardinality(Holders(b) \ {t}) = Cardinality(Holders(b)) - 1
  BY <1>1, AllFinite, CountRemove DEF IInv, AdapterInv
<1>3. new \in Nat /\ (new < 0) = FALSE
  BY <1>2
<1>4. /\ work'[t] = IF new = 0 THEN [pc |-> "cleanup", a |-> b] ELSE Idle
      /\ \A u \in Threads \ {t} : work'[u] = work[u]
      /\ work' \in [Threads -> [pc : PCs, a : Adapters \cup {None}]]
      /\ UNCHANGED <<loaded, listed, device, devRefs, lost>>
  BY <1>0, <1>1 DEF MpDereferenceAdapter, PCs, Idle
<1>5. /\ adapter'[b].ReferenceCount = new
      /\ adapter'[b].live = adapter[b].live /\ adapter'[b].timer = adapter[b].timer
      /\ adapter'[b].MiniportHandle = adapter[b].MiniportHandle
      /\ adapter'[b].IfIndex = adapter[b].IfIndex
      /\ \A a \in Adapters \ {b} : adapter'[a] = adapter[a]
  BY <1>0, <1>1 DEF MpDereferenceAdapter, IInv, TypeOK, AdapterContext
<1>6. stopped' \in {"no", "assert", "null"} /\ stopped' # "assert"
  <2>1. stopped' = stopped
    BY <1>0, <1>3, Zenon DEF MpDereferenceAdapter
  <2> QED BY <2>1 DEF IInv, TypeOK
<1>7. TypeOK'
  BY <1>0, <1>1, <1>3, <1>4, <1>6 DEF MpDereferenceAdapter, IInv, TypeOK, AdapterContext, PCs
<1>8. Live' = Live
  BY <1>5 DEF Live
<1>9. Pointers'
  <2>1. \A u \in Threads : IF work'[u].pc \in {"idle", "create"} THEN work'[u].a = None
                           ELSE work'[u].a \in Live'
    BY <1>1, <1>4, <1>8 DEF IInv, Pointers, Idle
  <2>2. \A a \in listed' : \E j \in Interfaces : work'[j] = [pc |-> "running", a |-> a]
    BY <1>1, <1>4 DEF IInv, Pointers, Threads
  <2>3. \A a \in Adapters \ Live' : adapter'[a].timer = "none"
    BY <1>5, <1>8 DEF IInv, Pointers
  <2> QED BY <2>1, <2>2, <2>3 DEF Pointers
<1>10. ASSUME NEW a \in Live' PROVE AdapterInv(a)'
  <2>1. CASE a = b /\ new = 0
    <3>1. Holders(b) \ {t} = {}
      BY <1>2, <2>1, AllFinite, FS_EmptySet, FS_RemoveElement
    <3>2. Holders(b)' = {} /\ Destroyers(b)' = {t}
      BY <1>1, <1>2, <1>4, <2>1, <3>1 DEF Holders, Destroyers
    <3> QED BY <2>1, <3>2 DEF AdapterInv
  <2>2. CASE a = b /\ new # 0
    <3>1. Holders(b)' = Holders(b) \ {t} /\ Destroyers(b)' = {}
      BY <1>1, <1>2, <1>4, <2>2, MpDriverAssumption DEF Holders, Destroyers, Idle
    <3>2. Holders(b) \ {t} # {}
      BY <1>2, <2>2, FS_EmptySet
    <3> QED BY <1>2, <1>5, <2>2, <3>1, <3>2 DEF AdapterInv
  <2>3. CASE a # b
    <3>1. a \in Live /\ a # None
      BY <1>8, MpDriverAssumption DEF Live
    <3>2. Holders(a)' = Holders(a) /\ Destroyers(a)' = Destroyers(a)
      BY <1>1, <1>4, <2>3, <3>1 DEF Holders, Destroyers, Idle
    <3> QED BY <1>5, <2>3, <3>1, <3>2, SameAdapter DEF IInv, Live
  <2> QED BY <2>1, <2>2, <2>3
<1>11. Creating' = Creating
  BY <1>1, <1>4 DEF Creating, Threads, Idle
<1>12. DeviceCounted'
  BY <1>4, <1>8, <1>11, DeviceUnchanged DEF IInv
<1>20. ASSUME NEW j \in Interfaces PROVE Owns(j)'
  <2>1. CASE work'[j].pc \in {"setup", "running"}
    <3>1. work'[j] = work[j] /\ work[j].a \in Adapters
      BY <1>1, <1>4, <2>1, MpDriverAssumption DEF IInv, Pointers, Threads, Live, Idle
    <3> QED BY <1>5, <3>1, SameOwner DEF IInv
  <2>2. CASE work'[j].pc \notin {"setup", "running"}
    BY <2>2 DEF Owns
  <2> QED BY <2>1, <2>2
<1> QED BY <1>6, <1>7, <1>9, <1>10, <1>12, <1>20 DEF IInv

\* The memory goes when the one thread that destroys the adapter has seen the
\* timer thread end: nothing refers to it.
LEMMA CleanupPreserves ==
    ASSUME IInv, NEW t \in Threads, MpCleanupAdapter(t)
    PROVE  IInv'
<1>0. PICK b : b = work[t].a
  OBVIOUS
<1>1. /\ work \in [Threads -> [pc : PCs, a : Adapters \cup {None}]]
      /\ work[t] = [pc |-> "wait", a |-> b] /\ b \in Live /\ b \in Adapters
      /\ t \in Destroyers(b) /\ adapter[b].timer = "none"
  BY <1>0 DEF IInv, TypeOK, PCs, MpCleanupAdapter, TimerThreadGone, At, Pointers, Live, Destroyers
<1>2. Holders(b) = {} /\ Destroyers(b) = {t}
  BY <1>1 DEF IInv, AdapterInv
<1>3. /\ work'[t] = Idle
      /\ \A u \in Threads \ {t} : work'[u] = work[u] /\ work[u].a # b
      /\ work' \in [Threads -> [pc : PCs, a : Adapters \cup {None}]]
      /\ UNCHANGED <<loaded, listed, lost>>
  BY <1>1, <1>2 DEF MpCleanupAdapter, PCs, Idle, Holders, Destroyers
<1>4. /\ ~adapter'[b].live /\ adapter'[b].timer = "none"
      /\ \A a \in Adapters \ {b} : adapter'[a] = adapter[a]
      /\ adapter' \in [Adapters -> AdapterContext]
  BY <1>0, <1>1 DEF MpCleanupAdapter, IInv, TypeOK, AdapterContext, Free
<1>5. Live' = Live \ {b}
  BY <1>4 DEF Live
<1>6. Cardinality(Live') = Cardinality(Live) - 1 /\ Cardinality(Live) \in Nat \ {0}
  BY <1>1, <1>5, AllFinite, CountRemove
<1>7. Creating' = Creating /\ Cardinality(Creating) \in Nat
  BY <1>1, <1>3, AllFinite, FS_CardinalityType DEF Creating, Threads, Idle
<1>8. /\ devRefs \in Nat \ {0} /\ device /\ lost \in Nat
      /\ devRefs = Cardinality(Live) + Cardinality(Creating) + lost
  <2>1. lost \in Nat
    BY MpDriverAssumption DEF IInv, TypeOK
  <2>2. devRefs = Cardinality(Live) + Cardinality(Creating) + lost /\ (device <=> devRefs > 0)
    BY DEF IInv, DeviceCounted
  <2>3. devRefs \in Nat \ {0}
    BY <1>6, <1>7, <2>1, <2>2
  <2> QED BY <2>1, <2>2, <2>3
<1>9. stopped' \in {"no", "assert", "null"} /\ stopped' # "assert"
  <2>1. stopped' = stopped
    BY <1>8, Zenon DEF MpCleanupAdapter
  <2> QED BY <2>1 DEF IInv, TypeOK
<1>10. devRefs' = devRefs - 1 /\ device' \in BOOLEAN /\ (device' <=> devRefs' # 0)
  BY <1>8 DEF MpCleanupAdapter
<1>11. DeviceCounted'
  BY <1>3, <1>6, <1>7, <1>8, <1>10 DEF DeviceCounted
<1>12. TypeOK'
  <2>1. devRefs' \in Nat
    BY <1>8, <1>10
  <2>2. lost' \in 0 .. MaxLost /\ listed' \in SUBSET Adapters /\ loaded' \in BOOLEAN
    BY <1>3 DEF IInv, TypeOK
  <2> QED BY <1>3, <1>4, <1>9, <1>10, <2>1, <2>2 DEF TypeOK, PCs
<1>13. Pointers'
  <2>1. \A u \in Threads : IF work'[u].pc \in {"idle", "create"} THEN work'[u].a = None
                           ELSE work'[u].a \in Live'
    BY <1>1, <1>3, <1>5 DEF IInv, Pointers, Idle
  <2>2. \A a \in listed' : \E j \in Interfaces : work'[j] = [pc |-> "running", a |-> a]
    BY <1>1, <1>3 DEF IInv, Pointers, Threads
  <2>3. \A a \in Adapters \ Live' : adapter'[a].timer = "none"
    BY <1>4, <1>5 DEF IInv, Pointers
  <2> QED BY <2>1, <2>2, <2>3 DEF Pointers
<1>14. ASSUME NEW a \in Live' PROVE AdapterInv(a)'
  <2>1. a \in Live /\ a # None /\ a # b /\ a \in Adapters
    BY <1>5, MpDriverAssumption DEF Live
  <2>2. Holders(a)' = Holders(a) /\ Destroyers(a)' = Destroyers(a)
    BY <1>1, <1>3, <2>1 DEF Holders, Destroyers, Idle
  <2> QED BY <1>4, <2>1, <2>2, SameAdapter DEF IInv
<1>20. ASSUME NEW j \in Interfaces PROVE Owns(j)'
  <2>1. CASE work'[j].pc \in {"setup", "running"}
    <3>1. work'[j] = work[j] /\ work[j].a \in Adapters /\ work[j].a # b
      BY <1>1, <1>3, <2>1, MpDriverAssumption DEF IInv, Pointers, Threads, Live, Idle
    <3> QED BY <1>4, <3>1, SameOwner DEF IInv
  <2>2. CASE work'[j].pc \notin {"setup", "running"}
    BY <2>2 DEF Owns
  <2> QED BY <2>1, <2>2
<1> QED BY <1>9, <1>11, <1>12, <1>13, <1>14, <1>20 DEF IInv

\* FnTimerClose leaves the adapter with the thread that destroys it.
LEMMA TimerClosePreserves ==
    ASSUME IInv, NEW t \in Threads, FnTimerClose(t)
    PROVE  IInv'
<1>0. PICK b : b = work[t].a
  OBVIOUS
<1>1. /\ work \in [Threads -> [pc : PCs, a : Adapters \cup {None}]]
      /\ work[t] = [pc |-> "cleanup", a |-> b] /\ b \in Live /\ b \in Adapters
  BY <1>0 DEF IInv, TypeOK, PCs, FnTimerClose, At, Pointers, Live
<1>2. /\ work'[t] = [pc |-> "wait", a |-> b]
      /\ \A u \in Threads \ {t} : work'[u] = work[u]
      /\ work' \in [Threads -> [pc : PCs, a : Adapters \cup {None}]]
      /\ UNCHANGED <<loaded, listed, device, devRefs, lost, stopped>>
  BY <1>1 DEF FnTimerClose, Goes, PCs
<1>3. \A a \in Adapters : /\ adapter'[a].ReferenceCount = adapter[a].ReferenceCount
                          /\ adapter'[a].live = adapter[a].live
                          /\ adapter'[a].timer = adapter[a].timer
                          /\ adapter'[a].MiniportHandle = adapter[a].MiniportHandle
                          /\ adapter'[a].IfIndex = adapter[a].IfIndex
  BY <1>0, <1>1 DEF FnTimerClose, IInv, TypeOK, AdapterContext
<1>4. TypeOK'
  <2>1. adapter' = [adapter EXCEPT ![b].closing = TRUE]
    BY <1>0 DEF FnTimerClose
  <2>2. adapter' \in [Adapters -> AdapterContext]
    <3>1. PICK r : r = [adapter[b] EXCEPT !.closing = TRUE]
      OBVIOUS
    <3>2. r \in AdapterContext
      BY <1>1, <3>1 DEF IInv, TypeOK, AdapterContext
    <3>3. adapter' = [adapter EXCEPT ![b] = r]
      BY <2>1, <3>1
    <3> QED BY <1>1, <3>2, <3>3 DEF IInv, TypeOK
  <2> QED BY <1>2, <2>2 DEF IInv, TypeOK, PCs
<1>5. Live' = Live
  BY <1>3 DEF Live
<1>6. Pointers'
  <2>1. \A u \in Threads : IF work'[u].pc \in {"idle", "create"} THEN work'[u].a = None
                           ELSE work'[u].a \in Live'
    BY <1>1, <1>2, <1>5 DEF IInv, Pointers
  <2>2. \A a \in listed' : \E j \in Interfaces : work'[j] = [pc |-> "running", a |-> a]
    BY <1>1, <1>2 DEF IInv, Pointers, Threads
  <2>3. \A a \in Adapters \ Live' : adapter'[a].timer = "none"
    BY <1>3, <1>5 DEF IInv, Pointers
  <2> QED BY <2>1, <2>2, <2>3 DEF Pointers
<1>7. ASSUME NEW a \in Live' PROVE AdapterInv(a)'
  <2>1. Holders(a)' = Holders(a) /\ Destroyers(a)' = Destroyers(a)
    BY <1>1, <1>2 DEF Holders, Destroyers
  <2> QED BY <1>3, <1>5, <2>1, SameAdapter DEF IInv, Live
<1>8. Creating' = Creating
  BY <1>1, <1>2 DEF Creating, Threads
<1>9. DeviceCounted'
  BY <1>2, <1>5, <1>8, DeviceUnchanged DEF IInv
<1>20. ASSUME NEW j \in Interfaces PROVE Owns(j)'
  <2>1. CASE work'[j].pc \in {"setup", "running"}
    <3>1. work'[j] = work[j] /\ work[j].a \in Adapters
      BY <1>1, <1>2, <2>1, MpDriverAssumption DEF IInv, Pointers, Threads, Live, Idle
    <3> QED BY <1>3, <3>1, SameOwner DEF IInv
  <2>2. CASE work'[j].pc \notin {"setup", "running"}
    BY <2>2 DEF Owns
  <2> QED BY <2>1, <2>2
<1> QED BY <1>2, <1>4, <1>6, <1>7, <1>9, <1>20 DEF IInv

\* The timer thread runs only in an adapter that is there.
LEMMA TimerPreserves ==
    ASSUME IInv, NEW b \in Adapters, TimerStep(b)
    PROVE  IInv'
<1>1. UNCHANGED <<loaded, listed, device, devRefs, work, lost, stopped>>
  BY DEF TimerStep, FnTimerWorker, MpWatchdogTimeout
<1>2. /\ adapter[b].timer # "none"
      /\ \A a \in Adapters : /\ adapter'[a].ReferenceCount = adapter[a].ReferenceCount
                             /\ adapter'[a].live = adapter[a].live
                             /\ adapter'[a].MiniportHandle = adapter[a].MiniportHandle
                             /\ adapter'[a].IfIndex = adapter[a].IfIndex
                             /\ a # b => adapter'[a].timer = adapter[a].timer
  BY DEF TimerStep, FnTimerWorker, MpWatchdogTimeout, IInv, TypeOK, AdapterContext
<1>3. TypeOK'
  BY <1>1 DEF TimerStep, FnTimerWorker, MpWatchdogTimeout, IInv, TypeOK, AdapterContext
<1>4. Live' = Live /\ Creating' = Creating
  BY <1>1, <1>2 DEF Live, Creating
<1>5. Pointers'
  BY <1>1, <1>2, <1>4 DEF IInv, Pointers, TypeOK
<1>6. ASSUME NEW a \in Live' PROVE AdapterInv(a)'
  <2>1. Holders(a)' = Holders(a) /\ Destroyers(a)' = Destroyers(a)
    BY <1>1 DEF Holders, Destroyers
  <2> QED BY <1>2, <1>4, <2>1, SameAdapter DEF IInv, Live
<1>7. DeviceCounted'
  BY <1>1, <1>4, DeviceUnchanged DEF IInv
<1>20. ASSUME NEW j \in Interfaces PROVE Owns(j)'
  <2>1. CASE work'[j].pc \in {"setup", "running"}
    <3>1. work'[j] = work[j] /\ work[j].a \in Adapters
      BY <1>1, <1>2, <2>1, MpDriverAssumption DEF IInv, Pointers, Threads, Live, Idle
    <3> QED BY <1>2, <3>1, SameOwner DEF IInv
  <2>2. CASE work'[j].pc \notin {"setup", "running"}
    BY <2>2 DEF Owns
  <2> QED BY <2>1, <2>2
<1> QED BY <1>1, <1>3, <1>5, <1>6, <1>7, <1>20 DEF IInv

\* A step that leaves everything but `loaded' alone.
LEMMA LoadedPreserves ==
    ASSUME IInv, loaded' \in BOOLEAN,
           UNCHANGED <<adapter, listed, device, devRefs, work, lost, stopped>>
    PROVE  IInv'
<1>1. Live' = Live /\ Creating' = Creating
  BY DEF Live, Creating
<1>2. \A a : Holders(a)' = Holders(a) /\ Destroyers(a)' = Destroyers(a)
  BY DEF Holders, Destroyers
<1>3. \A a \in Live' : AdapterInv(a)'
  BY <1>1, <1>2, SameAdapter DEF IInv
<1>4. DeviceCounted'
  BY <1>1, DeviceUnchanged DEF IInv
<1>5. Pointers' /\ TypeOK'
  BY <1>1 DEF IInv, Pointers, TypeOK
<1>20. \A i \in Interfaces : Owns(i)'
  BY DEF IInv, Owns
<1> QED BY <1>3, <1>4, <1>5, <1>20 DEF IInv

\* Every step preserves the invariant.
LEMMA NextPreserves ==
    ASSUME IInv, [Next]_vars
    PROVE  IInv'
<1>0. Interfaces \subseteq Threads /\ Handles \subseteq Threads /\ TypeOK
  BY DEF Threads, IInv
<1>1. CASE DriverEntry \/ MiniportUnloadHandler
  BY <1>1, LoadedPreserves DEF DriverEntry, MiniportUnloadHandler
<1>2. ASSUME NEW i \in Interfaces, MpIoctlReference(i) \/ MpCreateAdapterNoMemory(i) PROVE IInv'
  BY <1>2, ReferencePreserves
<1>3. ASSUME NEW i \in Interfaces, NEW a \in Adapters, NEW outcome \in CreateOutcomes,
             MpCreateAdapter(i, a, outcome)
      PROVE  IInv'
  BY <1>3, CreatePreserves
<1>4. ASSUME NEW i \in Interfaces,
             \/ MiniportInitializeFails(i) \/ MiniportInitializeHandler(i)
             \/ MiniportHaltHandler(i)
      PROVE  IInv'
  BY <1>0, <1>4, MovesPreserve
<1>5. ASSUME NEW h \in Handles, NEW a \in Adapters, MpFindAdapter(h, a) PROVE IInv'
  BY <1>5, FindPreserves
<1>6. ASSUME NEW h \in Handles, MpIrpClose(h) \/ \E ok \in BOOLEAN : MpIrpCreate(h, ok)
      PROVE  IInv'
  BY <1>0, <1>6, MovesPreserve
<1>7. ASSUME NEW t \in Threads, Teardown(t) PROVE IInv'
  BY <1>7, DereferencePreserves, TimerClosePreserves, CleanupPreserves DEF Teardown
<1>8. ASSUME NEW a \in Adapters, TimerStep(a) PROVE IInv'
  BY <1>8, TimerPreserves
<1>9. CASE UNCHANGED vars
  <2>1. loaded' \in BOOLEAN /\ UNCHANGED <<adapter, listed, device, devRefs, work, lost, stopped>>
    BY <1>0, <1>9 DEF vars, TypeOK
  <2> QED BY <2>1, LoadedPreserves
<1> QED BY <1>1, <1>2, <1>3, <1>4, <1>5, <1>6, <1>7, <1>8, <1>9, Zenon DEF Next

\* The invariant holds at first.
LEMMA InitHolds == Init => IInv
<1> SUFFICES ASSUME Init PROVE IInv
  OBVIOUS
<1>1. TypeOK
  <2>1. Free \in AdapterContext
    BY DEF Free, AdapterContext
  <2>2. Idle \in [pc : PCs, a : Adapters \cup {None}]
    BY DEF Idle, PCs
  <2>3. adapter \in [Adapters -> AdapterContext]
    BY <2>1, Zenon DEF Init
  <2>4. work \in [Threads -> [pc : PCs, a : Adapters \cup {None}]]
    BY <2>2, Zenon DEF Init
  <2>5. devRefs \in Nat /\ lost \in 0 .. MaxLost /\ listed \in SUBSET Adapters
    BY MpDriverAssumption DEF Init
  <2>6. loaded \in BOOLEAN /\ device \in BOOLEAN /\ stopped \in {"no", "assert", "null"}
    BY Zenon DEF Init
  <2> QED BY <2>3, <2>4, <2>5, <2>6, Zenon DEF TypeOK, PCs
<1>2. Live = {} /\ Creating = {}
  BY DEF Init, Live, Creating, Free, Idle, Threads
<1>3. Pointers
  BY <1>2 DEF Init, Pointers, Free, Idle
<1>4. DeviceCounted
  BY <1>2, FS_EmptySet DEF Init, DeviceCounted
<1>5. \A i \in Interfaces : Owns(i)
  BY DEF Init, Owns, Idle, Threads
<1> QED BY <1>1, <1>2, <1>3, <1>4, <1>5 DEF IInv, Init

\* The invariant holds throughout.
LEMMA Inductive == Spec => []IInv
BY InitHolds, NextPreserves, PTL DEF Spec

-----------------------------------------------------------------------------
\* Type correctness of the driver, for any finite sets of interfaces, handles and
\* adapters.
THEOREM TypeCorrect == Spec => []TypeOK
<1>1. IInv => TypeOK
  BY DEF IInv
<1> QED BY <1>1, Inductive, PTL

\* The reference count of an adapter is the number of threads that hold it, and
\* neither assertion of MpReferenceAdapter and MpDereferenceAdapter fails, nor
\* that of MpIoctlDereference.
THEOREM CountsAreExact == Spec => []ReferencesCounted
<1>1. IInv => ReferencesCounted
  <2> SUFFICES ASSUME IInv, NEW a \in Live
               PROVE /\ Destroyers(a) = {} => adapter[a].ReferenceCount = Cardinality(Holders(a))
                     /\ Destroyers(a) # {} => Cardinality(Destroyers(a)) = 1 /\ Holders(a) = {}
    BY DEF IInv, ReferencesCounted, Live
  <2> QED BY FS_Singleton DEF IInv, AdapterInv
<1> QED BY <1>1, Inductive, PTL

\* The list, the handles, NDIS and the timer thread refer to adapters that are
\* there, whatever the order of halt, close and timer, and the list to adapters
\* that have not been halted.
THEOREM NoDanglingAdapter == Spec => []NothingDangles
<1>1. IInv => NothingDangles
  <2> SUFFICES ASSUME IInv PROVE NothingDangles
    OBVIOUS
  <2>0. ASSUME NEW a \in listed PROVE adapter[a].MiniportHandle
    <3>1. PICK i \in Interfaces : work[i] = [pc |-> "running", a |-> a]
      BY DEF IInv, Pointers
    <3>2. work[i].pc = "running" /\ work[i].a = a
      BY <3>1
    <3> QED BY <3>2, Zenon DEF IInv, Owns
  <2> SUFFICES ASSUME NEW a \in Adapters, ~adapter[a].live
               PROVE  a \notin listed /\ adapter[a].timer = "none" /\ Holders(a) = {}
    BY <2>0 DEF NothingDangles
  <2> a \notin Live
    BY DEF Live
  <2>1. \A t \in Threads : work[t].a # a
    BY MpDriverAssumption DEF IInv, Pointers
  <2>2. Holders(a) = {}
    BY <2>1 DEF Holders
  <2>3. a \notin listed
    <3> SUFFICES ASSUME a \in listed PROVE FALSE
      OBVIOUS
    <3>1. PICK i \in Interfaces : work[i] = [pc |-> "running", a |-> a]
      BY DEF IInv, Pointers
    <3> QED BY <2>1, <3>1 DEF Threads
  <2> QED BY <2>2, <2>3 DEF IInv, Pointers
<1> QED BY <1>1, Inductive, PTL

\* The control device is there for every adapter, and as long as no adapter could
\* not be allocated, for nothing else.
THEOREM DeviceGoesWithMiniports == Spec => []DeviceMeansMiniports
<1>1. IInv => DeviceMeansMiniports
  <2> SUFFICES ASSUME IInv PROVE DeviceMeansMiniports
    OBVIOUS
  <2>1. /\ Cardinality(Live) \in Nat /\ Cardinality(Creating) \in Nat /\ lost \in Nat
        /\ devRefs = Cardinality(Live) + Cardinality(Creating) + lost /\ (device <=> devRefs > 0)
    BY AllFinite, FS_CardinalityType, MpDriverAssumption DEF IInv, DeviceCounted, TypeOK
  <2>2. ASSUME NEW a \in Live PROVE device
    <3>1. Cardinality(Live) # 0
      BY AllFinite, CountRemove
    <3> QED BY <2>1, <3>1
  <2>3. ASSUME device, lost = 0 PROVE Live # {} \/ Creating # {}
    BY <2>1, <2>3, FS_EmptySet
  <2> QED BY <2>2, <2>3 DEF DeviceMeansMiniports, Live, Creating
<1> QED BY <1>1, Inductive, PTL
=============================================================================

------------------------------ MODULE MpDriver ------------------------------
(***************************************************************************)
(* The life of the miniport driver: its adapters, from                     *)
(* MiniportInitializeHandler to the last reference, the handles that keep  *)
(* a halted adapter alive, the watchdog timer thread of every adapter, and *)
(* the control device, which exists while adapters do.                     *)
(*                                                                         *)
(* A thread is named after what it works for: an interface (NDIS calls the *)
(* initialize and halt handlers of one miniport one after the other) or a  *)
(* handle (its create and close IRPs).                                     *)
(***************************************************************************)
EXTENDS Integers, FiniteSets

CONSTANTS
    Interfaces,     \* the interface indexes NDIS initialises miniports for
    Handles,        \* the file objects of the control device
    Adapters,       \* the memory of the ADAPTER_CONTEXTs
    None,
    MaxLost         \* bound on the failed adapter allocations

Threads == Interfaces \cup Handles

ASSUME MpDriverAssumption ==
    /\ Interfaces \cap Handles = {} /\ None \notin Adapters
    /\ IsFiniteSet(Interfaces) /\ IsFiniteSet(Handles) /\ IsFiniteSet(Adapters)
    /\ MaxLost \in Nat

VARIABLES
    loaded,     \* the driver is between DriverEntry and its unload handler
    adapter,    \* Adapters -> the fields of an ADAPTER_CONTEXT, or Free
    listed,     \* MpGlobalContext.AdapterList
    device,     \* IoctlDeviceObject # NULL
    devRefs,    \* IoctlDeviceReferenceCount
    work,       \* thread -> where it is and the adapter it holds
    lost,       \* device references taken for an adapter that was not allocated
    stopped     \* "assert": an assertion has failed, "null": NULL was dereferenced

vars == <<loaded, adapter, listed, device, devRefs, work, lost, stopped>>

Free == [live |-> FALSE, IfIndex |-> None, MiniportHandle |-> FALSE, ReferenceCount |-> 0,
         timer |-> "none", closing |-> FALSE]
Idle == [pc |-> "idle", a |-> None]

Init ==
    /\ loaded = FALSE /\ device = FALSE /\ devRefs = 0
    /\ adapter = [a \in Adapters |-> Free]
    /\ listed = {}
    /\ work = [t \in Threads |-> Idle]
    /\ lost = 0 /\ stopped = "no"

At(t, pc) == work[t].pc = pc /\ stopped = "no"
Goes(t, pc) == work' = [work EXCEPT ![t].pc = pc]

-----------------------------------------------------------------------------
(* DriverEntry, when NdisMRegisterMiniportDriver succeeds; when it fails the *)
(* unload handler finds nothing to undo.                                     *)
DriverEntry ==
    /\ ~loaded /\ loaded' = TRUE
    /\ UNCHANGED <<adapter, listed, device, devRefs, work, lost, stopped>>

(* NDIS and PnP unload the driver once its miniports are halted and no       *)
(* device object is left; MpIoctlCleanup asserts the latter.                 *)
MiniportUnloadHandler ==
    /\ loaded /\ stopped = "no" /\ ~device
    /\ \A t \in Threads : work[t].pc = "idle"
    /\ loaded' = FALSE
    /\ UNCHANGED <<adapter, listed, device, devRefs, work, lost, stopped>>

(* The first adapter registers the device; a failure ends the initialisation. *)
MpIoctlReference(i) ==
    /\ loaded /\ At(i, "idle")
    /\ device' = TRUE /\ devRefs' = devRefs + 1
    /\ Goes(i, "create")
    /\ UNCHANGED <<loaded, adapter, listed, lost, stopped>>

(* MpCreateAdapter after the device reference.  Without memory for the       *)
(* context the reference is not given back.                                  *)
MpCreateAdapterNoMemory(i) ==
    /\ At(i, "create") /\ lost < MaxLost
    /\ lost' = lost + 1
    /\ Goes(i, "idle")
    /\ UNCHANGED <<loaded, adapter, listed, device, devRefs, stopped>>

(* SharedAdapterCreate and FnTimerCreate follow.  When the first fails, or   *)
(* no thread can be created for the timer, the adapter is cleaned up without *)
(* a timer.  When there is no memory for the timer itself, FnTimerCreate     *)
(* calls FnTimerDestroy with NULL, which reads its ThreadHandle: the system  *)
(* stops there.                                                              *)
MpCreateAdapter(i, a, outcome) ==
    /\ At(i, "create") /\ ~adapter[a].live
    /\ adapter' = [adapter EXCEPT ![a] =
            [live |-> TRUE, IfIndex |-> i, MiniportHandle |-> TRUE, ReferenceCount |-> 1,
             timer |-> IF outcome = "created" THEN "waiting" ELSE "none", closing |-> FALSE]]
    /\ work' = [work EXCEPT ![i] = [pc |-> IF outcome = "failed" THEN "cleanup" ELSE "setup",
                                    a |-> a]]
    /\ stopped' = IF outcome = "noTimer" THEN "null" ELSE stopped
    /\ UNCHANGED <<loaded, listed, device, devRefs, lost>>

CreateOutcomes == {"created", "failed", "noTimer"}

(* The rest of MiniportInitializeHandler: the attributes, the configuration  *)
(* and the RSS queues can fail; the last step publishes the adapter.         *)
MiniportInitializeFails(i) ==
    /\ At(i, "setup")
    /\ Goes(i, "dereference")
    /\ UNCHANGED <<loaded, adapter, listed, device, devRefs, lost, stopped>>

MiniportInitializeHandler(i) ==
    /\ At(i, "setup")
    /\ listed' = listed \cup {work[i].a}
    /\ Goes(i, "running")
    /\ UNCHANGED <<loaded, adapter, device, devRefs, lost, stopped>>

(* The adapter loses its NDIS handle and its place in the list at once; the  *)
(* handles that are open on it go on.                                        *)
MiniportHaltHandler(i) ==
    /\ At(i, "running")
    /\ adapter' = [adapter EXCEPT ![work[i].a].MiniportHandle = FALSE]
    /\ listed' = listed \ {work[i].a}
    /\ Goes(i, "dereference")
    /\ UNCHANGED <<loaded, device, devRefs, lost, stopped>>

-----------------------------------------------------------------------------
(* A create IRP reaches the driver through its device.  MpFindAdapter        *)
(* searches the list and takes the reference under one lock.                 *)

(* No reference is taken. *)
MpFindAdapter_NoReference(h, a) ==
    /\ device /\ At(h, "idle") /\ a \in listed
    /\ work' = [work EXCEPT ![h] = [pc |-> "opening", a |-> a]]
    /\ UNCHANGED <<loaded, adapter, listed, device, devRefs, lost, stopped>>

MpFindAdapter(h, a) ==
    /\ device /\ At(h, "idle") /\ a \in listed
    /\ adapter' = [adapter EXCEPT ![a].ReferenceCount = @ + 1]
    /\ stopped' = IF adapter[a].ReferenceCount < 1 THEN "assert" ELSE stopped
    /\ work' = [work EXCEPT ![h] = [pc |-> "opening", a |-> a]]
    /\ UNCHANGED <<loaded, listed, device, devRefs, lost>>

(* The create routine of the file type succeeds, or gives the adapter back. *)
MpIrpCreate(h, ok) ==
    /\ At(h, "opening")
    /\ Goes(h, IF ok THEN "open" ELSE "dereference")
    /\ UNCHANGED <<loaded, adapter, listed, device, devRefs, lost, stopped>>

MpIrpClose(h) ==
    /\ At(h, "open")
    /\ Goes(h, "dereference")
    /\ UNCHANGED <<loaded, adapter, listed, device, devRefs, lost, stopped>>

MpDereferenceAdapter(t) ==
    LET a == work[t].a  new == adapter[a].ReferenceCount - 1 IN
    /\ At(t, "dereference")
    /\ adapter' = [adapter EXCEPT ![a].ReferenceCount = new]
    /\ stopped' = IF new < 0 THEN "assert" ELSE stopped
    /\ work' = [work EXCEPT ![t] = IF new = 0 THEN [pc |-> "cleanup", a |-> a] ELSE Idle]
    /\ UNCHANGED <<loaded, listed, device, devRefs, lost>>

-----------------------------------------------------------------------------
(* MpCleanupAdapter: FnTimerClose sets the event of the timer thread and     *)
(* waits for the thread; then the contexts, the device reference and the     *)
(* memory go.                                                                *)
FnTimerClose(t) ==
    /\ At(t, "cleanup")
    /\ adapter' = [adapter EXCEPT ![work[t].a].closing = TRUE]
    /\ Goes(t, "wait")
    /\ UNCHANGED <<loaded, listed, device, devRefs, lost, stopped>>

TimerThreadGone_NoWait(a) == TRUE
TimerThreadGone(a) == adapter[a].timer = "none"

(* The count is decremented and the device stays registered. *)
MpCleanupAdapter_KeepsDevice(t) ==
    /\ At(t, "wait") /\ TimerThreadGone(work[t].a)
    /\ devRefs' = devRefs - 1
    /\ adapter' = [adapter EXCEPT ![work[t].a] = [Free EXCEPT !.timer = adapter[work[t].a].timer]]
    /\ work' = [work EXCEPT ![t] = Idle]
    /\ UNCHANGED <<loaded, listed, device, lost, stopped>>

MpCleanupAdapter(t) ==
    /\ At(t, "wait") /\ TimerThreadGone(work[t].a)
    /\ devRefs' = devRefs - 1
    /\ device' = (device /\ devRefs' # 0)
    /\ stopped' = IF devRefs' = 0 /\ ~device THEN "assert" ELSE stopped
    /\ adapter' = [adapter EXCEPT ![work[t].a] = [Free EXCEPT !.timer = adapter[work[t].a].timer]]
    /\ work' = [work EXCEPT ![t] = Idle]
    /\ UNCHANGED <<loaded, listed, lost>>

(* The thread ignores the event. *)
FnTimerWorker_NeverEnds(a) ==
    /\ adapter[a].timer = "waiting" /\ stopped = "no"
    /\ adapter' = [adapter EXCEPT ![a].timer = "callback"]
    /\ UNCHANGED <<loaded, listed, device, devRefs, work, lost, stopped>>

(* FnTimerWorker: the wait ends with the event, or with the timeout and a    *)
(* call of MpWatchdogTimeout.  A set event ends the wait at once.            *)
FnTimerWorker(a) ==
    /\ adapter[a].timer = "waiting" /\ stopped = "no"
    /\ adapter' = [adapter EXCEPT ![a].timer = IF adapter[a].closing THEN "none" ELSE "callback"]
    /\ UNCHANGED <<loaded, listed, device, devRefs, work, lost, stopped>>

MpWatchdogTimeout(a) ==
    /\ adapter[a].timer = "callback" /\ stopped = "no"
    /\ adapter' = [adapter EXCEPT ![a].timer = "waiting"]
    /\ UNCHANGED <<loaded, listed, device, devRefs, work, lost, stopped>>

-----------------------------------------------------------------------------
Teardown(t) == MpDereferenceAdapter(t) \/ FnTimerClose(t) \/ MpCleanupAdapter(t)
TimerStep(a) == FnTimerWorker(a) \/ MpWatchdogTimeout(a)

Next ==
    \/ DriverEntry \/ MiniportUnloadHandler
    \/ \E i \in Interfaces :
        \/ MpIoctlReference(i) \/ MpCreateAdapterNoMemory(i)
        \/ \E a \in Adapters, outcome \in CreateOutcomes : MpCreateAdapter(i, a, outcome)
        \/ MiniportInitializeFails(i) \/ MiniportInitializeHandler(i) \/ MiniportHaltHandler(i)
    \/ \E h \in Handles :
        \/ \E a \in Adapters : MpFindAdapter(h, a)
        \/ \E ok \in BOOLEAN : MpIrpCreate(h, ok)
        \/ MpIrpClose(h)
    \/ \E t \in Threads : Teardown(t)
    \/ \E a \in Adapters : TimerStep(a)
    \/ stopped # "no" /\ UNCHANGED vars

Spec == Init /\ [][Next]_vars

(* A thread inside a teardown and a timer thread keep running; nothing makes *)
(* NDIS halt an adapter or a client close its handle.                        *)
FairSpec == /\ Spec
            /\ \A t \in Threads : WF_vars(Teardown(t))
            /\ \A a \in Adapters : WF_vars(TimerStep(a))

-----------------------------------------------------------------------------
AdapterContext == [live : BOOLEAN, IfIndex : Interfaces \cup {None}, MiniportHandle : BOOLEAN,
                   ReferenceCount : Nat, timer : {"none", "waiting", "callback"},
                   closing : BOOLEAN]

TypeOK ==
    /\ loaded \in BOOLEAN /\ device \in BOOLEAN /\ stopped \in {"no", "assert", "null"}
    /\ devRefs \in Nat /\ lost \in 0..MaxLost
    /\ listed \in SUBSET Adapters
    /\ adapter \in [Adapters -> AdapterContext]
    /\ work \in [Threads -> [pc : {"idle", "create", "setup", "running", "opening", "open",
                                   "dereference", "cleanup", "wait"},
                             a : Adapters \cup {None}]]

Holders(a) == {t \in Threads : work[t].a = a /\ work[t].pc \notin {"cleanup", "wait"}}
Destroyers(a) == {t \in Threads : work[t].a = a /\ work[t].pc \in {"cleanup", "wait"}}

(* Every thread that holds an adapter counts once, an adapter is destroyed   *)
(* by at most one thread, and only when nobody holds it: no reference is     *)
(* taken on, or given back to, an adapter whose count has reached zero.      *)
(* (MpReferenceAdapter, MpDereferenceAdapter and their assertions.)          *)
ReferencesCounted ==
    /\ stopped # "assert"
    /\ \A a \in Adapters : adapter[a].live =>
        /\ Destroyers(a) = {} => adapter[a].ReferenceCount = Cardinality(Holders(a))
        /\ Destroyers(a) # {} => Cardinality(Destroyers(a)) = 1 /\ Holders(a) = {}

(* Nothing refers to freed memory: not the adapter list, a handle, NDIS or   *)
(* the timer thread, which may be inside the watchdog when the last          *)
(* reference goes (FnTimerClose).  What an open can find in the list is an   *)
(* adapter that has not been halted, also while an open handle keeps an      *)
(* older one of the same interface alive (MiniportHaltHandler).              *)
NothingDangles ==
    /\ \A a \in Adapters : ~adapter[a].live =>
        a \notin listed /\ adapter[a].timer = "none" /\ Holders(a) = {}
    /\ \A a \in listed : adapter[a].MiniportHandle

(* The control device is there as long as any adapter is, in NDIS's hands or *)
(* kept by a handle, and goes with the last of them, for NDIS does not       *)
(* unload the driver while it exists (the comment at dispatch.c:226-230).    *)
(* The code breaks the second half for good once the allocation of an        *)
(* adapter has failed (miniport.c:112-121 does not give the reference of     *)
(* MpIoctlReference back), so it is claimed for runs without such a failure. *)
DeviceMeansMiniports ==
    /\ \A a \in Adapters : adapter[a].live => device
    /\ device /\ lost = 0 => \/ \E a \in Adapters : adapter[a].live
                             \/ \E i \in Interfaces : work[i].pc = "create"

(* An adapter without references is freed: the timer thread sees the close   *)
(* event even when it is in the watchdog callback (MpCleanupAdapter).        *)
UnreferencedIsFreed ==
    \A a \in Adapters : (adapter[a].live /\ adapter[a].ReferenceCount = 0)
                            ~> (~adapter[a].live \/ stopped # "no")
=============================================================================

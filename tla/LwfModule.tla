------------------------------ MODULE LwfModule -----------------------------
(***************************************************************************)
(* A filter module of the lightweight filter, from FilterAttach to its     *)
(* last reference, with what its handles do besides receiving (LwfRx):     *)
(* injecting sends, submitting OID requests, filtering status indications. *)
(* One thread stands for the calls NDIS makes one after the other (attach, *)
(* restart, pause, detach), one for the IRPs of each handle; sends, OID    *)
(* completions and indications come at any time.                           *)
(***************************************************************************)
EXTENDS Integers, Sequences, FiniteSets

CONSTANTS
    Handles,        \* the file objects of the control device
    TxHandles,      \* those whose clients inject frames
    OidHandles,     \* those whose clients submit OID requests
    StatusHandles,  \* those whose clients filter status indications
    Frames,         \* the frames injected
    Foreign,        \* the frames sent by the protocols above
    Requests,       \* the OID requests that pass through the filter
    Codes,          \* the status codes indicated
    Filters,        \* the memory of the LWF_FILTERs
    Ndis,           \* the thread of the NDIS handlers
    None,
    MaxQueued       \* bound on the indications queued for one handle

Threads == Handles \cup {Ndis}

ASSUME LwfModuleAssumption ==
    /\ TxHandles \cup OidHandles \cup StatusHandles \subseteq Handles
    /\ Ndis \notin Handles /\ Frames \cap Foreign = {} /\ MaxQueued \in Nat
    /\ IsFiniteSet(Handles) /\ IsFiniteSet(Frames) /\ None \notin Filters

VARIABLES
    filter,     \* Filters -> the fields of an LWF_FILTER
    listed,     \* LwfGlobalContext.FilterList: at most one module is attached
    work,       \* thread -> where it is and the filter it holds
    where,      \* frame -> who has it: nobody, a handle's queue or flush, NDIS
    oid,        \* handle -> its internal request: "none", "ndis", "completed"
    passed,     \* request -> "none", "call", "pended" and the completions so far
    status,     \* handle -> its DEFAULT_STATUS
    statusList  \* the StatusFilterLists of all filters, merged

vars == <<filter, listed, work, where, oid, passed, status, statusList>>

Idle == [pc |-> "idle", f |-> None]
NoFilter == [live |-> FALSE, NdisState |-> "Detached", ReferenceCount |-> 0,
             nblOpen |-> FALSE, nblRefs |-> 0, oidOpen |-> FALSE, oidRefs |-> 0, watchdog |-> FALSE]
NoStatus == [code |-> None, queue |-> FALSE, list |-> <<>>]
Nowhere == [at |-> "none", h |-> None]
BelowFilter == [at |-> "ndis", h |-> None]

Init ==
    /\ filter = [f \in Filters |-> NoFilter]
    /\ listed = {}
    /\ work = [t \in Threads |-> Idle]
    /\ where = [x \in Frames \cup Foreign |-> Nowhere]
    /\ oid = [h \in Handles |-> "none"]
    /\ passed = [r \in Requests |-> [at |-> "none", completions |-> 0]]
    /\ status = [h \in Handles |-> NoStatus]
    /\ statusList = <<>>

At(t, pc) == work[t].pc = pc
Goes(t, pc) == work' = [work EXCEPT ![t].pc = pc]
Own(t) == work[t].f

Held(h, at) == {x \in Frames : where[x] = [at |-> at, h |-> h]}
Move(frames, to) == where' = [x \in DOMAIN where |-> IF x \in frames THEN to ELSE where[x]]

(* What the parts below leave alone. *)
lifeVars == <<filter, listed, work>>
frameVars == where
oidVars == <<oid, passed>>
statusVars == <<status, statusList>>

-----------------------------------------------------------------------------
(* The handlers of NDIS.  A failed attach leaves through FilterDetach.  One  *)
(* failure is no step: when FnTimerCreate cannot allocate the timer it       *)
(* destroys a NULL timer (fntimer.h:102), which stops the system; MpDriver   *)
(* models that path.                                                         *)

FilterAttach(f, ok) ==
    /\ At(Ndis, "idle") /\ ~filter[f].live
    /\ filter' = [filter EXCEPT ![f] =
            [NoFilter EXCEPT !.live = TRUE, !.ReferenceCount = 1, !.oidOpen = TRUE,
                             !.NdisState = IF ok THEN "Paused" ELSE "Detached"]]
    /\ listed' = IF ok THEN {f} ELSE {}
    /\ work' = [work EXCEPT ![Ndis] = [pc |-> IF ok THEN "paused" ELSE "detaching", f |-> f]]
    /\ UNCHANGED <<frameVars, oidVars, statusVars>>

FilterRestart ==
    /\ At(Ndis, "paused")
    /\ filter' = [filter EXCEPT ![Own(Ndis)] = [@ EXCEPT !.nblOpen = TRUE, !.NdisState = "Running"]]
    /\ Goes(Ndis, "running")
    /\ UNCHANGED <<listed, frameVars, oidVars, statusVars>>

(* The wait on NblRundown refuses new references from its start on.  NDIS    *)
(* pauses the protocols, which wait for their sends, before the filters.     *)
FilterPause ==
    /\ At(Ndis, "running") /\ \A x \in Foreign : where[x] = Nowhere
    /\ filter' = [filter EXCEPT ![Own(Ndis)] = [@ EXCEPT !.nblOpen = FALSE, !.NdisState = "Paused"]]
    /\ Goes(Ndis, "pausing")
    /\ UNCHANGED <<listed, frameVars, oidVars, statusVars>>

FilterPauseEnds ==
    /\ At(Ndis, "pausing") /\ filter[Own(Ndis)].nblRefs = 0
    /\ Goes(Ndis, "paused")
    /\ UNCHANGED <<filter, listed, frameVars, oidVars, statusVars>>

(* NDIS detaches once the OID requests it has from the module, or for it,    *)
(* are completed, and sends it no status any more.                           *)
FilterDetach ==
    /\ At(Ndis, "paused")
    /\ \A h \in Handles : oid[h] # "ndis"
    /\ \A r \in Requests : passed[r].at = "none"
    /\ filter' = [filter EXCEPT ![Own(Ndis)].NdisState = "Detached"]
    /\ listed' = listed \ {Own(Ndis)}
    /\ Goes(Ndis, "detaching")
    /\ UNCHANGED <<frameVars, oidVars, statusVars>>

(* ExWaitForRundownProtectionRelease(OidRundown). *)
FilterDetachRundown ==
    /\ At(Ndis, "detaching")
    /\ filter' = [filter EXCEPT ![Own(Ndis)].oidOpen = FALSE]
    /\ Goes(Ndis, "rundown")
    /\ UNCHANGED <<listed, frameVars, oidVars, statusVars>>

OidRundownReleased == filter[Own(Ndis)].oidRefs = 0

FilterDetachEnds ==
    /\ At(Ndis, "rundown") /\ OidRundownReleased
    /\ Goes(Ndis, "dereference")
    /\ UNCHANGED <<filter, listed, frameVars, oidVars, statusVars>>

(* The last reference closes the watchdog timer and frees the filter. *)
FilterDereferenceFilter(t) ==
    LET f == Own(t)  new == filter[f].ReferenceCount - 1 IN
    /\ At(t, "dereference")
    /\ filter' = [filter EXCEPT ![f].ReferenceCount = new]
    /\ work' = [work EXCEPT ![t] = IF new = 0 THEN [pc |-> "free", f |-> f] ELSE Idle]
    /\ UNCHANGED <<listed, frameVars, oidVars, statusVars>>

WatchdogDone(f) == ~filter[f].watchdog

FilterFree(t) ==
    /\ At(t, "free") /\ WatchdogDone(Own(t))
    /\ filter' = [filter EXCEPT ![Own(t)] = NoFilter]
    /\ work' = [work EXCEPT ![t] = Idle]
    /\ UNCHANGED <<listed, frameVars, oidVars, statusVars>>

(* The timer thread enters and leaves RxWatchdogTimeout; FnTimerClose lets   *)
(* it enter no more.                                                         *)
FilterWatchdogTimeout(f) ==
    /\ filter[f].live
    /\ filter[f].watchdog \/ \A t \in Threads : ~(At(t, "free") /\ Own(t) = f)
    /\ filter' = [filter EXCEPT ![f].watchdog = ~@]
    /\ UNCHANGED <<listed, work, frameVars, oidVars, statusVars>>

-----------------------------------------------------------------------------
(* Handles. *)

(* The reference is not taken. *)
DefaultIrpCreate_NoReference(h) ==
    \E f \in listed :
        /\ At(h, "idle")
        /\ work' = [work EXCEPT ![h] = [pc |-> "opening", f |-> f]]
        /\ UNCHANGED <<filter, listed, frameVars, oidVars, statusVars>>

DefaultIrpCreate(h) ==
    \E f \in listed :
        /\ At(h, "idle")
        /\ filter' = [filter EXCEPT ![f].ReferenceCount = @ + 1]
        /\ work' = [work EXCEPT ![h] = [pc |-> "opening", f |-> f]]
        /\ UNCHANGED <<listed, frameVars, oidVars, statusVars>>

DefaultIrpCreateEnds(h, ok) ==
    /\ At(h, "opening")
    /\ Goes(h, IF ok THEN "open" ELSE "dereference")
    /\ UNCHANGED <<filter, listed, frameVars, oidVars, statusVars>>

(* The handles linked into a StatusFilterList. *)
Filtering == {statusList[i] : i \in DOMAIN statusList}

RemoveEntryList(s, i) == SubSeq(s, 1, i - 1) \o SubSeq(s, i + 1, Len(s))

(* The close IRP: StatusCleanup, under the lock of the filter... *)
StatusCleanup(h) ==
    /\ At(h, "open")
    /\ status' = [status EXCEPT ![h] = NoStatus]
    /\ \/ h \notin Filtering /\ UNCHANGED statusList
       \/ \E i \in DOMAIN statusList : statusList[i] = h /\ statusList' = RemoveEntryList(statusList, i)
    /\ Goes(h, "cleanup")
    /\ UNCHANGED <<filter, listed, frameVars, oidVars>>

(* ... then TxCleanup and the rest of DefaultCleanup. *)
DefaultCleanup(h) ==
    /\ At(h, "cleanup")
    /\ Move(Held(h, "queued"), Nowhere)
    /\ Goes(h, "dereference")
    /\ UNCHANGED <<filter, listed, oidVars, statusVars>>

-----------------------------------------------------------------------------
(* Injected sends. *)

TxIrpEnqueue(h, x) ==
    /\ At(h, "open") /\ where[x] = Nowhere
    /\ Move({x}, [at |-> "queued", h |-> h])
    /\ UNCHANGED <<lifeVars, oidVars, statusVars>>

(* TxIrpFlush takes the queue under the lock of the handle... *)
TxIrpFlush(h) ==
    /\ At(h, "open") /\ Held(h, "queued") # {}
    /\ Move(Held(h, "queued"), [at |-> "flushing", h |-> h])
    /\ Goes(h, "flush")
    /\ UNCHANGED <<filter, listed, oidVars, statusVars>>

(* The state is not asked: frames go down at any time. *)
TxSend_NoRundown(h) ==
    /\ At(h, "flush")
    /\ filter' = [filter EXCEPT ![Own(h)].nblRefs = @ + Cardinality(Held(h, "flushing"))]
    /\ Move(Held(h, "flushing"), BelowFilter)
    /\ Goes(h, "open")
    /\ UNCHANGED <<listed, oidVars, statusVars>>

(* ... takes a reference for each frame and sends them down, or returns them *)
(* when the filter is pausing or paused.                                     *)
TxSend(h) ==
    /\ At(h, "flush") /\ filter[Own(h)].nblOpen
    /\ filter' = [filter EXCEPT ![Own(h)].nblRefs = @ + Cardinality(Held(h, "flushing"))]
    /\ Move(Held(h, "flushing"), BelowFilter)
    /\ Goes(h, "open")
    /\ UNCHANGED <<listed, oidVars, statusVars>>

TxReturn(h) ==
    /\ At(h, "flush") /\ ~filter[Own(h)].nblOpen
    /\ Move(Held(h, "flushing"), Nowhere)
    /\ Goes(h, "open")
    /\ UNCHANGED <<filter, listed, oidVars, statusVars>>

(* Protocols above send while the module runs; their frames pass. *)
FilterSendNetBufferLists(x) ==
    /\ At(Ndis, "running") /\ where[x] = Nowhere
    /\ Move({x}, BelowFilter)
    /\ UNCHANGED <<lifeVars, oidVars, statusVars>>

(* The references of the freed frames are kept. *)
FilterSendNetBufferListsComplete_NoRelease(chain) ==
    /\ chain # {} /\ \A x \in chain : where[x] = BelowFilter
    /\ Move(chain, Nowhere)
    /\ UNCHANGED <<lifeVars, oidVars, statusVars>>

(* A completed chain: the frames of the filter are freed and release their   *)
(* references, the others pass up.                                           *)
FilterSendNetBufferListsComplete(chain) ==
    /\ chain # {} /\ \A x \in chain : where[x] = BelowFilter
    /\ filter' = [filter EXCEPT ![Own(Ndis)].nblRefs = @ - Cardinality(chain \cap Frames)]
    /\ Move(chain, Nowhere)
    /\ UNCHANGED <<listed, work, oidVars, statusVars>>

-----------------------------------------------------------------------------
(* OID requests. *)

(* OidInternalRequest calls NDIS under the OID rundown... *)
OidInternalRequest(h) ==
    /\ At(h, "open") /\ filter[Own(h)].oidOpen
    /\ filter' = [filter EXCEPT ![Own(h)].oidRefs = @ + 1]
    /\ oid' = [oid EXCEPT ![h] = "ndis"]
    /\ Goes(h, "oid")
    /\ UNCHANGED <<listed, passed, frameVars, statusVars>>

(* ... releases it when the call returns, and waits for the completion event *)
(* when the request was pended.  A request completed in the call has no      *)
(* event to wait for.                                                        *)
OidInternalRequestReturns(h) ==
    /\ At(h, "oid")
    /\ filter' = [filter EXCEPT ![Own(h)].oidRefs = @ - 1]
    /\ Goes(h, "oidwait")
    /\ UNCHANGED <<listed, oid, passed, frameVars, statusVars>>

OidIrpSubmitRequest(h) ==
    /\ At(h, "oidwait") /\ oid[h] = "completed"
    /\ oid' = [oid EXCEPT ![h] = "none"]
    /\ Goes(h, "open")
    /\ UNCHANGED <<filter, listed, passed, frameVars, statusVars>>

(* The completion does not set the event. *)
OidInternalRequestComplete_NoEvent(h) ==
    /\ oid[h] = "ndis"
    /\ oid' = [oid EXCEPT ![h] = "none"]
    /\ UNCHANGED <<lifeVars, passed, frameVars, statusVars>>

(* FilterOidRequestCompleteCommon of a request without an original, or NDIS  *)
(* returning the status of the call.                                         *)
OidInternalRequestComplete(h) ==
    /\ oid[h] = "ndis"
    /\ oid' = [oid EXCEPT ![h] = "completed"]
    /\ UNCHANGED <<lifeVars, passed, frameVars, statusVars>>

(* A request from above is cloned and sent down; without memory it fails.    *)
FilterOidRequest(r) ==
    /\ At(Ndis, "paused") \/ At(Ndis, "running") \/ At(Ndis, "pausing")
    /\ passed[r].at = "none"
    /\ passed' = [passed EXCEPT ![r] = [at |-> "call", completions |-> 0]]
    /\ UNCHANGED <<lifeVars, oid, frameVars, statusVars>>

(* The clone is pended by the lower driver, or completed at once: then the   *)
(* original is completed here and NDIS is told that it pends.                *)
FilterOidRequestReturns(r, pended) ==
    /\ passed[r].at = "call"
    /\ passed' = [passed EXCEPT ![r] = IF pended THEN [@ EXCEPT !.at = "pended"]
                                       ELSE [at |-> "none", completions |-> @.completions + 1]]
    /\ UNCHANGED <<lifeVars, oid, frameVars, statusVars>>

FilterOidRequestComplete(r) ==
    /\ passed[r].at = "pended"
    /\ passed' = [passed EXCEPT ![r] = [at |-> "none", completions |-> @.completions + 1]]
    /\ UNCHANGED <<lifeVars, oid, frameVars, statusVars>>

-----------------------------------------------------------------------------
(* Status indications. *)

(* The indications queued under the previous filter stay. *)
StatusIrpFilter_KeepsQueue(h, code, queue) ==
    /\ At(h, "open")
    /\ status' = [status EXCEPT ![h] = [code |-> code, queue |-> queue, list |-> @.list]]
    /\ statusList' = IF h \in Filtering THEN statusList ELSE Append(statusList, h)
    /\ UNCHANGED <<lifeVars, frameVars, oidVars>>

StatusIrpFilter(h, code, queue) ==
    /\ At(h, "open")
    /\ status' = [status EXCEPT ![h] = [code |-> code, queue |-> queue, list |-> <<>>]]
    /\ statusList' = IF h \in Filtering THEN statusList ELSE Append(statusList, h)
    /\ UNCHANGED <<lifeVars, frameVars, oidVars>>

StatusIrpGetIndication(h) ==
    /\ At(h, "open") /\ status[h].list # <<>>
    /\ status' = [status EXCEPT ![h].list = Tail(@)]
    /\ UNCHANGED <<lifeVars, statusList, frameVars, oidVars>>

(* The places in the list of the module whose filter has the code. *)
Match(code) == {i \in DOMAIN statusList : /\ status[statusList[i]].code = code
                                          /\ Own(statusList[i]) = Own(Ndis)}

(* FilterStatus queues a copy for the first that matches, if its filter asks *)
(* for it and there is memory.  Whether the indication also goes up,         *)
(* BlockIndications of the same filter decides; that changes nothing here.   *)
FilterStatus(code) ==
    /\ At(Ndis, "paused") \/ At(Ndis, "running") \/ At(Ndis, "pausing")
    /\ \E i \in Match(code) :
        LET h == statusList[i] IN
        /\ \A j \in Match(code) : i <= j
        /\ status[h].queue /\ Len(status[h].list) < MaxQueued
        /\ status' = [status EXCEPT ![h].list = Append(@, code)]
    /\ UNCHANGED <<lifeVars, statusList, frameVars, oidVars>>

-----------------------------------------------------------------------------
NdisCompletes ==
    \/ \E chain \in SUBSET (Frames \cup Foreign) : FilterSendNetBufferListsComplete(chain)
    \/ \E h \in Handles : OidInternalRequestComplete(h)
    \/ \E r \in Requests : FilterOidRequestComplete(r)

NdisReturns ==
    FilterPauseEnds \/ FilterDetachRundown \/ FilterDetachEnds

ThreadStep(t) == FilterDereferenceFilter(t) \/ FilterFree(t)

IrpStep(h) ==
    \/ DefaultCleanup(h) \/ TxSend(h) \/ TxReturn(h)
    \/ OidInternalRequestReturns(h) \/ OidIrpSubmitRequest(h)

DefaultIrpDeviceIoControl(h) ==
    \/ h \in TxHandles /\ (TxIrpFlush(h) \/ \E x \in Frames : TxIrpEnqueue(h, x))
    \/ h \in OidHandles /\ OidInternalRequest(h)
    \/ h \in StatusHandles /\ StatusIrpGetIndication(h)
    \/ h \in StatusHandles /\ \E code \in Codes, queue \in BOOLEAN :
                                  StatusIrpFilter(h, code, queue)

Next ==
    \/ \E f \in Filters, ok \in BOOLEAN : FilterAttach(f, ok)
    \/ FilterRestart \/ FilterPause \/ FilterDetach
    \/ NdisReturns \/ NdisCompletes
    \/ \E f \in Filters : FilterWatchdogTimeout(f)
    \/ \E t \in Threads : ThreadStep(t)
    \/ \E h \in Handles :
        \/ DefaultIrpCreate(h) \/ (\E ok \in BOOLEAN : DefaultIrpCreateEnds(h, ok))
        \/ StatusCleanup(h) \/ IrpStep(h) \/ DefaultIrpDeviceIoControl(h)
    \/ \E x \in Foreign : FilterSendNetBufferLists(x)
    \/ \E r \in Requests : FilterOidRequest(r) \/ \E p \in BOOLEAN : FilterOidRequestReturns(r, p)
    \/ \E code \in Codes : FilterStatus(code)

Spec == Init /\ [][Next]_vars

(* A thread inside the driver keeps running, and the drivers below complete  *)
(* what they were sent.                                                      *)
FairSpec ==
    /\ Spec
    /\ WF_vars(NdisReturns)
    /\ \A x \in Frames : WF_vars(\E chain \in SUBSET (Frames \cup Foreign) :
                                     x \in chain /\ FilterSendNetBufferListsComplete(chain))
    /\ \A h \in Handles : WF_vars(OidInternalRequestComplete(h)) /\ WF_vars(IrpStep(h))
    /\ \A t \in Threads : WF_vars(ThreadStep(t))
    /\ \A f \in Filters : WF_vars(filter[f].watchdog /\ FilterWatchdogTimeout(f))

-----------------------------------------------------------------------------
TypeOK ==
    /\ filter \in [Filters -> [live : BOOLEAN, NdisState : {"Detached", "Paused", "Running"},
                               ReferenceCount : Nat, nblOpen : BOOLEAN, nblRefs : Nat,
                               oidOpen : BOOLEAN, oidRefs : Nat, watchdog : BOOLEAN]]
    /\ listed \in SUBSET Filters
    /\ \A t \in Threads : Own(t) \in Filters \cup {None}
    /\ where \in [Frames \cup Foreign -> [at : {"none", "queued", "flushing", "ndis"}, h : TxHandles \cup {None}]]
    /\ oid \in [Handles -> {"none", "ndis", "completed"}]
    /\ \A h \in Handles : Len(status[h].list) <= MaxQueued
    /\ Filtering \subseteq StatusHandles

Below == {x \in Frames : where[x] = BelowFilter}

(* NDIS sees none of the filter's frames below a module that is paused, and  *)
(* the references are those of the frames below it, also when a flush races  *)
(* the pause (TxIrpFlush, FilterPause).                                      *)
PausedIsQuiet ==
    /\ \A f \in Filters : filter[f].nblRefs = IF Own(Ndis) = f THEN Cardinality(Below) ELSE 0
    /\ Below # {} => work[Ndis].pc \in {"running", "pausing"}

(* A filter is freed when neither NDIS nor a handle holds it, by one thread, *)
(* not while its watchdog runs, and never found through the list again       *)
(* (FilterFindAndReferenceFilter, FilterDereferenceFilter).                  *)
FilterAlive ==
    /\ \A t \in Threads : work[t].pc # "idle" => filter[Own(t)].live
    /\ \A f \in Filters :
        filter[f].ReferenceCount = Cardinality({t \in Threads : Own(t) = f /\ work[t].pc # "free"})
    /\ \A f \in listed : filter[f].live

(* An indication a client reads belongs to the filter it has set: changing   *)
(* the filter or closing the handle drops the earlier ones, and the list of  *)
(* the module names open handles only (StatusIrpFilter, StatusCleanup).      *)
QueueBelongsToFilter ==
    /\ \A h \in Handles : \A i \in DOMAIN status[h].list :
        status[h].list[i] = status[h].code /\ status[h].queue
    /\ \A h \in Filtering : work[h].pc \notin {"idle", "opening", "cleanup", "dereference", "free"}

(* A pause and a detach that NDIS has begun end: injected frames come back   *)
(* and no client can keep the rundowns busy (FilterPause, FilterDetach).     *)
HandlersReturn ==
    /\ At(Ndis, "pausing") ~> At(Ndis, "paused")
    /\ At(Ndis, "detaching") ~> At(Ndis, "idle")

(* An OID request a client submitted is answered, also when the module is    *)
(* detached meanwhile (OidInternalRequest).                                  *)
OidAnswered == \A h \in OidHandles : At(h, "oid") ~> At(h, "open")
=============================================================================

------------------------------ MODULE MpShared ------------------------------
(***************************************************************************)
(* The shared data path of the miniport driver (fnmp).  Frames the         *)
(* protocols send pass through the data filters of the open handles, which *)
(* hold the ones they match; frames a client enqueues on a handle are      *)
(* indicated to the protocols when it flushes them.  Both directions keep  *)
(* references on the one AdapterShared->NblRundown that MiniportPause      *)
(* waits for, and a handle keeps the adapter, with the pool of the         *)
(* enqueued frames, alive after MiniportHalt.                              *)
(*                                                                         *)
(* A section under a spin lock is one action; what a thread does after it  *)
(* drops the lock is a later action of that thread.                        *)
(***************************************************************************)
EXTENDS Naturals, Sequences, FiniteSets, DataFilter

CONSTANTS
    Nbls,       \* the NBLs protocols send
    Frames,     \* the NBLs of AdapterShared->NblPool, for enqueued frames
    Handles,    \* the shared handles a client may open
    Clients,    \* the threads that send IOCTLs on the handles
    Threads,    \* the threads on which NDIS delivers sends
    Patterns,   \* the sets of NBLs the patterns clients set can match
    Watchdog,   \* the FN_TIMER thread of the adapter
    NoHandle    \* no handle: no filter captured, no IOCTL in progress

ASSUME MpSharedAssumption ==
    /\ IsFiniteSet(Nbls) /\ IsFiniteSet(Frames)
    /\ Nbls \cap Frames = {}
    /\ Patterns \subseteq SUBSET Nbls
    /\ Watchdog \notin Clients \cup Threads
    /\ Clients \cap Threads = {}
    /\ NoHandle \notin Handles

VARIABLES
    ndis,           \* "running", "pausing", "paused", "halted"
    NblRundown,     \* [wait |-> run down has begun, refs |-> references]
    TxFilterList,   \* AdapterShared->TxFilterList, a sequence of handles
    open,           \* the handles whose SHARED_CONTEXT exists
    closing,        \* those of them in SharedIrpClose
    df,             \* handle -> Tx->DataFilter
    ctx,            \* NBL -> Nbl->Scratch: "none", or the age of the context
    sent,           \* the NBLs NDIS has handed over and not got back
    work,           \* thread -> what it still does outside the lock
    Rx,             \* handle -> Rx->Nbls, the enqueued frames
    above,          \* the frames the protocols hold
    allocated,      \* the frames taken from NblPool
    asserted        \* FnIoFilterNblContext met an NBL without a context

txVars == <<TxFilterList, df, ctx, sent>>
rxVars == <<Rx, above, allocated>>
vars == <<ndis, NblRundown, open, closing, txVars, work, rxVars, asserted>>

Workers == Clients \cup Threads \cup {Watchdog}
Idle == [pc |-> "idle", chain |-> <<>>, on |-> NoHandle]

Init ==
    /\ ndis = "paused"
    /\ NblRundown = [wait |-> TRUE, refs |-> 0]
    /\ TxFilterList = <<>>
    /\ open = {}
    /\ closing = {}
    /\ df = [h \in Handles |-> NoFilter]
    /\ ctx = [n \in Nbls |-> "none"]
    /\ sent = {}
    /\ work = [w \in Workers |-> Idle]
    /\ Rx = [h \in Handles |-> <<>>]
    /\ above = {}
    /\ allocated = {}
    /\ asserted = FALSE

Acquire(count) == NblRundown' = [NblRundown EXCEPT !.refs = @ + count]
Release(count) == NblRundown' = [NblRundown EXCEPT !.refs = @ - count]

(* Thread w goes on to pc with chain in hand, or returns if that is empty. *)
Continue(w, pc, chain, h) ==
    work' = [work EXCEPT ![w] = IF chain = <<>> THEN Idle
                                ELSE [pc |-> pc, chain |-> chain, on |-> h]]

-----------------------------------------------------------------------------
(* SharedIrpCreate finds the adapter in the list, until MiniportHalt. *)

SharedIrpCreate(h) ==
    /\ ~asserted
    /\ h \notin open
    /\ ndis # "halted"
    /\ open' = open \cup {h}
    /\ df' = [df EXCEPT ![h] = NoFilter]
    /\ Rx' = [Rx EXCEPT ![h] = <<>>]
    /\ UNCHANGED <<ndis, NblRundown, closing, TxFilterList, ctx, sent, work, above, allocated, asserted>>

(* Client c calls into the driver on handle h. *)
Ready(c, h) == ~asserted /\ h \in open \ closing /\ work[c] = Idle

(* The lock section of w ends: contexts freed, frames left to complete.  An *)
(* NBL found without its context fails the ASSERT, which stops the system.  *)
Flushed(w, h, flush) ==
    /\ ctx' = flush.ctx
    /\ Continue(w, "complete", flush.chain, h)
    /\ asserted' = ~flush.ok

(* An accumulator for SharedTxClearFilter: list, filters and flush so far. *)
Clearing == [list |-> TxFilterList, df |-> df, flush |-> FlushStart(ctx)]

SharedTxClearFilter(acc, h) ==
    [list |-> SelectSeq(acc.list, LAMBDA g : g # h),
     df |-> [acc.df EXCEPT ![h] = IF @.set THEN FnIoDeleteFilter(AfterFlushAll(@)) ELSE @],
     flush |-> IF acc.df[h].set THEN FnIoFlushAllFrames(acc.flush, acc.df[h]) ELSE acc.flush]

SharedIrpTxFilter(c, h, match) ==
    LET acc == SharedTxClearFilter(Clearing, h) IN
    /\ Ready(c, h)
    /\ TxFilterList' = Append(acc.list, h)
    /\ df' = [acc.df EXCEPT ![h] = FnIoCreateFilter(match)]
    /\ Flushed(c, h, acc.flush)
    /\ UNCHANGED <<ndis, NblRundown, open, closing, sent, rxVars>>

(* In->Length == 0: ClearOnly. *)
SharedIrpTxClearFilter(c, h) ==
    LET acc == SharedTxClearFilter(Clearing, h) IN
    /\ Ready(c, h)
    /\ TxFilterList' = acc.list
    /\ df' = acc.df
    /\ Flushed(c, h, acc.flush)
    /\ UNCHANGED <<ndis, NblRundown, open, closing, sent, rxVars>>

SharedIrpTxDequeueFrame(c, h, index) ==
    /\ Ready(c, h)
    /\ df[h].set
    /\ df' = [df EXCEPT ![h] = FnIoDequeueFilteredFrame(@, index)]
    /\ UNCHANGED <<ndis, NblRundown, open, closing, TxFilterList, ctx, sent, work, rxVars, asserted>>

SharedIrpTxFlush(c, h) ==
    /\ Ready(c, h)
    /\ df[h].set
    /\ df' = [df EXCEPT ![h] = AfterFlushDequeued(@)]
    /\ Flushed(c, h, FnIoFlushDequeuedFrames(FlushStart(ctx), df[h]))
    /\ UNCHANGED <<ndis, NblRundown, open, closing, TxFilterList, sent, rxVars>>

(* SharedIrpClose, once no IOCTL is in progress on the file object:         *)
(* SharedTxCleanup, then SharedRxCleanup and the release of the adapter.    *)
SharedIrpClose(c, h) ==
    LET acc == SharedTxClearFilter(Clearing, h) IN
    /\ Ready(c, h)
    /\ \A d \in Clients : work[d].on # h
    /\ closing' = closing \cup {h}
    /\ TxFilterList' = acc.list
    /\ df' = acc.df
    /\ Flushed(c, h, acc.flush)
    /\ UNCHANGED <<ndis, NblRundown, open, sent, rxVars>>

(* Enqueued frames that were never flushed are forgotten. *)
SharedRxCleanup_Leaks(h) == allocated

SharedRxCleanup(h) == allocated \ Elems(Rx[h])

SharedCleanup(h) ==
    /\ ~asserted
    /\ h \in closing
    /\ \A d \in Clients : work[d].on # h
    /\ allocated' = SharedRxCleanup(h)
    /\ Rx' = [Rx EXCEPT ![h] = <<>>]
    /\ open' = open \ {h}
    /\ closing' = closing \ {h}
    /\ UNCHANGED <<ndis, NblRundown, txVars, work, above, asserted>>

-----------------------------------------------------------------------------
(* The timer thread.  Time passing beyond the grace period makes every      *)
(* context old; the timer fires once a second whatever the state.           *)

Age ==
    /\ ~asserted
    /\ \E n \in Nbls : ctx[n] = "fresh"
    /\ ctx' = [n \in Nbls |-> IF ctx[n] = "fresh" THEN "old" ELSE ctx[n]]
    /\ UNCHANGED <<ndis, NblRundown, open, closing, TxFilterList, df, sent, work, rxVars, asserted>>

(* The walk over the list, one element after the other, into one NblQueue. *)
SharedTxWatchdogWalk ==
    LET walk[i \in 0..Len(TxFilterList)] ==
            IF i = 0 THEN Clearing
            ELSE LET acc == walk[i - 1]
                     h == TxFilterList[i] IN
                 IF FnIoIsFilterWatchdogExpired(acc.df[h], acc.flush.ctx)
                 THEN SharedTxClearFilter(acc, h)
                 ELSE acc
    IN walk[Len(TxFilterList)]

SharedTxWatchdogTimeout ==
    /\ ~asserted
    /\ work[Watchdog] = Idle
    /\ TxFilterList' = SharedTxWatchdogWalk.list
    /\ df' = SharedTxWatchdogWalk.df
    /\ Flushed(Watchdog, NoHandle, SharedTxWatchdogWalk.flush)
    /\ UNCHANGED <<ndis, NblRundown, open, closing, sent, rxVars>>

-----------------------------------------------------------------------------
(* SharedTxCompleteNbls: hand the chain back to NDIS, then release. *)

SharedTxCompleteNbls(w) ==
    \/ /\ ~asserted
       /\ work[w].pc = "complete"
       /\ sent' = sent \ Elems(work[w].chain)
       /\ work' = [work EXCEPT ![w].pc = "release"]
       /\ UNCHANGED <<ndis, NblRundown, open, closing, TxFilterList, df, ctx, rxVars, asserted>>
    \/ /\ ~asserted
       /\ work[w].pc = "release"
       /\ Release(Len(work[w].chain))
       /\ work' = [work EXCEPT ![w] = Idle]
       /\ UNCHANGED <<ndis, open, closing, txVars, rxVars, asserted>>

-----------------------------------------------------------------------------
(* MpSendNetBufferLists. *)

MpSendNetBufferLists(t, chain) ==
    /\ ~asserted
    /\ ndis # "halted"
    /\ work[t] = Idle
    /\ Elems(chain) \cap sent = {}
    /\ sent' = sent \cup Elems(chain)
    /\ IF NblRundown.wait
       THEN /\ Continue(t, "refuse", chain, NoHandle)
            /\ UNCHANGED NblRundown
       ELSE /\ Continue(t, "filter", chain, NoHandle)
            /\ Acquire(Len(chain))
    /\ UNCHANGED <<ndis, open, closing, TxFilterList, df, ctx, rxVars, asserted>>

(* The acquire failed: NdisMSendNetBufferListsComplete at once. *)
MpSendRefused(t) ==
    /\ ~asserted
    /\ work[t].pc = "refuse"
    /\ sent' = sent \ Elems(work[t].chain)
    /\ work' = [work EXCEPT ![t] = Idle]
    /\ UNCHANGED <<ndis, NblRundown, open, closing, TxFilterList, df, ctx, rxVars, asserted>>

(* The handles whose filter may capture n: FnIoFilterNbl tries them in list *)
(* order and goes on to the next when the context allocation fails.         *)
SharedTxFilterNbl(n) == {h \in Elems(TxFilterList) : n \in df[h].match} \cup {NoHandle}

Captured(chain, captor, h) == SelectSeq(chain, LAMBDA n : captor[n] = h)

ReturnChain(chain, captor) == Captured(chain, captor, NoHandle)

MpSendFilter(t, captor) ==
    LET chain == work[t].chain IN
    /\ ~asserted
    /\ work[t].pc = "filter"
    /\ \A n \in Elems(chain) : captor[n] \in SharedTxFilterNbl(n)
    /\ df' = [h \in Handles |-> FnIoFilterNbl(df[h], Captured(chain, captor, h))]
    /\ ctx' = FnIoFilterNblSetContext(ctx, SelectSeq(chain, LAMBDA n : captor[n] # NoHandle))
    /\ Continue(t, "complete", ReturnChain(chain, captor), NoHandle)
    /\ UNCHANGED <<ndis, NblRundown, open, closing, TxFilterList, sent, rxVars, asserted>>

-----------------------------------------------------------------------------
(* The enqueued frames: SharedIrpRxEnqueue, SharedIrpRxFlush, which pops the *)
(* whole queue and then acquires, indicates and, for LowResources, releases  *)
(* and frees the chain itself, and MpReturnNetBufferLists.                   *)

SharedIrpRxEnqueue(c, h, f) ==
    /\ Ready(c, h)
    /\ f \notin allocated
    /\ allocated' = allocated \cup {f}
    /\ Rx' = [Rx EXCEPT ![h] = Append(@, f)]
    /\ UNCHANGED <<ndis, NblRundown, open, closing, txVars, work, above, asserted>>

(* A flush that leaves the frames it has taken in the queue. *)
SharedIrpRxFlush_KeepsQueue(c, h) ==
    /\ Ready(c, h)
    /\ Continue(c, "rxacquire", Rx[h], h)
    /\ UNCHANGED <<ndis, NblRundown, open, closing, txVars, Rx, above, allocated, asserted>>

SharedIrpRxFlush(c, h) ==
    /\ Ready(c, h)
    /\ Continue(c, "rxacquire", Rx[h], h)
    /\ Rx' = [Rx EXCEPT ![h] = <<>>]
    /\ UNCHANGED <<ndis, NblRundown, open, closing, txVars, above, allocated, asserted>>

(* pc is "rxlow" for a flush with LowResources and "rxindicate" otherwise. *)
SharedRxFlushAcquire(c, pc) ==
    /\ ~asserted
    /\ work[c].pc = "rxacquire"
    /\ IF NblRundown.wait
       THEN /\ allocated' = allocated \ Elems(work[c].chain)
            /\ work' = [work EXCEPT ![c] = Idle]
            /\ UNCHANGED NblRundown
       ELSE /\ Acquire(Len(work[c].chain))
            /\ work' = [work EXCEPT ![c].pc = pc]
            /\ UNCHANGED allocated
    /\ UNCHANGED <<ndis, open, closing, txVars, Rx, above, asserted>>

SharedRxIndicate(c) ==
    /\ ~asserted
    /\ work[c].pc = "rxindicate"
    /\ above' = above \cup Elems(work[c].chain)
    /\ work' = [work EXCEPT ![c] = Idle]
    /\ UNCHANGED <<ndis, NblRundown, open, closing, txVars, Rx, allocated, asserted>>

(* NDIS_RECEIVE_FLAGS_RESOURCES: the protocols are done with the frames when *)
(* the indication returns; the references go first, then the frames.         *)
SharedRxLowResources(c) ==
    \/ /\ ~asserted
       /\ work[c].pc = "rxlow"
       /\ work' = [work EXCEPT ![c].pc = "rxfree"]
       /\ Release(Len(work[c].chain))
       /\ UNCHANGED <<ndis, open, closing, txVars, rxVars, asserted>>
    \/ /\ ~asserted
       /\ work[c].pc = "rxfree"
       /\ work' = [work EXCEPT ![c] = Idle]
       /\ allocated' = allocated \ Elems(work[c].chain)
       /\ UNCHANGED <<ndis, NblRundown, open, closing, txVars, Rx, above, asserted>>

MpReturnNetBufferLists_NoRelease(f) ==
    /\ ~asserted
    /\ f \in above
    /\ above' = above \ {f}
    /\ allocated' = allocated \ {f}
    /\ UNCHANGED <<ndis, NblRundown, open, closing, txVars, work, Rx, asserted>>

MpReturnNetBufferLists(f) ==
    /\ ~asserted
    /\ f \in above
    /\ above' = above \ {f}
    /\ allocated' = allocated \ {f}
    /\ Release(1)
    /\ UNCHANGED <<ndis, open, closing, txVars, work, Rx, asserted>>

-----------------------------------------------------------------------------
(* NDIS pauses, restarts and halts the miniport, in that order; it halts     *)
(* after the send calls it made have returned.                               *)

MiniportPause ==
    /\ ~asserted
    /\ ndis = "running"
    /\ ndis' = "pausing"
    /\ NblRundown' = [NblRundown EXCEPT !.wait = TRUE]
    /\ UNCHANGED <<open, closing, txVars, work, rxVars, asserted>>

(* ExWaitForRundownProtectionRelease returns. *)
MiniportPaused ==
    /\ ~asserted
    /\ ndis = "pausing"
    /\ NblRundown.refs = 0
    /\ ndis' = "paused"
    /\ UNCHANGED <<NblRundown, open, closing, txVars, work, rxVars, asserted>>

MiniportRestart ==
    /\ ~asserted
    /\ ndis = "paused"
    /\ ndis' = "running"
    /\ NblRundown' = [wait |-> FALSE, refs |-> 0]
    /\ UNCHANGED <<open, closing, txVars, work, rxVars, asserted>>

MiniportHalt ==
    /\ ~asserted
    /\ ndis = "paused"
    /\ \A t \in Threads : work[t] = Idle
    /\ ndis' = "halted"
    /\ UNCHANGED <<NblRundown, open, closing, txVars, work, rxVars, asserted>>

(* MpCleanupAdapter: the last reference to the adapter is gone. *)
AdapterFreed == ndis = "halted" /\ open = {}

-----------------------------------------------------------------------------
(* Non-empty chains of distinct NBLs. *)
Chains == {q \in UNION {[1..k -> Nbls] : k \in 1..Cardinality(Nbls)} :
              \A i, j \in DOMAIN q : q[i] = q[j] => i = j}

(* The end of a behaviour: the adapter is gone, or an assertion has failed. *)
Finished == (asserted \/ AdapterFreed) /\ UNCHANGED vars

ClientCall(c, h) ==
    \/ \E match \in Patterns : SharedIrpTxFilter(c, h, match)
    \/ SharedIrpTxClearFilter(c, h)
    \/ \E index \in 1..Cardinality(Nbls) : SharedIrpTxDequeueFrame(c, h, index)
    \/ SharedIrpTxFlush(c, h)
    \/ \E f \in Frames : SharedIrpRxEnqueue(c, h, f)
    \/ SharedIrpRxFlush(c, h)
    \/ SharedIrpClose(c, h)

RxFlushStep(c) ==
    \/ \E pc \in {"rxindicate", "rxlow"} : SharedRxFlushAcquire(c, pc)
    \/ SharedRxIndicate(c)
    \/ SharedRxLowResources(c)

SendStep(t) ==
    \/ MpSendRefused(t)
    \/ \E captor \in [Elems(work[t].chain) -> Handles \cup {NoHandle}] : MpSendFilter(t, captor)

Next ==
    \/ \E h \in Handles : SharedIrpCreate(h)
    \/ \E c \in Clients, h \in Handles : ClientCall(c, h)
    \/ \E h \in Handles : SharedCleanup(h)
    \/ \E w \in Workers : SharedTxCompleteNbls(w)
    \/ \E c \in Clients : RxFlushStep(c)
    \/ Age
    \/ SharedTxWatchdogTimeout
    \/ \E t \in Threads, chain \in Chains : MpSendNetBufferLists(t, chain)
    \/ \E t \in Threads : SendStep(t)
    \/ \E f \in Frames : MpReturnNetBufferLists(f)
    \/ MiniportPause
    \/ MiniportPaused
    \/ MiniportRestart
    \/ MiniportHalt
    \/ Finished

Spec == Init /\ [][Next]_vars

(* Threads in the driver keep running, the protocols return the frames they  *)
(* are given, the wait of MiniportPause returns once the references are      *)
(* gone, time passes and the timer fires every second.  Clients and NDIS owe *)
(* nothing.                                                                  *)
Fairness ==
    /\ \A w \in Workers : WF_vars(SharedTxCompleteNbls(w))
    /\ \A c \in Clients : WF_vars(RxFlushStep(c))
    /\ \A t \in Threads : WF_vars(SendStep(t))
    /\ \A f \in Frames : WF_vars(MpReturnNetBufferLists(f))
    /\ WF_vars(MiniportPaused)
    /\ WF_vars(Age)
    /\ WF_vars(SharedTxWatchdogTimeout)

FairSpec == Spec /\ Fairness

-----------------------------------------------------------------------------
Holding(h) == Elems(df[h].NblQueue) \cup Elems(df[h].NblReturn)

Referenced == {"filter", "complete", "release", "rxindicate", "rxlow"}
PCs == Referenced \cup {"idle", "refuse", "rxacquire", "rxfree"}

(* The types, and that the count of rundown references never goes below 0.  *)
TypeOK ==
    /\ ndis \in {"running", "pausing", "paused", "halted"}
    /\ NblRundown \in [wait : BOOLEAN, refs : Nat]
    /\ TxFilterList \in Seq(Handles)
    /\ open \in SUBSET Handles
    /\ closing \in SUBSET open
    /\ df \in [Handles -> [set : BOOLEAN, match : SUBSET Nbls,
                           NblQueue : Seq(Nbls), NblReturn : Seq(Nbls)]]
    /\ ctx \in [Nbls -> {"none", "fresh", "old"}]
    /\ sent \in SUBSET Nbls
    /\ work \in [Workers -> [pc : PCs, chain : Seq(Nbls) \cup Seq(Frames),
                             on : Handles \cup {NoHandle}]]
    /\ Rx \in [Handles -> Seq(Frames)]
    /\ allocated \in SUBSET Frames
    /\ above \in SUBSET allocated
    /\ asserted \in BOOLEAN

(* What keeps a reference: each frame a thread is filtering, completing or   *)
(* indicating, each frame a filter holds, each frame the protocols hold.     *)
References ==
    {<<w, n>> \in Workers \X (Nbls \cup Frames) :
        work[w].pc \in Referenced /\ n \in Elems(work[w].chain)}
    \cup UNION {{h} \X Holding(h) : h \in Handles}
    \cup {"above"} \X above

(* The references on NblRundown are exactly the frames, in both directions,  *)
(* the miniport answers for: an extra one blocks MiniportPauseHandler for    *)
(* ever, a missing one lets NDIS halt the adapter under a frame (tx.c, rx.c, *)
(* every acquire and release of NblRundown).                                 *)
RundownExact == NblRundown.refs = Cardinality(References)

Positions(q, n) == {i \in DOMAIN q : q[i] = n}

(* The places in the driver, or above it, where NBL n is linked. *)
Links(n) ==
    UNION ({{h} \X {"NblQueue"} \X Positions(df[h].NblQueue, n) : h \in Handles}
           \cup {{h} \X {"NblReturn"} \X Positions(df[h].NblReturn, n) : h \in Handles}
           \cup {{h} \X {"Rx"} \X Positions(Rx[h], n) : h \in Handles}
           \cup {{w} \X {"work"} \X Positions(work[w].chain, n) :
                    w \in {v \in Workers : work[v].pc # "release"}}
           \cup {{n} \X {"above"} \X {0} : m \in above \cap {n}})

(* A sent NBL is linked in exactly one queue or chain until it is completed, *)
(* and an enqueued frame until it is freed: none is lost, completed twice,   *)
(* indicated twice, or shared by two filters or two flushes.                 *)
NblsConserved ==
    \A n \in Nbls \cup Frames : Cardinality(Links(n)) = IF n \in sent \cup allocated THEN 1 ELSE 0

(* NblPool is freed with the adapter: no enqueued frame is allocated then,   *)
(* although handles, and the frames queued on them, outlive MiniportHalt.    *)
PoolOutlivesFrames == AdapterFreed => allocated = {}

(* Every NBL a protocol sends is completed in the end.                       *)
SendCompletes == \A n \in Nbls : n \in sent ~> n \notin sent
=============================================================================

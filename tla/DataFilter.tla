----------------------------- MODULE DataFilter -----------------------------
(***************************************************************************)
(* The data filter of the fnio library: an object that captures the        *)
(* NET_BUFFER_LISTs (NBLs) matching its pattern, keeps them in arrival     *)
(* order in NblQueue, moves the ones the client picks to NblReturn, and    *)
(* gives them back when it is flushed.  The lightweight filter (LwfRx) and *)
(* the miniport (MpTx) both hold frames through it, each under its own     *)
(* lock, so the operations below are pure functions of one filter.         *)
(*                                                                         *)
(* A filter is a record: whether the object is allocated, the set of NBLs  *)
(* its pattern and mask match (what FnIoFilterNb computes from the bytes), *)
(* and its two queues.  The context an NBL carries in Nbl->Scratch while a *)
(* filter holds it is kept by the client modules in a function ctx from    *)
(* NBLs to "none", "fresh" or "old"; "old" stands for a timestamp more     *)
(* than WatchdogGracePeriod in the past.                                   *)
(***************************************************************************)
EXTENDS Naturals, Sequences

Elems(q) == {q[i] : i \in 1..Len(q)}

NoFilter == [set |-> FALSE, match |-> {}, NblQueue |-> <<>>, NblReturn |-> <<>>]

FnIoCreateFilter(match) ==
    [set |-> TRUE, match |-> match, NblQueue |-> <<>>, NblReturn |-> <<>>]

(* Whatever the queues still hold stays in the record: the function asserts *)
(* that they are empty and frees the object in any case.                    *)
FnIoDeleteFilter(f) == [f EXCEPT !.set = FALSE, !.match = {}]

(* The filter after it captures, in order, the NBLs of the chain nbls. *)
FnIoFilterNbl(f, nbls) == [f EXCEPT !.NblQueue = @ \o nbls]

(* A fresh context for every captured NBL. *)
FnIoFilterNblSetContext(ctx, nbls) ==
    [n \in DOMAIN ctx |-> IF n \in Elems(nbls) THEN "fresh" ELSE ctx[n]]

(* A dequeue that forgets to unlink the frame it hands over. *)
FnIoDequeueFilteredFrame_LeavesFrame(f, index) ==
    IF index \in 1..Len(f.NblQueue)
    THEN [f EXCEPT !.NblReturn = Append(@, f.NblQueue[index])]
    ELSE f

(* Index is zero based in the code and one based here. *)
FnIoDequeueFilteredFrame(f, index) ==
    IF index \in 1..Len(f.NblQueue)
    THEN [f EXCEPT !.NblQueue = SubSeq(@, 1, index - 1) \o SubSeq(@, index + 1, Len(@)),
                   !.NblReturn = Append(@, f.NblQueue[index])]
    ELSE f

(* A flush works on an accumulator: the caller's NBL_COUNTED_QUEUE, the     *)
(* contexts, and whether FnIoFilterNblContext has found a context for every *)
(* NBL so far (its ASSERT).                                                 *)
FlushStart(ctx) == [chain |-> <<>>, ctx |-> ctx, ok |-> TRUE]

(* Frees the contexts of the whole chain, the part an earlier flush into the *)
(* same queue put there included.                                            *)
FnIoFreeFlushedFrameContexts(acc) ==
    [acc EXCEPT !.ctx = [n \in DOMAIN @ |-> IF n \in Elems(acc.chain) THEN "none" ELSE @[n]],
                !.ok = @ /\ \A n \in Elems(acc.chain) : acc.ctx[n] # "none"]

FnIoFlushDequeuedFrames(acc, f) ==
    FnIoFreeFlushedFrameContexts([acc EXCEPT !.chain = @ \o f.NblReturn])

AfterFlushDequeued(f) == [f EXCEPT !.NblReturn = <<>>]

FnIoFlushAllFrames(acc, f) ==
    FnIoFreeFlushedFrameContexts([acc EXCEPT !.chain = @ \o f.NblQueue \o f.NblReturn])

AfterFlushAll(f) == [f EXCEPT !.NblQueue = <<>>, !.NblReturn = <<>>]

FnIoIsNblQueueWatchdogExpired(q, ctx) == \E n \in Elems(q) : ctx[n] = "old"

(* A watchdog that overlooks the frames dequeued but never flushed. *)
FnIoIsFilterWatchdogExpired_IgnoresReturn(f, ctx) == FnIoIsNblQueueWatchdogExpired(f.NblQueue, ctx)

FnIoIsFilterWatchdogExpired(f, ctx) ==
    \/ FnIoIsNblQueueWatchdogExpired(f.NblQueue, ctx)
    \/ FnIoIsNblQueueWatchdogExpired(f.NblReturn, ctx)
=============================================================================

------------------------------- MODULE LwfRx -------------------------------
(***************************************************************************)
(* The receive path of the lightweight filter driver (fnlwf): frames the   *)
(* miniport below indicates pass through the data filters of the open      *)
(* handles; a frame a filter matches is held until the handle flushes it,  *)
(* clears its filter or closes, or until the watchdog takes it.  Every     *)
(* frame held keeps one reference on Filter->NblRundown, and FilterPause   *)
(* waits until all of them are gone.                                       *)
(*                                                                         *)
(* A section under Filter->Lock is one action; what a thread does after it *)
(* drops the lock (indicate the frames, release the rundown) is a later    *)
(* action of that thread.                                                  *)
(***************************************************************************)
EXTENDS Naturals, Sequences, FiniteSets, DataFilter

CONSTANTS
    Nbls,       \* the NET_BUFFER_LISTs of the miniport below
    Handles,    \* the file objects a client may open on the filter
    Clients,    \* the threads that send IOCTLs on the handles
    Threads,    \* the threads on which NDIS delivers receive indications
    Patterns,   \* the sets of NBLs the patterns clients set can match
    Watchdog,   \* the FN_TIMER thread of the filter
    NoHandle    \* no filter captured the NBL

ASSUME LwfRxAssumption ==
    /\ IsFiniteSet(Nbls)
    /\ Patterns \subseteq SUBSET Nbls
    /\ Watchdog \notin Clients
    /\ NoHandle \notin Handles

VARIABLES
    NdisState,      \* Filter->NdisState, "pausing" while FilterPause waits
    NblRundown,     \* [wait |-> run down has begun, refs |-> references]
    RxFilterList,   \* Filter->RxFilterList, a sequence of handles
    open,           \* the handles whose DEFAULT_RX exists
    df,             \* handle -> Rx->DataFilter
    ctx,            \* NBL -> Nbl->Scratch: "none", or the age of the context
    place,          \* NBL -> "below" (miniport), "lwf", "above" (protocols)
    rx,             \* receive thread -> its program counter and chain
    done,           \* flushing thread -> the chain it completes, for which handle
    asserted        \* FnIoFilterNblContext met an NBL without a context

vars == <<NdisState, NblRundown, RxFilterList, open, df, ctx, place, rx, done, asserted>>

Flushers == Clients \cup {Watchdog}
Done == [pc |-> "idle", chain |-> <<>>, on |-> NoHandle]
Idle == [pc |-> "idle", chain |-> <<>>]

Init ==
    /\ NdisState = "paused"
    /\ NblRundown = [wait |-> TRUE, refs |-> 0]
    /\ RxFilterList = <<>>
    /\ open = {}
    /\ df = [h \in Handles |-> NoFilter]
    /\ ctx = [n \in Nbls |-> "none"]
    /\ place = [n \in Nbls |-> "below"]
    /\ rx = [t \in Threads |-> Idle]
    /\ done = [w \in Flushers |-> Done]
    /\ asserted = FALSE

Acquire(count) == NblRundown' = [NblRundown EXCEPT !.refs = @ + count]
Release(count) == NblRundown' = [NblRundown EXCEPT !.refs = @ - count]

Move(chain, where) ==
    place' = [n \in Nbls |-> IF n \in Elems(chain) THEN where ELSE place[n]]

-----------------------------------------------------------------------------
(* The handle's operations. *)

RxCreate(h) ==
    /\ ~asserted
    /\ h \notin open
    /\ NdisState # "detached"
    /\ open' = open \cup {h}
    /\ df' = [df EXCEPT ![h] = NoFilter]
    /\ UNCHANGED <<NdisState, NblRundown, RxFilterList, ctx, place, rx, done, asserted>>

(* Client c calls into the driver on handle h. *)
Ready(c, h) == ~asserted /\ h \in open /\ done[c] = Done

(* The thread w drops the lock with chain to indicate, if there is any. *)
Complete(w, h, chain) ==
    done' = [done EXCEPT ![w] = IF chain = <<>> THEN Done
                                ELSE [pc |-> "indicate", chain |-> chain, on |-> h]]

(* The lock section of w ends: contexts freed, frames left to indicate.  An *)
(* NBL found without its context fails the ASSERT, which stops the system.  *)
Flushed(w, h, flush) ==
    /\ ctx' = flush.ctx
    /\ Complete(w, h, flush.chain)
    /\ asserted' = ~flush.ok

(* An accumulator for RxClearFilter: list, filters and flush so far. *)
Clearing == [list |-> RxFilterList, df |-> df, flush |-> FlushStart(ctx)]

RxClearFilter(acc, h) ==
    [list |-> SelectSeq(acc.list, LAMBDA g : g # h),
     df |-> [acc.df EXCEPT ![h] = IF @.set THEN FnIoDeleteFilter(AfterFlushAll(@)) ELSE @],
     flush |-> IF acc.df[h].set THEN FnIoFlushAllFrames(acc.flush, acc.df[h]) ELSE acc.flush]

RxIrpFilter(c, h, match) ==
    LET acc == RxClearFilter(Clearing, h) IN
    /\ Ready(c, h)
    /\ RxFilterList' = Append(acc.list, h)
    /\ df' = [acc.df EXCEPT ![h] = FnIoCreateFilter(match)]
    /\ Flushed(c, h, acc.flush)
    /\ UNCHANGED <<NdisState, NblRundown, open, place, rx>>

(* In->Length == 0: ClearOnly. *)
RxIrpClearFilter(c, h) ==
    LET acc == RxClearFilter(Clearing, h) IN
    /\ Ready(c, h)
    /\ RxFilterList' = acc.list
    /\ df' = acc.df
    /\ Flushed(c, h, acc.flush)
    /\ UNCHANGED <<NdisState, NblRundown, open, place, rx>>

RxIrpDequeueFrame(c, h, index) ==
    /\ Ready(c, h)
    /\ df[h].set
    /\ df' = [df EXCEPT ![h] = FnIoDequeueFilteredFrame(@, index)]
    /\ UNCHANGED <<NdisState, NblRundown, RxFilterList, open, ctx, place, rx, done, asserted>>

RxIrpFlush(c, h) ==
    /\ Ready(c, h)
    /\ df[h].set
    /\ df' = [df EXCEPT ![h] = AfterFlushDequeued(@)]
    /\ Flushed(c, h, FnIoFlushDequeuedFrames(FlushStart(ctx), df[h]))
    /\ UNCHANGED <<NdisState, NblRundown, RxFilterList, open, place, rx>>

(* The last handle is closed: no IOCTL is in progress on the file object. *)
RxCleanup(c, h) ==
    LET acc == RxClearFilter(Clearing, h) IN
    /\ Ready(c, h)
    /\ \A d \in Clients : done[d].on # h
    /\ open' = open \ {h}
    /\ RxFilterList' = acc.list
    /\ df' = acc.df
    /\ Flushed(c, h, acc.flush)
    /\ UNCHANGED <<NdisState, NblRundown, place, rx>>

-----------------------------------------------------------------------------
(* The timer thread.  Time passing beyond the grace period makes every      *)
(* context old; the timer fires once a second whatever the state.           *)

Age ==
    /\ ~asserted
    /\ \E n \in Nbls : ctx[n] = "fresh"
    /\ ctx' = [n \in Nbls |-> IF ctx[n] = "fresh" THEN "old" ELSE ctx[n]]
    /\ UNCHANGED <<NdisState, NblRundown, RxFilterList, open, df, place, rx, done, asserted>>

(* The walk over the list, one element after the other, into one NblQueue. *)
RxWatchdogWalk ==
    LET walk[i \in 0..Len(RxFilterList)] ==
            IF i = 0 THEN Clearing
            ELSE LET acc == walk[i - 1]
                     h == RxFilterList[i] IN
                 IF FnIoIsFilterWatchdogExpired(acc.df[h], acc.flush.ctx)
                 THEN RxClearFilter(acc, h)
                 ELSE acc
    IN walk[Len(RxFilterList)]

(* A watchdog that clears the filters and drops what they held. *)
RxWatchdogTimeout_DropsFrames ==
    /\ ~asserted
    /\ done[Watchdog] = Done
    /\ RxFilterList' = RxWatchdogWalk.list
    /\ df' = RxWatchdogWalk.df
    /\ Flushed(Watchdog, NoHandle, [RxWatchdogWalk.flush EXCEPT !.chain = <<>>])
    /\ UNCHANGED <<NdisState, NblRundown, open, place, rx>>

RxWatchdogTimeout ==
    /\ ~asserted
    /\ done[Watchdog] = Done
    /\ RxFilterList' = RxWatchdogWalk.list
    /\ df' = RxWatchdogWalk.df
    /\ Flushed(Watchdog, NoHandle, RxWatchdogWalk.flush)
    /\ UNCHANGED <<NdisState, NblRundown, open, place, rx>>

-----------------------------------------------------------------------------
(* RxCompleteNbls, and the same two calls at the end of RxIrpFlush. *)

RxCompleteNbls_ReleasesFirst(w) ==
    \/ /\ ~asserted
       /\ done[w].pc = "indicate"
       /\ done' = [done EXCEPT ![w].pc = "release"]
       /\ Release(Len(done[w].chain))
       /\ UNCHANGED <<NdisState, RxFilterList, open, df, ctx, place, rx, asserted>>
    \/ /\ ~asserted
       /\ done[w].pc = "release"
       /\ done' = [done EXCEPT ![w] = Done]
       /\ Move(done[w].chain, "above")
       /\ UNCHANGED <<NdisState, NblRundown, RxFilterList, open, df, ctx, rx, asserted>>

RxCompleteNbls(w) ==
    \/ /\ ~asserted
       /\ done[w].pc = "indicate"
       /\ done' = [done EXCEPT ![w].pc = "release"]
       /\ Move(done[w].chain, "above")
       /\ UNCHANGED <<NdisState, NblRundown, RxFilterList, open, df, ctx, rx, asserted>>
    \/ /\ ~asserted
       /\ done[w].pc = "release"
       /\ done' = [done EXCEPT ![w] = Done]
       /\ Release(Len(done[w].chain))
       /\ UNCHANGED <<NdisState, RxFilterList, open, df, ctx, place, rx, asserted>>

-----------------------------------------------------------------------------
(* FilterReceiveNetBufferLists, from the acquisition of one reference for   *)
(* each NBL of the chain to the indication of those no filter captured.     *)

FilterReceiveNetBufferLists(t, chain) ==
    /\ ~asserted
    /\ rx[t] = Idle
    /\ NdisState # "detached"
    /\ \A n \in Elems(chain) : place[n] = "below"
    /\ Move(chain, "lwf")
    /\ IF NblRundown.wait
       THEN /\ rx' = [rx EXCEPT ![t] = [pc |-> "indicate", chain |-> chain]]
            /\ UNCHANGED NblRundown
       ELSE /\ rx' = [rx EXCEPT ![t] = [pc |-> "filter", chain |-> chain]]
            /\ Acquire(Len(chain))
    /\ UNCHANGED <<NdisState, RxFilterList, open, df, ctx, done, asserted>>

(* The handles whose filter may capture n: FnIoFilterNbl tries them in list *)
(* order and goes on to the next when the context allocation fails.         *)
Capturers(n) == {h \in Elems(RxFilterList) : n \in df[h].match} \cup {NoHandle}

(* The lock section of the receive path, with the release of the references *)
(* of the NBLs that go on: captor says which filter took which NBL.         *)
Captured(chain, captor, h) == SelectSeq(chain, LAMBDA n : captor[n] = h)

ReceiveReleases_None(chain, passed) == 0

ReceiveReleases(chain, passed) == Len(passed)

RxFilterNbls(t, captor) ==
    LET chain == rx[t].chain
        passed == Captured(chain, captor, NoHandle) IN
    /\ ~asserted
    /\ rx[t].pc = "filter"
    /\ \A n \in Elems(chain) : captor[n] \in Capturers(n)
    /\ df' = [h \in Handles |-> FnIoFilterNbl(df[h], Captured(chain, captor, h))]
    /\ ctx' = FnIoFilterNblSetContext(ctx, SelectSeq(chain, LAMBDA n : captor[n] # NoHandle))
    /\ rx' = [rx EXCEPT ![t] = IF passed = <<>> THEN Idle ELSE [pc |-> "indicate", chain |-> passed]]
    /\ Release(ReceiveReleases(chain, passed))
    /\ UNCHANGED <<NdisState, RxFilterList, open, place, done, asserted>>

RxIndicateChain(t) ==
    /\ ~asserted
    /\ rx[t].pc = "indicate"
    /\ Move(rx[t].chain, "above")
    /\ rx' = [rx EXCEPT ![t] = Idle]
    /\ UNCHANGED <<NdisState, NblRundown, RxFilterList, open, df, ctx, done, asserted>>

FilterReturnNetBufferLists(n) ==
    /\ ~asserted
    /\ place[n] = "above"
    /\ Move(<<n>>, "below")
    /\ UNCHANGED <<NdisState, NblRundown, RxFilterList, open, df, ctx, rx, done, asserted>>

-----------------------------------------------------------------------------
(* NDIS pauses, restarts and detaches the module, in that order; it detaches *)
(* after the receive calls it made have returned.                            *)

FilterPause ==
    /\ ~asserted
    /\ NdisState = "running"
    /\ NdisState' = "pausing"
    /\ NblRundown' = [NblRundown EXCEPT !.wait = TRUE]
    /\ UNCHANGED <<RxFilterList, open, df, ctx, place, rx, done, asserted>>

(* ExWaitForRundownProtectionRelease returns. *)
FilterPaused ==
    /\ ~asserted
    /\ NdisState = "pausing"
    /\ NblRundown.refs = 0
    /\ NdisState' = "paused"
    /\ UNCHANGED <<NblRundown, RxFilterList, open, df, ctx, place, rx, done, asserted>>

FilterRestart ==
    /\ ~asserted
    /\ NdisState = "paused"
    /\ NdisState' = "running"
    /\ NblRundown' = [wait |-> FALSE, refs |-> 0]
    /\ UNCHANGED <<RxFilterList, open, df, ctx, place, rx, done, asserted>>

FilterDetach ==
    /\ ~asserted
    /\ NdisState = "paused"
    /\ \A t \in Threads : rx[t] = Idle
    /\ NdisState' = "detached"
    /\ UNCHANGED <<NblRundown, RxFilterList, open, df, ctx, place, rx, done, asserted>>

-----------------------------------------------------------------------------
(* Non-empty chains of distinct NBLs. *)
Chains == {q \in UNION {[1..k -> Nbls] : k \in 1..Cardinality(Nbls)} :
              \A i, j \in DOMAIN q : q[i] = q[j] => i = j}

(* The end of a behaviour: the module is gone and every frame is back, or an *)
(* assertion has stopped the system.                                         *)
Finished ==
    /\ \/ asserted
       \/ /\ NdisState = "detached"
          /\ open = {}
          /\ \A w \in Flushers : done[w] = Done
    /\ UNCHANGED vars

ClientStep(c, h) ==
    \/ \E match \in Patterns : RxIrpFilter(c, h, match)
    \/ RxIrpClearFilter(c, h)
    \/ \E index \in 1..Cardinality(Nbls) : RxIrpDequeueFrame(c, h, index)
    \/ RxIrpFlush(c, h)
    \/ RxCleanup(c, h)

ReceiveStep(t) ==
    \/ \E captor \in [Elems(rx[t].chain) -> Handles \cup {NoHandle}] : RxFilterNbls(t, captor)
    \/ RxIndicateChain(t)

Next ==
    \/ \E h \in Handles : RxCreate(h)
    \/ \E c \in Clients, h \in Handles : ClientStep(c, h)
    \/ \E w \in Flushers : RxCompleteNbls(w)
    \/ Age
    \/ RxWatchdogTimeout
    \/ \E t \in Threads : \E chain \in Chains : FilterReceiveNetBufferLists(t, chain)
    \/ \E t \in Threads : ReceiveStep(t)
    \/ \E n \in Nbls : FilterReturnNetBufferLists(n)
    \/ FilterPause
    \/ FilterPaused
    \/ FilterRestart
    \/ FilterDetach
    \/ Finished

Spec == Init /\ [][Next]_vars

(* Threads in the driver keep running, the wait of FilterPause returns once  *)
(* the references are gone, time passes and the timer fires every second.    *)
(* Clients, NDIS and the miniport owe nothing.                               *)
Fairness ==
    /\ \A w \in Flushers : WF_vars(RxCompleteNbls(w))
    /\ \A t \in Threads : WF_vars(ReceiveStep(t))
    /\ WF_vars(FilterPaused)
    /\ WF_vars(Age)
    /\ WF_vars(RxWatchdogTimeout)

FairSpec == Spec /\ Fairness

-----------------------------------------------------------------------------
Holding(h) == Elems(df[h].NblQueue) \cup Elems(df[h].NblReturn)

(* The types, and that the count of rundown references never goes below 0.  *)
TypeOK ==
    /\ NdisState \in {"running", "pausing", "paused", "detached"}
    /\ NblRundown \in [wait : BOOLEAN, refs : Nat]
    /\ RxFilterList \in Seq(Handles)
    /\ open \in SUBSET Handles
    /\ df \in [Handles -> [set : BOOLEAN, match : SUBSET Nbls,
                           NblQueue : Seq(Nbls), NblReturn : Seq(Nbls)]]
    /\ ctx \in [Nbls -> {"none", "fresh", "old"}]
    /\ place \in [Nbls -> {"below", "lwf", "above"}]
    /\ rx \in [Threads -> [pc : {"idle", "filter", "indicate"}, chain : Seq(Nbls)]]
    /\ done \in [Flushers -> [pc : {"idle", "indicate", "release"},
                             chain : Seq(Nbls), on : Handles \cup {NoHandle}]]
    /\ asserted \in BOOLEAN

(* What keeps a reference: a frame a receive thread is filtering, a frame a  *)
(* filter holds, and each frame of a chain that RxCompleteNbls has not yet   *)
(* released, which may be back in the driver by then.                        *)
References ==
    {<<"lwf", n>> : n \in UNION {Elems(rx[t].chain) : t \in {u \in Threads : rx[u].pc = "filter"}}}
    \cup {<<"lwf", n>> : n \in UNION {Holding(h) : h \in Handles}}
    \cup {<<w, n>> \in Flushers \X Nbls : n \in Elems(done[w].chain)}

(* The references on Filter->NblRundown are exactly the frames the driver    *)
(* answers for: an extra one blocks FilterPause for ever, a missing one lets *)
(* NDIS detach the filter under a frame it still holds (rx.c, every acquire  *)
(* and release of NblRundown).                                               *)
RundownExact == NblRundown.refs = Cardinality(References)

(* Once FilterPause has returned no filter holds a frame and no flushing     *)
(* thread has a frame to indicate or a reference to release, whatever the    *)
(* open handles did meanwhile; so FilterDetach leaves nothing behind that    *)
(* would use NdisFilterHandle.                                               *)
PausedHoldsNothing ==
    NdisState \in {"paused", "detached"} =>
        /\ \A h \in Handles : Holding(h) = {}
        /\ \A w \in Flushers : done[w] = Done
        /\ \A t \in Threads : rx[t].pc # "filter"

Positions(q, n) == {i \in DOMAIN q : q[i] = n}

(* The places in the driver where frame n is linked. *)
Links(n) ==
    UNION ({{h} \X {"NblQueue"} \X Positions(df[h].NblQueue, n) : h \in Handles}
           \cup {{h} \X {"NblReturn"} \X Positions(df[h].NblReturn, n) : h \in Handles}
           \cup {{w} \X {"done"} \X Positions(done[w].chain, n) :
                    w \in {v \in Flushers : done[v].pc = "indicate"}}
           \cup {{t} \X {"rx"} \X Positions(rx[t].chain, n) : t \in Threads})

(* A frame NDIS gave to the driver is linked in exactly one queue or chain   *)
(* until it is indicated, and in none before and after: no frame is lost,    *)
(* indicated twice, or shared by two filters.                                *)
NblsConserved == \A n \in Nbls : Cardinality(Links(n)) = IF place[n] = "lwf" THEN 1 ELSE 0

(* Context != NULL in FnIoFilterNblContext, for every frame a flush visits.  *)
ContextsFreedOnce == ~asserted

(* FilterPause returns although clients hold frames and never flush them:    *)
(* the watchdog takes every frame held for longer than the grace period,     *)
(* unless its walk has failed the assertion of ContextsFreedOnce.            *)
PauseCompletes == NdisState = "pausing" ~> NdisState = "paused" \/ asserted

(* Every frame a filter captures is indicated to the protocols in the end,   *)
(* under the same condition.                                                 *)
HeldFrameReturned ==
    \A n \in Nbls : ctx[n] # "none" ~> place[n] = "above" \/ asserted
=============================================================================

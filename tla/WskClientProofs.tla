--------------------------- MODULE WskClientProofs ---------------------------
(***************************************************************************)
(* Proofs about WskClient, for any number of threads and any length of a   *)
(* buffer.                                                                 *)
(*                                                                         *)
(* The calls share nothing but the provider, so the inductive invariant is *)
(* one predicate of a call, CallInv, and a step is shown to leave the call *)
(* it changes with a record that satisfies it (lemma OneCall).  What it    *)
(* adds to the properties is who has the IRP at each point: the client     *)
(* once it is completed, with a status; a call that waits was pended; the  *)
(* event is set only for a completed IRP.                                  *)
(***************************************************************************)
EXTENDS WskClient, TLAPS

CallType ==
    [pc : {"idle", "called", "held", "wait", "expired", "rewait", "cancel", "done"},
     kind : Kinds, timed : BOOLEAN, expected : BOOLEAN,
     irp : {"none", "allocated"}, owner : {"client", "provider"},
     mdl : {"none", "built", "locked"}, pending : BOOLEAN,
     status : Statuses, info : 0 .. Length + 1, event : BOOLEAN,
     cancel : BOOLEAN, cancelledBy : {"nobody", "client", "close"}, expired : BOOLEAN,
     result : Statuses \cup {"timeout"}, out : 0 .. Length + 1]

Ended == {"idle", "done"}

\* What ResultIsOutcome says of one call that has ended.
ResultInv(r) ==
    /\ r.result = "success" <=> r.status = "success"
    /\ r.result = "success" => r.kind \in NoOutput \/ r.out = r.info
    /\ r.result = "timeout" =>
          /\ r.status = "cancelled" /\ r.out = 0
          /\ r.expired \/ r.cancelledBy = "close"

\* What holds of one call at every step.
CallInv(r) ==
    /\ r.pc \in Ended => r.irp = "none" /\ r.mdl = "none" /\ r.owner = "client"
    /\ r.pc \notin Ended => r.irp = "allocated"
    /\ r.pc \notin Ended /\ r.owner = "client" =>
           r.status \in {"success", "error", "cancelled"}
    /\ r.pc \in {"wait", "expired", "rewait", "cancel"} => r.pending
    /\ r.pc = "held" /\ ~r.pending => r.owner = "client"
    /\ r.event => r.owner = "client"
    /\ r.status = "cancelled" => r.info = 0
    /\ r.cancel => r.pc \in {"rewait", "cancel", "done"}
    /\ r.pc \in {"expired", "rewait"} => r.expired
    /\ r.status = "cancelled" => r.cancel \/ r.cancelledBy = "close"
    /\ r.pc = "done" /\ r.result # "none" => ResultInv(r)

IInv ==
    /\ registered \in BOOLEAN
    /\ asserted \in BOOLEAN
    /\ call \in [Calls -> CallType]
    /\ \A c \in Calls : CallInv(call[c])

-----------------------------------------------------------------------------
\* A step that changes one call keeps the invariant if the new record of that
\* call satisfies it.
LEMMA OneCall ==
    ASSUME IInv, NEW c \in Calls, NEW r \in CallType, CallInv(r),
           call' = [call EXCEPT ![c] = r],
           registered' \in BOOLEAN, asserted' \in BOOLEAN
    PROVE  IInv'
<1>1. call' \in [Calls -> CallType]
  BY DEF IInv
<1>2. ASSUME NEW d \in Calls PROVE CallInv(call'[d])
  <2>1. CASE d = c
    <3>1. call'[d] = r
      BY <2>1 DEF IInv
    <3> QED BY <3>1
  <2>2. CASE d # c
    <3>1. call'[d] = call[d]
      BY <2>2 DEF IInv
    <3> QED BY <3>1 DEF IInv
  <2> QED BY <2>1, <2>2
<1> QED BY <1>1, <1>2 DEF IInv, CallInv, ResultInv

\* A call that has not started.
LEMMA IdleRecord == Idle \in CallType /\ CallInv(Idle)
BY LengthAssumption DEF CallType, CallInv, ResultInv, Ended, Idle, Statuses, Kinds

\* A call that has begun: the provider has its IRP.
LEMMA SentRecord ==
    ASSUME NEW kind \in Kinds, NEW timed \in BOOLEAN, NEW expected \in BOOLEAN,
           NEW mdl \in {"none", "built", "locked"}, NEW r,
           r = [pc |-> "called", kind |-> kind, timed |-> timed, expected |-> expected,
                irp |-> "allocated", owner |-> "provider", mdl |-> mdl,
                pending |-> FALSE, status |-> "none", info |-> 0, event |-> FALSE,
                cancel |-> FALSE, cancelledBy |-> "nobody", expired |-> FALSE, result |-> "none", out |-> 0]
    PROVE  r \in CallType /\ CallInv(r)
<1>1. r \in CallType
  BY LengthAssumption DEF CallType, Statuses
<1>2. CallInv(r)
  BY DEF CallInv, Ended
<1> QED BY <1>1, <1>2

\* A call whose IRP could not be allocated.
LEMMA RefusedRecord ==
    ASSUME NEW kind \in Kinds, NEW r,
           r = [pc |-> "done", kind |-> kind, timed |-> FALSE, expected |-> FALSE,
                irp |-> "none", owner |-> "client", mdl |-> "none",
                pending |-> FALSE, status |-> "none", info |-> 0, event |-> FALSE,
                cancel |-> FALSE, cancelledBy |-> "nobody", expired |-> FALSE, result |-> "error", out |-> 0]
    PROVE  r \in CallType /\ CallInv(r)
<1>1. r \in CallType
  BY LengthAssumption DEF CallType, Statuses
<1>2. CallInv(r)
  BY DEF CallInv, ResultInv, Ended
<1> QED BY <1>1, <1>2

\* A call of a function leaves the invariant, whether the provider is called or
\* the IRP could not be allocated.
LEMMA BeginPreserves ==
    ASSUME IInv, NEW c \in Calls, NEW kind \in Kinds,
           NEW timeouts \in SUBSET BOOLEAN, NEW expectations \in SUBSET BOOLEAN,
           NEW buffers \in SUBSET {"none", "nonpaged", "paged"},
           Begin(c, kind, timeouts, expectations, buffers)
    PROVE  IInv'
<1>1. registered' \in BOOLEAN /\ asserted' \in BOOLEAN
  BY DEF IInv, Begin
<1>2. CASE Refused(c, kind)
  <2>1. PICK r : r = [Idle EXCEPT !.pc = "done", !.kind = kind, !.result = "error"]
    BY Zenon
  <2>2. call' = [call EXCEPT ![c] = r]
    BY <1>2, <2>1, Zenon DEF Refused
  <2>3. r = [pc |-> "done", kind |-> kind, timed |-> FALSE, expected |-> FALSE,
             irp |-> "none", owner |-> "client", mdl |-> "none",
             pending |-> FALSE, status |-> "none", info |-> 0, event |-> FALSE,
             cancel |-> FALSE, cancelledBy |-> "nobody", expired |-> FALSE, result |-> "error", out |-> 0]
    BY <2>1 DEF Idle
  <2>4. r \in CallType /\ CallInv(r)
    BY <2>3, RefusedRecord
  <2> QED BY <1>1, <2>2, <2>4, OneCall
<1>3. ASSUME NEW timed \in timeouts, NEW expected \in expectations, NEW buf \in buffers,
             NEW mdl \in InitializeWskBuf(buf), Sent(c, kind, timed, expected, mdl)
      PROVE  IInv'
  <2>1. timed \in BOOLEAN /\ expected \in BOOLEAN /\ mdl \in {"none", "built", "locked"}
    BY DEF InitializeWskBuf
  <2>2. PICK r : r = [Idle EXCEPT !.pc = "called", !.kind = kind, !.timed = timed,
                                  !.expected = expected, !.mdl = mdl,
                                  !.irp = "allocated", !.owner = "provider"]
    BY Zenon
  <2>3. call' = [call EXCEPT ![c] = r]
    BY <1>3, <2>2, Zenon DEF Sent
  <2>4. r = [pc |-> "called", kind |-> kind, timed |-> timed, expected |-> expected,
             irp |-> "allocated", owner |-> "provider", mdl |-> mdl,
             pending |-> FALSE, status |-> "none", info |-> 0, event |-> FALSE,
             cancel |-> FALSE, cancelledBy |-> "nobody", expired |-> FALSE, result |-> "none", out |-> 0]
    BY <2>2 DEF Idle
  <2>5. r \in CallType /\ CallInv(r)
    BY <2>1, <2>4, SentRecord
  <2> QED BY <1>1, <2>3, <2>5, OneCall
<1> QED BY <1>2, <1>3 DEF Begin

\* What a call whose IRP is completed reports is what became of the request.
LEMMA ReportedResult ==
    ASSUME NEW q \in CallType, NEW r,
           q.status \in {"success", "error", "cancelled"},
           q.status = "cancelled" => q.info = 0 /\ (q.expired \/ q.cancelledBy = "close"),
           r.kind = q.kind, r.status = q.status, r.info = q.info,
           r.expired = q.expired, r.cancelledBy = q.cancelledBy,
           \/ r.result = Result(q) /\ r.out = Output(q)
           \/ r.result = q.status /\ q.status # "success" /\ r.out = 0
    PROVE  ResultInv(r)
<1>1. r.result = "success" <=> q.status = "success"
  BY DEF Result
<1>2. q.status = "success" => q.kind \in NoOutput \/ r.out = q.info
  BY DEF Output
<1>3. r.result = "timeout" => q.status = "cancelled" /\ r.out = 0
  BY DEF Result, Output
<1> QED BY <1>1, <1>2, <1>3 DEF ResultInv

\* A call ends with the IRP completed, and reports the outcome or, cancelled by
\* the caller, nothing.
LEMMA FinishPreserves ==
    ASSUME IInv, NEW c \in Calls, NEW q \in CallType, NEW result, NEW out,
           CallInv(q), q.owner = "client", q.pc \notin Ended,
           \/ result = "none" /\ out = 0
           \/ /\ q.cancel => q.expired
              /\ \/ result = Result(q) /\ out = Output(q)
                 \/ result = q.status /\ q.status # "success" /\ out = 0,
           Finish(c, q, result, out), registered' \in BOOLEAN
    PROVE  IInv'
<1> DEFINE r == [q EXCEPT !.pc = "done", !.irp = "none",
                          !.mdl = UninitializeWskBuf(q.mdl),
                          !.result = result, !.out = out]
<1>1. q.status \in {"success", "error", "cancelled"}
  BY DEF CallInv
<1>2. result \in Statuses \cup {"timeout"}
  BY <1>1 DEF Result, Statuses
<1>3. out \in 0 .. Length + 1
  BY LengthAssumption DEF Output, CallType
<1>4. r \in CallType
  BY <1>2, <1>3 DEF CallType, UninitializeWskBuf
<1>5. /\ r.pc = "done" /\ r.irp = "none" /\ r.mdl = "none" /\ r.result = result
      /\ r.out = out /\ r.kind = q.kind /\ r.status = q.status
      /\ r.info = q.info /\ r.owner = q.owner /\ r.event = q.event
      /\ r.cancel = q.cancel /\ r.cancelledBy = q.cancelledBy /\ r.expired = q.expired
  BY DEF CallType, UninitializeWskBuf
<1>6. r.result # "none" => ResultInv(r)
  <2> HIDE DEF r
  <2>1. q.status = "cancelled" => q.info = 0 /\ (q.cancel \/ q.cancelledBy = "close")
    BY DEF CallInv
  <2> QED BY <1>1, <1>5, <2>1, ReportedResult
<1>7. CallInv(r)
  <2> HIDE DEF r
  <2> QED BY <1>5, <1>6 DEF CallInv, Ended
<1>8. call' = [call EXCEPT ![c] = r] /\ asserted' \in BOOLEAN
  BY DEF Finish, AssertFails
<1> QED
  <2> HIDE DEF r
  <2> QED BY <1>4, <1>7, <1>8, OneCall

\* The steps of the provider and of the waits that leave the call going.
LEMMA MarkPendingPreserves ==
    ASSUME IInv, NEW c \in Calls, MarkPending(c)
    PROVE  IInv'
<1> DEFINE r == [call[c] EXCEPT !.pending = TRUE]
<1>1. call[c] \in CallType /\ CallInv(call[c])
  BY DEF IInv
<1>2. r \in CallType /\ CallInv(r)
  BY <1>1 DEF CallType, CallInv, ResultInv, Ended, MarkPending
<1>3. call' = [call EXCEPT ![c] = r]
  BY DEF MarkPending
<1> QED
  <2> HIDE DEF r
  <2> QED BY <1>2, <1>3, OneCall DEF IInv, MarkPending

\* The completion of an IRP preserves the invariant.
LEMMA CompletePreserves ==
    ASSUME IInv, NEW c \in Calls, Complete(c)
    PROVE  IInv'
<1>1. call[c] \in CallType /\ CallInv(call[c])
  BY DEF IInv
<1>2. PICK o \in Outcomes(c) :
          call' = [call EXCEPT ![c].owner = "client", ![c].status = o.status,
                               ![c].info = o.info,
                               ![c].cancelledBy = o.cancelledBy,
                               ![c].event = GenericCompletionRoutine(c, @)]
  BY DEF Complete
<1>3. /\ o.status \in {"success", "error", "cancelled"}
      /\ o.info \in 0 .. Length + 1
      /\ o.cancelledBy \in {"nobody", "client", "close"}
      /\ o.status = "cancelled" => o.info = 0 /\ (call[c].cancel \/ o.cancelledBy = "close")
  BY LengthAssumption DEF Outcomes, Transferred, Cancellers
<1> DEFINE r == [call[c] EXCEPT !.owner = "client", !.status = o.status, !.info = o.info,
                                !.cancelledBy = o.cancelledBy,
                                !.event = call[c].event \/ call[c].pending]
<1>4. call' = [call EXCEPT ![c] = r]
  <2>1. call' = [call EXCEPT ![c].owner = "client", ![c].status = o.status,
                            ![c].info = o.info, ![c].cancelledBy = o.cancelledBy,
                            ![c].event = call[c].event \/ call[c].pending]
    BY <1>1, <1>2 DEF GenericCompletionRoutine, IInv, CallType
  <2> QED BY <2>1, <1>1 DEF IInv, CallType
<1>5. r \in CallType
  <2>1. ASSUME NEW status \in Statuses, NEW info \in 0 .. Length + 1, NEW event \in BOOLEAN,
               NEW by \in {"nobody", "client", "close"}
        PROVE  [call[c] EXCEPT !.owner = "client", !.status = status, !.info = info,
                               !.cancelledBy = by, !.event = event] \in CallType
    BY <1>1 DEF CallType
  <2>2. (call[c].event \/ call[c].pending) \in BOOLEAN
    OBVIOUS
  <2> QED BY <1>3, <2>1, <2>2, Zenon DEF Statuses
<1>6. CallInv(r)
  BY <1>1, <1>3 DEF CallType, CallInv, Ended, Complete
<1> QED
  <2> HIDE DEF r
  <2> QED BY <1>4, <1>5, <1>6, OneCall DEF IInv, Complete

\* A wait that times out preserves the invariant.
LEMMA WaitTimesOutPreserves ==
    ASSUME IInv, NEW c \in Calls, WaitTimesOut(c)
    PROVE  IInv'
<1> DEFINE r == [call[c] EXCEPT !.pc = "expired", !.expired = TRUE]
<1>1. call[c] \in CallType /\ CallInv(call[c])
  BY DEF IInv
<1>2. r \in CallType /\ CallInv(r)
  BY <1>1 DEF CallType, CallInv, Ended, WaitTimesOut
<1>3. call' = [call EXCEPT ![c] = r]
  BY DEF WaitTimesOut
<1> QED
  <2> HIDE DEF r
  <2> QED BY <1>2, <1>3, OneCall DEF IInv, WaitTimesOut

\* A cancellation preserves the invariant.
LEMMA CancelPreserves ==
    ASSUME IInv, NEW c \in Calls, NEW kind \in Kinds,
           Cancel(c, kind) \/ WskWaitForIrpCompletion(c)
    PROVE  IInv'
<1> DEFINE next == IF call[c].pc = "held" THEN "cancel" ELSE "rewait"
           r == [call[c] EXCEPT !.pc = next, !.cancel = TRUE]
<1>1. call[c] \in CallType /\ CallInv(call[c])
  BY DEF IInv
<1>2. r \in CallType /\ CallInv(r)
  BY <1>1 DEF CallType, CallInv, Ended, Cancel, WskWaitForIrpCompletion
<1>3. call' = [call EXCEPT ![c] = r]
  BY DEF Cancel, WskWaitForIrpCompletion
<1> QED
  <2> HIDE DEF r
  <2> QED BY <1>2, <1>3, OneCall DEF IInv, Cancel, WskWaitForIrpCompletion

\* A caller that goes on preserves the invariant.
LEMMA CallerProceedsPreserves ==
    ASSUME IInv, NEW c \in Calls, CallerProceeds(c)
    PROVE  IInv'
BY IdleRecord, OneCall DEF IInv, CallerProceeds

\* A step within a call preserves the invariant.
LEMMA GotoPreserves ==
    ASSUME IInv, NEW c \in Calls, call[c].pc = "called", NEW pc \in {"wait", "held"},
           pc = "wait" => call[c].pending,
           pc = "held" => call[c].pending \/ call[c].owner = "client",
           Goto(c, pc), registered' \in BOOLEAN
    PROVE  IInv'
<1> DEFINE r == [call[c] EXCEPT !.pc = pc]
<1>1. call[c] \in CallType /\ CallInv(call[c])
  BY DEF IInv
<1>2. r \in CallType /\ CallInv(r)
  BY <1>1 DEF CallType, CallInv, Ended
<1>3. call' = [call EXCEPT ![c] = r]
  BY DEF Goto
<1> QED
  <2> HIDE DEF r
  <2> QED BY <1>2, <1>3, OneCall DEF IInv, Goto

\* The provider returns: an IRP that was not pended has been completed.
LEMMA ProviderReturnsPreserves ==
    ASSUME IInv, NEW c \in Calls, ProviderReturns(c)
    PROVE  IInv'
<1>1. call[c] \in CallType /\ CallInv(call[c])
  BY DEF IInv
<1>2. registered' \in BOOLEAN
  BY DEF IInv, ProviderReturns
<1>3. call[c].pc = "called" /\ (call[c].pending \/ call[c].owner = "client")
  BY DEF ProviderReturns
<1>4. CASE Goto(c, "wait") /\ call[c].pending
  BY <1>2, <1>3, <1>4, GotoPreserves
<1>5. CASE Goto(c, "held")
  BY <1>2, <1>3, <1>5, GotoPreserves
<1>6. CASE Report(c, call[c]) /\ ~call[c].pending
  BY <1>1, <1>2, <1>3, <1>6, FinishPreserves DEF Report, CallInv, Ended
<1>7. CASE /\ Finish(c, call[c], call[c].status, 0)
           /\ ~call[c].pending /\ call[c].status # "success"
  BY <1>1, <1>2, <1>3, <1>7, FinishPreserves DEF CallInv, Ended
<1> QED BY <1>3, <1>4, <1>5, <1>6, <1>7 DEF ProviderReturns, AsyncReturns, SyncReturns

\* An Await goes to the wait or ends: a completion that was not pended has a
\* completed IRP.
LEMMA AwaitPreserves ==
    ASSUME IInv, NEW c \in Calls, NEW kind, NEW expectations \in SUBSET BOOLEAN,
           Await(c, kind, expectations)
    PROVE  IInv'
<1>1. call[c] \in CallType /\ CallInv(call[c])
  BY DEF IInv
<1>2. registered' \in BOOLEAN /\ call[c].pc = "held"
  BY DEF IInv, Await
<1>3. PICK timed \in BOOLEAN, expected \in expectations :
        LET q == [call[c] EXCEPT !.timed = timed, !.expected = expected]
        IN IF q.pending
           THEN /\ call' = [call EXCEPT ![c] = [q EXCEPT !.pc = "wait"]]
                /\ UNCHANGED asserted
           ELSE Report(c, q)
  BY DEF Await
<1>4. expected \in BOOLEAN
  OBVIOUS
<1>5. PICK q : q = [call[c] EXCEPT !.timed = timed, !.expected = expected]
  OBVIOUS
<1>6. q \in CallType /\ CallInv(q) /\ q.pc = "held"
  BY <1>1, <1>2, <1>4, <1>5 DEF CallType, CallInv, Ended
<1>7. CASE q.pending
  <2>1. PICK r : r = [q EXCEPT !.pc = "wait"]
    OBVIOUS
  <2>2. r \in CallType /\ CallInv(r)
    BY <1>6, <1>7, <2>1 DEF CallType, CallInv, Ended
  <2>3. call' = [call EXCEPT ![c] = r] /\ UNCHANGED asserted
    BY <1>3, <1>5, <1>7, <2>1
  <2> QED BY <1>2, <2>2, <2>3, OneCall DEF IInv
<1>8. CASE ~q.pending
  <2>1. Report(c, q)
    BY <1>3, <1>5, <1>8
  <2>2. q.owner = "client" /\ q.pc \notin Ended /\ ~q.cancel
    BY <1>6, <1>8 DEF CallInv, Ended
  <2> QED BY <1>2, <1>6, <2>1, <2>2, FinishPreserves DEF Report
<1> QED BY <1>7, <1>8

\* The end of a wait preserves the invariant: the IRP is completed, and was
\* cancelled by nobody but this call after its timeout, if at all.
LEMMA WaitEndsPreserves ==
    ASSUME IInv, NEW c \in Calls, WaitEnds(c) \/ CancelEnds(c)
    PROVE  IInv'
<1>1. call[c] \in CallType /\ CallInv(call[c])
  BY DEF IInv
<1>2. call[c].owner = "client" /\ call[c].pc \notin Ended
  BY <1>1 DEF CallInv, Ended, WaitEnds, CancelEnds
<1>3. registered' \in BOOLEAN
  BY DEF IInv, WaitEnds, CancelEnds
<1>4. CASE WaitEnds(c)
  <2>1. call[c].cancel => call[c].expired
    BY <1>1, <1>4 DEF CallInv, WaitEnds
  <2>2. Report(c, call[c])
    BY <1>4 DEF WaitEnds
  <2> QED BY <1>1, <1>2, <1>3, <2>1, <2>2, FinishPreserves DEF Report
<1>5. CASE CancelEnds(c)
  <2>1. Finish(c, call[c], "none", 0)
    BY <1>5 DEF CancelEnds
  <2> QED BY <1>1, <1>2, <1>3, <2>1, FinishPreserves
<1> QED BY <1>4, <1>5

\* Every function begins in the same way.
LEMMA FunctionsPreserve ==
    ASSUME IInv, NEW c \in Calls, Functions(c) \/ WskCloseSocketSync(c)
    PROVE  IInv'
<1>1. PICK kind \in Kinds, timeouts \in SUBSET BOOLEAN, expectations \in SUBSET BOOLEAN,
           buffers \in SUBSET {"none", "nonpaged", "paged"} :
        Begin(c, kind, timeouts, expectations, buffers)
  <2>1. /\ NoTimeout \in SUBSET BOOLEAN /\ BOOLEAN \in SUBSET BOOLEAN
        /\ Unexpected \in SUBSET BOOLEAN
        /\ NoBuffer \in SUBSET {"none", "nonpaged", "paged"}
        /\ Buffer \in SUBSET {"none", "nonpaged", "paged"}
        /\ MaybeBuffer \in SUBSET {"none", "nonpaged", "paged"}
    BY DEF NoTimeout, Unexpected, NoBuffer, Buffer, MaybeBuffer
  <2>2. {"plain", "close", "output", "send", "acceptSync", "receive", "connectEx",
         "disconnect", "accept", "io"} \subseteq Kinds
    BY DEF Kinds, AsyncKinds
  <2> HIDE DEF Begin
  <2> QED
    BY <2>1, <2>2, Zenon
       DEF Functions, WskCloseSocketSync,
           WskSocketSync, WskSocketConnectSync, WskBindSync, WskListenSync,
           WskConnectSync, WskConnectExSync, WskConnectExAsync, WskAcceptSync,
           WskAcceptAsync, WskDisconnectSync, WskAbortSync,
           WskDisconnectAsync, WskSendSync, WskSendExSync, WskSendAsync,
           WskReceiveSync, WskReceiveExSync, WskReceiveAsync, WskSendToSync,
           WskSendToAsync, WskControlSocketSync, WskEnableCallbacks,
           WskGetLocalAddrSync, WskGetRemoteAddrSync
<1> QED BY <1>1, BeginPreserves

\* Every step keeps the invariant.
LEMMA NextPreserves ==
    ASSUME IInv, [Next]_vars
    PROVE  IInv'
<1>1. CASE WskClientReg \/ WskClientDereg
  BY <1>1 DEF WskClientReg, WskClientDereg, IInv
<1>2. ASSUME NEW c \in Closers, WskCloseSocketSync(c) PROVE IInv'
  BY <1>2, ClosersAssumption, FunctionsPreserve
<1>3. ASSUME NEW c \in Calls \ Closers, Functions(c) PROVE IInv'
  BY <1>3, FunctionsPreserve
<1>4. ASSUME NEW c \in Calls, Awaits(c) PROVE IInv'
  <2>1. Unexpected \in SUBSET BOOLEAN /\ BOOLEAN \in SUBSET BOOLEAN
    BY DEF Unexpected
  <2> QED BY <1>4, <2>1, AwaitPreserves, Zenon
       DEF Awaits, WskConnectExAwait, WskAcceptAwait, WskDisconnectAwait,
           WskSendAwait, WskReceiveAwait
<1>5. ASSUME NEW c \in Calls, WskConnectExCancel(c) \/ WskAcceptCancel(c) PROVE IInv'
  <2>1. "connectEx" \in Kinds /\ "accept" \in Kinds
    BY DEF Kinds, AsyncKinds
  <2> QED BY <1>5, <2>1, CancelPreserves, Zenon DEF WskConnectExCancel, WskAcceptCancel
<1>6. ASSUME NEW c \in Calls, WskWaitForIrpCompletion(c) PROVE IInv'
  <2>1. "connectEx" \in Kinds
    BY DEF Kinds, AsyncKinds
  <2> QED BY <1>6, <2>1, CancelPreserves
<1>7. ASSUME NEW c \in Calls, MarkPending(c) \/ Complete(c) \/ ProviderReturns(c) PROVE IInv'
  BY <1>7, MarkPendingPreserves, CompletePreserves, ProviderReturnsPreserves
<1>8. ASSUME NEW c \in Calls, WaitEnds(c) \/ CancelEnds(c) \/ WaitTimesOut(c) \/ CallerProceeds(c)
      PROVE  IInv'
  BY <1>8, WaitEndsPreserves, WaitTimesOutPreserves, CallerProceedsPreserves
<1>9. CASE UNCHANGED vars
  BY <1>9 DEF vars, IInv, CallInv, ResultInv
<1> QED BY <1>1, <1>2, <1>3, <1>4, <1>5, <1>6, <1>7, <1>8, <1>9, Zenon DEF Next

\* The invariant holds at first.
LEMMA InitHolds == Init => IInv
BY IdleRecord DEF Init, IInv

\* The invariant holds throughout.
LEMMA Inductive == Spec => []IInv
BY InitHolds, NextPreserves, PTL DEF Spec

-----------------------------------------------------------------------------
\* Type correctness of the calls, for any number of threads and any length of
\* a buffer.
THEOREM TypeCorrect == Spec => []TypeOK
<1>1. IInv => TypeOK
  BY DEF IInv, TypeOK, CallType
<1> QED BY <1>1, Inductive, PTL

\* The IRP, the event and the MDL outlive the provider's use of them: the second
\* wait of WskWaitForIrpCompletion, after IoCancelIrp, is what the proof rests on
\* for a call that times out.
THEOREM MemoryOutlivesProvider == Spec => []ProviderUsesLiveMemory
<1>1. IInv => ProviderUsesLiveMemory
  BY DEF IInv, ProviderUsesLiveMemory, CallType, CallInv, Ended
<1> QED BY <1>1, Inductive, PTL

\* A call reports what became of its request, whichever of the completion, the
\* timeout and the cancellation came first; a timeout is its own, or the close of
\* its socket.
THEOREM OutcomeReported == Spec => []ResultIsOutcome
<1>1. IInv => ResultIsOutcome
  BY DEF IInv, ResultIsOutcome, CallInv, ResultInv
<1> QED BY <1>1, Inductive, PTL
=============================================================================

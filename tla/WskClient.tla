------------------------------ MODULE WskClient ------------------------------
(***************************************************************************)
(* wskclient: calls of the Winsock Kernel provider made to look            *)
(* synchronous, or split into a start, an await and a cancel.              *)
(*                                                                         *)
(* Every function of wskclient.c is the same protocol around one IRP: it   *)
(* allocates the IRP, installs GenericCompletionRoutine with an event, may *)
(* describe the caller's buffer by an MDL, and calls the provider.  The    *)
(* provider completes the IRP inside the call, or marks it pending and     *)
(* completes it before or after the call has returned.  The functions      *)
(* differ in how they wait (not at all, for ever, until a timeout), in     *)
(* what they report and in what they assert; that is all an action of      *)
(* theirs states here, and `kind' is what the later steps of a call need   *)
(* to remember of it.                                                      *)
(*                                                                         *)
(* Sockets, addresses, options and payloads are left out: a buffer is the  *)
(* MDL that describes it, a result is a status and IoStatus.Information.   *)
(***************************************************************************)
EXTENDS Naturals

CONSTANTS Calls,      \* threads that call a function of wskclient
          Closers,    \* those of them that close the socket the others use
          Length      \* BufLen, the length of a caller's buffer

ASSUME ClosersAssumption == Closers \subseteq Calls
ASSUME LengthAssumption == Length \in Nat \ {0}    \* ASSERT(BufLen > 0)

VARIABLES registered,   \* Registration is registered and ProviderNpi captured
          call,         \* the call each thread is in
          asserted      \* an ASSERT has failed

vars == <<registered, call, asserted>>

(***************************************************************************)
(* kind: plain    a ...Sync function that reports IoStatus.Status          *)
(*       close    WskCloseSocketSync                                       *)
(*       output   one that also reports IoStatus.Information, whatever the *)
(*                status                                                   *)
(*       send     the same, and it asserts the expected number of bytes    *)
(*       acceptSync, receive   the functions with a timeout                *)
(*       connectEx, disconnect, accept, io     the ...Async functions      *)
(***************************************************************************)
AsyncKinds == {"connectEx", "disconnect", "accept", "io"}
Kinds == {"plain", "close", "output", "send", "acceptSync", "receive"} \cup AsyncKinds

\* The Await functions and WskReceive(Ex)Sync replace STATUS_CANCELLED.
ConvertsCancelled == AsyncKinds \cup {"receive"}

\* The functions that report no Information.
NoOutput == {"plain", "close", "connectEx", "disconnect"}

\* The functions that report Information only for a successful status.
ReportsOnSuccess == {"acceptSync", "receive", "accept", "io"}

Idle ==
    [pc |-> "idle", kind |-> "plain", timed |-> FALSE, expected |-> FALSE,
     irp |-> "none", owner |-> "client", mdl |-> "none",
     pending |-> FALSE, status |-> "none", info |-> 0, event |-> FALSE,
     cancel |-> FALSE, cancelledBy |-> "nobody", expired |-> FALSE,
     result |-> "none", out |-> 0]

Init ==
    /\ registered = FALSE
    /\ call = [c \in Calls |-> Idle]
    /\ asserted = FALSE

-----------------------------------------------------------------------------
(* Registration with the provider.                                         *)

\* A failed WskCaptureProviderNPI undoes WskRegister.
WskClientReg ==
    /\ ~registered
    /\ registered' \in BOOLEAN
    /\ UNCHANGED <<call, asserted>>

\* WskDeregister waits for the calls and sockets of the client.
WskClientDereg ==
    /\ registered
    /\ \A c \in Calls : call[c].pc = "idle"
    /\ registered' = FALSE
    /\ UNCHANGED <<call, asserted>>

-----------------------------------------------------------------------------
(* Buffers.                                                                *)

\* What the MDL of a buffer may be.  A failed allocation or MmProbeAndLockPages
\* leaves an empty WSK_BUF, and the function returns STATUS_SUCCESS all the same.
InitializeWskBuf(buf) ==
    CASE buf = "none"     -> {"none"}
      [] buf = "nonpaged" -> {"none", "built"}
      [] buf = "paged"    -> {"none", "locked"}

\* The MDL after the release: unlocked if it was locked, and freed.
UninitializeWskBuf(mdl) == "none"

-----------------------------------------------------------------------------
(* The provider is called.                                                 *)

NoBuffer == {"none"}
Buffer == {"nonpaged", "paged"}
MaybeBuffer == NoBuffer \cup Buffer
NoTimeout == {FALSE}

\* The IRP could not be allocated: what was set up is released again.
Refused(c, kind) ==
    call' = [call EXCEPT ![c] = [Idle EXCEPT !.pc = "done", !.kind = kind,
                                             !.result = "error"]]

Sent(c, kind, timed, expected, mdl) ==
    call' = [call EXCEPT ![c] =
                [Idle EXCEPT !.pc = "called", !.kind = kind, !.timed = timed,
                             !.expected = expected, !.mdl = mdl,
                             !.irp = "allocated", !.owner = "provider"]]

Begin(c, kind, timeouts, expectations, buffers) ==
    /\ registered
    /\ call[c].pc = "idle"
    /\ \/ Refused(c, kind)
       \/ \E timed \in timeouts, expected \in expectations, buf \in buffers :
             \E mdl \in InitializeWskBuf(buf) :
                 Sent(c, kind, timed, expected, mdl)
    /\ UNCHANGED <<registered, asserted>>

Unexpected == {FALSE}    \* WSKCLIENT_UNKNOWN_BYTES, or no such parameter

WskSocketSync(c)        == Begin(c, "output", NoTimeout, Unexpected, NoBuffer)
WskSocketConnectSync(c) == Begin(c, "output", NoTimeout, Unexpected, NoBuffer)
WskBindSync(c)          == Begin(c, "plain", NoTimeout, Unexpected, NoBuffer)
WskListenSync(c)        == Begin(c, "plain", NoTimeout, Unexpected, NoBuffer)
WskConnectSync(c)       == Begin(c, "plain", NoTimeout, Unexpected, NoBuffer)
WskConnectExSync(c)     == Begin(c, "plain", NoTimeout, Unexpected, MaybeBuffer)
WskConnectExAsync(c)    == Begin(c, "connectEx", NoTimeout, Unexpected, MaybeBuffer)
WskAcceptSync(c)        == Begin(c, "acceptSync", BOOLEAN, Unexpected, NoBuffer)
WskAcceptAsync(c)       == Begin(c, "accept", NoTimeout, Unexpected, NoBuffer)
WskCloseSocketSync(c)   == Begin(c, "close", NoTimeout, Unexpected, NoBuffer)
WskDisconnectSync(c)    == Begin(c, "plain", NoTimeout, Unexpected, MaybeBuffer)
WskAbortSync(c)         == Begin(c, "plain", NoTimeout, Unexpected, NoBuffer)
WskDisconnectAsync(c)   == Begin(c, "disconnect", NoTimeout, Unexpected, MaybeBuffer)
WskSendSync(c)          == Begin(c, "send", NoTimeout, BOOLEAN, Buffer)
WskSendExSync(c)        == Begin(c, "send", NoTimeout, BOOLEAN, Buffer)
WskSendAsync(c)         == Begin(c, "io", NoTimeout, Unexpected, Buffer)
WskReceiveSync(c)       == Begin(c, "receive", BOOLEAN, BOOLEAN, Buffer)
WskReceiveExSync(c)     == Begin(c, "receive", BOOLEAN, BOOLEAN, Buffer)
WskReceiveAsync(c)      == Begin(c, "io", NoTimeout, Unexpected, Buffer)
WskSendToSync(c)        == Begin(c, "send", NoTimeout, BOOLEAN, Buffer)
\* Control data longer than ControlData is refused as well.
WskSendToAsync(c)       == Begin(c, "io", NoTimeout, Unexpected, Buffer)
WskControlSocketSync(c) == Begin(c, "output", NoTimeout, Unexpected, NoBuffer)
WskGetLocalAddrSync(c)  == Begin(c, "plain", NoTimeout, Unexpected, NoBuffer)
WskGetRemoteAddrSync(c) == Begin(c, "plain", NoTimeout, Unexpected, NoBuffer)
\* The Information of WskControlSocketSync is not asked for.
WskEnableCallbacks(c)   == Begin(c, "plain", NoTimeout, Unexpected, NoBuffer)

-----------------------------------------------------------------------------
(* The provider (external).                                                *)

MarkPending(c) ==
    /\ call[c].owner = "provider"
    /\ call[c].pc = "called"
    /\ ~call[c].pending
    /\ call' = [call EXCEPT ![c].pending = TRUE]
    /\ UNCHANGED <<registered, asserted>>

\* A request ends cancelled because its IRP was cancelled, or because its socket
\* is being closed.
Cancellers(c) ==
    {by \in {"client", "close"} :
        /\ by = "client" => call[c].cancel
        /\ by = "close" =>
              \E d \in Calls \ {c} : call[d].kind = "close" /\ call[d].owner = "provider"}

\* What a successful request leaves in Information: a send transfers all of its
\* buffer, a receive at most that, and an empty WSK_BUF nothing; a socket or an
\* option counts as one.
Transferred(c) ==
    LET room == IF call[c].mdl = "none" THEN 0 ELSE Length
    IN CASE call[c].kind = "send" -> {room}
         [] call[c].kind \in {"receive", "io"} -> 0 .. room
         [] OTHER -> {1}

Outcomes(c) ==
    [status : {"error"}, info : {0}, cancelledBy : {"nobody"}]
        \cup [status : {"success"}, info : Transferred(c), cancelledBy : {"nobody"}]
        \cup [status : {"cancelled"}, info : {0}, cancelledBy : Cancellers(c)]

GenericCompletionRoutine_NotOnCancel(c, event) ==
    event \/ (call[c].pending /\ ~call[c].cancel)

\* The event after the completion routine, which sets it only for an IRP that
\* was pended, and leaves the IRP to its owner.
GenericCompletionRoutine(c, event) == event \/ call[c].pending

Complete(c) ==
    /\ call[c].owner = "provider"
    /\ \E o \in Outcomes(c) :
          call' = [call EXCEPT ![c].owner = "client", ![c].status = o.status,
                               ![c].info = o.info,
                               ![c].cancelledBy = o.cancelledBy,
                               ![c].event = GenericCompletionRoutine(c, @)]
    /\ UNCHANGED <<registered, asserted>>

-----------------------------------------------------------------------------
(* A call ends.                                                            *)

Result_Timer(r) ==
    IF r.expired /\ r.kind \in ConvertsCancelled THEN "timeout" ELSE r.status

\* The status of the IRP, whether the wait had timed out or not.
Result(r) ==
    IF r.status = "cancelled" /\ r.kind \in ConvertsCancelled
    THEN "timeout" ELSE r.status

\* *BytesSent, *BytesReceived, *Sock, *AcceptSock, *OutputSizeReturned.
Output(r) ==
    IF r.kind \in NoOutput \/ (r.kind \in ReportsOnSuccess /\ r.status # "success")
    THEN 0 ELSE r.info

\* The sends with a Sync compare the bytes for every status, the others only for
\* a success.
AssertFails(r) ==
    /\ r.expected
    /\ r.kind = "send" \/ r.status = "success"
    /\ r.info # Length

\* The function returns with the IRP freed, and the MDL and the completion where
\* it has them; what it reports is all that differs from one to the other.
Finish(c, r, result, out) ==
    /\ call' = [call EXCEPT ![c] =
                   [r EXCEPT !.pc = "done", !.irp = "none",
                             !.mdl = UninitializeWskBuf(r.mdl),
                             !.result = result, !.out = out]]
    /\ asserted' = (asserted \/ AssertFails(r))

Report(c, r) == Finish(c, r, Result(r), Output(r))

Goto(c, pc) ==
    /\ call' = [call EXCEPT ![c].pc = pc]
    /\ UNCHANGED asserted

\* The provider returns to a ...Sync function: STATUS_PENDING is waited out.
SyncReturns(c) ==
    IF call[c].pending THEN Goto(c, "wait") ELSE Report(c, call[c])

\* The provider returns to an ...Async function, which keeps the IRP in a
\* completion for any NT_SUCCESS, STATUS_PENDING included.
AsyncReturns(c) ==
    IF call[c].pending \/ call[c].status = "success"
    THEN Goto(c, "held") ELSE Finish(c, call[c], call[c].status, 0)

\* Not pended: the provider returns what it has completed the IRP with.
ProviderReturns(c) ==
    /\ call[c].pc = "called"
    /\ call[c].pending \/ call[c].owner = "client"
    /\ IF call[c].kind \in AsyncKinds THEN AsyncReturns(c) ELSE SyncReturns(c)
    /\ UNCHANGED registered

\* Completion->Status tells whether there is anything to wait for.
Await(c, kind, expectations) ==
    /\ call[c].pc = "held"
    /\ call[c].kind = kind
    /\ \E timed \in BOOLEAN, expected \in expectations :
          LET r == [call[c] EXCEPT !.timed = timed, !.expected = expected]
          IN IF r.pending
             THEN /\ call' = [call EXCEPT ![c] = [r EXCEPT !.pc = "wait"]]
                  /\ UNCHANGED asserted
             ELSE Report(c, r)
    /\ UNCHANGED registered

WskConnectExAwait(c)  == Await(c, "connectEx", Unexpected)
WskAcceptAwait(c)     == Await(c, "accept", Unexpected)
WskDisconnectAwait(c) == Await(c, "disconnect", Unexpected)
WskSendAwait(c)       == Await(c, "io", BOOLEAN)
WskReceiveAwait(c)    == Await(c, "io", BOOLEAN)

\* "If the call was pended, the client can instead call WskConnectExCancel."
Cancel(c, kind) ==
    /\ call[c].pc = "held"
    /\ call[c].kind = kind
    /\ call[c].pending
    /\ call' = [call EXCEPT ![c].pc = "cancel", ![c].cancel = TRUE]
    /\ UNCHANGED <<registered, asserted>>

WskConnectExCancel(c) == Cancel(c, "connectEx")
WskAcceptCancel(c)    == Cancel(c, "accept")

\* KeWaitForSingleObject returns STATUS_SUCCESS.
WaitEnds(c) ==
    /\ call[c].pc \in {"wait", "rewait"}
    /\ call[c].event
    /\ Report(c, call[c])
    /\ UNCHANGED registered

\* The wait of the Cancel functions, which report nothing of what became of the
\* request: a connection that was accepted before IoCancelIrp is dropped.
CancelEnds(c) ==
    /\ call[c].pc = "cancel"
    /\ call[c].event
    /\ Finish(c, call[c], "none", 0)
    /\ UNCHANGED registered

\* KeWaitForSingleObject returns STATUS_TIMEOUT.
WaitTimesOut(c) ==
    /\ call[c].pc = "wait"
    /\ call[c].timed
    /\ ~call[c].event
    /\ call' = [call EXCEPT ![c].pc = "expired", ![c].expired = TRUE]
    /\ UNCHANGED <<registered, asserted>>

WskWaitForIrpCompletion_NoWait(c) ==
    /\ call[c].pc = "expired"
    /\ Finish(c, [call[c] EXCEPT !.cancel = TRUE], "timeout", 0)
    /\ UNCHANGED registered

WskWaitForIrpCompletion_NoCancel(c) ==
    /\ call[c].pc = "expired"
    /\ call' = [call EXCEPT ![c].pc = "rewait"]
    /\ UNCHANGED <<registered, asserted>>

\* The timeout has passed: the IRP, which may have completed in between, is
\* cancelled, and the wait is repeated without a timeout.
WskWaitForIrpCompletion(c) ==
    /\ call[c].pc = "expired"
    /\ call' = [call EXCEPT ![c].pc = "rewait", ![c].cancel = TRUE]
    /\ UNCHANGED <<registered, asserted>>

\* The caller has its result and may call again (external).
CallerProceeds(c) ==
    /\ call[c].pc = "done"
    /\ call' = [call EXCEPT ![c] = Idle]
    /\ UNCHANGED <<registered, asserted>>

-----------------------------------------------------------------------------
Functions(c) ==
    \/ WskSocketSync(c) \/ WskSocketConnectSync(c)
    \/ WskBindSync(c) \/ WskListenSync(c) \/ WskConnectSync(c)
    \/ WskConnectExSync(c) \/ WskConnectExAsync(c)
    \/ WskAcceptSync(c) \/ WskAcceptAsync(c)
    \/ WskDisconnectSync(c) \/ WskAbortSync(c) \/ WskDisconnectAsync(c)
    \/ WskSendSync(c) \/ WskSendExSync(c) \/ WskSendAsync(c)
    \/ WskReceiveSync(c) \/ WskReceiveExSync(c) \/ WskReceiveAsync(c)
    \/ WskSendToSync(c) \/ WskSendToAsync(c)
    \/ WskControlSocketSync(c) \/ WskEnableCallbacks(c)
    \/ WskGetLocalAddrSync(c) \/ WskGetRemoteAddrSync(c)

Awaits(c) ==
    \/ WskConnectExAwait(c) \/ WskAcceptAwait(c) \/ WskDisconnectAwait(c)
    \/ WskSendAwait(c) \/ WskReceiveAwait(c)

Next ==
    \/ /\ ~asserted
       /\ \/ WskClientReg \/ WskClientDereg
          \/ \E c \in Closers : WskCloseSocketSync(c)
          \/ \E c \in Calls \ Closers : Functions(c)
          \/ \E c \in Calls :
                \/ Awaits(c)
                \/ WskConnectExCancel(c) \/ WskAcceptCancel(c)
                \/ MarkPending(c) \/ Complete(c) \/ ProviderReturns(c)
                \/ WaitEnds(c) \/ CancelEnds(c)
                \/ WaitTimesOut(c) \/ WskWaitForIrpCompletion(c)
                \/ CallerProceeds(c)
    \/ asserted /\ UNCHANGED vars     \* the system has stopped

Spec == Init /\ [][Next]_vars

\* A thread inside a function goes on, a timeout passes, the provider returns
\* from a call and completes what has been cancelled.  Nothing obliges the
\* provider to complete a request, or the caller to await one.
Fairness ==
    \A c \in Calls :
        /\ WF_vars(~asserted /\ ProviderReturns(c))
        /\ WF_vars(~asserted /\ WaitEnds(c))
        /\ WF_vars(~asserted /\ CancelEnds(c))
        /\ WF_vars(~asserted /\ WaitTimesOut(c))
        /\ WF_vars(~asserted /\ WskWaitForIrpCompletion(c))
        /\ WF_vars(~asserted /\ call[c].cancel /\ Complete(c))

FairSpec == Spec /\ Fairness

-----------------------------------------------------------------------------
(* Properties.                                                             *)

Statuses == {"none", "success", "error", "cancelled"}

\* The type of the state.
TypeOK ==
    /\ registered \in BOOLEAN
    /\ asserted \in BOOLEAN
    /\ call \in [Calls ->
          [pc : {"idle", "called", "held", "wait", "expired", "rewait", "cancel", "done"},
           kind : Kinds, timed : BOOLEAN, expected : BOOLEAN,
           irp : {"none", "allocated"}, owner : {"client", "provider"},
           mdl : {"none", "built", "locked"}, pending : BOOLEAN,
           status : Statuses, info : 0 .. Length + 1, event : BOOLEAN,
           cancel : BOOLEAN, cancelledBy : {"nobody", "client", "close"}, expired : BOOLEAN,
           result : Statuses \cup {"timeout"}, out : 0 .. Length + 1]]

\* While the provider has an IRP, the IRP is allocated, and the function that
\* sent it has not ended: the event, the WSK_BUF and the MDL the provider uses
\* are on its stack or in its completion.  The wait after IoCancelIrp is what
\* keeps them there at a timeout.
ProviderUsesLiveMemory ==
    \A c \in Calls :
        call[c].owner = "provider" =>
            /\ call[c].irp = "allocated"
            /\ call[c].pc \in {"called", "held", "wait", "expired", "rewait", "cancel"}

\* What a call reports is what became of the request: a success exactly when the
\* provider succeeded, also when the success raced the timeout and the cancel,
\* with the socket or the bytes the provider handed over.  A timeout is reported
\* only by a call whose own wait timed out and cancelled the IRP, as the comments
\* at wskclient.c:527, 683, 932, 1198, 1297, 1383 and 1504 say, or, as they do not
\* say, by one whose socket was closed under it; WskConnectExCancel and
\* WskAcceptCancel report nothing.
ResultIsOutcome ==
    \A c \in Calls :
        call[c].pc = "done" /\ call[c].result # "none" =>
            /\ call[c].result = "success" <=> call[c].status = "success"
            /\ call[c].result = "success" =>
                  call[c].kind \in NoOutput \/ call[c].out = call[c].info
            /\ call[c].result = "timeout" =>
                  /\ call[c].status = "cancelled" /\ call[c].out = 0
                  /\ call[c].expired \/ call[c].cancelledBy = "close"

\* A wait with a timeout, and a wait after a cancel, end, whatever the provider
\* does with a request that nobody cancels.
TimedCallsReturn ==
    \A c \in Calls :
        (call[c].pc = "wait" /\ call[c].timed) \/ call[c].pc \in {"rewait", "cancel"}
            ~> call[c].pc = "done" \/ asserted

\* A completed request wakes its waiter, in whichever order the provider
\* completes the IRP and returns STATUS_PENDING: the event is set for every IRP
\* somebody waits for.
CompletedCallsReturn ==
    \A c \in Calls :
        call[c].pc \in {"wait", "rewait", "cancel"} /\ call[c].owner = "client"
            ~> call[c].pc = "done" \/ asserted

=============================================================================

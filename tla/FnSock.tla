------------------------------- MODULE FnSock --------------------------------
(***************************************************************************)
(* fnsock in kernel mode: a Winsock-like API over WSK.                     *)
(*                                                                         *)
(* What WSK does not do by itself is here: sends are fired and forgotten,  *)
(* their contexts collected until the socket is closed; data and           *)
(* connections that WSK indicates are queued under a lock, and a receive   *)
(* or an accept takes them from the queue or waits for an event.           *)
(*                                                                         *)
(* binding is the FNSOCK_SOCKET_BINDING; wsk is what the provider has of   *)
(* the socket (external).  The synchronous functions of wskclient return   *)
(* with a success or a failure, which module WskClient shows; here that is *)
(* a choice.  A datum is its number on its socket.  A lock section is one  *)
(* action.  A caller does not close a socket it is using in another        *)
(* thread; the callbacks of WSK run at any time until the socket is        *)
(* closed.                                                                 *)
(*                                                                         *)
(* WskCloseSocketSync may return without having called WSK.  FnSockClose   *)
(* frees the binding all the same, and the provider keeps an abandoned     *)
(* socket: a callback on it runs in freed memory.  That is a fault, and    *)
(* the model ends there; so it does where a socket that is NULL is used.   *)
(***************************************************************************)
EXTENDS Naturals, Sequences, FiniteSets

CONSTANTS Sockets,     \* allocations of a FNSOCK_SOCKET_BINDING by FnSockCreate
          Connections, \* and by FnSockStreamSocketAccept
          Threads,     \* threads that receive, accept and close
          NoBinding,   \* the NULL binding
          MaxData,     \* data indicated, on one socket at a time
          MaxSends     \* sends, on one socket at a time

Bindings == Sockets \cup Connections

ASSUME BoundsAssumption == {MaxData, MaxSends} \subseteq Nat
ASSUME NoBindingAssumption == NoBinding \notin Bindings

VARIABLES binding,     \* the bindings
          wsk,         \* the provider's sockets
          work,        \* the call each thread is in
          lastError    \* FnSockSocketLastError

vars == <<binding, wsk, work, lastError>>

Free ==
    [state |-> "free", type |-> "none", isBound |-> FALSE, timed |-> FALSE,
     sends |-> <<>>, recv |-> <<>>, recvEvent |-> FALSE,
     accept |-> <<>>, acceptEvent |-> FALSE, got |-> 0]

NoSocket ==
    [state |-> "none", callbacks |-> {}, sent |-> 0, sending |-> {},
     indicated |-> 0, accepting |-> NoBinding, life |-> "kept"]

Rest == [pc |-> "idle", b |-> NoBinding, timer |-> "none"]

Init ==
    /\ binding = [b \in Bindings |-> Free]
    /\ wsk = [b \in Bindings |-> NoSocket]
    /\ work = [t \in Threads |-> Rest]
    /\ lastError = "success"

\* Neither a callback in a freed binding nor the use of a NULL socket so far.
Sane == \A b \in Bindings : wsk[b].life # "fault"

\* The system stops, and nothing of the state is left.
Fault ==
    /\ binding' = [b \in Bindings |-> Free]
    /\ wsk' = [b \in Bindings |-> [NoSocket EXCEPT !.life = "fault"]]
    /\ work' = [t \in Threads |-> Rest]
    /\ UNCHANGED lastError

-----------------------------------------------------------------------------
(* The last error.                                                         *)

\* Which failure it was is left out.
NtStatusToSocketError(status) == IF status = "success" THEN "NO_ERROR" ELSE "error"

FnSockGetLastError == NtStatusToSocketError(lastError)

Fails ==
    /\ lastError' = "failure"
    /\ UNCHANGED <<binding, wsk, work>>

-----------------------------------------------------------------------------
(* Creation, binding, connection.                                          *)

InitializeBinding(state, type) ==
    [Free EXCEPT !.state = state, !.type = type]

\* (An unknown type returns without freeing the binding or setting the error,
\* neither of which shows here.)
FnSockCreate(b, type) ==
    /\ binding[b].state = "free"
    /\ wsk[b].state = "none"
    /\ binding' = [binding EXCEPT ![b] = InitializeBinding("open", type)]
    /\ wsk' = [wsk EXCEPT ![b] = [NoSocket EXCEPT !.state = "created"]]
    /\ UNCHANGED <<work, lastError>>

FnSockCreateFails == Fails

\* How a binding and its socket may be after FnSockBind: refused by the provider,
\* which binds a socket once, bound but deaf because WskEnableCallbacks failed, or
\* bound.
BindOutcomes(r, w) ==
    LET refused == [ok |-> FALSE, r |-> r, w |-> w]
        deaf    == [ok |-> FALSE, r |-> r, w |-> [w EXCEPT !.state = "bound"]]
        bound   == [ok |-> TRUE, r |-> [r EXCEPT !.isBound = TRUE],
                    w |-> [w EXCEPT !.state = "bound",
                               !.callbacks = IF r.type = "datagram"
                                             THEN {"receiveFrom"} ELSE {}]]
    IN CASE w.state # "created"  -> {refused}
         [] r.type = "datagram"  -> {refused, deaf, bound}
         [] OTHER                -> {refused, bound}

Take(b, o) ==
    /\ binding' = [binding EXCEPT ![b] = o.r]
    /\ wsk' = [wsk EXCEPT ![b] = o.w]
    /\ lastError' = IF o.ok THEN lastError ELSE "failure"
    /\ UNCHANGED <<work>>

FnSockBind(b) ==
    /\ binding[b].state = "open"
    /\ \E o \in BindOutcomes(binding[b], wsk[b]) : Take(b, o)

\* The same for WskConnectSync and the callbacks of a stream that has connected.
ConnectOutcomes(o) ==
    LET refused   == [o EXCEPT !.ok = FALSE]
        deaf      == [o EXCEPT !.ok = FALSE, !.w.state = "connected"]
        connected == [o EXCEPT !.w.state = "connected", !.w.callbacks = {"receive"}]
    IN IF o.w.state = "bound" /\ o.r.type # "datagram" THEN {refused, deaf, connected} ELSE {refused}

\* A socket that is not bound is bound first.  WskConnectSync is not for datagram
\* sockets: it asserts in a checked build and fails in a free one.
FnSockConnect(b) ==
    /\ binding[b].state = "open"
    /\ \E o \in IF binding[b].isBound
                THEN {[ok |-> TRUE, r |-> binding[b], w |-> wsk[b]]}
                ELSE BindOutcomes(binding[b], wsk[b]) :
          \E p \in IF o.ok THEN ConnectOutcomes(o) ELSE {o} : Take(b, p)

\* WskListenSync is for stream sockets.
FnSockListen(b) ==
    /\ binding[b].state = "open"
    /\ binding[b].type = "stream"
    /\ \/ Fails
       \/ /\ wsk[b].state = "bound"
          /\ \E ok \in BOOLEAN :
                Take(b, [ok |-> ok, r |-> binding[b],
                         w |-> [wsk[b] EXCEPT !.state = "listening",
                                    !.callbacks = IF ok THEN {"accept"} ELSE {}]])

-----------------------------------------------------------------------------
(* Options.  A success changes nothing but what the provider keeps.        *)

\* SO_RCVTIMEO is kept in the binding; MAXUINT32 is no timeout.
FnSockSetSockOpt(b) ==
    /\ binding[b].state = "open"
    /\ \/ Fails
       \/ /\ binding' = [binding EXCEPT ![b].timed = TRUE]
          /\ UNCHANGED <<wsk, work, lastError>>

FnSockGetSockOpt(b) ==
    /\ binding[b].state = "open"
    /\ Fails

FnSockGetSockName(b) == binding[b].state = "open" /\ Fails

FnSockIoctl(b) == binding[b].state = "open" /\ Fails

-----------------------------------------------------------------------------
(* Sends.                                                                  *)

\* The provider takes the send; its context joins the list of the socket.
SendTaken(b) ==
    LET n == wsk[b].sent + 1
    IN /\ n <= MaxSends
       /\ \A c \in Bindings \ {b} : wsk[c].sent = 0
       /\ binding' = [binding EXCEPT ![b].sends = Append(@, n)]
       /\ wsk' = [wsk EXCEPT ![b].sent = n, ![b].sending = @ \cup {n}]
       /\ UNCHANGED <<work, lastError>>

\* WskSendAsync is for stream sockets and connections; it too asserts or fails.
FnSockSend(b) ==
    /\ binding[b].state = "open"
    /\ \/ Fails
       \/ wsk[b].state = "connected" /\ SendTaken(b)

\* FnSockSendto too.  For datagram sockets.
FnSockSendMsg(b) ==
    /\ binding[b].state = "open"
    /\ binding[b].type = "datagram"
    /\ \/ Fails
       \/ wsk[b].state = "bound" /\ SendTaken(b)

\* The provider completes a send (external).
SendCompletes(b) ==
    /\ \E n \in wsk[b].sending : wsk' = [wsk EXCEPT ![b].sending = @ \ {n}]
    /\ UNCHANGED <<binding, work, lastError>>

-----------------------------------------------------------------------------
(* Data.                                                                   *)

QueueRecvData_Head(b, n) ==
    [binding EXCEPT ![b].recv = <<n>> \o @, ![b].recvEvent = TRUE]

\* The datum is copied, queued and signalled.
QueueRecvData(b, n) ==
    [binding EXCEPT ![b].recv = Append(@, n), ![b].recvEvent = TRUE]

\* An indication of WSK.  A datum that is empty or cannot be mapped or copied is
\* dropped; the provider is told that it was taken in either case.
Indicated(b, callback) ==
    /\ callback \in wsk[b].callbacks
    /\ wsk[b].life = "kept"
    /\ \A l \in Bindings : wsk[l].accepting # b
    /\ wsk[b].indicated < MaxData
    /\ \A c \in Bindings \ {b} : wsk[c].indicated = 0
    /\ wsk' = [wsk EXCEPT ![b].indicated = @ + 1]
    /\ \/ binding' = QueueRecvData(b, wsk[b].indicated + 1)
       \/ UNCHANGED binding
    /\ UNCHANGED <<work, lastError>>

FnSockDatagramSocketReceive(b) == Indicated(b, "receiveFrom")

FnSockStreamSocketReceive(b) == Indicated(b, "receive")

Returns(t) == work' = [work EXCEPT ![t] = Rest]

RemoveRecvData(b) ==
    [binding EXCEPT ![b].recv = Tail(@), ![b].got = Head(binding[b].recv)]

\* The first datum leaves the queue; one that is longer than the caller's buffer
\* is cut off and reported as a failure.
ReceiveFirst(t, b) ==
    /\ binding' = RemoveRecvData(b)
    /\ lastError' \in {lastError, "failure"}
    /\ Returns(t)

\* KeWaitForSingleObject is called, with the timeout the socket has by then.
Wait(t, pc, b) ==
    /\ work' = [work EXCEPT ![t] = [pc |-> pc, b |-> b,
                                    timer |-> IF binding[b].timed THEN "set" ELSE "none"]]
    /\ UNCHANGED <<binding, lastError>>

\* FnSockRecv too.  Nobody receives on a listener.
FnSockRecvMsg(t, b) ==
    /\ work[t].pc = "idle"
    /\ binding[b].state = "open"
    /\ wsk[b].state # "listening"
    /\ IF binding[b].recv # <<>>
       THEN ReceiveFirst(t, b)
       ELSE Wait(t, "receiving", b)
    /\ UNCHANGED <<wsk>>

\* KeWaitForSingleObject returns: the event is set, and nothing ever resets it, or
\* the timeout has passed, which is a success status as well.
Wakes(t, event, next) ==
    /\ \/ event /\ work' = [work EXCEPT ![t].pc = next]
       \/ /\ ~event
          /\ work[t].timer = "set"
          /\ work' = [work EXCEPT ![t].pc = next, ![t].timer = "expired"]
    /\ UNCHANGED <<binding, wsk, lastError>>

RecvWakes(t) ==
    /\ work[t].pc = "receiving"
    /\ Wakes(t, binding[work[t].b].recvEvent, "received")

\* The queue is looked at once more.
RecvRetry(t) ==
    LET b == work[t].b
    IN /\ work[t].pc = "received"
       /\ IF binding[b].recv # <<>>
          THEN ReceiveFirst(t, b)
          ELSE /\ Returns(t)
               /\ lastError' = "failure"
               /\ UNCHANGED binding
       /\ UNCHANGED <<wsk>>

-----------------------------------------------------------------------------
(* Connections.                                                            *)

\* WSK indicates a connection: a binding for it is allocated, queued and
\* signalled.  Without memory the connection is refused, which changes nothing.
\* That WSK may indicate no socket, when the listener is of no more use, is
\* asserted not to happen; a build without assertions queues a binding for the
\* NULL socket.
FnSockStreamSocketAccept(l, n, isNull) ==
    /\ "accept" \in wsk[l].callbacks
    /\ wsk[l].life = "kept"
    /\ wsk[l].accepting = NoBinding
    /\ binding[n].state = "free"
    /\ wsk[n].state = "none"
    /\ binding' = [binding EXCEPT
                      ![n] = [InitializeBinding("queued", "connection") EXCEPT !.isBound = TRUE],
                      ![l].accept = Append(@, n), ![l].acceptEvent = TRUE]
    /\ wsk' = [wsk EXCEPT ![n] = [NoSocket EXCEPT !.state = "connected",
                                      !.life = IF isNull THEN "null" ELSE "kept"],
                          ![l].accepting = n]
    /\ UNCHANGED <<work, lastError>>

\* The assertion fails.
AcceptsNull(l) ==
    /\ "accept" \in wsk[l].callbacks
    /\ wsk[l].life = "kept"
    /\ wsk[l].accepting = NoBinding
    /\ Fault

\* A callback on a socket that was abandoned.
StrayCallback(b) ==
    /\ wsk[b].life = "abandoned"
    /\ wsk[b].callbacks # {}
    /\ Fault

\* The callback returns the new binding as the context of the new socket, which
\* another thread may have accepted already.
AcceptEventReturns(l) ==
    /\ wsk[l].accepting # NoBinding
    /\ wsk' = [wsk EXCEPT ![l].accepting = NoBinding]
    /\ UNCHANGED <<binding, work, lastError>>

AcceptFirst_Peek(t, l) ==
    LET n == Head(binding[l].accept)
    IN /\ binding' = [binding EXCEPT ![n].state = "held"]
       /\ work' = [work EXCEPT ![t] = [Rest EXCEPT !.pc = "enabling", !.b = n]]

AcceptFirst(t, l) ==
    LET n == Head(binding[l].accept)
    IN /\ binding' = [binding EXCEPT ![l].accept = Tail(@), ![n].state = "held"]
       /\ work' = [work EXCEPT ![t] = [Rest EXCEPT !.pc = "enabling", !.b = n]]

\* Nobody accepts on a socket that is not a stream.
FnSockAccept(t, l) ==
    /\ work[t].pc = "idle"
    /\ binding[l].state = "open"
    /\ binding[l].type = "stream"
    /\ IF binding[l].accept # <<>>
       THEN AcceptFirst(t, l) /\ UNCHANGED lastError
       ELSE Wait(t, "accepting", l)
    /\ UNCHANGED <<wsk>>

AcceptWakes(t) ==
    /\ work[t].pc = "accepting"
    /\ Wakes(t, binding[work[t].b].acceptEvent, "accepted")

AcceptRetry(t) ==
    LET l == work[t].b
    IN /\ work[t].pc = "accepted"
       /\ IF binding[l].accept # <<>>
          THEN AcceptFirst(t, l) /\ UNCHANGED lastError
          ELSE /\ Returns(t)
               /\ lastError' = "failure"
               /\ UNCHANGED binding
       /\ UNCHANGED <<wsk>>

\* WskEnableCallbacks on the accepted socket; when it fails the socket is closed
\* again.
EnableReceive(t) ==
    LET n == work[t].b
    IN /\ work[t].pc = "enabling"
       /\ wsk[n].life = "kept"
       /\ \/ /\ wsk' = [wsk EXCEPT ![n].callbacks = {"receive"}]
             /\ binding' = [binding EXCEPT ![n].state = "open"]
             /\ Returns(t)
             /\ UNCHANGED lastError
          \/ /\ lastError' = "failure"
             /\ binding' = [binding EXCEPT ![n].state = "closing"]
             /\ work' = [work EXCEPT ![t].pc = "closing"]
             /\ UNCHANGED wsk

EnableNull(t) ==
    /\ work[t].pc = "enabling"
    /\ wsk[work[t].b].life = "null"
    /\ Fault

-----------------------------------------------------------------------------
(* Close.                                                                  *)

FnSockClose(t, b) ==
    /\ work[t].pc = "idle"
    /\ binding[b].state = "open"
    /\ \A u \in Threads : work[u].b # b
    /\ binding' = [binding EXCEPT ![b].state = "closing"]
    /\ work' = [work EXCEPT ![t] = [Rest EXCEPT !.pc = "closing", !.b = b]]
    /\ UNCHANGED <<wsk, lastError>>

CloseSend_Peek(t) ==
    LET b == work[t].b
    IN /\ work[t].pc = "closing"
       /\ binding[b].sends # <<>>
       /\ Head(binding[b].sends) \notin wsk[b].sending
       /\ UNCHANGED vars

\* WskSendToAwait of the oldest send.
CloseSend(t) ==
    LET b == work[t].b
    IN /\ work[t].pc = "closing"
       /\ binding[b].sends # <<>>
       /\ Head(binding[b].sends) \notin wsk[b].sending
       /\ binding' = [binding EXCEPT ![b].sends = Tail(@)]
       /\ UNCHANGED <<wsk, work, lastError>>

\* The provider closes a socket when no callback on it, or handing it over, runs.
NoCallback(b) ==
    /\ wsk[b].accepting = NoBinding
    /\ \A l \in Bindings : wsk[l].accepting # b

SendsAwaited_Not(b) == TRUE

SendsAwaited(b) == binding[b].sends = <<>>

\* WskCloseSocketSync ends the callbacks.
CloseSocket(t) ==
    LET b == work[t].b
    IN /\ work[t].pc = "closing"
       /\ SendsAwaited(b)
       /\ NoCallback(b)
       /\ wsk' = [wsk EXCEPT ![b] = [NoSocket EXCEPT !.state = "closed",
                                                     !.sending = wsk[b].sending]]
       /\ work' = [work EXCEPT ![t].pc = "flushing"]
       /\ UNCHANGED <<binding, lastError>>

\* Without memory for an IRP it does not reach WSK.  FnSockClose traces that and
\* goes on: it neither waits for the callbacks nor ends them.
CloseSocketFails(t) ==
    LET b == work[t].b
    IN /\ work[t].pc = "closing"
       /\ SendsAwaited(b)
       /\ wsk' = [wsk EXCEPT ![b].life = "abandoned"]
       /\ work' = [work EXCEPT ![t].pc = "flushing"]
       /\ UNCHANGED <<binding, lastError>>

CloseAccepted_NoSocket(t) ==
    LET b == work[t].b
        n == Head(binding[b].accept)
    IN /\ work[t].pc = "flushing"
       /\ binding[b].accept # <<>>
       /\ binding' = [binding EXCEPT ![b].accept = Tail(@), ![n] = Free]
       /\ UNCHANGED <<wsk, work, lastError>>

\* A connection nobody has accepted is closed and its binding freed.
CloseAccepted(t) ==
    LET b == work[t].b
        n == Head(binding[b].accept)
    IN /\ work[t].pc = "flushing"
       /\ binding[b].accept # <<>>
       /\ wsk[n].life = "kept"
       /\ NoCallback(n)
       /\ binding' = [binding EXCEPT ![b].accept = Tail(@), ![n] = Free]
       /\ wsk' = [wsk EXCEPT ![n] = NoSocket]
       /\ UNCHANGED <<work, lastError>>

\* The same failure: the binding is freed and the socket abandoned.
CloseAcceptedFails(t) ==
    LET b == work[t].b
        n == Head(binding[b].accept)
    IN /\ work[t].pc = "flushing"
       /\ binding[b].accept # <<>>
       /\ wsk[n].life = "kept"
       /\ binding' = [binding EXCEPT ![b].accept = Tail(@), ![n] = Free]
       /\ wsk' = [wsk EXCEPT ![n].life = "abandoned"]
       /\ UNCHANGED <<work, lastError>>

CloseNull(t) ==
    LET b == work[t].b
    IN /\ work[t].pc = "flushing"
       /\ binding[b].accept # <<>>
       /\ wsk[Head(binding[b].accept)].life = "null"
       /\ Fault

\* The data left are freed, and the binding.
CloseEnds(t) ==
    LET b == work[t].b
    IN /\ work[t].pc = "flushing"
       /\ binding[b].accept = <<>>
       /\ binding' = [binding EXCEPT ![b] = Free]
       /\ wsk' = [wsk EXCEPT ![b] = IF wsk[b].life = "abandoned" THEN @ ELSE NoSocket]
       /\ Returns(t)
       /\ UNCHANGED <<lastError>>

-----------------------------------------------------------------------------
CallsOf(b) ==
    \/ FnSockBind(b) \/ FnSockConnect(b) \/ FnSockListen(b)
    \/ FnSockSetSockOpt(b) \/ FnSockGetSockOpt(b) \/ FnSockGetSockName(b) \/ FnSockIoctl(b)
    \/ FnSockSend(b) \/ FnSockSendMsg(b)

Provider(b) ==
    \/ SendCompletes(b) \/ AcceptEventReturns(b)
    \/ FnSockDatagramSocketReceive(b) \/ FnSockStreamSocketReceive(b)
    \/ \E n \in Connections, isNull \in BOOLEAN : FnSockStreamSocketAccept(b, n, isNull)
    \/ AcceptsNull(b) \/ StrayCallback(b)

Waits(t) == RecvWakes(t) \/ RecvRetry(t) \/ AcceptWakes(t) \/ AcceptRetry(t)

Enables(t) == EnableReceive(t) \/ EnableNull(t)

Closes(t) == CloseSend(t) \/ CloseSocket(t) \/ CloseAccepted(t) \/ CloseNull(t) \/ CloseEnds(t)

CloseFails(t) == CloseSocketFails(t) \/ CloseAcceptedFails(t)

Step ==
    \/ \E b \in Sockets, type \in {"datagram", "stream"} : FnSockCreate(b, type)
    \/ FnSockCreateFails
    \/ \E b \in Bindings : CallsOf(b) \/ Provider(b)
    \/ \E t \in Threads, b \in Bindings :
          FnSockRecvMsg(t, b) \/ FnSockAccept(t, b) \/ FnSockClose(t, b)
    \/ \E t \in Threads :
          Waits(t) \/ Enables(t) \/ Closes(t) \/ CloseFails(t)

Next ==
    \/ Sane /\ Step
    \/ ~Sane /\ UNCHANGED vars

Spec == Init /\ [][Next]_vars

\* A thread inside a call goes on; the provider completes sends and leaves its
\* callbacks.
Fairness ==
    /\ \A t \in Threads : WF_<<binding, work>>(Waits(t) \/ Enables(t) \/ Closes(t))
    /\ \A b \in Bindings : WF_wsk(SendCompletes(b) \/ AcceptEventReturns(b))

FairSpec == Spec /\ Fairness

-----------------------------------------------------------------------------
(* Properties.                                                             *)

BindingRecords ==
    [state : {"free", "open", "queued", "held", "closing"},
     type : {"none", "datagram", "stream", "connection"},
     isBound : BOOLEAN, timed : BOOLEAN,
     sends : Seq(1 .. MaxSends), recv : Seq(1 .. MaxData), recvEvent : BOOLEAN,
     accept : Seq(Bindings), acceptEvent : BOOLEAN, got : 0 .. MaxData]

SocketRecords ==
    [state : {"none", "created", "bound", "listening", "connected", "closed"},
     callbacks : SUBSET {"receiveFrom", "receive", "accept"},
     sent : 0 .. MaxSends, sending : SUBSET (1 .. MaxSends),
     indicated : 0 .. MaxData, accepting : Bindings \cup {NoBinding},
     life : {"kept", "null", "abandoned", "fault"}]

CallRecords ==
    [pc : {"idle", "receiving", "received", "accepting", "accepted", "enabling",
           "closing", "flushing"},
     b : Bindings \cup {NoBinding}, timer : {"none", "set", "expired"}]

\* The type of the state.
TypeOK ==
    /\ binding \in [Bindings -> BindingRecords]
    /\ wsk \in [Bindings -> SocketRecords]
    /\ work \in [Threads -> CallRecords]
    /\ lastError \in {"success", "failure"}

\* A binding is freed only after its socket, its own or that of a queued
\* connection, is closed, so that no callback runs in freed memory, in every
\* interleaving of closes with accepts that hand a connection over.  The one
\* exception is a socket that WskCloseSocketSync has not closed for want of an
\* IRP, a failure FnSockClose only traces (sock.c:331-340 and 357-366): the
\* provider keeps that one over a binding that is being freed.
ContextsAlive ==
    \A b \in Bindings :
        wsk[b].state \notin {"none", "closed"} /\ wsk[b].life \in {"kept", "null"} =>
            binding[b].state # "free" /\ binding[b].type # "none"

\* A socket is closed only after the sends fired and forgotten on it have ended,
\* so that no send outlives the context its completion is kept in.
SendsAwaitedAtClose ==
    \A b \in Bindings :
        wsk[b].state \in {"none", "closed"} => wsk[b].sending = {}

\* Data are received in the order they were indicated in, and none twice, with any
\* number of receivers on the socket.
InOrder ==
    \A b \in Bindings :
        LET q == <<binding[b].got>> \o binding[b].recv
        IN \A i, j \in 1 .. Len(q) : i < j => q[i] < q[j]

\* Every connection has one owner: a queued one is in the queue of one listener,
\* once, and nothing has been sent or received on it, which FnSockClose relies on
\* when it frees it; one being accepted is with one thread, out of every queue.
ConnectionsOwned ==
    /\ \A n \in Bindings :
          LET places == UNION {{l} \X {i \in DOMAIN binding[l].accept : binding[l].accept[i] = n} :
                                  l \in Bindings}
          IN /\ Cardinality(places) = IF binding[n].state = "queued" THEN 1 ELSE 0
             /\ binding[n].state = "queued" =>
                    binding[n].sends = <<>> /\ binding[n].recv = <<>>
    /\ \A n \in Bindings :
          binding[n].state \in {"held", "closing"} =>
              Cardinality({t \in Threads : work[t].b = n}) = 1

\* A receive or an accept that finds the queue empty and fails has waited for the
\* receive timeout.
ReceiveWaits ==
    [][\A t \in Threads :
           /\ work[t].pc \in {"received", "accepted"}
           /\ work'[t].pc = "idle"
           /\ binding' = binding
           => work[t].timer = "expired"]_vars

\* A call ends: a receive or an accept when there is something in the queue it
\* waits on, and when the socket had a timeout when it began to wait; a close,
\* also that of a connection FnSockAccept could not enable, because the sends it
\* awaits complete and the callbacks it waits for return.  (A fault ends every
\* call.)
CallsEnd ==
    \A t \in Threads :
        (\/ work[t].pc \in {"received", "accepted", "enabling", "closing", "flushing"}
         \/ work[t].pc \in {"receiving", "accepting"} /\ work[t].timer = "set"
         \/ work[t].pc = "receiving" /\ binding[work[t].b].recv # <<>>
         \/ work[t].pc = "accepting" /\ binding[work[t].b].accept # <<>>)
            ~> work[t].pc = "idle"

=============================================================================

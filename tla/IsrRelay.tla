------------------------------ MODULE IsrRelay ------------------------------
(***************************************************************************)
(* The invoke-system relay: the isrdrv driver (requestqueue.c, client.c,   *)
(* service.c, dispatch.c under src/src/isr/sys) and the isrsvc service     *)
(* (src/src/isr/svc/main.cpp).                                             *)
(*                                                                         *)
(* Kernel-mode clients submit commands through the one client session; the *)
(* user-mode service gets them one at a time through the one service       *)
(* session, runs them and posts the result, which completes the client's   *)
(* IRP.  Each action is one atomic piece of the code: a spin-lock section  *)
(* together with the code that only its own thread can see.                *)
(***************************************************************************)
EXTENDS Naturals, Sequences

CONSTANTS
  MaxRequests,  \* bound on the requests submitted to one driver image (UniqueId)
  MaxStops,     \* bound on the stop controls sent by the service manager
  MaxCrashes    \* bound on the terminations of the service process

ASSUME RelayAssumption ==
  /\ MaxRequests \in Nat
  /\ MaxStops \in Nat
  /\ MaxCrashes \in Nat

Ids == 1..MaxRequests
NULL == 0

VARIABLES
  loaded,          \* the driver is loaded (DriverEntry .. DriverUnload)
  \* requestqueue.c
  queue,           \* Queue: the Ids of the requests not yet popped
  clientReg,       \* Client.IsRegistered
  clientRun,       \* Client.Rundown: a wait for release has begun
  clientRef,       \* Client.Rundown: the service thread holds a reference
  serviceReg,      \* Service.IsRegistered
  serviceRun,      \* Service.Rundown: a wait for release has begun
  serviceRefs,     \* Service.Rundown: the submits that hold a reference
  \* client.c
  clientFile,      \* the client session (ClientUserContext and its file object)
  uniqueId,        \* UniqueId
  submit,          \* for each request, where its ClientIrpSubmit has got to
  output,          \* for each request, the result its IRP was completed with
  \* service.c
  pendingIrp,      \* PendingIrp # NULL
  pendingRequest,  \* PendingRequest
  completing,      \* the Request that ServiceIrpPost has taken to complete
  getCancel,       \* Irp->Cancel of the get IRP
  getRoutine,      \* is ServiceCancelGet the cancel routine of the get IRP?
  canceling,       \* IoCancelIrp has called ServiceCancelGet, not yet run
  \* main.cpp
  svc,             \* where the service thread has got to
  svcId,           \* Get.Id, then Post.Id
  dead,            \* the service process has been terminated
  stopping,        \* Stopping
  ctrl,            \* where SvcCtrlHandler has got to
  \* the bounds
  stops, crashes   \* stop controls and terminations so far

clientRq == <<clientReg, clientRun, clientRef>>
serviceRq == <<serviceReg, serviceRun, serviceRefs>>
rqVars == <<queue, clientRq, serviceRq>>
clientVars == <<clientFile, uniqueId, submit, output>>
getVars == <<pendingIrp, getCancel, getRoutine, canceling>>
svcVars == <<svc, svcId, dead, stopping, ctrl>>
faults == <<stops, crashes>>
svcRest == <<dead, stopping, ctrl, faults>>
reqVars == <<pendingRequest, completing>>
vars == <<loaded, rqVars, clientVars, getVars, reqVars, svcVars, faults>>

(* Stages of ClientIrpSubmit for one request:                              *)
(*   push    UniqueId has been incremented, RqClientPushRequest entered    *)
(*   wake    queued; about to call Service.RequestAvailable, holding the   *)
(*           service rundown reference                                     *)
(*   unref   about to release the service rundown reference                *)
(*   mark    about to call IoMarkIrpPending                                *)
(*   pended  STATUS_PENDING returned                                       *)
(*   failed  completed by the dispatch routine with an error               *)
(*   hung    STATUS_PENDING returned for an IRP that had completed before  *)
(*           it was marked pending, and whose caller is never told         *)
SubmitStage == {"none", "push", "wake", "unref", "mark", "pended", "failed", "hung"}

(* Stages of the service thread:                                           *)
(*   check     at the while (!Stopping) test of DoServiceWork              *)
(*   issue     past the test, the get IRP not created yet                  *)
(*   get       get IRP created, ServiceIrpGet not entered                  *)
(*   wait      get IRP pending                                             *)
(*   run       system(Get.Command)                                         *)
(*   post      ServiceIrpPost entered                                      *)
(*   complete  request taken, RqServiceCompleteRequest entered             *)
(*   callback  client rundown reference held, ClientRequestComplete next   *)
(*   release   client IRP completed, rundown reference not yet released    *)
(*   close     the handle is being closed                                  *)
(*   rundown   RqServiceDeregister waits for the rundown references        *)
SvcStage == {"down", "check", "issue", "get", "wait", "run", "post", "complete",
             "callback", "release", "close", "rundown"}

Init ==
  /\ loaded = TRUE
  /\ queue = <<>>
  /\ clientReg = FALSE /\ clientRun = FALSE /\ clientRef = FALSE
  /\ serviceReg = FALSE /\ serviceRun = FALSE /\ serviceRefs = {}
  /\ clientFile = "none"
  /\ uniqueId = 0
  /\ submit = [id \in Ids |-> "none"]
  /\ output = [id \in Ids |-> NULL]
  /\ pendingIrp = FALSE /\ getCancel = FALSE /\ getRoutine = FALSE /\ canceling = FALSE
  /\ pendingRequest = NULL /\ completing = NULL
  /\ svc = "down" /\ svcId = NULL /\ dead = FALSE /\ stopping = FALSE /\ ctrl = "idle"
  /\ stops = 0 /\ crashes = 0

-----------------------------------------------------------------------------
(* The driver is loaded and unloaded.  A fresh image starts from zeroed    *)
(* statics and counts requests anew.  The I/O manager unloads a driver     *)
(* only when no file object of its device is left.                         *)

DriverEntry ==
  /\ ~loaded
  /\ loaded' = TRUE
  /\ queue' = <<>>
  /\ clientReg' = FALSE /\ serviceReg' = FALSE
  /\ uniqueId' = 0
  /\ submit' = [id \in Ids |-> "none"] /\ output' = [id \in Ids |-> NULL]
  /\ pendingIrp' = FALSE
  /\ pendingRequest' = NULL
  /\ UNCHANGED <<clientRun, clientRef, serviceRun, serviceRefs, clientFile, getCancel,
                 getRoutine, canceling, completing, svcVars, faults>>

DriverUnload ==
  /\ loaded
  /\ clientFile = "none" /\ svc = "down"
  /\ loaded' = FALSE
  /\ UNCHANGED <<rqVars, clientVars, getVars, reqVars, svcVars, faults>>

-----------------------------------------------------------------------------
(* The client session.  A create that loses the compare-exchange on        *)
(* ClientUserContext frees its own context and changes nothing else, so    *)
(* only the create that wins is an action.                                 *)

ClientIrpCreate ==
  /\ loaded
  /\ clientFile = "none"
  /\ clientFile' = "open"
  /\ clientRun' = FALSE /\ clientRef' = FALSE
  /\ clientReg' = TRUE
  /\ UNCHANGED <<loaded, queue, serviceRq, uniqueId, submit, output,
                 getVars, reqVars, svcVars, faults>>

(* A submit IRP reaches the driver: UniqueId is incremented.               *)
ClientIrpSubmit ==
  /\ clientFile = "open"
  /\ uniqueId < MaxRequests
  /\ uniqueId' = uniqueId + 1
  /\ submit' = [submit EXCEPT ![uniqueId + 1] = "push"]
  /\ UNCHANGED <<loaded, rqVars, clientFile, output, getVars, reqVars, svcVars, faults>>

(* mutants of WasListEmpty and InsertTail *)
WasListEmpty_Never == FALSE
InsertTail_Head(id) == <<id>> \o queue
WasListEmpty == queue = <<>>
RundownAcquired(reg, run) == reg /\ ~run
InsertTail(id) == Append(queue, id)

(* RqClientPushRequest up to the release of the queue lock. *)
RqClientPushRequest(id) ==
  /\ submit[id] = "push"
  /\ IF RundownAcquired(serviceReg, serviceRun)
     THEN /\ queue' = InsertTail(id)
          /\ serviceRefs' = serviceRefs \cup {id}
          /\ submit' = [submit EXCEPT ![id] = IF WasListEmpty THEN "wake" ELSE "unref"]
     ELSE /\ submit' = [submit EXCEPT ![id] = "failed"]
          /\ UNCHANGED <<queue, serviceRefs>>
  /\ UNCHANGED <<loaded, clientRq, serviceReg, serviceRun, clientFile,
                 uniqueId, output, getVars, reqVars, svcVars, faults>>

RqClientPushNoMemory(id) ==
  /\ submit[id] = "push"
  /\ submit' = [submit EXCEPT ![id] = "failed"]
  /\ UNCHANGED <<loaded, rqVars, clientFile, uniqueId, output, getVars,
                 reqVars, svcVars, faults>>

(* RqServicePopRequest, when the queue is not empty: the request becomes   *)
(* the one the service is working on.                                      *)
RqServicePopRequest ==
  /\ pendingRequest' = Head(queue)
  /\ queue' = Tail(queue)

(* The mutant of ServiceRequestAvailable completes a get IRP whose cancel  *)
(* routine is on its way.                                                  *)
ServiceRequestAvailable_IgnoresCancel(id) ==
  /\ submit[id] = "wake"
  /\ submit' = [submit EXCEPT ![id] = "unref"]
  /\ IF pendingIrp /\ queue # <<>>
     THEN /\ RqServicePopRequest
          /\ pendingIrp' = FALSE /\ getRoutine' = FALSE
          /\ svc' = "run" /\ svcId' = Head(queue)
     ELSE UNCHANGED <<queue, pendingRequest, pendingIrp, getRoutine, svcId, svc>>
  /\ UNCHANGED <<loaded, clientRq, serviceRq, clientFile, uniqueId, output,
                 getCancel, canceling, completing, svcRest>>

(* ServiceRequestAvailable, called by the submit that made the queue       *)
(* nonempty.  The get IRP is completed unless the I/O manager has already  *)
(* called the cancel routine: then the request stays with a get that       *)
(* completes as cancelled.                                                 *)
ServiceRequestAvailable(id) ==
  /\ submit[id] = "wake"
  /\ submit' = [submit EXCEPT ![id] = "unref"]
  /\ IF pendingIrp /\ queue # <<>>
     THEN /\ RqServicePopRequest
          /\ pendingIrp' = FALSE
          /\ getRoutine' = FALSE
          /\ IF getRoutine
             THEN svc' = "run" /\ svcId' = Head(queue)
             ELSE UNCHANGED <<svc, svcId>>
     ELSE UNCHANGED <<queue, pendingRequest, pendingIrp, getRoutine, svcId, svc>>
  /\ UNCHANGED <<loaded, clientRq, serviceRq, clientFile, uniqueId, output,
                 getCancel, canceling, completing, svcRest>>

(* The end of RqClientPushRequest. *)
ExReleaseRundownProtection(id) ==
  /\ submit[id] = "unref"
  /\ submit' = [submit EXCEPT ![id] = "mark"]
  /\ serviceRefs' = serviceRefs \ {id}
  /\ UNCHANGED <<loaded, queue, clientRq, serviceReg, serviceRun, clientFile, uniqueId,
                 output, getVars, reqVars, svcVars, faults>>

(* The end of ClientIrpSubmit.  "TODO: Fix race condition where request is  *)
(* completed before we mark it pending" (client.c:76): the service may have *)
(* answered already.  The I/O manager then completed an IRP that was not    *)
(* marked, and leaves the rest to a caller that is now told to wait for it. *)
(* Whether the caller still learns of the result is not defined.            *)
IoMarkIrpPending(id) ==
  /\ submit[id] = "mark"
  /\ \/ submit' = [submit EXCEPT ![id] = "pended"]
     \/ output[id] # NULL /\ submit' = [submit EXCEPT ![id] = "hung"]
  /\ UNCHANGED <<loaded, rqVars, clientFile, uniqueId, output, getVars,
                 reqVars, svcVars, faults>>

InProgress(id) ==
  \/ submit[id] \in {"push", "wake", "unref", "mark", "hung"}
  \/ submit[id] = "pended" /\ output[id] = NULL

RundownReleased(refs) == refs = {}

(* The client closes its handle.  The close IRP is sent once no other IRP  *)
(* of the file object is outstanding; RqClientDeregister then begins to    *)
(* wait for the rundown references.                                        *)
ClientIrpClose ==
  /\ clientFile = "open"
  /\ \A id \in Ids : ~InProgress(id)
  /\ clientFile' = "rundown"
  /\ clientRun' = TRUE
  /\ UNCHANGED <<loaded, queue, clientReg, clientRef, serviceRq, uniqueId, submit,
                 output, getVars, reqVars, svcVars, faults>>

RqClientDeregister ==
  /\ clientFile = "rundown"
  /\ RundownReleased(IF clientRef THEN {svcId} ELSE {})
  /\ clientReg' = FALSE
  /\ clientFile' = "none"
  /\ UNCHANGED <<loaded, queue, clientRun, clientRef, serviceRq, uniqueId, submit,
                 output, getVars, reqVars, svcVars, faults>>
-----------------------------------------------------------------------------
(* The service session and the service thread.  As for the client, only    *)
(* the create that wins the compare-exchange on ServiceUserContext is an   *)
(* action; a service process whose open fails exits.                       *)

ServiceIrpCreate ==
  /\ loaded
  /\ svc = "down"
  /\ svc' = "check"
  /\ serviceRun' = FALSE /\ serviceRefs' = {}
  /\ serviceReg' = TRUE
  /\ dead' = FALSE /\ stopping' = FALSE /\ ctrl' = "idle"
  /\ UNCHANGED <<loaded, queue, clientRq, clientVars, getVars, reqVars, svcId, faults>>

(* The while (!Stopping) test of DoServiceWork. *)
DoServiceWork ==
  /\ svc = "check" /\ ~dead
  /\ svc' = IF stopping THEN "close" ELSE "issue"
  /\ UNCHANGED <<loaded, rqVars, clientVars, getVars, reqVars, svcId, svcRest>>

(* FnIoctl creates the get IRP; from here on CancelIoEx can find it. *)
IssueGet ==
  /\ svc = "issue" /\ ~dead
  /\ svc' = "get"
  /\ getCancel' = FALSE
  /\ UNCHANGED <<loaded, rqVars, clientVars, pendingIrp, getRoutine, canceling,
                 reqVars, svcId, svcRest>>

(* mutants of GetRefused *)
GetRefused_NoRequestCheck == pendingIrp

GetRefused == pendingIrp \/ pendingRequest # NULL

(* ServiceIrpGet fails: the service thread sleeps and tries again. *)
ServiceIrpGetRefused ==
  /\ svc = "get"
  /\ GetRefused
  /\ svc' = "check"
  /\ UNCHANGED <<loaded, rqVars, clientVars, getVars, reqVars, svcId, svcRest>>

ServiceIrpGetPop ==
  /\ svc = "get"
  /\ ~GetRefused
  /\ queue # <<>>
  /\ RqServicePopRequest
  /\ svc' = "run"
  /\ svcId' = Head(queue)
  /\ UNCHANGED <<loaded, clientRq, serviceRq, clientVars, getVars, completing, svcRest>>

(* ServiceIrpGet finds the queue empty.  The IRP is pended and the cancel  *)
(* routine set; if the IRP has been cancelled meanwhile the routine is     *)
(* taken back and the IRP fails.  A cancel that comes between the two      *)
(* calls of IoSetCancelRoutine is a cancel of the pending IRP.             *)
ServiceIrpGetPend ==
  /\ svc = "get"
  /\ ~GetRefused
  /\ queue = <<>>
  /\ IF getCancel
     THEN /\ svc' = "check"
          /\ UNCHANGED <<pendingIrp, getRoutine>>
     ELSE /\ svc' = "wait"
          /\ pendingIrp' = TRUE
          /\ getRoutine' = TRUE
  /\ UNCHANGED <<loaded, rqVars, clientVars, getCancel, canceling, reqVars,
                 svcId, svcRest>>

(* IoCancelIrp (external): the IRP is marked, and if it has a cancel       *)
(* routine that routine is taken and called.                               *)
IoCancelIrp ==
  /\ getCancel' = TRUE
  /\ canceling' = (canceling \/ getRoutine)
  /\ getRoutine' = FALSE

(* ServiceCancelGet: it forgets PendingIrp and completes the get IRP with  *)
(* STATUS_CANCELLED.                                                       *)
ServiceCancelGet ==
  /\ canceling
  /\ canceling' = FALSE
  /\ pendingIrp' = FALSE
  /\ svc' = "check"
  /\ UNCHANGED <<loaded, rqVars, clientVars, getCancel, getRoutine, reqVars,
                 svcId, svcRest>>

(* The command has run; ServiceIrpPost is called with its Id and result. *)
RunCommand ==
  /\ svc = "run" /\ ~dead
  /\ svc' = "post"
  /\ UNCHANGED <<loaded, rqVars, clientVars, getVars, reqVars, svcId, svcRest>>

(* ServiceIrpPost up to the release of the service lock. *)
ServiceIrpPost ==
  /\ svc = "post"
  /\ IF svcId = pendingRequest
     THEN /\ completing' = pendingRequest
          /\ pendingRequest' = NULL
          /\ svc' = "complete"
     ELSE /\ svc' = "check"
          /\ UNCHANGED reqVars
  /\ UNCHANGED <<loaded, rqVars, clientVars, getVars, svcId, svcRest>>

(* RqServiceCompleteRequest up to the release of the queue lock.  Without  *)
(* a registered client the request is freed and its IRP never completed.   *)
RqServiceCompleteRequest ==
  /\ svc = "complete"
  /\ IF RundownAcquired(clientReg, clientRun)
     THEN svc' = "callback" /\ clientRef' = TRUE /\ UNCHANGED completing
     ELSE svc' = "check" /\ completing' = NULL /\ UNCHANGED clientRef
  /\ UNCHANGED <<loaded, queue, clientReg, clientRun, serviceRq, clientVars, getVars,
                 pendingRequest, svcId, svcRest>>

(* The result is copied to the client's IRP, which completes. *)
ClientRequestComplete ==
  /\ svc = "callback"
  /\ output' = [output EXCEPT ![completing] = svcId]
  /\ completing' = NULL
  /\ svc' = "release"
  /\ UNCHANGED <<loaded, rqVars, clientFile, uniqueId, submit, getVars, pendingRequest,
                 svcId, svcRest>>

(* mutants of RqServiceReleaseClient *)
RqServiceReleaseClient_Leaks ==
  /\ svc = "release"
  /\ svc' = "check"
  /\ UNCHANGED <<loaded, rqVars, clientVars, getVars, reqVars, svcId, svcRest>>

(* The end of RqServiceCompleteRequest and of the post IRP. *)
RqServiceReleaseClient ==
  /\ svc = "release"
  /\ clientRef' = FALSE
  /\ svc' = "check"
  /\ UNCHANGED <<loaded, queue, clientReg, clientRun, serviceRq, clientVars, getVars,
                 reqVars, svcId, svcRest>>

-----------------------------------------------------------------------------
(* The service is stopped or terminated. *)

(* SvcCtrlHandler: Stopping is set ... *)
SvcCtrlHandlerStop ==
  /\ svc # "down" /\ ~dead
  /\ ctrl = "idle"
  /\ stops < MaxStops
  /\ stops' = stops + 1
  /\ stopping' = TRUE
  /\ ctrl' = "cancel"
  /\ UNCHANGED <<loaded, rqVars, clientVars, getVars, reqVars, svc, svcId, dead, crashes>>

(* ... and CancelIoEx cancels the get IRP, if there is one.  The post IRP  *)
(* is not cancelable.                                                      *)
SvcCtrlHandlerCancelIo ==
  /\ ctrl = "cancel" /\ ~dead
  /\ ctrl' = "done"
  /\ IF svc \in {"get", "wait"}
     THEN IoCancelIrp
     ELSE UNCHANGED <<getCancel, getRoutine, canceling>>
  /\ UNCHANGED <<loaded, rqVars, clientVars, pendingIrp, reqVars, svc, svcId, dead,
                 stopping, faults>>

(* The process is terminated: it runs no more user-mode code. *)
Terminate ==
  /\ svc \notin {"down", "close", "rundown"} /\ ~dead
  /\ crashes < MaxCrashes
  /\ crashes' = crashes + 1
  /\ dead' = TRUE
  /\ UNCHANGED <<loaded, rqVars, clientVars, getVars, reqVars, svc, svcId, stopping,
                 ctrl, stops>>

(* Thread termination (external) cancels a pending IRP ... *)
TerminateCancelIo ==
  /\ dead /\ svc = "wait" /\ ~getCancel
  /\ IoCancelIrp
  /\ UNCHANGED <<loaded, rqVars, clientVars, pendingIrp, reqVars, svcVars, faults>>

(* ... and the handle is closed once the thread has left the kernel. *)
TerminateThread ==
  /\ dead /\ svc \in {"check", "issue", "run"}
  /\ svc' = "close"
  /\ UNCHANGED <<loaded, rqVars, clientVars, getVars, reqVars, svcId, svcRest>>

(* The close IRP: RqServiceDeregister begins to wait for the references. *)
ServiceIrpClose ==
  /\ svc = "close"
  /\ svc' = "rundown"
  /\ serviceRun' = TRUE
  /\ UNCHANGED <<loaded, queue, clientRq, serviceReg, serviceRefs, clientVars, getVars,
                 reqVars, svcId, svcRest>>

(* Neither the queue nor PendingRequest is emptied. *)
RqServiceDeregister ==
  /\ svc = "rundown"
  /\ RundownReleased(serviceRefs)
  /\ serviceReg' = FALSE
  /\ svc' = "down"
  /\ UNCHANGED <<loaded, queue, clientRq, serviceRun, serviceRefs, clientVars, getVars,
                 reqVars, svcId, svcRest>>
-----------------------------------------------------------------------------
DriverNext == DriverEntry \/ DriverUnload

ClientNext == ClientIrpCreate \/ ClientIrpSubmit \/ ClientIrpClose \/ RqClientDeregister

(* The steps of the thread that is inside ClientIrpSubmit with request id. *)
SubmitNext(id) ==
  \/ RqClientPushRequest(id)
  \/ RqClientPushNoMemory(id)
  \/ ServiceRequestAvailable(id)
  \/ ExReleaseRundownProtection(id)
  \/ IoMarkIrpPending(id)

(* The steps of the service thread once its handle is open. *)
ServiceThread ==
  \/ DoServiceWork
  \/ IssueGet
  \/ ServiceIrpGetRefused
  \/ ServiceIrpGetPop
  \/ ServiceIrpGetPend
  \/ RunCommand
  \/ ServiceIrpPost
  \/ RqServiceCompleteRequest
  \/ ClientRequestComplete
  \/ RqServiceReleaseClient
  \/ TerminateCancelIo
  \/ TerminateThread
  \/ ServiceIrpClose
  \/ RqServiceDeregister

Next ==
  \/ DriverNext
  \/ ClientNext
  \/ \E id \in Ids : SubmitNext(id)
  \/ ServiceIrpCreate
  \/ ServiceThread
  \/ ServiceCancelGet
  \/ SvcCtrlHandlerStop
  \/ SvcCtrlHandlerCancelIo
  \/ Terminate

Spec == Init /\ [][Next]_vars

(* Threads that can run do run, and commands terminate.  Nothing forces a  *)
(* client to open, submit or close, nor the service to be started, stopped *)
(* or terminated.                                                          *)
Fairness ==
  /\ WF_vars(ServiceThread)
  /\ WF_vars(ServiceCancelGet)
  /\ WF_vars(SvcCtrlHandlerCancelIo)
  /\ WF_vars(RqClientDeregister)
  /\ \A id \in Ids : WF_vars(SubmitNext(id))

FairSpec == Spec /\ Fairness

-----------------------------------------------------------------------------
(* Properties *)

TypeFlags ==
  /\ loaded \in BOOLEAN
  /\ clientReg \in BOOLEAN /\ clientRun \in BOOLEAN /\ clientRef \in BOOLEAN
  /\ serviceReg \in BOOLEAN /\ serviceRun \in BOOLEAN
  /\ pendingIrp \in BOOLEAN /\ getCancel \in BOOLEAN
  /\ getRoutine \in BOOLEAN /\ canceling \in BOOLEAN
  /\ dead \in BOOLEAN /\ stopping \in BOOLEAN

TypeData ==
  /\ queue \in Seq(Ids)
  /\ serviceRefs \subseteq Ids
  /\ clientFile \in {"none", "open", "rundown"}
  /\ uniqueId \in 0..MaxRequests
  /\ submit \in [Ids -> SubmitStage]
  /\ output \in [Ids -> Ids \cup {NULL}]
  /\ pendingRequest \in Ids \cup {NULL}
  /\ completing \in Ids \cup {NULL}
  /\ svc \in SvcStage /\ svcId \in Ids \cup {NULL}
  /\ ctrl \in {"idle", "cancel", "done"}
  /\ stops \in 0..MaxStops /\ crashes \in 0..MaxCrashes

(* Every variable keeps its type: requests are numbered within their       *)
(* bound, and no queue, pointer or result holds anything but a request.    *)
TypeOK == TypeFlags /\ TypeData

(* No lost wakeup: ServiceIrpGet pends only on an empty queue, and only    *)
(* the push onto an empty queue wakes it.  Whenever a get IRP is pending   *)
(* while a request is queued, some submit is about to deliver it.          *)
NoLostWakeup ==
  pendingIrp /\ queue # <<>> => \E id \in Ids : submit[id] = "wake"

(* A client's IRP is pending in the driver from the push to its completion. *)
Unanswered(id) ==
  submit[id] \in {"wake", "unref", "mark", "pended"} /\ output[id] = NULL

Member(x, q) == \E i \in DOMAIN q : q[i] = x
Distinct(q) == \A i, j \in DOMAIN q : q[i] = q[j] => i = j

(* No request is lost or handled twice: every unanswered request is in     *)
(* exactly one of the queue, PendingRequest and the hands of the service   *)
(* thread completing it, and nothing else is there.  In particular the     *)
(* drop branch of RqServiceCompleteRequest never loses a client's IRP.     *)
RequestsConserved ==
  /\ \A id \in Ids :
       Unanswered(id) <=> \/ Member(id, queue)
                          \/ pendingRequest = id
                          \/ completing = id
  /\ Distinct(queue)
  /\ \A id \in Ids : Member(id, queue) => pendingRequest # id /\ completing # id
  /\ pendingRequest # NULL => completing = NULL

(* ServiceIrpPost dereferences PendingRequest without a test: when it is   *)
(* reached there is one, and it is the request whose command was run.      *)
PostFindsRequest == svc \in {"run", "post"} => pendingRequest = svcId /\ svcId # NULL

(* The get IRP is completed exactly once, whichever of CancelIoEx, a        *)
(* submit and thread termination comes first: while the service thread      *)
(* waits for it exactly one of them has the right to complete it, the       *)
(* submit that takes the cancel routine back or ServiceCancelGet on its     *)
(* way, and once it has completed neither has (service.c:33, 89).           *)
GetCompletedOnce ==
  /\ svc = "wait" <=> getRoutine \/ canceling
  /\ ~(getRoutine /\ canceling)

(* PendingIrp never points to a completed IRP: while it is set the service *)
(* thread waits for that IRP, and either the cancel routine is still set   *)
(* or ServiceCancelGet is on its way and will clear it.                    *)
PendingIrpLive == pendingIrp => svc = "wait" /\ (getRoutine \/ canceling)

(* "Upon return, no client callbacks will be invoked" (requestqueue.c 159  *)
(* and 195): a closed client session has no ClientRequestComplete running, *)
(* and a closed service session no ServiceRequestAvailable.                *)
DeregisterQuiesces ==
  /\ clientFile = "none" => svc \notin {"callback", "release"}
  /\ svc = "down" => \A id \in Ids : submit[id] # "wake"

(* What RqUninitialize and ServiceUninitialize assert when the driver is   *)
(* unloaded.                                                               *)
UnloadClean ==
  ~loaded => /\ ~clientReg /\ ~serviceReg
             /\ queue = <<>>
             /\ ~pendingIrp /\ pendingRequest = NULL

(* The caller of a submit has its result, or the error. *)
Answered(id) == (submit[id] = "pended" /\ output[id] # NULL) \/ submit[id] = "failed"

(* While the service is neither stopped nor terminated, the caller of every *)
(* submit gets its result or an error, with one exception: it may hang when *)
(* the service was so fast that the IRP completed before ClientIrpSubmit    *)
(* marked it pending, the race of the TODO at client.c:76.                  *)
EventuallyAnswered ==
  \A id \in Ids :
    submit[id] = "push" ~> Answered(id) \/ submit[id] = "hung" \/ stops + crashes > 0

(* Closing a session never blocks for good on its rundown references,      *)
(* whatever the other side, a stop or a termination does meanwhile.        *)
CloseCompletes ==
  /\ clientFile = "rundown" ~> clientFile = "none"
  /\ svc = "close" ~> svc = "down"

(* The relay implements the queue it promises. *)
Promise == INSTANCE InvokeSystemQueue WITH
  Commands <- Ids,
  waiting <- queue,
  taken <- {pendingRequest, completing} \ {NULL},
  answered <- {id \in Ids : output[id] # NULL}

(* Commands are taken in the order of their pushes, one at a time, and     *)
(* answered at most once.                                                  *)
PromiseSpec == Promise!Spec

-----------------------------------------------------------------------------
(* The inductive invariant behind the safety properties *)

(* The rundown references of the two sessions are held exactly by the      *)
(* threads inside a callback, and registration follows the sessions.       *)
SessionInv ==
  /\ serviceRefs = {id \in Ids : submit[id] \in {"wake", "unref"}}
  /\ serviceReg <=> svc # "down"
  /\ serviceRun => svc \in {"down", "rundown"}
  /\ svc = "rundown" => serviceRun
  /\ svc = "down" => serviceRefs = {}
  /\ clientReg <=> clientFile # "none"
  /\ clientFile = "open" => ~clientRun
  /\ clientFile # "open" => \A id \in Ids : ~InProgress(id)
  /\ clientFile = "none" => ~clientRef
  /\ clientRef <=> svc \in {"callback", "release"}
  /\ ~loaded => clientFile = "none" /\ svc = "down"

(* Requests are numbered in order and answered only once pushed. *)
SubmitInv ==
  /\ \A id \in Ids : id > uniqueId => submit[id] = "none"
  /\ \A id \in Ids :
       output[id] # NULL => submit[id] \in {"wake", "unref", "mark", "pended", "hung"}

(* The service thread's stage determines the request it works on and the   *)
(* state of its get IRP.                                                   *)
ServiceInv ==
  /\ completing # NULL <=> svc \in {"complete", "callback"}
  /\ svc \in {"complete", "callback"} => completing = svcId
  /\ svc \in {"run", "post"} => pendingRequest = svcId /\ svcId # NULL
  /\ svc = "wait" <=> getRoutine \/ canceling
  /\ ~(getRoutine /\ canceling)
  /\ getRoutine => pendingIrp
  /\ pendingIrp => svc = "wait" /\ pendingRequest = NULL

IInv ==
  /\ TypeOK
  /\ SessionInv
  /\ SubmitInv
  /\ ServiceInv
  /\ RequestsConserved
  /\ NoLostWakeup
=============================================================================

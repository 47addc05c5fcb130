--------------------------- MODULE IsrRelayProofs ---------------------------
(***************************************************************************)
(* Proofs about the invoke-system relay, for every number of requests,     *)
(* stops and terminations.                                                 *)
(***************************************************************************)
EXTENDS IsrRelay, TLAPS

-----------------------------------------------------------------------------
(* The queue as a sequence: what InsertTailList and RemoveHeadList do to   *)
(* the requests in it.                                                     *)

\* A request at the end of a queue.
LEMMA AppendQueue ==
  ASSUME NEW S, NEW q \in Seq(S), NEW e \in S
  PROVE  /\ Append(q, e) \in Seq(S)
         /\ Append(q, e) # <<>>
         /\ DOMAIN Append(q, e) = 1..(Len(q) + 1)
         /\ \A i \in 1..Len(q) : Append(q, e)[i] = q[i]
         /\ Append(q, e)[Len(q) + 1] = e
OBVIOUS

\* The first request leaves a queue.
LEMMA PopQueue ==
  ASSUME NEW S, NEW q \in Seq(S), q # <<>>
  PROVE  /\ Len(q) \in Nat \ {0}
         /\ Head(q) \in S
         /\ Head(q) = q[1]
         /\ Tail(q) \in Seq(S)
         /\ DOMAIN Tail(q) = 1..(Len(q) - 1)
         /\ \A i \in 1..(Len(q) - 1) : Tail(q)[i] = q[i + 1]
OBVIOUS

\* What a queue holds after a push.
LEMMA PushMembers ==
  ASSUME NEW S, NEW q \in Seq(S), NEW e \in S
  PROVE  /\ \A x : Member(x, Append(q, e)) <=> Member(x, q) \/ x = e
         /\ Distinct(q) /\ ~Member(e, q) => Distinct(Append(q, e))
<1> DEFINE a == Append(q, e)
<1>1. /\ Len(q) \in Nat /\ DOMAIN q = 1..Len(q) /\ DOMAIN a = 1..(Len(q) + 1)
      /\ \A i \in 1..Len(q) : a[i] = q[i]
      /\ a[Len(q) + 1] = e
  BY AppendQueue
<1> HIDE DEF a
<1>2. \A x : Member(x, a) <=> Member(x, q) \/ x = e
  BY <1>1 DEF Member
<1>3. Distinct(q) /\ ~Member(e, q) => Distinct(a)
  BY <1>1 DEF Member, Distinct
<1> QED
  BY <1>2, <1>3 DEF a

\* What a queue holds after a pop.
LEMMA PopMembers ==
  ASSUME NEW S, NEW q \in Seq(S), q # <<>>, Distinct(q)
  PROVE  /\ \A x : Member(x, Tail(q)) <=> Member(x, q) /\ x # Head(q)
         /\ Member(Head(q), q)
         /\ Distinct(Tail(q))
<1> DEFINE t == Tail(q)
           h == Head(q)
<1>1. /\ Len(q) \in Nat \ {0} /\ DOMAIN q = 1..Len(q) /\ DOMAIN t = 1..(Len(q) - 1)
      /\ h = q[1]
      /\ \A i \in 1..(Len(q) - 1) : t[i] = q[i + 1]
  BY PopQueue
<1> HIDE DEF t, h
<1>2. ASSUME NEW x PROVE Member(x, t) => Member(x, q) /\ x # h
  BY <1>1 DEF Member, Distinct
<1>3. ASSUME NEW x PROVE Member(x, q) /\ x # h => Member(x, t)
  <2> SUFFICES ASSUME NEW i \in DOMAIN q, q[i] = x, x # h PROVE Member(x, t)
    BY DEF Member
  <2>1. i - 1 \in DOMAIN t /\ t[i - 1] = x
    BY <1>1
  <2> QED
    BY <2>1 DEF Member
<1>4. Member(h, q)
  BY <1>1 DEF Member
<1>5. Distinct(t)
  BY <1>1 DEF Distinct
<1> QED
  BY <1>2, <1>3, <1>4, <1>5 DEF t, h

(* A request at the head of the queue is a request. *)
LEMMA HeadIsRequest ==
  ASSUME TypeData, queue # <<>>
  PROVE  Head(queue) \in Ids /\ Head(queue) # NULL
<1>1. Head(queue) \in Ids
  BY PopQueue DEF TypeData
<1>2. NULL \notin Ids
  BY DEF Ids, NULL
<1> QED
  BY <1>1, <1>2

-----------------------------------------------------------------------------
(* Types.  Both halves of TypeOK are inductive by themselves. *)

\* The types hold at first.
LEMMA TypeInit == Init => TypeOK
<1>1. Init => TypeFlags
  BY Zenon DEF Init, TypeFlags
<1>2. Init => TypeData
  BY RelayAssumption DEF Init, TypeData, Ids, NULL, SubmitStage, SvcStage
<1> QED
  BY <1>1, <1>2 DEF TypeOK

\* A step keeps the types of the flags and program counters.
LEMMA FlagsStep == TypeFlags /\ [Next]_vars => TypeFlags'
<1> SUFFICES ASSUME TypeFlags, [Next]_vars PROVE TypeFlags'
  OBVIOUS
<1> USE DEF TypeFlags, clientRq, serviceRq, rqVars, clientVars,
        getVars, reqVars, svcVars, faults, svcRest
<1>1. CASE DriverNext
  <2>1. CASE DriverEntry
    BY <2>1 DEF DriverEntry
  <2>2. CASE DriverUnload
    BY <2>2 DEF DriverUnload
  <2> QED
    BY <1>1, <2>1, <2>2 DEF DriverNext
<1>2. CASE ClientNext
  <2>1. CASE ClientIrpCreate
    BY <2>1 DEF ClientIrpCreate
  <2>2. CASE ClientIrpSubmit
    BY <2>2 DEF ClientIrpSubmit
  <2>3. CASE ClientIrpClose
    BY <2>3 DEF ClientIrpClose
  <2>4. CASE RqClientDeregister
    BY <2>4 DEF RqClientDeregister
  <2> QED
    BY <1>2, <2>1, <2>2, <2>3, <2>4 DEF ClientNext
<1>3. ASSUME NEW id \in Ids, SubmitNext(id) PROVE TypeFlags'
  <2>1. CASE RqClientPushRequest(id)
    BY <2>1 DEF RqClientPushRequest, InsertTail
  <2>2. CASE RqClientPushNoMemory(id)
    BY <2>2 DEF RqClientPushNoMemory
  <2>3. CASE ServiceRequestAvailable(id)
    <3>1. CASE pendingIrp /\ queue # <<>>
      BY <2>3, <3>1 DEF ServiceRequestAvailable
    <3>2. CASE ~(pendingIrp /\ queue # <<>>)
      BY <2>3, <3>2 DEF ServiceRequestAvailable
    <3> QED
      BY <3>1, <3>2
  <2>4. CASE ExReleaseRundownProtection(id)
    BY <2>4 DEF ExReleaseRundownProtection
  <2>5. CASE IoMarkIrpPending(id)
    BY <2>5 DEF IoMarkIrpPending
  <2> QED
    BY <1>3, <2>1, <2>2, <2>3, <2>4, <2>5 DEF SubmitNext
<1>4. CASE ServiceThread
  <2>1. CASE DoServiceWork
    BY <2>1 DEF DoServiceWork
  <2>2. CASE IssueGet
    BY <2>2 DEF IssueGet
  <2>3. CASE ServiceIrpGetRefused
    BY <2>3 DEF ServiceIrpGetRefused
  <2>4. CASE ServiceIrpGetPop
    BY <2>4 DEF ServiceIrpGetPop, RqServicePopRequest
  <2>5. CASE ServiceIrpGetPend
    BY <2>5 DEF ServiceIrpGetPend
  <2>6. CASE RunCommand
    BY <2>6 DEF RunCommand
  <2>7. CASE ServiceIrpPost
    BY <2>7 DEF ServiceIrpPost
  <2>8. CASE RqServiceCompleteRequest
    <3>1. CASE RundownAcquired(clientReg, clientRun)
      BY <2>8, <3>1 DEF RqServiceCompleteRequest
    <3>2. CASE ~RundownAcquired(clientReg, clientRun)
      BY <2>8, <3>2 DEF RqServiceCompleteRequest
    <3> QED
      BY <3>1, <3>2
  <2>9. CASE ClientRequestComplete
    BY <2>9 DEF ClientRequestComplete
  <2>10. CASE RqServiceReleaseClient
    BY <2>10 DEF RqServiceReleaseClient
  <2>11. CASE TerminateCancelIo
    BY <2>11 DEF TerminateCancelIo, IoCancelIrp
  <2>12. CASE TerminateThread
    BY <2>12 DEF TerminateThread
  <2>13. CASE ServiceIrpClose
    BY <2>13 DEF ServiceIrpClose
  <2>14. CASE RqServiceDeregister
    BY <2>14 DEF RqServiceDeregister
  <2> QED
    BY <1>4, <2>1, <2>2, <2>3, <2>4, <2>5, <2>6, <2>7, <2>8, <2>9, <2>10, <2>11, <2>12, <2>13, <2>14 DEF ServiceThread
<1>5. CASE ServiceIrpCreate
  BY <1>5 DEF ServiceIrpCreate
<1>6. CASE ServiceCancelGet
  BY <1>6 DEF ServiceCancelGet
<1>7. CASE SvcCtrlHandlerStop
  BY <1>7 DEF SvcCtrlHandlerStop
<1>8. CASE SvcCtrlHandlerCancelIo
  BY <1>8 DEF SvcCtrlHandlerCancelIo, IoCancelIrp
<1>9. CASE Terminate
  BY <1>9 DEF Terminate
<1>10. CASE UNCHANGED vars
  BY <1>10 DEF vars
<1> QED
  BY <1>1, <1>2, <1>3, <1>4, <1>5, <1>6, <1>7, <1>8, <1>9, <1>10 DEF Next

\* A step keeps the types of the queues and requests.
LEMMA DataStep == TypeData /\ [Next]_vars => TypeData'
<1> SUFFICES ASSUME TypeData, [Next]_vars PROVE TypeData'
  OBVIOUS
<1> USE RelayAssumption DEF TypeData, SubmitStage, SvcStage, clientRq, serviceRq, rqVars, clientVars,
        getVars, reqVars, svcVars, faults, svcRest
<1>1. CASE DriverNext
  <2>1. CASE DriverEntry
    BY <2>1 DEF DriverEntry
  <2>2. CASE DriverUnload
    BY <2>2 DEF DriverUnload
  <2> QED
    BY <1>1, <2>1, <2>2 DEF DriverNext
<1>2. CASE ClientNext
  <2>1. CASE ClientIrpCreate
    BY <2>1 DEF ClientIrpCreate
  <2>2. CASE ClientIrpSubmit
    BY <2>2 DEF ClientIrpSubmit, Ids
  <2>3. CASE ClientIrpClose
    BY <2>3 DEF ClientIrpClose
  <2>4. CASE RqClientDeregister
    BY <2>4 DEF RqClientDeregister
  <2> QED
    BY <1>2, <2>1, <2>2, <2>3, <2>4 DEF ClientNext
<1>3. ASSUME NEW id \in Ids, SubmitNext(id) PROVE TypeData'
  <2>1. CASE RqClientPushRequest(id)
    <3>1. Append(queue, id) \in Seq(Ids)
      BY <1>3, AppendQueue
    <3>2. submit' \in [Ids -> SubmitStage] /\ serviceRefs' \subseteq Ids
      BY <2>1 DEF RqClientPushRequest
    <3> QED
      BY <2>1, <3>1, <3>2 DEF RqClientPushRequest, InsertTail
  <2>2. CASE RqClientPushNoMemory(id)
    BY <2>2 DEF RqClientPushNoMemory
  <2>3. CASE ServiceRequestAvailable(id)
    <3>1. queue # <<>> => Head(queue) \in Ids /\ Tail(queue) \in Seq(Ids)
      BY PopQueue
    <3>2. queue' \in Seq(Ids)
      BY <2>3, <3>1 DEF ServiceRequestAvailable, RqServicePopRequest
    <3>3. submit' \in [Ids -> SubmitStage]
      BY <2>3 DEF ServiceRequestAvailable
    <3>4. pendingRequest' \in Ids \cup {NULL} /\ svcId' \in Ids \cup {NULL}
      BY <2>3, <3>1 DEF ServiceRequestAvailable, RqServicePopRequest
    <3>5. svc' \in SvcStage
      BY <2>3 DEF ServiceRequestAvailable
    <3> QED
      BY <2>3, <3>2, <3>3, <3>4, <3>5 DEF ServiceRequestAvailable
  <2>4. CASE ExReleaseRundownProtection(id)
    BY <2>4 DEF ExReleaseRundownProtection
  <2>5. CASE IoMarkIrpPending(id)
    BY <2>5 DEF IoMarkIrpPending
  <2> QED
    BY <1>3, <2>1, <2>2, <2>3, <2>4, <2>5 DEF SubmitNext
<1>4. CASE ServiceThread
  <2>1. CASE DoServiceWork
    BY <2>1 DEF DoServiceWork
  <2>2. CASE IssueGet
    BY <2>2 DEF IssueGet
  <2>3. CASE ServiceIrpGetRefused
    BY <2>3 DEF ServiceIrpGetRefused
  <2>4. CASE ServiceIrpGetPop
    BY <2>4 DEF ServiceIrpGetPop, RqServicePopRequest
  <2>5. CASE ServiceIrpGetPend
    BY <2>5 DEF ServiceIrpGetPend
  <2>6. CASE RunCommand
    BY <2>6 DEF RunCommand
  <2>7. CASE ServiceIrpPost
    BY <2>7 DEF ServiceIrpPost
  <2>8. CASE RqServiceCompleteRequest
    BY <2>8 DEF RqServiceCompleteRequest
  <2>9. CASE ClientRequestComplete
    BY <2>9 DEF ClientRequestComplete
  <2>10. CASE RqServiceReleaseClient
    BY <2>10 DEF RqServiceReleaseClient
  <2>11. CASE TerminateCancelIo
    BY <2>11 DEF TerminateCancelIo, IoCancelIrp
  <2>12. CASE TerminateThread
    BY <2>12 DEF TerminateThread
  <2>13. CASE ServiceIrpClose
    BY <2>13 DEF ServiceIrpClose
  <2>14. CASE RqServiceDeregister
    BY <2>14 DEF RqServiceDeregister
  <2> QED
    BY <1>4, <2>1, <2>2, <2>3, <2>4, <2>5, <2>6, <2>7, <2>8, <2>9, <2>10, <2>11, <2>12, <2>13, <2>14 DEF ServiceThread
<1>5. CASE ServiceIrpCreate
  BY <1>5 DEF ServiceIrpCreate
<1>6. CASE ServiceCancelGet
  BY <1>6 DEF ServiceCancelGet
<1>7. CASE SvcCtrlHandlerStop
  BY <1>7 DEF SvcCtrlHandlerStop
<1>8. CASE SvcCtrlHandlerCancelIo
  BY <1>8 DEF SvcCtrlHandlerCancelIo, IoCancelIrp
<1>9. CASE Terminate
  BY <1>9 DEF Terminate
<1>10. CASE UNCHANGED vars
  BY <1>10 DEF vars
<1> QED
  BY <1>1, <1>2, <1>3, <1>4, <1>5, <1>6, <1>7, <1>8, <1>9, <1>10 DEF Next

-----------------------------------------------------------------------------
(* The inductive invariant, one lemma per conjunct.  In each, the actions  *)
(* that can disturb the conjunct come first; every other step leaves its   *)
(* variables unchanged.                                                    *)

\* A request that is submitted is in no queue yet.
LEMMA FreshSubmit ==
  ASSUME IInv, ClientIrpSubmit
  PROVE  /\ uniqueId + 1 \in Ids
         /\ submit[uniqueId + 1] = "none"
         /\ output[uniqueId + 1] = NULL
<1>1. uniqueId + 1 \in Ids /\ uniqueId + 1 > uniqueId
  BY RelayAssumption DEF IInv, TypeOK, TypeData, ClientIrpSubmit, Ids
<1>2. submit[uniqueId + 1] = "none"
  BY <1>1 DEF IInv, SubmitInv
<1> QED
  BY <1>1, <1>2 DEF IInv, SubmitInv

\* A request that the service completes is unanswered, and its client is still there.
LEMMA CompletingUnanswered ==
  ASSUME IInv, svc \in {"complete", "callback"}
  PROVE  /\ completing \in Ids
         /\ Unanswered(completing)
         /\ clientFile = "open"
<1>1. completing \in Ids
  BY DEF IInv, TypeOK, TypeData, ServiceInv
<1>2. Unanswered(completing)
  BY <1>1 DEF IInv, RequestsConserved
<1>3. InProgress(completing)
  BY <1>2 DEF Unanswered, InProgress
<1> QED
  BY <1>1, <1>2, <1>3 DEF IInv, SessionInv

\* A step keeps what is said of the session.
LEMMA SessionStep == IInv /\ [Next]_vars => SessionInv'
<1> SUFFICES ASSUME IInv, [Next]_vars PROVE SessionInv'
  OBVIOUS
<1> USE DEF IInv, SessionInv, TypeOK, TypeData, InProgress, clientRq, serviceRq, rqVars, clientVars, getVars,
        reqVars, svcVars, faults, svcRest
<1>1. CASE DriverEntry
  BY <1>1 DEF DriverEntry
<1>2. CASE DriverUnload
  BY <1>2 DEF DriverUnload
<1>3. CASE ClientIrpCreate
  BY <1>3 DEF ClientIrpCreate
<1>4. CASE ClientIrpSubmit
  BY <1>4, FreshSubmit DEF ClientIrpSubmit
<1>5. CASE ClientIrpClose
  BY <1>5 DEF ClientIrpClose
<1>6. CASE RqClientDeregister
  BY <1>6 DEF RqClientDeregister, RundownReleased
<1>7. ASSUME NEW id \in Ids, RqClientPushRequest(id) PROVE SessionInv'
  BY <1>7 DEF RqClientPushRequest, RundownAcquired
<1>8. ASSUME NEW id \in Ids, RqClientPushNoMemory(id) PROVE SessionInv'
  BY <1>8 DEF RqClientPushNoMemory
<1>9. ASSUME NEW id \in Ids, ServiceRequestAvailable(id) PROVE SessionInv'
  BY <1>9 DEF ServiceRequestAvailable, ServiceInv
<1>10. ASSUME NEW id \in Ids, ExReleaseRundownProtection(id) PROVE SessionInv'
  BY <1>10 DEF ExReleaseRundownProtection
<1>11. ASSUME NEW id \in Ids, IoMarkIrpPending(id) PROVE SessionInv'
  BY <1>11 DEF IoMarkIrpPending
<1>12. CASE DoServiceWork
  BY <1>12 DEF DoServiceWork
<1>13. CASE IssueGet
  BY <1>13 DEF IssueGet
<1>14. CASE ServiceIrpGetRefused
  BY <1>14 DEF ServiceIrpGetRefused
<1>15. CASE ServiceIrpGetPop
  BY <1>15 DEF ServiceIrpGetPop, RqServicePopRequest
<1>16. CASE ServiceIrpGetPend
  BY <1>16 DEF ServiceIrpGetPend
<1>17. CASE RunCommand
  BY <1>17 DEF RunCommand
<1>18. CASE ServiceIrpPost
  BY <1>18 DEF ServiceIrpPost
<1>19. CASE RqServiceCompleteRequest
  BY <1>19, CompletingUnanswered DEF RqServiceCompleteRequest, RundownAcquired
<1>20. CASE ClientRequestComplete
  BY <1>20, CompletingUnanswered DEF ClientRequestComplete
<1>21. CASE RqServiceReleaseClient
  BY <1>21 DEF RqServiceReleaseClient
<1>22. CASE TerminateThread
  BY <1>22 DEF TerminateThread
<1>23. CASE ServiceIrpClose
  BY <1>23 DEF ServiceIrpClose
<1>24. CASE RqServiceDeregister
  BY <1>24 DEF RqServiceDeregister, RundownReleased
<1>25. CASE ServiceIrpCreate
  BY <1>25 DEF ServiceIrpCreate
<1>26. CASE ServiceCancelGet
  BY <1>26 DEF ServiceCancelGet, ServiceInv
<1>27. CASE UNCHANGED <<loaded, clientReg, clientRun, clientRef, serviceReg, serviceRun, serviceRefs, clientFile, submit, output, svc>>
  BY <1>27
<1>28. \/ DriverEntry \/ DriverUnload \/ ClientIrpCreate \/ ClientIrpSubmit
       \/ ClientIrpClose \/ RqClientDeregister \/ DoServiceWork \/ IssueGet
       \/ ServiceIrpGetRefused \/ ServiceIrpGetPop \/ ServiceIrpGetPend
       \/ RunCommand \/ ServiceIrpPost \/ RqServiceCompleteRequest
       \/ ClientRequestComplete \/ RqServiceReleaseClient \/ TerminateThread
       \/ ServiceIrpClose \/ RqServiceDeregister \/ ServiceIrpCreate
       \/ ServiceCancelGet
       \/ UNCHANGED <<loaded, clientReg, clientRun, clientRef, serviceReg, serviceRun, serviceRefs, clientFile, submit, output, svc>>
       \/ \E id \in Ids : \/ RqClientPushRequest(id) \/ RqClientPushNoMemory(id)
                          \/ ServiceRequestAvailable(id)
                          \/ ExReleaseRundownProtection(id) \/ IoMarkIrpPending(id)
  BY DEF Next, vars, DriverNext, ClientNext, SubmitNext, ServiceThread,
     TerminateCancelIo, SvcCtrlHandlerStop, SvcCtrlHandlerCancelIo, Terminate,
     IoCancelIrp
<1> QED
  BY <1>1, <1>2, <1>3, <1>4, <1>5, <1>6, <1>7, <1>8, <1>9, <1>10, <1>11, <1>12, <1>13, <1>14, <1>15, <1>16, <1>17, <1>18, <1>19, <1>20, <1>21, <1>22, <1>23, <1>24, <1>25, <1>26, <1>27, <1>28

\* A step keeps what is said of requests being submitted.
LEMMA SubmitInvStep == IInv /\ [Next]_vars => SubmitInv'
<1> SUFFICES ASSUME IInv, [Next]_vars PROVE SubmitInv'
  OBVIOUS
<1> USE DEF IInv, SubmitInv, TypeOK, TypeData, clientRq, serviceRq, rqVars, clientVars, getVars,
        reqVars, svcVars, faults, svcRest
<1>1. CASE DriverEntry
  BY <1>1 DEF DriverEntry
<1>2. CASE ClientIrpSubmit
  BY <1>2, FreshSubmit, RelayAssumption DEF ClientIrpSubmit, Ids
<1>3. ASSUME NEW id \in Ids, RqClientPushRequest(id) PROVE SubmitInv'
  BY <1>3 DEF RqClientPushRequest, InsertTail
<1>4. ASSUME NEW id \in Ids, RqClientPushNoMemory(id) PROVE SubmitInv'
  BY <1>4 DEF RqClientPushNoMemory
<1>5. ASSUME NEW id \in Ids, ServiceRequestAvailable(id) PROVE SubmitInv'
  BY <1>5 DEF ServiceRequestAvailable, RqServicePopRequest
<1>6. ASSUME NEW id \in Ids, ExReleaseRundownProtection(id) PROVE SubmitInv'
  BY <1>6 DEF ExReleaseRundownProtection
<1>7. ASSUME NEW id \in Ids, IoMarkIrpPending(id) PROVE SubmitInv'
  BY <1>7 DEF IoMarkIrpPending
<1>8. CASE ClientRequestComplete
  BY <1>8, CompletingUnanswered DEF ClientRequestComplete, Unanswered
<1>9. CASE UNCHANGED <<uniqueId, submit, output>>
  BY <1>9
<1>10. \/ DriverEntry \/ ClientIrpSubmit \/ ClientRequestComplete
       \/ UNCHANGED <<uniqueId, submit, output>>
       \/ \E id \in Ids : \/ RqClientPushRequest(id) \/ RqClientPushNoMemory(id)
                          \/ ServiceRequestAvailable(id)
                          \/ ExReleaseRundownProtection(id) \/ IoMarkIrpPending(id)
  BY DEF Next, vars, DriverNext, ClientNext, SubmitNext, ServiceThread,
     DriverUnload, ClientIrpCreate, ClientIrpClose, RqClientDeregister,
     DoServiceWork, IssueGet, ServiceIrpGetRefused, ServiceIrpGetPop,
     ServiceIrpGetPend, RunCommand, ServiceIrpPost, RqServiceCompleteRequest,
     RqServiceReleaseClient, TerminateCancelIo, TerminateThread,
     ServiceIrpClose, RqServiceDeregister, ServiceIrpCreate, ServiceCancelGet,
     SvcCtrlHandlerStop, SvcCtrlHandlerCancelIo, Terminate, IoCancelIrp,
     RqServicePopRequest
<1> QED
  BY <1>1, <1>2, <1>3, <1>4, <1>5, <1>6, <1>7, <1>8, <1>9, <1>10

\* A step keeps what is said of the service.
LEMMA ServiceStep == IInv /\ [Next]_vars => ServiceInv'
<1> SUFFICES ASSUME IInv, [Next]_vars PROVE ServiceInv'
  OBVIOUS
<1> USE DEF IInv, ServiceInv, TypeOK, TypeData, clientRq, serviceRq, rqVars, clientVars, getVars,
        reqVars, svcVars, faults, svcRest
<1>1. CASE DriverEntry
  BY <1>1 DEF DriverEntry, SessionInv
<1>2. ASSUME NEW id \in Ids, ServiceRequestAvailable(id) PROVE ServiceInv'
  BY <1>2, HeadIsRequest DEF ServiceRequestAvailable, RqServicePopRequest
<1>3. CASE DoServiceWork
  BY <1>3 DEF DoServiceWork
<1>4. CASE IssueGet
  BY <1>4 DEF IssueGet
<1>5. CASE ServiceIrpGetRefused
  BY <1>5 DEF ServiceIrpGetRefused
<1>6. CASE ServiceIrpGetPop
  BY <1>6, HeadIsRequest DEF ServiceIrpGetPop, RqServicePopRequest, GetRefused
<1>7. CASE ServiceIrpGetPend
  BY <1>7 DEF ServiceIrpGetPend, GetRefused
<1>8. CASE RunCommand
  BY <1>8 DEF RunCommand
<1>9. CASE ServiceIrpPost
  BY <1>9 DEF ServiceIrpPost
<1>10. CASE RqServiceCompleteRequest
  BY <1>10 DEF RqServiceCompleteRequest
<1>11. CASE ClientRequestComplete
  BY <1>11 DEF ClientRequestComplete
<1>12. CASE RqServiceReleaseClient
  BY <1>12 DEF RqServiceReleaseClient
<1>13. CASE TerminateCancelIo
  BY <1>13 DEF TerminateCancelIo, IoCancelIrp
<1>14. CASE TerminateThread
  BY <1>14 DEF TerminateThread
<1>15. CASE ServiceIrpClose
  BY <1>15 DEF ServiceIrpClose
<1>16. CASE RqServiceDeregister
  BY <1>16 DEF RqServiceDeregister
<1>17. CASE ServiceIrpCreate
  BY <1>17 DEF ServiceIrpCreate
<1>18. CASE ServiceCancelGet
  BY <1>18 DEF ServiceCancelGet
<1>19. CASE SvcCtrlHandlerCancelIo
  BY <1>19 DEF SvcCtrlHandlerCancelIo, IoCancelIrp
<1>20. CASE UNCHANGED <<pendingRequest, completing, pendingIrp, getRoutine, canceling, svc, svcId>>
  BY <1>20
<1>21. \/ DriverEntry \/ DoServiceWork \/ IssueGet \/ ServiceIrpGetRefused
       \/ ServiceIrpGetPop \/ ServiceIrpGetPend \/ RunCommand \/ ServiceIrpPost
       \/ RqServiceCompleteRequest \/ ClientRequestComplete
       \/ RqServiceReleaseClient \/ TerminateCancelIo \/ TerminateThread
       \/ ServiceIrpClose \/ RqServiceDeregister \/ ServiceIrpCreate
       \/ ServiceCancelGet \/ SvcCtrlHandlerCancelIo
       \/ UNCHANGED <<pendingRequest, completing, pendingIrp, getRoutine, canceling, svc, svcId>>
       \/ \E id \in Ids : \/ ServiceRequestAvailable(id)
  BY DEF Next, vars, DriverNext, ClientNext, SubmitNext, ServiceThread,
     DriverUnload, ClientIrpCreate, ClientIrpSubmit, ClientIrpClose,
     RqClientDeregister, RqClientPushRequest, RqClientPushNoMemory,
     ExReleaseRundownProtection, IoMarkIrpPending, SvcCtrlHandlerStop,
     Terminate, InsertTail
<1> QED
  BY <1>1, <1>2, <1>3, <1>4, <1>5, <1>6, <1>7, <1>8, <1>9, <1>10, <1>11, <1>12, <1>13, <1>14, <1>15, <1>16, <1>17, <1>18, <1>19, <1>20, <1>21

(* Popping the head of the queue into PendingRequest conserves requests. *)
LEMMA PopConserves ==
  ASSUME TypeData, RequestsConserved, queue # <<>>,
         pendingRequest = NULL, completing = NULL, completing' = NULL,
         pendingRequest' = Head(queue), queue' = Tail(queue),
         \A x \in Ids : Unanswered(x)' <=> Unanswered(x)
  PROVE  RequestsConserved'
<1>1. Head(queue) \in Ids /\ Head(queue) # NULL /\ NULL \notin Ids
  BY HeadIsRequest DEF Ids, NULL
<1>2. /\ \A x : Member(x, Tail(queue)) <=> Member(x, queue) /\ x # Head(queue)
      /\ Member(Head(queue), queue)
      /\ Distinct(Tail(queue))
  BY PopMembers DEF TypeData, RequestsConserved
<1> QED
  BY <1>1, <1>2 DEF RequestsConserved

\* A step neither loses nor duplicates a request.
LEMMA ConservedStep == IInv /\ [Next]_vars => RequestsConserved'
<1> SUFFICES ASSUME IInv, [Next]_vars PROVE RequestsConserved'
  OBVIOUS
<1> USE DEF IInv, RequestsConserved, Unanswered, TypeOK, TypeData, clientRq, serviceRq, rqVars, clientVars, getVars,
        reqVars, svcVars, faults, svcRest
<1>1. CASE DriverEntry
  <2>1. completing = NULL
    BY <1>1 DEF DriverEntry, SessionInv, ServiceInv
  <2>2. NULL \notin Ids
    BY DEF Ids, NULL
  <2> QED
    BY <1>1, <2>1, <2>2 DEF DriverEntry, Member, Distinct
<1>2. CASE ClientIrpSubmit
  BY <1>2, FreshSubmit DEF ClientIrpSubmit
<1>3. ASSUME NEW id \in Ids, RqClientPushRequest(id) PROVE RequestsConserved'
  <2>1. CASE RundownAcquired(serviceReg, serviceRun)
    <3>1. queue' = Append(queue, id)
      BY <1>3, <2>1 DEF RqClientPushRequest, InsertTail
    <3>2. ~Unanswered(id) /\ Unanswered(id)'
      BY <1>3, <2>1 DEF RqClientPushRequest, SubmitInv
    <3>3. \A x \in Ids \ {id} : Unanswered(x)' <=> Unanswered(x)
      BY <1>3 DEF RqClientPushRequest
    <3>4. UNCHANGED <<pendingRequest, completing>>
      BY <1>3 DEF RqClientPushRequest
    <3> HIDE DEF Unanswered
    <3>5. ~Member(id, queue) /\ pendingRequest # id /\ completing # id
      BY <3>2
    <3>6. /\ \A x : Member(x, queue') <=> Member(x, queue) \/ x = id
          /\ Distinct(queue')
      BY <1>3, <3>1, <3>5, PushMembers
    <3> QED
      BY <3>2, <3>3, <3>4, <3>5, <3>6
  <2>2. CASE ~RundownAcquired(serviceReg, serviceRun)
    BY <1>3, <2>2 DEF RqClientPushRequest
  <2> QED
    BY <2>1, <2>2
<1>4. ASSUME NEW id \in Ids, RqClientPushNoMemory(id) PROVE RequestsConserved'
  BY <1>4 DEF RqClientPushNoMemory
<1>5. ASSUME NEW id \in Ids, ServiceRequestAvailable(id) PROVE RequestsConserved'
  <2>1. \A x \in Ids : Unanswered(x)' <=> Unanswered(x)
    BY <1>5 DEF ServiceRequestAvailable
  <2> HIDE DEF Unanswered
  <2>2. CASE pendingIrp /\ queue # <<>>
    <3>1. pendingRequest = NULL /\ completing = NULL /\ completing' = NULL
      BY <1>5, <2>2 DEF ServiceRequestAvailable, ServiceInv
    <3>2. pendingRequest' = Head(queue) /\ queue' = Tail(queue)
      BY <1>5, <2>2 DEF ServiceRequestAvailable, RqServicePopRequest
    <3> QED
      BY <2>1, <2>2, <3>1, <3>2, PopConserves
  <2>3. CASE ~(pendingIrp /\ queue # <<>>)
    BY <1>5, <2>1, <2>3 DEF ServiceRequestAvailable
  <2> QED
    BY <2>2, <2>3
<1>6. ASSUME NEW id \in Ids, ExReleaseRundownProtection(id) PROVE RequestsConserved'
  BY <1>6 DEF ExReleaseRundownProtection
<1>7. ASSUME NEW id \in Ids, IoMarkIrpPending(id) PROVE RequestsConserved'
  BY <1>7 DEF IoMarkIrpPending
<1>8. CASE ServiceIrpGetPop
  <2>1. \A x \in Ids : Unanswered(x)' <=> Unanswered(x)
    BY <1>8 DEF ServiceIrpGetPop
  <2>2. pendingRequest = NULL /\ completing = NULL /\ completing' = NULL
    BY <1>8 DEF ServiceIrpGetPop, GetRefused, ServiceInv
  <2>3. queue # <<>> /\ pendingRequest' = Head(queue) /\ queue' = Tail(queue)
    BY <1>8 DEF ServiceIrpGetPop, RqServicePopRequest
  <2> QED
    BY <2>1, <2>2, <2>3, PopConserves
<1>9. CASE ServiceIrpPost
  BY <1>9 DEF ServiceIrpPost, ServiceInv
<1>10. CASE RqServiceCompleteRequest
  <2>1. RundownAcquired(clientReg, clientRun)
    BY <1>10, CompletingUnanswered DEF RqServiceCompleteRequest, RundownAcquired, SessionInv
  <2> QED
    BY <1>10, <2>1 DEF RqServiceCompleteRequest
<1>11. CASE ClientRequestComplete
  <2>1. completing \in Ids /\ completing = svcId /\ svcId # NULL /\ pendingRequest = NULL
    BY <1>11 DEF ClientRequestComplete, ServiceInv
  <2>2. \A x \in Ids : Unanswered(x)' <=> Unanswered(x) /\ x # completing
    BY <1>11, <2>1 DEF ClientRequestComplete
  <2>3. completing' = NULL /\ UNCHANGED <<queue, pendingRequest>>
    BY <1>11 DEF ClientRequestComplete
  <2>4. NULL \notin Ids
    BY DEF Ids, NULL
  <2> HIDE DEF Unanswered
  <2> QED
    BY <2>1, <2>2, <2>3, <2>4
<1>12. CASE UNCHANGED <<queue, pendingRequest, completing, submit, output>>
  BY <1>12
<1>13. \/ DriverEntry \/ ClientIrpSubmit \/ ServiceIrpGetPop \/ ServiceIrpPost
       \/ RqServiceCompleteRequest \/ ClientRequestComplete
       \/ UNCHANGED <<queue, pendingRequest, completing, submit, output>>
       \/ \E id \in Ids : \/ RqClientPushRequest(id) \/ RqClientPushNoMemory(id)
                          \/ ServiceRequestAvailable(id)
                          \/ ExReleaseRundownProtection(id) \/ IoMarkIrpPending(id)
  BY DEF Next, vars, DriverNext, ClientNext, SubmitNext, ServiceThread,
     DriverUnload, ClientIrpCreate, ClientIrpClose, RqClientDeregister,
     DoServiceWork, IssueGet, ServiceIrpGetRefused, ServiceIrpGetPend,
     RunCommand, RqServiceReleaseClient, TerminateCancelIo, TerminateThread,
     ServiceIrpClose, RqServiceDeregister, ServiceIrpCreate, ServiceCancelGet,
     SvcCtrlHandlerStop, SvcCtrlHandlerCancelIo, Terminate, IoCancelIrp
<1> QED
  BY <1>1, <1>2, <1>3, <1>4, <1>5, <1>6, <1>7, <1>8, <1>9, <1>10, <1>11, <1>12, <1>13

\* A step loses no wakeup.
LEMMA WakeupStep == IInv /\ [Next]_vars => NoLostWakeup'
<1> SUFFICES ASSUME IInv, [Next]_vars PROVE NoLostWakeup'
  OBVIOUS
<1> USE DEF IInv, NoLostWakeup, TypeOK, TypeData, clientRq, serviceRq, rqVars, clientVars, getVars,
        reqVars, svcVars, faults, svcRest
<1>1. CASE DriverEntry
  BY <1>1 DEF DriverEntry
<1>2. CASE ClientIrpSubmit
  BY <1>2, FreshSubmit DEF ClientIrpSubmit
<1>3. ASSUME NEW id \in Ids, RqClientPushRequest(id) PROVE NoLostWakeup'
  <2>1. CASE queue = <<>>
    BY <1>3, <2>1 DEF RqClientPushRequest, WasListEmpty
  <2>2. CASE queue # <<>> /\ pendingIrp
    <3>1. PICK w \in Ids : submit[w] = "wake"
      BY <2>2
    <3>2. w # id /\ submit'[w] = "wake"
      BY <1>3, <3>1 DEF RqClientPushRequest
    <3> QED
      BY <3>2
  <2>3. CASE ~pendingIrp
    BY <1>3, <2>3 DEF RqClientPushRequest
  <2> QED
    BY <2>1, <2>2, <2>3
<1>4. ASSUME NEW id \in Ids, RqClientPushNoMemory(id) PROVE NoLostWakeup'
  BY <1>4 DEF RqClientPushNoMemory
<1>5. ASSUME NEW id \in Ids, ServiceRequestAvailable(id) PROVE NoLostWakeup'
  BY <1>5 DEF ServiceRequestAvailable, RqServicePopRequest
<1>6. ASSUME NEW id \in Ids, ExReleaseRundownProtection(id) PROVE NoLostWakeup'
  BY <1>6 DEF ExReleaseRundownProtection
<1>7. ASSUME NEW id \in Ids, IoMarkIrpPending(id) PROVE NoLostWakeup'
  BY <1>7 DEF IoMarkIrpPending
<1>8. CASE ServiceIrpGetPop
  BY <1>8 DEF ServiceIrpGetPop, RqServicePopRequest
<1>9. CASE ServiceIrpGetPend
  BY <1>9 DEF ServiceIrpGetPend
<1>10. CASE ServiceCancelGet
  BY <1>10 DEF ServiceCancelGet
<1>11. CASE UNCHANGED <<pendingIrp, queue, submit>>
  BY <1>11
<1>12. \/ DriverEntry \/ ClientIrpSubmit \/ ServiceIrpGetPop \/ ServiceIrpGetPend
       \/ ServiceCancelGet \/ UNCHANGED <<pendingIrp, queue, submit>>
       \/ \E id \in Ids : \/ RqClientPushRequest(id) \/ RqClientPushNoMemory(id)
                          \/ ServiceRequestAvailable(id)
                          \/ ExReleaseRundownProtection(id) \/ IoMarkIrpPending(id)
  BY DEF Next, vars, DriverNext, ClientNext, SubmitNext, ServiceThread,
     DriverUnload, ClientIrpCreate, ClientIrpClose, RqClientDeregister,
     DoServiceWork, IssueGet, ServiceIrpGetRefused, RunCommand, ServiceIrpPost,
     RqServiceCompleteRequest, ClientRequestComplete, RqServiceReleaseClient,
     TerminateCancelIo, TerminateThread, ServiceIrpClose, RqServiceDeregister,
     ServiceIrpCreate, SvcCtrlHandlerStop, SvcCtrlHandlerCancelIo, Terminate,
     IoCancelIrp
<1> QED
  BY <1>1, <1>2, <1>3, <1>4, <1>5, <1>6, <1>7, <1>8, <1>9, <1>10, <1>11, <1>12

\* The invariant holds at first.
LEMMA InvariantInit == Init => IInv
<1> SUFFICES ASSUME Init PROVE IInv
  OBVIOUS
<1>1. TypeOK
  BY TypeInit
<1>2. SessionInv /\ SubmitInv /\ ServiceInv /\ NoLostWakeup
  BY DEF Init, SessionInv, SubmitInv, ServiceInv, NoLostWakeup, InProgress
<1>3. NULL \notin Ids
  BY DEF Ids, NULL
<1>4. RequestsConserved
  BY <1>3 DEF Init, RequestsConserved, Unanswered, Member, Distinct
<1> QED
  BY <1>1, <1>2, <1>4 DEF IInv

\* Every step preserves the invariant.
LEMMA InvariantStep == IInv /\ [Next]_vars => IInv'
<1> SUFFICES ASSUME IInv, [Next]_vars PROVE IInv'
  OBVIOUS
<1>1. TypeOK'
  BY FlagsStep, DataStep DEF IInv, TypeOK
<1> QED
  BY <1>1, SessionStep, SubmitInvStep, ServiceStep, ConservedStep, WakeupStep DEF IInv

(* Without an open client session nothing is queued or being worked on. *)
LEMMA IdleIsEmpty ==
  ASSUME IInv, clientFile # "open"
  PROVE  queue = <<>> /\ pendingRequest = NULL /\ completing = NULL
<1>1. \A id \in Ids : ~Unanswered(id)
  BY DEF IInv, SessionInv, Unanswered, InProgress
<1>2. \A id \in Ids : ~Member(id, queue) /\ pendingRequest # id /\ completing # id
  BY <1>1 DEF IInv, RequestsConserved
<1>3. queue # <<>> => Head(queue) \in Ids /\ Member(Head(queue), queue)
  BY PopMembers, PopQueue DEF IInv, TypeOK, TypeData, RequestsConserved
<1> QED
  BY <1>2, <1>3 DEF IInv, TypeOK, TypeData

-----------------------------------------------------------------------------
(* The theorems *)

(* No request number, pointer or stage of the relay ever leaves its type.  *)
THEOREM TypeCorrect == Spec => []TypeOK
<1>1. Init => TypeOK
  BY TypeInit
<1>2. TypeOK /\ [Next]_vars => TypeOK'
  BY FlagsStep, DataStep DEF TypeOK
<1> QED
  BY <1>1, <1>2, PTL DEF Spec

(* The inductive invariant holds in every reachable state. *)
THEOREM InvariantHolds == Spec => []IInv
<1> QED
  BY InvariantInit, InvariantStep, PTL DEF Spec

(* However many clients submit and whenever the service stops, dies or     *)
(* restarts, a get IRP never sleeps on a nonempty queue that nobody will   *)
(* announce.                                                               *)
THEOREM WakeupNeverLost == Spec => []NoLostWakeup
<1>1. IInv => NoLostWakeup
  BY DEF IInv, NoLostWakeup
<1> QED
  BY <1>1, InvariantHolds, PTL

(* Every unanswered client IRP has exactly one request, in exactly one     *)
(* place.                                                                  *)
THEOREM NoRequestLostOrDuplicated == Spec => []RequestsConserved
<1>1. IInv => RequestsConserved
  BY DEF IInv, RequestsConserved
<1> QED
  BY <1>1, InvariantHolds, PTL

(* The unguarded dereference of PendingRequest in ServiceIrpPost is safe.  *)
THEOREM PostNeverDereferencesNull == Spec => []PostFindsRequest
<1>1. IInv => PostFindsRequest
  BY DEF IInv, ServiceInv, PostFindsRequest
<1> QED
  BY <1>1, InvariantHolds, PTL

(* Cancellation, thread termination and submits never complete a get IRP   *)
(* twice, nor leave it to each other.                                      *)
THEOREM GetIrpCompletedOnce == Spec => []GetCompletedOnce
<1>1. IInv => GetCompletedOnce
  BY DEF IInv, ServiceInv, GetCompletedOnce
<1> QED
  BY <1>1, InvariantHolds, PTL

(* PendingIrp never points to a get IRP that has been completed. *)
THEOREM PendingIrpNeverDangles == Spec => []PendingIrpLive
<1>1. IInv => PendingIrpLive
  BY DEF IInv, ServiceInv, PendingIrpLive
<1> QED
  BY <1>1, InvariantHolds, PTL

(* After a deregister returns no callback of that session is running. *)
THEOREM DeregisterMeansQuiet == Spec => []DeregisterQuiesces
<1>1. IInv => DeregisterQuiesces
  BY DEF IInv, SessionInv, DeregisterQuiesces
<1> QED
  BY <1>1, InvariantHolds, PTL

(* The assertions of RqUninitialize and ServiceUninitialize hold. *)
THEOREM UnloadFindsNothing == Spec => []UnloadClean
<1>1. IInv => UnloadClean
  <2> SUFFICES ASSUME IInv, ~loaded PROVE UnloadClean
    BY DEF UnloadClean
  <2>1. clientFile = "none" /\ svc = "down" /\ ~clientReg /\ ~serviceReg /\ ~pendingIrp
    BY DEF IInv, SessionInv, ServiceInv
  <2>2. queue = <<>> /\ pendingRequest = NULL
    BY <2>1, IdleIsEmpty
  <2> QED
    BY <2>1, <2>2 DEF UnloadClean
<1> QED
  BY <1>1, InvariantHolds, PTL

-----------------------------------------------------------------------------
(* Refinement *)

\* The initial states are those of the promise.
LEMMA PromiseInit == Init => Promise!Init
BY DEF Init, Promise!Init

\* A step is a step of the promise or changes nothing it speaks of.
LEMMA PromiseStep == IInv /\ [Next]_vars => [Promise!Next]_Promise!vars
<1> SUFFICES ASSUME IInv, [Next]_vars PROVE [Promise!Next]_Promise!vars
  OBVIOUS
<1> USE DEF IInv, TypeOK, TypeData, clientRq, serviceRq, rqVars, clientVars,
        getVars, reqVars, svcVars, faults, svcRest
<1> DEFINE Working == {pendingRequest, completing} \ {NULL}
           Done == {id \in Ids : output[id] # NULL}
           Stutter == UNCHANGED <<queue, Working, Done>>
<1>0. ASSUME Stutter PROVE [Promise!Next]_Promise!vars
  BY <1>0 DEF Promise!vars
<1>1. CASE DriverEntry
  <2>1. queue = <<>> /\ Working = {}
    BY <1>1, IdleIsEmpty DEF DriverEntry, SessionInv
  <2>2. queue' = <<>> /\ Working' = {} /\ Done' = {}
    BY <1>1, <2>1 DEF DriverEntry
  <2>3. Promise!Reload
    BY <2>1, <2>2 DEF Promise!Reload
  <2> QED
    BY <2>3 DEF Promise!Next
<1>2. ASSUME NEW id \in Ids, RqClientPushRequest(id) PROVE [Promise!Next]_Promise!vars
  <2>1. UNCHANGED <<Working, Done>>
    BY <1>2 DEF RqClientPushRequest
  <2>2. CASE RundownAcquired(serviceReg, serviceRun)
    <3>1. queue' = Append(queue, id)
      BY <1>2, <2>2 DEF RqClientPushRequest, InsertTail
    <3>2. ~Unanswered(id) /\ output[id] = NULL
      BY <1>2 DEF RqClientPushRequest, SubmitInv, Unanswered
    <3>3. id \notin Promise!Submitted
      BY <3>2 DEF RequestsConserved, Promise!Submitted, Member
    <3>4. Promise!Submit(id)
      BY <2>1, <3>1, <3>3 DEF Promise!Submit
    <3> QED
      BY <3>4 DEF Promise!Next
  <2>3. CASE ~RundownAcquired(serviceReg, serviceRun)
    BY <1>0, <1>2, <2>1, <2>3 DEF RqClientPushRequest
  <2> QED
    BY <2>2, <2>3
<1>3. ASSUME NEW id \in Ids, ServiceRequestAvailable(id) PROVE [Promise!Next]_Promise!vars
  <2>1. Done' = Done
    BY <1>3 DEF ServiceRequestAvailable
  <2>2. CASE pendingIrp /\ queue # <<>>
    <3>1. pendingRequest = NULL /\ completing = NULL /\ completing' = NULL
      BY <1>3, <2>2 DEF ServiceRequestAvailable, ServiceInv
    <3>2. pendingRequest' = Head(queue) /\ queue' = Tail(queue) /\ Head(queue) # NULL
      BY <1>3, <2>2, HeadIsRequest DEF ServiceRequestAvailable, RqServicePopRequest
    <3>3. Promise!Take
      BY <2>1, <2>2, <3>1, <3>2 DEF Promise!Take
    <3> QED
      BY <3>3 DEF Promise!Next
  <2>3. CASE ~(pendingIrp /\ queue # <<>>)
    BY <1>0, <1>3, <2>1, <2>3 DEF ServiceRequestAvailable
  <2> QED
    BY <2>2, <2>3
<1>4. CASE ServiceIrpGetPop
  <2>1. pendingRequest = NULL /\ completing = NULL /\ completing' = NULL
    BY <1>4 DEF ServiceIrpGetPop, GetRefused, ServiceInv
  <2>2. /\ queue # <<>> /\ Head(queue) # NULL
        /\ pendingRequest' = Head(queue) /\ queue' = Tail(queue)
        /\ Done' = Done
    BY <1>4, HeadIsRequest DEF ServiceIrpGetPop, RqServicePopRequest
  <2>3. Promise!Take
    BY <2>1, <2>2 DEF Promise!Take
  <2> QED
    BY <2>3 DEF Promise!Next
<1>5. CASE ServiceIrpPost
  <2>1. Working' = Working
    BY <1>5 DEF ServiceIrpPost, ServiceInv
  <2> QED
    BY <1>0, <1>5, <2>1 DEF ServiceIrpPost
<1>6. CASE RqServiceCompleteRequest
  <2>1. RundownAcquired(clientReg, clientRun)
    BY <1>6, CompletingUnanswered DEF RqServiceCompleteRequest, RundownAcquired, SessionInv
  <2> QED
    BY <1>0, <1>6, <2>1 DEF RqServiceCompleteRequest
<1>7. CASE ClientRequestComplete
  <2>1. completing \in Ids /\ completing = svcId /\ svcId # NULL /\ pendingRequest = NULL
    BY <1>7 DEF ClientRequestComplete, ServiceInv, RequestsConserved
  <2>2. Working = {completing} /\ Working' = {} /\ queue' = queue
    BY <1>7, <2>1 DEF ClientRequestComplete
  <2>3. Done' = Done \cup {completing}
    BY <1>7, <2>1 DEF ClientRequestComplete
  <2>4. PICK c \in Ids : c = completing
    BY <2>1
  <2>5. Promise!Answer(c)
    BY <2>2, <2>3, <2>4 DEF Promise!Answer
  <2> QED
    BY <2>5 DEF Promise!Next
<1>8. CASE UNCHANGED <<queue, pendingRequest, completing, output>>
  BY <1>0, <1>8
<1>9. \/ DriverEntry \/ ServiceIrpGetPop \/ ServiceIrpPost \/ RqServiceCompleteRequest
      \/ ClientRequestComplete
      \/ (\E id \in Ids : RqClientPushRequest(id) \/ ServiceRequestAvailable(id))
      \/ UNCHANGED <<queue, pendingRequest, completing, output>>
  BY DEF Next, vars, DriverNext, ClientNext, SubmitNext, ServiceThread, DriverUnload,
     ClientIrpCreate, ClientIrpSubmit, ClientIrpClose, RqClientDeregister,
     RqClientPushNoMemory, ExReleaseRundownProtection, IoMarkIrpPending, DoServiceWork,
     IssueGet, ServiceIrpGetRefused, ServiceIrpGetPend, RunCommand,
     RqServiceReleaseClient, TerminateCancelIo, TerminateThread, ServiceIrpClose,
     RqServiceDeregister, ServiceIrpCreate, ServiceCancelGet, SvcCtrlHandlerStop,
     SvcCtrlHandlerCancelIo, Terminate, IoCancelIrp
<1> QED
  BY <1>1, <1>2, <1>3, <1>4, <1>5, <1>6, <1>7, <1>8, <1>9

(* The relay implements the first-in first-out, one-at-a-time,             *)
(* answered-at-most-once queue, whatever stops, terminations, restarts,    *)
(* session closes and reloads happen.                                      *)
THEOREM RelayImplementsQueue == Spec => PromiseSpec
<1> QED
  BY PromiseInit, PromiseStep, InvariantHolds, PTL DEF Spec, PromiseSpec, Promise!Spec
=============================================================================

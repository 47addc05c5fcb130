---------------------------- MODULE MpExclusive -----------------------------
(***************************************************************************)
(* The exclusive handle of a miniport adapter (exclusive.c): one open at a *)
(* time owns the adapter's NDIS ports (port.c) and its OID filter, which   *)
(* pends the requests of NDIS that match until user mode, the watchdog or  *)
(* the close of the handle completes them (oid.c).                         *)
(*                                                                         *)
(* A section under Adapter->Lock or Adapter->PushLock is one action; what  *)
(* a thread does after it drops the lock, calls into NDIS first of all, is *)
(* a later action of that thread.                                          *)
(***************************************************************************)
EXTENDS Naturals, Sequences, FiniteSets

CONSTANTS
    Handles,    \* the opens of the exclusive handle, refused ones included
    Clients,    \* the threads that open, close and send IOCTLs
    Ports,      \* the port numbers NDIS hands out
    Requests,   \* the OID requests of NDIS
    Keys,       \* the OID_KEYs: OID, request type, port and interface
    Key,        \* request -> its key
    Interface,  \* key -> "regular" or "direct"
    Filters,    \* the sets of keys user mode sets as filter
    Watchdog,   \* the FN_TIMER thread of the adapter
    NoHandle, NoPort

Interfaces == {"regular", "direct"}
Workers == Clients \cup {Watchdog}

ASSUME MpExclusiveAssumption ==
    /\ Key \in [Requests -> Keys] /\ Interface \in [Keys -> Interfaces]
    /\ Filters \subseteq (SUBSET Keys) \ {{}}
    /\ NoHandle \notin Handles /\ NoPort \notin Ports /\ Watchdog \notin Clients
    /\ Interfaces \cap Workers = {}

VARIABLES
    UserContext,    \* Adapter->UserContext, the owner
    file,           \* handle -> "none", "open", "closing" or "refused"
    SetOidFilter,   \* the handles whose UserContext->SetOidFilter is TRUE
    PortList,       \* Adapter->PortList, a sequence of port numbers
    State,          \* port -> PortEntry->State, "none" without an entry
    ndis,           \* port -> NDIS's view: "free", "allocated" or "active"
    OidFilterKeys,  \* Adapter->OidFilterKeys, {} for NULL
    Filtered,       \* interface -> FilteredOidRequestLists[Interface]
    late,           \* the pended requests older than the grace period
    outstanding,    \* the requests NDIS waits for
    work,           \* thread -> what it still does outside the locks
    asserted        \* the assertion that failed, or "none"

portVars == <<PortList, State, ndis>>
oidVars == <<OidFilterKeys, Filtered, late, outstanding>>
ownVars == <<UserContext, file, SetOidFilter>>
vars == <<ownVars, portVars, oidVars, work, asserted>>

Idle == [pc |-> "idle", on |-> NoHandle, port |-> NoPort, reqs |-> <<>>]
At(pc, h, p) == [pc |-> pc, on |-> h, port |-> p, reqs |-> <<>>]

Init ==
    /\ UserContext = NoHandle
    /\ file = [h \in Handles |-> "none"]
    /\ SetOidFilter = {}
    /\ PortList = <<>>
    /\ State = [p \in Ports |-> "none"]
    /\ ndis = [p \in Ports |-> "free"]
    /\ OidFilterKeys = {}
    /\ Filtered = [i \in Interfaces |-> <<>>]
    /\ late = {}
    /\ outstanding = {}
    /\ work = [w \in Workers |-> Idle]
    /\ asserted = "none"

Running(w, pc) == asserted = "none" /\ work[w].pc = pc
Goto(w, pc) == work' = [work EXCEPT ![w].pc = pc]
Return(w) == work' = [work EXCEPT ![w] = Idle]

-----------------------------------------------------------------------------
(* Opening: the first open becomes the owner, a later one is refused with    *)
(* STATUS_DUPLICATE_OBJECTID and cleans its context up like a closed one.    *)

ExclusiveIrpCreate(c, h) ==
    /\ Running(c, "idle")
    /\ file[h] = "none"
    /\ IF UserContext = NoHandle
       THEN /\ UserContext' = h
            /\ file' = [file EXCEPT ![h] = "open"]
            /\ UNCHANGED work
       ELSE /\ file' = [file EXCEPT ![h] = "refused"]
            /\ work' = [work EXCEPT ![c] = At("ports", h, NoPort)]
            /\ UNCHANGED UserContext
    /\ UNCHANGED <<SetOidFilter, portVars, oidVars, asserted>>

(* Client c sends an IOCTL on handle h. *)
Ready(c, h) == Running(c, "idle") /\ file[h] = "open"

(* IRP_MJ_CLOSE comes once no IOCTL is in progress on the file object. *)
ExclusiveIrpClose(c, h) ==
    /\ Ready(c, h)
    /\ \A d \in Clients : work[d].on # h
    /\ file' = [file EXCEPT ![h] = "closing"]
    /\ work' = [work EXCEPT ![c] = At("ports", h, NoPort)]
    /\ UNCHANGED <<UserContext, SetOidFilter, portVars, oidVars, asserted>>

(* After the ports: flush the OIDs if this context set the filter. *)
AfterPorts_NoFlush(h) == "release"

AfterPorts(h) == IF h \in SetOidFilter THEN "flush" ELSE "release"

(* The end of ExclusiveCleanup: the owner is cleared only by itself. *)
ExclusiveCleanup(c) ==
    LET h == work[c].on IN
    /\ Running(c, "release")
    /\ UserContext' = IF UserContext = h THEN NoHandle ELSE UserContext
    /\ file' = [file EXCEPT ![h] = "none"]
    /\ SetOidFilter' = SetOidFilter \ {h}
    /\ Return(c)
    /\ UNCHANGED <<portVars, oidVars, asserted>>

-----------------------------------------------------------------------------
(* Ports.  NDIS may refuse to allocate, activate or deactivate one; it frees *)
(* any port that is allocated and not active.                                *)

(* NdisMAllocatePort has returned a number, which goes in the list later. *)
MpIrpAllocatePort(c, h, p) ==
    /\ Ready(c, h)
    /\ ndis[p] = "free"
    /\ ndis' = [ndis EXCEPT ![p] = "allocated"]
    /\ work' = [work EXCEPT ![c] = At("insert", h, p)]
    /\ UNCHANGED <<ownVars, PortList, State, oidVars, asserted>>

MpInsertPort(c) ==
    LET p == work[c].port IN
    /\ Running(c, "insert")
    /\ PortList' = Append(PortList, p)
    /\ State' = [State EXCEPT ![p] = "allocated"]
    /\ Return(c)
    /\ UNCHANGED <<ownVars, ndis, oidVars, asserted>>

(* Where the entry of p is in the list, if it is in one of the states. *)
MpFindPortEntry(p, states) ==
    {i \in DOMAIN PortList : PortList[i] = p /\ State[p] \in states}

RemoveEntryList(s, i) == SubSeq(s, 1, i - 1) \o SubSeq(s, i + 1, Len(s))

(* NdisMFreePort and MpFreePortEntry for the ports of ps, list being left. *)
MpFreePort(ps, list) ==
    /\ ndis' = [p \in Ports |-> IF p \in ps THEN "free" ELSE ndis[p]]
    /\ PortList' = list

(* A free that does not look at the state of the port. *)
MpIrpFreePort_AnyState(c, h, p) ==
    /\ Ready(c, h)
    /\ \E i \in MpFindPortEntry(p, {"allocated", "activating", "activated", "deactivating"}) :
           MpFreePort({p}, RemoveEntryList(PortList, i))
    /\ State' = [State EXCEPT ![p] = "none"]
    /\ UNCHANGED <<ownVars, oidVars, work, asserted>>

MpIrpFreePort(c, h, p) ==
    /\ Ready(c, h)
    /\ \E i \in MpFindPortEntry(p, {"allocated"}) : MpFreePort({p}, RemoveEntryList(PortList, i))
    /\ State' = [State EXCEPT ![p] = "none"]
    /\ UNCHANGED <<ownVars, oidVars, work, asserted>>

MpIrpActivatePort(c, h, p) ==
    /\ Ready(c, h)
    /\ MpFindPortEntry(p, {"allocated"}) # {}
    /\ State' = [State EXCEPT ![p] = "activating"]
    /\ work' = [work EXCEPT ![c] = At("activate", h, p)]
    /\ UNCHANGED <<ownVars, PortList, ndis, oidVars, asserted>>

(* A refused activation that leaves the port as if it had succeeded. *)
MpActivatePortDone_IgnoresStatus(c, ok) ==
    LET p == work[c].port IN
    /\ Running(c, "activate")
    /\ ndis' = [ndis EXCEPT ![p] = IF ok THEN "active" ELSE @]
    /\ State' = [State EXCEPT ![p] = "activated"]
    /\ Return(c)
    /\ UNCHANGED <<ownVars, PortList, oidVars, asserted>>

(* NdisMNetPnPEvent has returned and the lock is taken again. *)
MpActivatePortDone(c, ok) ==
    LET p == work[c].port IN
    /\ Running(c, "activate")
    /\ ndis' = [ndis EXCEPT ![p] = IF ok THEN "active" ELSE @]
    /\ State' = [State EXCEPT ![p] = IF ok THEN "activated" ELSE "allocated"]
    /\ Return(c)
    /\ UNCHANGED <<ownVars, PortList, oidVars, asserted>>

MpIrpDeactivatePort(c, h, p) ==
    /\ Ready(c, h)
    /\ MpFindPortEntry(p, {"activated"}) # {}
    /\ State' = [State EXCEPT ![p] = "deactivating"]
    /\ work' = [work EXCEPT ![c] = At("deactivate", h, p)]
    /\ UNCHANGED <<ownVars, PortList, ndis, oidVars, asserted>>

MpDeactivatePortDone(c, ok) ==
    LET p == work[c].port IN
    /\ Running(c, "deactivate")
    /\ ndis' = [ndis EXCEPT ![p] = IF ok THEN "allocated" ELSE @]
    /\ State' = [State EXCEPT ![p] = IF ok THEN "allocated" ELSE "activated"]
    /\ Return(c)
    /\ UNCHANGED <<ownVars, PortList, oidVars, asserted>>

(* The loop of MpPortCleanup: the ports of gone are freed, which leaves list; *)
(* then n heads of it are freed too, until it is empty, or a head must be     *)
(* deactivated first, which drops the lock, or a head is in a state that the  *)
(* assertion excludes.                                                        *)
CleanupLoop(c, gone, list) ==
    \E n \in 0 .. Len(list) :
        LET head == list[n + 1]
            freed == gone \cup {list[i] : i \in 1 .. n}
            cleared == [p \in Ports |-> IF p \in freed THEN "none" ELSE State[p]] IN
        /\ \A i \in 1 .. n : State[list[i]] = "allocated"
        /\ MpFreePort(freed, SubSeq(list, n + 1, Len(list)))
        /\ \/ /\ n = Len(list)
              /\ State' = cleared
              /\ work' = [work EXCEPT ![c] = At(AfterPorts(@.on), @.on, NoPort)]
              /\ UNCHANGED asserted
           \/ /\ n < Len(list)
              /\ State[head] = "activated"
              /\ State' = [cleared EXCEPT ![head] = "deactivating"]
              /\ work' = [work EXCEPT ![c] = At("deactivated", @.on, head)]
              /\ UNCHANGED asserted
           \/ /\ n < Len(list)
              /\ State[head] \notin {"allocated", "activated"}
              /\ State' = cleared
              /\ asserted' = "MpPortCleanup: State"
              /\ UNCHANGED work

MpPortCleanup(c) ==
    /\ Running(c, "ports")
    /\ CleanupLoop(c, {}, PortList)
    /\ UNCHANGED <<ownVars, oidVars>>

(* NDIS has answered the deactivation of a port: FRE_ASSERT, then free it. *)
MpPortCleanupDeactivated(c, ok) ==
    /\ Running(c, "deactivated")
    /\ IF ok
       THEN \E i \in MpFindPortEntry(work[c].port, {"deactivating"}) :
               CleanupLoop(c, {work[c].port}, RemoveEntryList(PortList, i))
       ELSE asserted' = "MpPortCleanup: MpDeactivatePort" /\ UNCHANGED <<portVars, work>>
    /\ UNCHANGED <<ownVars, oidVars>>

-----------------------------------------------------------------------------
(* The OID filter. *)

MpIrpOidSetFilter(c, h, keys) ==
    /\ Ready(c, h)
    /\ OidFilterKeys = {}
    /\ OidFilterKeys' = keys
    /\ SetOidFilter' = SetOidFilter \cup {UserContext}
    /\ UNCHANGED <<UserContext, file, portVars, Filtered, late, outstanding, work, asserted>>

(* A request of NDIS matches the filter and its entry could be allocated.    *)
(* NDIS sends a miniport one regular request at a time, and any number of    *)
(* direct ones.                                                              *)
MpFilterOid(r) ==
    LET i == Interface[Key[r]] IN
    /\ asserted = "none"
    /\ r \notin outstanding
    /\ i = "regular" => \A q \in outstanding : Interface[Key[q]] = "direct"
    /\ Key[r] \in OidFilterKeys
    /\ outstanding' = outstanding \cup {r}
    /\ Filtered' = [Filtered EXCEPT ![i] = Append(@, r)]
    /\ UNCHANGED <<ownVars, portVars, OidFilterKeys, late, work, asserted>>

(* The head of the list of the key's interface, if it has the key. *)
MpOidFindFilteredOidByKey(k) ==
    LET list == Filtered[Interface[k]] IN
    IF list # <<>> /\ Key[Head(list)] = k THEN {Head(list)} ELSE {}

(* A completion that leaves the request in the list. *)
MpIrpOidCompleteRequest_KeepsEntry(c, h, k) ==
    \E r \in MpOidFindFilteredOidByKey(k) :
        /\ Ready(c, h)
        /\ work' = [work EXCEPT ![c] = [At("complete", h, NoPort) EXCEPT !.reqs = <<r>>]]
        /\ UNCHANGED <<ownVars, portVars, oidVars, asserted>>

MpIrpOidCompleteRequest(c, h, k) ==
    \E r \in MpOidFindFilteredOidByKey(k) :
        /\ Ready(c, h)
        /\ Filtered' = [Filtered EXCEPT ![Interface[k]] = Tail(@)]
        /\ late' = late \ {r}
        /\ work' = [work EXCEPT ![c] = [At("complete", h, NoPort) EXCEPT !.reqs = <<r>>]]
        /\ UNCHANGED <<ownVars, portVars, OidFilterKeys, outstanding, asserted>>

AfterCompletion(w) ==
    IF work[w].on # NoHandle /\ file[work[w].on] = "closing"
    THEN At("release", work[w].on, NoPort) ELSE Idle

(* Whether the answer is user mode's or the miniport's own (a status of      *)
(* NDIS_STATUS_PENDING), the request goes back to NDIS.                      *)
MpOidCompleteRequest(w) ==
    LET reqs == work[w].reqs IN
    /\ Running(w, "complete")
    /\ outstanding' = outstanding \ {Head(reqs)}
    /\ work' = [work EXCEPT ![w] = IF Len(reqs) = 1 THEN AfterCompletion(w)
                                   ELSE [@ EXCEPT !.reqs = Tail(reqs)]]
    /\ UNCHANGED <<ownVars, portVars, OidFilterKeys, Filtered, late, asserted>>

MpOidClearFilterAndFlush(w) ==
    LET reqs == Filtered["regular"] \o Filtered["direct"] IN
    /\ Running(w, "flush")
    /\ OidFilterKeys' = {}
    /\ Filtered' = [i \in Interfaces |-> <<>>]
    /\ late' = {}
    /\ work' = [work EXCEPT ![w] = IF reqs = <<>> THEN AfterCompletion(w)
                                   ELSE [@ EXCEPT !.pc = "complete", !.reqs = reqs]]
    /\ UNCHANGED <<ownVars, portVars, outstanding, asserted>>

-----------------------------------------------------------------------------
(* The watchdog tests for an expired request in one lock section and clears  *)
(* the filter in another.                                                    *)

Age ==
    LET pended == UNION {{Filtered[i][j] : j \in DOMAIN Filtered[i]} : i \in Interfaces} IN
    /\ asserted = "none"
    /\ late # pended
    /\ late' = pended
    /\ UNCHANGED <<ownVars, portVars, OidFilterKeys, Filtered, outstanding, work, asserted>>

(* A watchdog that looks at the regular interface only. *)
MpOidWatchdogIsExpired_OneInterface == \E r \in late : Interface[Key[r]] = "regular"

MpOidWatchdogIsExpired == late # {}

ExclusiveWatchdogTimeout ==
    /\ Running(Watchdog, "idle")
    /\ MpOidWatchdogIsExpired
    /\ Goto(Watchdog, "flush")
    /\ UNCHANGED <<ownVars, portVars, oidVars, asserted>>

-----------------------------------------------------------------------------
ExclusiveIrpDeviceIoControl(c, h) ==
    \/ \E keys \in Filters : MpIrpOidSetFilter(c, h, keys)
    \/ \E k \in Keys : MpIrpOidCompleteRequest(c, h, k)
    \/ \E p \in Ports : \/ MpIrpAllocatePort(c, h, p)
                        \/ MpIrpFreePort(c, h, p)
                        \/ MpIrpActivatePort(c, h, p)
                        \/ MpIrpDeactivatePort(c, h, p)

(* A thread goes on after a lock section or a call into NDIS. *)
Step(w) ==
    \/ MpInsertPort(w)
    \/ \E ok \in BOOLEAN : \/ MpActivatePortDone(w, ok)
                           \/ MpDeactivatePortDone(w, ok)
                           \/ MpPortCleanupDeactivated(w, ok)
    \/ MpPortCleanup(w)
    \/ MpOidClearFilterAndFlush(w)
    \/ MpOidCompleteRequest(w)
    \/ ExclusiveCleanup(w)

Finished == asserted # "none" /\ UNCHANGED vars

Next ==
    \/ \E c \in Clients, h \in Handles : \/ ExclusiveIrpCreate(c, h)
                                         \/ ExclusiveIrpDeviceIoControl(c, h)
                                         \/ ExclusiveIrpClose(c, h)
    \/ \E w \in Workers : Step(w)
    \/ \E r \in Requests : MpFilterOid(r)
    \/ Age
    \/ ExclusiveWatchdogTimeout
    \/ Finished

Spec == Init /\ [][Next]_vars

(* Threads in the driver and the NDIS calls they make go on, time passes and *)
(* the timer fires every second.  Clients and NDIS owe nothing.              *)
Fairness ==
    /\ \A w \in Workers : WF_vars(Step(w))
    /\ WF_vars(Age)
    /\ WF_vars(ExclusiveWatchdogTimeout)

FairSpec == Spec /\ Fairness

-----------------------------------------------------------------------------
PCs == {"idle", "ports", "deactivated", "flush", "complete", "release",
        "insert", "activate", "deactivate"}

WorkRecords ==
    [pc : PCs, on : Handles \cup {NoHandle}, port : Ports \cup {NoPort}, reqs : Seq(Requests)]

(* The types. *)
TypeOK ==
    /\ UserContext \in Handles \cup {NoHandle}
    /\ file \in [Handles -> {"none", "open", "closing", "refused"}]
    /\ SetOidFilter \in SUBSET Handles
    /\ PortList \in Seq(Ports)
    /\ State \in [Ports -> {"none", "allocated", "activating", "activated", "deactivating"}]
    /\ ndis \in [Ports -> {"free", "allocated", "active"}]
    /\ OidFilterKeys \in SUBSET Keys
    /\ Filtered \in [Interfaces -> Seq(Requests)]
    /\ outstanding \in SUBSET Requests
    /\ late \in SUBSET outstanding
    /\ work \in [Workers -> WorkRecords]
    /\ asserted \in {"none", "MpPortCleanup: State", "MpPortCleanup: MpDeactivatePort"}

(* The requests in a list and in a thread's hands. *)
Held == [x \in Interfaces \cup Workers |->
            IF x \in Interfaces THEN Filtered[x] ELSE work[x].reqs]

(* The places where request r is. *)
Links(r) ==
    UNION {{x} \X {j \in DOMAIN Held[x] : Held[x][j] = r} : x \in Interfaces \cup Workers}

(* A request NDIS waits for is in exactly one place and any other in none:   *)
(* user mode, the watchdog and the close complete it exactly once between    *)
(* them (MpIrpOidCompleteRequest, MpOidClearFilterAndFlush).                 *)
OidsConserved ==
    \A r \in Requests : Cardinality(Links(r)) = IF r \in outstanding THEN 1 ELSE 0

(* An entry that a thread goes on using after it dropped PushLock for a call *)
(* into NDIS is still in PortList, in the transient state it left, and no    *)
(* other thread uses it (MpIrpActivatePort, MpDeactivatePort).               *)
EntryOutlivesCall ==
    asserted = "none" =>
    \A w \in Workers : work[w].pc \in {"activate", "deactivate", "deactivated"} =>
        /\ \E i \in DOMAIN PortList : PortList[i] = work[w].port
        /\ State[work[w].port] = IF work[w].pc = "activate" THEN "activating" ELSE "deactivating"
        /\ \A v \in Workers \ {w} : work[v].port # work[w].port

(* PortList records what NDIS has: a port NDIS has allocated is listed once, *)
(* or about to be, and outside a transition NDIS and the entry agree on      *)
(* whether it is active.                                                     *)
PortsMatchNdis ==
    \A p \in Ports :
        /\ Cardinality({i \in DOMAIN PortList : PortList[i] = p})
             + Cardinality({w \in Workers : work[w].pc = "insert" /\ work[w].port = p})
           = IF ndis[p] = "free" THEN 0 ELSE 1
        /\ State[p] = "activated" => ndis[p] = "active"
        /\ State[p] = "allocated" => ndis[p] = "allocated"

(* An adapter without an owner has no port and no filter, and pends no       *)
(* request: what a handle set up never outlives its close, although refused  *)
(* opens and the watchdog clear the same state (ExclusiveCleanup).           *)
OwnerLeavesNothing ==
    UserContext = NoHandle =>
        /\ PortList = <<>> /\ \A p \in Ports : ndis[p] = "free"
        /\ OidFilterKeys = {} /\ \A i \in Interfaces : Filtered[i] = <<>>

(* ASSERT(PortEntry->State == FnPortStateAllocated || PortEntry->State ==    *)
(* FnPortStateActivated) of MpPortCleanup.                                   *)
CleanupMeetsSettledPorts == asserted # "MpPortCleanup: State"

(* Every OID request the filter pends is completed in the end, although user *)
(* mode never completes it and later requests wait behind the head of their  *)
(* list: the watchdog flushes both lists.                                    *)
PendedCompletes == \A r \in Requests : r \in outstanding ~> r \notin outstanding \/ asserted # "none"

=============================================================================

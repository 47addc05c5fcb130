------------------------------ MODULE MpConfig ------------------------------
(***************************************************************************)
(* The configuration of a miniport adapter that clients and NDIS change    *)
(* while it runs: the task offloads (current and hardware capabilities)    *)
(* and the MTU.  Each change is made under Adapter->PushLock, or under no  *)
(* lock for the MTU, and indicated to NDIS after that, so two changes can  *)
(* overlap.  NDIS also sets the RSS indirection table, from which each     *)
(* queue takes its processor.                                              *)
(***************************************************************************)
EXTENDS Integers, Sequences, FiniteSets

CONSTANTS
    Clients,        \* threads that send IOCTLs on shared handles
    OidThread,      \* the thread on which NDIS sends its OID requests
    Stores,         \* OffloadConfig, OffloadCapabilities
    Checksums,      \* the checksum offload fields of ADAPTER_OFFLOAD
    Segmentations,  \* the LsoV2 and Uso fields
    Revision,       \* field -> the NDIS_OFFLOAD_PARAMETERS revision that has it
    Parameters,     \* the NDIS_OFFLOAD_PARAMETERS that are set
    Registries,     \* the contents of the registry: a field -> a value
    GsoSizes,       \* the sizes FN_OFFLOAD_OPTIONS sets
    RssTables,      \* the indirection tables NDIS sets
    NumRssQueues,   \* Adapter->NumRssQueues
    Mtus,           \* the MTUs in FNMP_MIN_MTU..FNMP_MAX_MTU that are set
    DefaultGso,     \* FNMP_DEFAULT_MAX_GSO_SIZE
    MaxRssQueues,   \* MAX_RSS_QUEUES, 64
    HashFlag        \* 0x80000000, or'ed into every hash: no index reaches it

Switches == Segmentations \cup {"RscIPv4", "RscIPv6", "UdpRsc"}
Fields == Checksums \cup Switches
Topics == Stores \cup {"MtuSize"}

ETH_HDR_LEN == 14

ASSUME MpConfigAssumption ==
    /\ OidThread \notin Clients /\ "MtuSize" \notin Stores
    /\ Checksums \cap Switches = {}
    /\ Revision \in [Fields \ {"UdpRsc"} -> {1, 3, 5}]
    /\ \A reg \in Registries : DOMAIN reg \subseteq Fields

VARIABLES
    Offload,    \* store -> [value |-> field -> state, GsoMaxOffloadSize |-> size]
    MtuSize,    \* Adapter->MtuSize
    RssQueues,  \* queue -> its processor and the hash that selects it
    indicated,  \* topic -> what NDIS was last told
    work,       \* thread -> the call it is in
    clean       \* the topics whose last change succeeded and overlapped no other

vars == <<Offload, MtuSize, RssQueues, indicated, work, clean>>

Workers == Clients \cup {OidThread}
Idle == [pc |-> "idle", topic |-> "MtuSize", view |-> 0, alone |-> TRUE]

-----------------------------------------------------------------------------
(* Pure operators.  A parameter that is none of the listed values fails an   *)
(* assertion; a free build goes on and leaves the state as it is.            *)

MpUpdateChecksumParameter(state, parameter) ==
    CASE parameter = "NoChange" -> state
      [] parameter = "TxRxDisabled" -> 0
      [] parameter = "TxEnabledRxDisabled" -> 1
      [] parameter = "RxEnabledTxDisabled" -> 2
      [] parameter = "TxRxEnabled" -> 3
      [] OTHER -> state

MpUpdateOffloadParameter(state, parameter) ==
    CASE parameter = "NoChange" -> state
      [] parameter = "Disabled" -> 0
      [] parameter = "Enabled" -> 1
      [] OTHER -> state

(* MpSetOffloadParameters on the state: the fields of the revision's size. *)
Updated(value, p) ==
    [f \in Fields |->
        IF f = "UdpRsc" \/ Revision[f] > p.Revision THEN value[f]
        ELSE IF f \in Checksums THEN MpUpdateChecksumParameter(value[f], p[f])
        ELSE MpUpdateOffloadParameter(value[f], p[f])]

(* TRY_READ_INT_CONFIGURATION: a value that is not there changes nothing. *)
FromRegistry(value, reg) == [f \in Fields |-> IF f \in DOMAIN reg THEN reg[f] ELSE value[f]]

Valid(value) == \A f \in Fields : value[f] \in 0..(IF f \in Checksums THEN 3 ELSE 1)

Zeroed == [value |-> [f \in Fields |-> 0], GsoMaxOffloadSize |-> 0]

(* The NDIS_OFFLOAD of an ADAPTER_OFFLOAD: which directions a checksum is    *)
(* offloaded in, the size a segmentation offload accepts, and Rsc, whose     *)
(* IPv6 member is filled from RscIPv4.  UdpRsc is not reported.              *)
MpFillOffload(o) ==
    [checksum |-> [f \in Checksums |->
        {d \in {"Tx", "Rx"} : (o.value[f] \div (IF d = "Tx" THEN 1 ELSE 2)) % 2 = 1}],
     MaxOffLoadSize |-> [f \in Segmentations |->
        IF o.value[f] # 0 THEN o.GsoMaxOffloadSize ELSE 0],
     Rsc |-> [f \in {"RscIPv4", "RscIPv6"} |-> o.value["RscIPv4"] # 0]]

-----------------------------------------------------------------------------
(* MpReadConfiguration and MpSetOffloadAttributes, when the adapter starts. *)
Init ==
    /\ Offload \in [Stores ->
            {[value |-> FromRegistry(Zeroed.value, reg), GsoMaxOffloadSize |-> DefaultGso] :
                reg \in {r \in Registries : Valid(FromRegistry(Zeroed.value, r))}}]
    /\ MtuSize = (CHOOSE m \in Mtus : \A n \in Mtus : n <= m) - ETH_HDR_LEN
    /\ RssQueues = [i \in 1..NumRssQueues |-> [proc |-> 0, hash |-> 0]]
    /\ indicated = [t \in Topics |-> IF t \in Stores THEN MpFillOffload(Offload[t]) ELSE MtuSize]
    /\ work = [w \in Workers |-> Idle]
    /\ clean = Topics

(* Thread w, in no call or in one about topic t at pc, takes a step that     *)
(* leaves it at next.  Calls that are in progress together overlap.          *)
Moves(w, t, pc, next, view) ==
    LET others == {v \in Workers \ {w} : work[v].pc # "idle"} IN
    /\ \/ work[w].pc = "idle"
       \/ work[w].pc = pc /\ work[w].topic = t
    /\ work' = [v \in Workers |->
            IF v = w /\ next = "idle" THEN Idle
            ELSE IF v = w THEN [pc |-> next, topic |-> t, view |-> view,
                                alone |-> work[w].alone /\ others = {}]
            ELSE IF v \in others THEN [work[v] EXCEPT !.alone = FALSE] ELSE work[v]]
    /\ clean' = clean \ {t}

(* SharedIrpUpdateTaskOffload with OffloadOptions begins with those. *)
UpdateOffloadOptions(c, s, size) ==
    /\ work[c].pc = "idle"
    /\ Moves(c, s, "idle", "update", 0)
    /\ Offload' = [Offload EXCEPT ![s].GsoMaxOffloadSize = size]
    /\ UNCHANGED <<MtuSize, RssQueues, indicated>>

(* MpSetOffloadParameters, from an IOCTL, after the options if there are     *)
(* any, or from OID_TCP_OFFLOAD_(HW_)PARAMETERS: the section under PushLock. *)
MpSetOffloadParameters(w, s, p) ==
    /\ Moves(w, s, "update", "fill", 0)
    /\ Offload' = [Offload EXCEPT ![s].value = Updated(@, p)]
    /\ UNCHANGED <<MtuSize, RssQueues, indicated>>

(* The parameters are too short, or the configuration cannot be opened: the  *)
(* call ends with the options set and nothing indicated.                     *)
UpdateFails(c, s) ==
    /\ work[c].pc = "update" /\ work[c].topic = s
    /\ work' = [work EXCEPT ![c] = Idle]
    /\ UNCHANGED <<Offload, MtuSize, RssQueues, indicated, clean>>

(* Without parameters the store is read from the registry; an invalid value  *)
(* zeroes it, and the call fails without an indication.                      *)
MpReadOffload(c, s, reg) ==
    LET read == FromRegistry(Offload[s].value, reg) IN
    /\ Moves(c, s, "update", IF Valid(read) THEN "fill" ELSE "idle", 0)
    /\ Offload' = [Offload EXCEPT ![s] = IF Valid(read) THEN [@ EXCEPT !.value = read] ELSE Zeroed]
    /\ UNCHANGED <<MtuSize, RssQueues, indicated>>

(* The indication is built before the state changes. *)
FillOffload_BeforeUpdate(w) ==
    /\ work[w].pc = "fill"
    /\ work' = [work EXCEPT ![w].pc = "indicate", ![w].view = indicated[work[w].topic]]
    /\ UNCHANGED <<Offload, MtuSize, RssQueues, indicated, clean>>

(* MpFillOffload, under PushLock taken again, shared. *)
FillOffload(w) ==
    /\ work[w].pc = "fill"
    /\ work' = [work EXCEPT ![w].pc = "indicate", ![w].view = MpFillOffload(Offload[work[w].topic])]
    /\ UNCHANGED <<Offload, MtuSize, RssQueues, indicated, clean>>

MpIndicateStatus(w) ==
    /\ work[w].pc = "indicate"
    /\ indicated' = [indicated EXCEPT ![work[w].topic] = work[w].view]
    /\ clean' = IF work[w].alone THEN clean \cup {work[w].topic} ELSE clean
    /\ work' = [work EXCEPT ![w] = Idle]
    /\ UNCHANGED <<Offload, MtuSize, RssQueues>>

(* The MTU of the API includes the Ethernet header, that of NDIS does not. *)
SharedIrpSetMtu(c, mtu) ==
    /\ work[c].pc = "idle"
    /\ Moves(c, "MtuSize", "idle", "indicate", mtu - ETH_HDR_LEN)
    /\ MtuSize' = mtu - ETH_HDR_LEN
    /\ UNCHANGED <<Offload, RssQueues, indicated>>

SharedIrpUpdateTaskOffload(c, s) ==
    \/ \E size \in GsoSizes : UpdateOffloadOptions(c, s, size)
    \/ \E p \in Parameters : MpSetOffloadParameters(c, s, p)
    \/ \E reg \in Registries : MpReadOffload(c, s, reg)
    \/ UpdateFails(c, s)

(* MpSetRss: the loop over the indirection table collects the distinct       *)
(* processors in the order of their first entry and gives each the hash of   *)
(* that entry.                                                               *)
HashOf(index) == HashFlag + index

(* The hash names the last entry of a processor. *)
Assigned_LastEntry(table) ==
    LET loop[i \in 0..Len(table)] ==
            IF i = 0 THEN <<>>
            ELSE LET e == [proc |-> table[i], hash |-> HashOf(i - 1)] IN
                 Append(SelectSeq(loop[i - 1], LAMBDA a : a.proc # table[i]), e)
    IN loop[Len(table)]

Assigned(table) ==
    LET loop[i \in 0..Len(table)] ==
            IF i = 0 THEN <<>>
            ELSE LET known == loop[i - 1] IN
                 IF \E k \in DOMAIN known : known[k].proc = table[i] THEN known
                 ELSE Append(known, [proc |-> table[i], hash |-> HashOf(i - 1)])
    IN loop[Len(table)]

(* Queue i takes the i-th of them.  Parameters that disable RSS, or are too  *)
(* old, are ignored, and so is a table with more than MaxRssQueues           *)
(* processors.                                                               *)
MpSetRss(table) ==
    /\ work[OidThread].pc = "idle"
    /\ LET assigned == Assigned(table) IN
        RssQueues' = IF Len(assigned) > MaxRssQueues THEN RssQueues
                     ELSE [i \in DOMAIN RssQueues |->
                        IF i <= Len(assigned) THEN assigned[i] ELSE [proc |-> 0, hash |-> 0]]
    /\ UNCHANGED <<Offload, MtuSize, indicated, work, clean>>

MpProcessSetOid ==
    \/ \E s \in Stores, p \in Parameters : MpSetOffloadParameters(OidThread, s, p)
    \/ \E table \in RssTables : MpSetRss(table)

Next ==
    \/ \E c \in Clients, s \in Stores : SharedIrpUpdateTaskOffload(c, s)
    \/ \E c \in Clients, mtu \in Mtus : SharedIrpSetMtu(c, mtu)
    \/ MpProcessSetOid
    \/ \E w \in Workers : FillOffload(w) \/ MpIndicateStatus(w)

Spec == Init /\ [][Next]_vars

-----------------------------------------------------------------------------
Views == [checksum : [Checksums -> SUBSET {"Tx", "Rx"}],
          MaxOffLoadSize : [Segmentations -> {0, DefaultGso} \cup GsoSizes],
          Rsc : [{"RscIPv4", "RscIPv6"} -> BOOLEAN]]

(* The types; every offload state a setter or the registry leaves behind is  *)
(* one of the enumeration, never an invalid value read from the registry.    *)
TypeOK ==
    /\ \A s \in Stores : /\ Valid(Offload[s].value)
                         /\ Offload[s].GsoMaxOffloadSize \in {0, DefaultGso} \cup GsoSizes
    /\ MtuSize \in {m - ETH_HDR_LEN : m \in Mtus}
    /\ \A s \in Stores : indicated[s] \in Views
    /\ \A w \in Workers : /\ work[w].pc \in {"idle", "update", "fill", "indicate"}
                          /\ work[w].topic \in Topics /\ work[w].alone \in BOOLEAN
    /\ clean \in SUBSET Topics
    /\ DOMAIN RssQueues = 1..NumRssQueues

(* What NDIS must be told of an ADAPTER_OFFLOAD, member by member: the       *)
(* directions CHECKSUM_OFFLOAD_STATE enumerates, the size of every           *)
(* segmentation offload that is on and no size for the others, and whether   *)
(* RSC is on for IPv4 and for IPv6.  The last is the member MpFillOffload    *)
(* gets wrong (miniport.c:531 tests RscIPv4 again), so it is asked for only  *)
(* when the two switches are the same.                                       *)
Directions(state) ==
    CASE state = 0 -> {} [] state = 1 -> {"Tx"} [] state = 2 -> {"Rx"} [] state = 3 -> {"Tx", "Rx"}

Tells(view, o) ==
    /\ \A f \in Checksums : view.checksum[f] = Directions(o.value[f])
    /\ \A f \in Segmentations :
        view.MaxOffLoadSize[f] = IF o.value[f] = 1 THEN o.GsoMaxOffloadSize ELSE 0
    /\ view.Rsc["RscIPv4"] = (o.value["RscIPv4"] = 1)
    /\ o.value["RscIPv6"] = o.value["RscIPv4"] => view.Rsc["RscIPv6"] = (o.value["RscIPv6"] = 1)

(* A change of the offloads or the MTU that succeeds and overlaps no other   *)
(* leaves NDIS told what the adapter has stored, in every member but         *)
(* Rsc.IPv6, also when earlier changes raced or failed and left them apart   *)
(* (MpSetOffloadParameters, MpFillOffload, SharedIrpSetMtu).                 *)
AloneAgrees ==
    \A t \in clean :
        IF t = "MtuSize" THEN indicated[t] = MtuSize ELSE Tells(indicated[t], Offload[t])

(* What a new indirection table makes of the queues, compared with the table *)
(* itself: the first queues stand for distinct processors, in the order of   *)
(* the entries that first name them and with the hashes of those; no         *)
(* processor is left out while queues are unassigned; the other queues lose  *)
(* what an earlier table gave them.  A table with too many processors        *)
(* changes nothing (MpSetRss).                                               *)
Follows(table, old, new) ==
    LET procs == {table[k] : k \in DOMAIN table}
        used == {i \in DOMAIN new : new[i].hash # 0} IN
    IF Cardinality(procs) > MaxRssQueues THEN new = old
    ELSE /\ used = {i \in DOMAIN old : i <= Cardinality(procs)}
         /\ \A i, j \in used : i < j => new[i].hash < new[j].hash /\ new[i].proc # new[j].proc
         /\ \A i \in used : \E k \in DOMAIN table :
                /\ new[i].hash = HashOf(k - 1) /\ table[k] = new[i].proc
                /\ \A l \in 1..(k - 1) : table[l] # table[k]
         /\ \A i \in DOMAIN old \ used : new[i] = [proc |-> 0, hash |-> 0]

RssFollowsTable ==
    [][\A table \in RssTables : MpSetRss(table) => Follows(table, RssQueues, RssQueues')]_RssQueues
=============================================================================

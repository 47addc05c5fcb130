--------------------------- MODULE MpConfigProofs ---------------------------
(***************************************************************************)
(* The proof that a change of the configuration that succeeds and overlaps *)
(* no other leaves NDIS told what the adapter has stored, but for Rsc.IPv6,*)
(* for every set of clients, stores, parameters, registry contents and     *)
(* MTUs.  It has two parts: what NDIS was last told of a settled topic is  *)
(* the structure MpFillOffload makes of the current state (CleanIsCurrent),*)
(* and that structure says what is stored (FillTells), because every state *)
(* that is stored is one of its enumeration (StoresValid).                 *)
(***************************************************************************)
EXTENDS MpConfig, TLAPS

Sizes == {0, DefaultGso} \cup GsoSizes

(* What MpFillOffload, or SharedIrpSetMtu, would indicate now. *)
Current(t) == IF t = "MtuSize" THEN MtuSize ELSE MpFillOffload(Offload[t])

Busy(w) == work[w].pc # "idle"

(* The shape of the variables. *)
IsCall(r) ==
    r \in [pc : {r.pc}, topic : Topics, view : {r.view}, alone : BOOLEAN]

Calls == work = [w \in Workers |-> work[w]] /\ \A w \in Workers : IsCall(work[w])

Shape ==
    /\ Offload = [s \in Stores |-> Offload[s]]
    /\ indicated = [t \in Topics |-> indicated[t]]
    /\ clean \in SUBSET Topics

(* A topic in clean is not being changed. *)
CleanIsSettled == \A w \in Workers : Busy(w) => work[w].topic \notin clean

(* A call that is alone so far is the only one in progress... *)
AloneIsOnly ==
    \A w, v \in Workers : Busy(w) /\ work[w].alone /\ Busy(v) => v = w

(* ... and what it is about to indicate is current. *)
AloneViewsCurrent ==
    \A w \in Workers :
        work[w].pc = "indicate" /\ work[w].alone => work[w].view = Current(work[w].topic)

(* Only the offloads are filled in; the MTU is indicated as it was set. *)
FillsStores == \A w \in Workers : work[w].pc \in {"update", "fill"} => work[w].topic \in Stores

(* NDIS was told the current state of every settled topic. *)
CleanIsCurrent == \A t \in clean : indicated[t] = Current(t)

(* Every stored offload state is one of its enumeration. *)
StoresValid ==
    /\ Offload \in [Stores -> [value : [Fields -> 0..3], GsoMaxOffloadSize : Sizes]]
    /\ \A s \in Stores : Valid(Offload[s].value)

Threads == Calls /\ CleanIsSettled /\ AloneIsOnly /\ FillsStores

Inv == Shape /\ Threads /\ AloneViewsCurrent /\ CleanIsCurrent

-----------------------------------------------------------------------------
(* A call that is marked as overlapped is a call still. *)
LEMMA CallOverlapped ==
    ASSUME NEW r, IsCall(r), NEW q, q = [r EXCEPT !.alone = FALSE]
    PROVE  IsCall(q) /\ q.pc = r.pc /\ q.topic = r.topic /\ q.view = r.view /\ ~q.alone
<1>1. PICK a, c : a = r.pc /\ c = r.view
  OBVIOUS
<1>2. r \in [pc : {a}, topic : Topics, view : {c}, alone : BOOLEAN]
  BY <1>1 DEF IsCall
<1>3. /\ q \in [pc : {a}, topic : Topics, view : {c}, alone : BOOLEAN]
      /\ q.pc = r.pc /\ q.topic = r.topic /\ q.view = r.view /\ q.alone = FALSE
  BY <1>2
<1>4. QED
  BY <1>1, <1>3 DEF IsCall

(* A thread that takes a step of Moves marks every call in progress as       *)
(* overlapped, itself included, and takes its topic out of clean.            *)
LEMMA MovesMarks ==
    ASSUME Threads, NEW w \in Workers, NEW t \in Topics, NEW pc, NEW next, NEW view,
           next \in {"update", "fill"} => t \in Stores,
           Moves(w, t, pc, next, view)
    PROVE  /\ Threads'
           /\ clean' = clean \ {t}
           /\ \A v \in Workers \ {w} : Busy(v)' => ~work'[v].alone
           /\ next # "idle" => /\ work'[w].pc = next /\ work'[w].topic = t
                               /\ work'[w].view = view
           /\ next = "idle" => work'[w].pc = "idle"
<1>1. PICK others : others = {v \in Workers \ {w} : work[v].pc # "idle"}
  OBVIOUS
<1>2. PICK mine : mine = (work[w].alone /\ others = {})
  OBVIOUS
<1>3. mine \in BOOLEAN /\ (mine => work[w].alone) /\ (mine => others = {})
  BY <1>2
<1>4. work' = [v \in Workers |->
            IF v = w /\ next = "idle" THEN Idle
            ELSE IF v = w THEN [pc |-> next, topic |-> t, view |-> view, alone |-> mine]
            ELSE IF v \in others THEN [work[v] EXCEPT !.alone = FALSE] ELSE work[v]]
  BY <1>1, <1>2, Zenon DEF Moves
<1>5. clean' = clean \ {t}
  BY DEF Moves
<1>6. \A v \in Workers \ {w} : v \in others <=> Busy(v)
  BY <1>1 DEF Busy
<1>7. /\ next = "idle" => work'[w] = Idle
      /\ next # "idle" => work'[w] = [pc |-> next, topic |-> t, view |-> view, alone |-> mine]
  BY <1>4
<1>8. ASSUME NEW v \in Workers \ {w}
      PROVE  /\ IsCall(work'[v])
             /\ Busy(v)' <=> Busy(v)
             /\ work'[v].pc = work[v].pc /\ work'[v].topic = work[v].topic
             /\ Busy(v)' => ~work'[v].alone
  <2>1. PICK r : r = work[v]
    OBVIOUS
  <2>2. IsCall(r)
    BY <2>1 DEF Threads, Calls
  <2>3. CASE v \in others
    <3>1. work'[v] = [r EXCEPT !.alone = FALSE]
      BY <1>4, <2>1, <2>3
    <3>2. IsCall(work'[v]) /\ work'[v].pc = r.pc /\ work'[v].topic = r.topic /\ ~work'[v].alone
      BY <2>2, <3>1, CallOverlapped
    <3>3. QED
      BY <2>1, <3>2 DEF Busy
  <2>4. CASE v \notin others
    <3>1. work'[v] = r
      BY <1>4, <2>1, <2>4
    <3>2. QED
      BY <2>1, <2>2, <2>4, <3>1, <1>6 DEF Busy
  <2>5. QED
    BY <2>3, <2>4
<1>9. \A v \in Workers \ {w} :
        /\ Busy(v)' <=> Busy(v)
        /\ work'[v].pc = work[v].pc /\ work'[v].topic = work[v].topic
        /\ Busy(v)' => ~work'[v].alone
  BY <1>8
<1>10. Calls'
  <2>1. work' = [v \in Workers |-> work'[v]]
    BY <1>4
  <2>2. \A v \in Workers \ {w} : IsCall(work'[v])
    BY <1>8
  <2>3. CASE next = "idle"
    <3>1. IsCall(Idle)
      BY DEF IsCall, Idle, Topics
    <3>2. QED
      BY <2>1, <2>2, <2>3, <3>1, <1>7 DEF Calls
  <2>4. CASE next # "idle"
    <3>1. PICK q : q = [pc |-> next, topic |-> t, view |-> view, alone |-> mine]
      OBVIOUS
    <3>2. q \in [pc : {next}, topic : Topics, view : {view}, alone : BOOLEAN]
      BY <3>1, <1>3
    <3>3. q.pc = next /\ q.view = view
      BY <3>1
    <3>4. IsCall(q)
      BY <3>2, <3>3 DEF IsCall
    <3>5. QED
      BY <2>1, <2>2, <2>4, <3>1, <3>4, <1>7 DEF Calls
  <2>5. QED
    BY <2>3, <2>4
<1>11. CleanIsSettled'
  <2>1. Busy(w)' => work'[w].topic \notin clean'
    BY <1>5, <1>7 DEF Busy, Idle
  <2>2. QED
    BY <2>1, <1>5, <1>9 DEF Threads, CleanIsSettled
<1>12. AloneIsOnly'
  <2>1. Busy(w)' /\ work'[w].alone => \A v \in Workers \ {w} : ~Busy(v)'
    BY <1>3, <1>6, <1>7, <1>9 DEF Idle, Busy
  <2>2. QED
    BY <2>1, <1>9 DEF AloneIsOnly
<1>13. FillsStores'
  <2>1. work'[w].pc \in {"update", "fill"} => work'[w].topic \in Stores
    BY <1>7 DEF Idle
  <2>2. QED
    BY <2>1, <1>9 DEF Threads, FillsStores
<1>14. QED
  BY <1>5, <1>7, <1>9, <1>10, <1>11, <1>12, <1>13 DEF Threads, Idle

(* A thread that changes a store, and is in no state to indicate it yet.     *)
LEMMA StoreChanges ==
    ASSUME Inv, NEW w \in Workers, NEW s \in Stores, NEW pc, NEW next, NEW view, NEW value,
           next # "indicate", Moves(w, s, pc, next, view),
           Offload' = [Offload EXCEPT ![s] = value],
           UNCHANGED <<MtuSize, indicated>>
    PROVE  Inv'
<1>1. s \in Topics
  BY DEF Topics
<1>2. /\ Threads'
      /\ clean' = clean \ {s}
      /\ \A v \in Workers \ {w} : Busy(v)' => ~work'[v].alone
      /\ work'[w].pc = next
  <2>1. Threads
    BY DEF Inv
  <2>2. QED
    BY <2>1, <1>1, MovesMarks
<1>3. Shape'
  BY <1>2 DEF Inv, Shape
<1>4. AloneViewsCurrent'
  <2>1. \A v \in Workers : work'[v].pc = "indicate" => v # w /\ Busy(v)'
    BY <1>2 DEF Busy
  <2>2. QED
    BY <2>1, <1>2 DEF AloneViewsCurrent
<1>5. CleanIsCurrent'
  <2>1. \A t \in clean' : t \in clean /\ t # s
    BY <1>2
  <2>2. \A t \in clean' : Current(t)' = Current(t)
    <3>1. SUFFICES ASSUME NEW t \in clean'
                   PROVE Current(t)' = Current(t)
      OBVIOUS
    <3>2. CASE t = "MtuSize"
      BY <3>2 DEF Current
    <3>3. CASE t # "MtuSize"
      <4>1. t \in Stores /\ t # s
        BY <3>3, <2>1 DEF Inv, Shape, Topics
      <4>2. Offload'[t] = Offload[t]
        BY <4>1 DEF Inv, Shape
      <4>3. QED
        BY <3>3, <4>2 DEF Current, MpFillOffload
    <3>4. QED
      BY <3>2, <3>3
  <2>3. QED
    BY <2>1, <2>2 DEF Inv, CleanIsCurrent
<1>6. QED
  BY <1>2, <1>3, <1>4, <1>5 DEF Inv

(* A thread that leaves its call without an indication. *)
LEMMA LeavesCall ==
    ASSUME Inv, NEW w \in Workers, work' = [work EXCEPT ![w] = Idle],
           UNCHANGED <<Offload, MtuSize, indicated, clean>>
    PROVE  Inv'
<1>1. \A v \in Workers \ {w} : work'[v] = work[v]
  BY DEF Inv, Threads, Calls
<1>2. work'[w] = Idle
  BY DEF Inv, Threads, Calls
<1>3. Calls'
  <2>1. IsCall(Idle)
    BY DEF IsCall, Idle, Topics
  <2>2. work' = [v \in Workers |-> work'[v]]
    BY DEF Inv, Threads, Calls
  <2>3. QED
    BY <1>1, <1>2, <2>1, <2>2 DEF Inv, Threads, Calls
<1>4. ~Busy(w)' /\ \A v \in Workers \ {w} : Busy(v)' = Busy(v)
  BY <1>1, <1>2 DEF Busy, Idle
<1>5. CleanIsSettled' /\ AloneIsOnly' /\ FillsStores'
  BY <1>1, <1>2, <1>4 DEF Inv, Threads, CleanIsSettled, AloneIsOnly, FillsStores, Idle
<1>6. AloneViewsCurrent'
  BY <1>1, <1>2 DEF Inv, AloneViewsCurrent, Current, Idle
<1>7. Shape' /\ CleanIsCurrent'
  BY DEF Inv, Shape, CleanIsCurrent, Current
<1>8. QED
  BY <1>3, <1>5, <1>6, <1>7 DEF Inv, Threads

\* The invariant holds at first.
LEMMA InitInv == Init => Inv
<1> SUFFICES ASSUME Init PROVE Inv
  OBVIOUS
<1>1. \A w \in Workers : work[w] = Idle
  BY DEF Init
<1>2. Shape
  BY DEF Init, Shape
<1>3. Calls
  <2>1. IsCall(Idle)
    BY DEF IsCall, Idle, Topics
  <2>2. QED
    BY <1>1, <2>1 DEF Init, Calls
<1>4. CleanIsSettled /\ AloneIsOnly /\ FillsStores /\ AloneViewsCurrent
  BY <1>1 DEF CleanIsSettled, AloneIsOnly, FillsStores, AloneViewsCurrent, Busy, Idle
<1>5. CleanIsCurrent
  BY MpConfigAssumption DEF Init, CleanIsCurrent, Current, Topics
<1>6. QED
  BY <1>2, <1>3, <1>4, <1>5 DEF Inv, Threads

\* The steps that fill a configuration preserve the invariant.
LEMMA FillInv ==
    ASSUME Inv, NEW w \in Workers, FillOffload(w)
    PROVE  Inv'
<1>1. PICK r, x : r = work[w] /\ x = MpFillOffload(Offload[work[w].topic])
  OBVIOUS
<1>2. IsCall(r) /\ r.pc = "fill" /\ r.topic \in Stores
  BY <1>1 DEF Inv, Threads, Calls, FillsStores, FillOffload
<1>3. \A v \in Workers \ {w} : work'[v] = work[v]
  BY DEF FillOffload, Inv, Threads, Calls
<1>4. work'[w] = [r EXCEPT !.pc = "indicate", !.view = x]
  BY <1>1 DEF FillOffload, Inv, Threads, Calls
<1>5. /\ IsCall(work'[w]) /\ work'[w].pc = "indicate" /\ work'[w].topic = r.topic
      /\ work'[w].view = x /\ work'[w].alone = r.alone
  <2>1. PICK a, c, q : a = r.pc /\ c = r.view /\ q = [r EXCEPT !.pc = "indicate", !.view = x]
    OBVIOUS
  <2>2. r \in [pc : {a}, topic : Topics, view : {c}, alone : BOOLEAN]
    BY <1>2, <2>1 DEF IsCall
  <2>3. /\ q \in [pc : {"indicate"}, topic : Topics, view : {x}, alone : BOOLEAN]
        /\ q.pc = "indicate" /\ q.topic = r.topic /\ q.view = x
    BY <2>1, <2>2
  <2>4. q.alone = r.alone
    BY <2>1, <2>2
  <2>5. IsCall(q)
    BY <2>3 DEF IsCall
  <2>6. work'[w] = q
    BY <1>4, <2>1
  <2>7. QED
    BY <2>3, <2>4, <2>5, <2>6
<1>6. Calls'
  <2>1. work' = [v \in Workers |-> work'[v]]
    BY DEF FillOffload, Inv, Threads, Calls
  <2>2. QED
    BY <1>3, <1>5, <2>1 DEF Inv, Threads, Calls
<1>7. \A v \in Workers : Busy(v)' <=> Busy(v)
  BY <1>1, <1>2, <1>3, <1>5 DEF Busy
<1>8. \A v \in Workers : work'[v].topic = work[v].topic /\ work'[v].alone = work[v].alone
  BY <1>1, <1>3, <1>5
<1>9. clean' = clean /\ Offload' = Offload /\ MtuSize' = MtuSize /\ indicated' = indicated
  BY DEF FillOffload
<1>10. CleanIsSettled' /\ AloneIsOnly'
  BY <1>7, <1>8, <1>9 DEF Inv, Threads, CleanIsSettled, AloneIsOnly
<1>11. FillsStores'
  BY <1>3, <1>5 DEF Inv, Threads, FillsStores
<1>12. AloneViewsCurrent'
  <2>1. x = Current(r.topic)
    BY <1>1, <1>2, MpConfigAssumption DEF Current
  <2>2. \A u : Current(u)' = Current(u)
    BY <1>9, Zenon DEF Current, MpFillOffload
  <2>3. QED
    BY <2>1, <2>2, <1>3, <1>5 DEF Inv, AloneViewsCurrent
<1>13. Shape' /\ CleanIsCurrent'
  BY <1>9 DEF Inv, Shape, CleanIsCurrent, Current
<1>14. QED
  BY <1>6, <1>10, <1>11, <1>12, <1>13 DEF Inv, Threads

\* The indications preserve the invariant.
LEMMA IndicateInv ==
    ASSUME Inv, NEW w \in Workers, MpIndicateStatus(w)
    PROVE  Inv'
<1>1. PICK t : t = work[w].topic
  OBVIOUS
<1>2. t \in Topics /\ t \notin clean /\ Busy(w) /\ IsCall(work[w])
  <2>1. IsCall(work[w]) /\ Busy(w)
    BY DEF Inv, Threads, Calls, MpIndicateStatus, Busy
  <2>2. QED
    BY <1>1, <2>1 DEF Inv, Threads, CleanIsSettled, IsCall
<1>3. \A v \in Workers \ {w} : work'[v] = work[v]
  BY DEF Inv, Threads, Calls, MpIndicateStatus
<1>4. work'[w] = Idle
  BY DEF Inv, Threads, Calls, MpIndicateStatus
<1>5. Calls'
  <2>1. IsCall(Idle)
    BY DEF IsCall, Idle, Topics
  <2>2. work' = [v \in Workers |-> work'[v]]
    BY DEF MpIndicateStatus, Inv, Threads, Calls
  <2>3. QED
    BY <1>3, <1>4, <2>1, <2>2 DEF Inv, Threads, Calls
<1>6. ~Busy(w)' /\ \A v \in Workers \ {w} : Busy(v)' = Busy(v)
  BY <1>3, <1>4 DEF Busy, Idle
<1>7. AloneIsOnly' /\ FillsStores'
  BY <1>3, <1>4, <1>6 DEF Inv, Threads, AloneIsOnly, FillsStores, Idle
<1>8. clean' = (IF work[w].alone THEN clean \cup {t} ELSE clean)
  BY <1>1 DEF MpIndicateStatus
<1>9. CleanIsSettled'
  <2>1. CASE work[w].alone
    <3>1. \A v \in Workers \ {w} : ~Busy(v)'
      BY <1>2, <1>6, <2>1 DEF Inv, Threads, AloneIsOnly
    <3>2. QED
      BY <1>6, <3>1 DEF CleanIsSettled
  <2>2. CASE ~work[w].alone
    BY <1>3, <1>6, <1>8, <2>2 DEF Inv, Threads, CleanIsSettled
  <2>3. QED
    BY <2>1, <2>2
<1>10. Offload' = Offload /\ MtuSize' = MtuSize /\ \A u : Current(u)' = Current(u)
  BY DEF MpIndicateStatus, Current, MpFillOffload
<1>11. indicated' = [indicated EXCEPT ![t] = work[w].view]
  BY <1>1 DEF MpIndicateStatus
<1>12. CleanIsCurrent'
  <2>1. \A u \in clean : u # t /\ indicated'[u] = indicated[u]
    BY <1>2, <1>11 DEF Inv, Shape
  <2>2. \A u \in clean : indicated'[u] = Current(u)'
    BY <2>1, <1>10 DEF Inv, CleanIsCurrent
  <2>3. work[w].alone => indicated'[t] = Current(t)'
    BY <1>1, <1>2, <1>10, <1>11 DEF Inv, Shape, AloneViewsCurrent, MpIndicateStatus
  <2>4. QED
    BY <2>2, <2>3, <1>8 DEF CleanIsCurrent
<1>13. AloneViewsCurrent'
  BY <1>3, <1>4, <1>10 DEF Inv, AloneViewsCurrent, Idle
<1>14. Shape'
  BY <1>2, <1>8, <1>10, <1>11 DEF Inv, Shape
<1>15. QED
  BY <1>5, <1>7, <1>9, <1>12, <1>13, <1>14 DEF Inv, Threads

\* The steps on the MTU preserve the invariant.
LEMMA MtuInv ==
    ASSUME Inv, NEW c \in Clients, NEW mtu \in Mtus, SharedIrpSetMtu(c, mtu)
    PROVE  Inv'
<1>1. c \in Workers /\ "MtuSize" \in Topics
  BY DEF Workers, Topics
<1>2. /\ Threads'
      /\ clean' = clean \ {"MtuSize"}
      /\ \A v \in Workers \ {c} : Busy(v)' => ~work'[v].alone
      /\ work'[c].pc = "indicate" /\ work'[c].topic = "MtuSize"
      /\ work'[c].view = mtu - ETH_HDR_LEN
  <2>1. Threads
    BY DEF Inv
  <2>2. Moves(c, "MtuSize", "idle", "indicate", mtu - ETH_HDR_LEN)
    BY DEF SharedIrpSetMtu
  <2>3. QED
    BY <2>1, <2>2, <1>1, MovesMarks
<1>3. Shape'
  BY <1>2 DEF Inv, Shape, SharedIrpSetMtu
<1>4. AloneViewsCurrent'
  <2>1. \A v \in Workers \ {c} : work'[v].pc = "indicate" => Busy(v)'
    BY DEF Busy
  <2>2. QED
    BY <2>1, <1>2 DEF AloneViewsCurrent, Current, SharedIrpSetMtu
<1>5. CleanIsCurrent'
  BY <1>2 DEF Inv, CleanIsCurrent, Current, MpFillOffload, SharedIrpSetMtu
<1>6. QED
  BY <1>2, <1>3, <1>4, <1>5 DEF Inv

\* Every step preserves the invariant.
LEMMA NextInv == Inv /\ [Next]_vars => Inv'
<1> SUFFICES ASSUME Inv, [Next]_vars PROVE Inv'
  OBVIOUS
<1> Clients \subseteq Workers /\ OidThread \in Workers
  BY DEF Workers
<1>1. ASSUME NEW w \in Workers, NEW s \in Stores, NEW p \in Parameters,
             MpSetOffloadParameters(w, s, p)
      PROVE  Inv'
  <2>1. PICK value : Offload' = [Offload EXCEPT ![s] = value]
    BY <1>1 DEF MpSetOffloadParameters
  <2>2. Moves(w, s, "update", "fill", 0) /\ UNCHANGED <<MtuSize, indicated>>
    BY <1>1 DEF MpSetOffloadParameters
  <2>3. QED
    BY <2>1, <2>2, StoreChanges
<1>2. ASSUME NEW c \in Clients, NEW s \in Stores, SharedIrpUpdateTaskOffload(c, s)
      PROVE  Inv'
  <2>1. CASE \E size \in GsoSizes : UpdateOffloadOptions(c, s, size)
    <3>1. PICK size \in GsoSizes : UpdateOffloadOptions(c, s, size)
      BY <2>1
    <3>2. PICK value : Offload' = [Offload EXCEPT ![s] = value]
      BY <3>1 DEF UpdateOffloadOptions
    <3>3. Moves(c, s, "idle", "update", 0) /\ UNCHANGED <<MtuSize, indicated>>
      BY <3>1 DEF UpdateOffloadOptions
    <3>4. QED
      BY <3>2, <3>3, StoreChanges
  <2>2. CASE \E reg \in Registries : MpReadOffload(c, s, reg)
    <3>1. PICK reg \in Registries : MpReadOffload(c, s, reg)
      BY <2>2
    <3>2. PICK value : Offload' = [Offload EXCEPT ![s] = value]
      BY <3>1 DEF MpReadOffload
    <3>3. PICK next \in {"fill", "idle"} : Moves(c, s, "update", next, 0)
      BY <3>1, Zenon DEF MpReadOffload
    <3>4. UNCHANGED <<MtuSize, indicated>>
      BY <3>1 DEF MpReadOffload
    <3>5. next # "indicate"
      BY <3>3
    <3>6. QED
      BY <3>2, <3>3, <3>4, <3>5, StoreChanges
  <2>3. CASE UpdateFails(c, s)
    BY <2>3, LeavesCall DEF UpdateFails
  <2>4. QED
    BY <1>1, <1>2, <2>1, <2>2, <2>3 DEF SharedIrpUpdateTaskOffload
<1>3. CASE UNCHANGED vars \/ \E table \in RssTables : MpSetRss(table)
  <2>1. UNCHANGED <<Offload, MtuSize, indicated, work, clean>>
    BY <1>3 DEF vars, MpSetRss
  <2>2. \A u : Current(u)' = Current(u)
    BY <2>1 DEF Current, MpFillOffload
  <2>3. QED
    BY <2>1, <2>2 DEF Inv, Shape, Threads, Calls, CleanIsSettled, AloneIsOnly, FillsStores,
                      AloneViewsCurrent, CleanIsCurrent, Busy
<1>4. QED
  BY <1>1, <1>2, <1>3, FillInv, IndicateInv, MtuInv DEF Next, MpProcessSetOid

-----------------------------------------------------------------------------
(* What the parameters make of valid states is valid: each setter leaves one *)
(* of the enumeration, and what it does not know changes nothing.            *)
LEMMA UpdatedValid ==
    ASSUME NEW value \in [Fields -> 0..3], Valid(value), NEW p
    PROVE  Updated(value, p) \in [Fields -> 0..3] /\ Valid(Updated(value, p))
<1>1. ASSUME NEW x \in 0..3, NEW q PROVE MpUpdateChecksumParameter(x, q) \in 0..3
  BY DEF MpUpdateChecksumParameter
<1>2. ASSUME NEW x \in 0..1, NEW q PROVE MpUpdateOffloadParameter(x, q) \in 0..1
  BY DEF MpUpdateOffloadParameter
<1>3. PICK new : new = Updated(value, p)
  OBVIOUS
<1>4. ASSUME NEW f \in Fields PROVE new[f] \in 0..(IF f \in Checksums THEN 3 ELSE 1)
  <2>1. new[f] = (IF f = "UdpRsc" \/ Revision[f] > p.Revision THEN value[f]
                  ELSE IF f \in Checksums THEN MpUpdateChecksumParameter(value[f], p[f])
                  ELSE MpUpdateOffloadParameter(value[f], p[f]))
    BY <1>3, Zenon DEF Updated
  <2>2. CASE f \in Checksums
    <3>1. value[f] \in 0..3 /\ MpUpdateChecksumParameter(value[f], p[f]) \in 0..3
      BY <1>1
    <3>2. QED
      BY <2>1, <2>2, <3>1, Zenon
  <2>3. CASE f \notin Checksums
    <3>1. value[f] \in 0..1
      BY <2>3 DEF Valid
    <3>2. MpUpdateOffloadParameter(value[f], p[f]) \in 0..1
      BY <1>2, <3>1
    <3>3. QED
      BY <2>1, <2>3, <3>1, <3>2, Zenon
  <2>4. QED
    BY <2>2, <2>3
<1>5. Valid(new) /\ \A f \in Fields : new[f] \in 0..3
  BY <1>4 DEF Valid
<1>6. new = [f \in Fields |-> new[f]]
  BY <1>3, Zenon DEF Updated
<1>7. QED
  BY <1>3, <1>5, <1>6

(* The registry is read into a copy of the fields. *)
LEMMA RegistryTyped ==
    ASSUME NEW value, NEW reg, Valid(FromRegistry(value, reg))
    PROVE  FromRegistry(value, reg) \in [Fields -> 0..3]
<1>1. PICK new : new = FromRegistry(value, reg)
  OBVIOUS
<1>2. \A f \in Fields : new[f] \in 0..3
  BY <1>1 DEF Valid
<1>3. new = [f \in Fields |-> new[f]]
  BY <1>1, Zenon DEF FromRegistry
<1>4. QED
  BY <1>1, <1>2, <1>3

\* A store with no offload on is valid.
LEMMA ZeroedValid ==
    /\ Zeroed \in [value : [Fields -> 0..3], GsoMaxOffloadSize : Sizes]
    /\ Valid(Zeroed.value)
BY DEF Zeroed, Valid, Sizes

\* Every state that is stored stays one of its enumeration.
LEMMA StoresStayValid == Spec => []StoresValid
<1> DEFINE Records == [value : [Fields -> 0..3], GsoMaxOffloadSize : Sizes]
<1>1. Init => StoresValid
  <2> SUFFICES ASSUME Init, NEW s \in Stores
               PROVE  Offload[s] \in Records /\ Valid(Offload[s].value)
    BY DEF Init, StoresValid
  <2>1. PICK r \in Registries :
          /\ Offload[s] = [value |-> FromRegistry(Zeroed.value, r), GsoMaxOffloadSize |-> DefaultGso]
          /\ Valid(FromRegistry(Zeroed.value, r))
    BY DEF Init
  <2>2. PICK x \in [Fields -> 0..3] : x = FromRegistry(Zeroed.value, r)
    BY <2>1, RegistryTyped
  <2>3. QED
    BY <2>1, <2>2 DEF Sizes
<1>2. ASSUME StoresValid, NEW s \in Stores, NEW o, o \in Records, Valid(o.value),
             Offload' = [Offload EXCEPT ![s] = o]
      PROVE  StoresValid'
  BY <1>2 DEF StoresValid, Valid
<1>3. ASSUME StoresValid, NEW s \in Stores
      PROVE  Offload[s] \in Records /\ Valid(Offload[s].value)
  BY <1>3 DEF StoresValid
<1>4. ASSUME StoresValid, NEW w \in Workers, NEW s \in Stores, NEW p, MpSetOffloadParameters(w, s, p)
      PROVE  StoresValid'
  <2>1. PICK old \in Records : old = Offload[s] /\ Valid(old.value)
    BY <1>3, <1>4
  <2>2. PICK new \in [Fields -> 0..3] : new = Updated(old.value, p) /\ Valid(new)
    BY <2>1, UpdatedValid
  <2>3. PICK o : o = [old EXCEPT !.value = new]
    OBVIOUS
  <2>4. o \in Records /\ o.value = new
    BY <2>3
  <2>5. Offload' = [Offload EXCEPT ![s] = o]
    BY <1>4, <2>1, <2>2, <2>3 DEF MpSetOffloadParameters, StoresValid
  <2>6. QED
    BY <1>2, <1>4, <2>2, <2>4, <2>5
<1>5. ASSUME StoresValid, NEW c, NEW s \in Stores, NEW size \in GsoSizes,
             UpdateOffloadOptions(c, s, size)
      PROVE  StoresValid'
  <2>1. PICK old \in Records : old = Offload[s] /\ Valid(old.value)
    BY <1>3, <1>5
  <2>2. PICK o : o = [old EXCEPT !.GsoMaxOffloadSize = size]
    OBVIOUS
  <2>3. o \in Records /\ o.value = old.value
    BY <2>2 DEF Sizes
  <2>4. Offload' = [Offload EXCEPT ![s] = o]
    BY <1>5, <2>1, <2>2 DEF UpdateOffloadOptions, StoresValid
  <2>5. QED
    BY <1>2, <1>5, <2>1, <2>3, <2>4
<1>6. ASSUME StoresValid, NEW c, NEW s \in Stores, NEW reg, MpReadOffload(c, s, reg)
      PROVE  StoresValid'
  <2>1. PICK old \in Records : old = Offload[s]
    BY <1>3, <1>6
  <2>2. PICK read : read = FromRegistry(old.value, reg)
    OBVIOUS
  <2>3. CASE Valid(read)
    <3>1. read \in [Fields -> 0..3]
      BY <2>2, <2>3, RegistryTyped
    <3>2. PICK o : o = [old EXCEPT !.value = read]
      OBVIOUS
    <3>3. o \in Records /\ o.value = read
      BY <3>1, <3>2
    <3>4. Offload' = [Offload EXCEPT ![s] = o]
      BY <1>6, <2>1, <2>2, <2>3, <3>2 DEF MpReadOffload, StoresValid
    <3>5. QED
      BY <1>2, <1>6, <2>3, <3>3, <3>4
  <2>4. CASE ~Valid(read)
    <3>1. Offload' = [Offload EXCEPT ![s] = Zeroed]
      BY <1>6, <2>1, <2>2, <2>4 DEF MpReadOffload, StoresValid
    <3>2. QED
      BY <1>2, <1>6, <3>1, ZeroedValid
  <2>5. QED
    BY <2>3, <2>4
<1>7. ASSUME StoresValid, Offload' = Offload PROVE StoresValid'
  BY <1>7 DEF StoresValid, Valid
<1>8. StoresValid /\ [Next]_vars => StoresValid'
  <2> SUFFICES ASSUME StoresValid, [Next]_vars PROVE StoresValid'
    OBVIOUS
  <2> Clients \subseteq Workers /\ OidThread \in Workers
    BY DEF Workers
  <2>1. CASE \E c \in Clients, s \in Stores : SharedIrpUpdateTaskOffload(c, s)
    BY <2>1, <1>4, <1>5, <1>6, <1>7 DEF SharedIrpUpdateTaskOffload, UpdateFails
  <2>2. CASE MpProcessSetOid
    BY <2>2, <1>4, <1>7 DEF MpProcessSetOid, MpSetRss
  <2>3. CASE \/ \E c \in Clients, mtu \in Mtus : SharedIrpSetMtu(c, mtu)
             \/ \E w \in Workers : FillOffload(w) \/ MpIndicateStatus(w)
             \/ UNCHANGED vars
    BY <2>3, <1>7 DEF SharedIrpSetMtu, FillOffload, MpIndicateStatus, vars
  <2>4. QED
    BY <2>1, <2>2, <2>3 DEF Next
<1>9. QED
  BY <1>1, <1>8, PTL DEF Spec

-----------------------------------------------------------------------------
(* MpFillOffload tells, member by member, what is stored: the bits it tests  *)
(* are those of the directions that the state names.                         *)
LEMMA FillTells ==
    ASSUME NEW o \in [value : [Fields -> 0..3], GsoMaxOffloadSize : Sizes], Valid(o.value)
    PROVE  Tells(MpFillOffload(o), o)
<1>1. PICK value \in [Fields -> 0..3], size \in Sizes : value = o.value /\ size = o.GsoMaxOffloadSize
  OBVIOUS
<1>2. PICK view : view = MpFillOffload(o)
  OBVIOUS
<1>3. \A f \in Checksums : view.checksum[f] = Directions(o.value[f])
  <2> SUFFICES ASSUME NEW f \in Checksums PROVE view.checksum[f] = Directions(o.value[f])
    OBVIOUS
  <2>1. PICK x \in 0..3 : x = value[f]
    BY DEF Fields
  <2>2. view.checksum[f] =
            {d \in {"Tx", "Rx"} : (x \div (IF d = "Tx" THEN 1 ELSE 2)) % 2 = 1}
    BY <1>1, <1>2, <2>1 DEF MpFillOffload
  <2>3. /\ "Tx" \in view.checksum[f] <=> (x \div 1) % 2 = 1
        /\ "Rx" \in view.checksum[f] <=> (x \div 2) % 2 = 1
        /\ view.checksum[f] \subseteq {"Tx", "Rx"}
    BY <2>2
  <2>4. x \in {0, 1, 2, 3}
    OBVIOUS
  <2>5. /\ (x \div 1) % 2 = 1 <=> x \in {1, 3}
        /\ (x \div 2) % 2 = 1 <=> x \in {2, 3}
    BY <2>4
  <2>6. /\ Directions(0) = {} /\ Directions(1) = {"Tx"} /\ Directions(2) = {"Rx"}
        /\ Directions(3) = {"Tx", "Rx"}
    BY DEF Directions
  <2>7. PICK c : c = view.checksum[f]
    OBVIOUS
  <2>8. /\ "Tx" \in c <=> x \in {1, 3}
        /\ "Rx" \in c <=> x \in {2, 3}
        /\ c \subseteq {"Tx", "Rx"}
    BY <2>3, <2>5, <2>7
  <2>9. c = Directions(x)
    <3>1. CASE x = 0
      <4>1. "Tx" \notin c /\ "Rx" \notin c
        BY <2>8, <3>1
      <4>2. c = {}
        BY <2>8, <4>1
      <4>3. QED
        BY <2>6, <3>1, <4>2
    <3>2. CASE x = 1
      <4>1. "Tx" \in c /\ "Rx" \notin c
        BY <2>8, <3>2
      <4>2. c = {"Tx"}
        BY <2>8, <4>1
      <4>3. QED
        BY <2>6, <3>2, <4>2
    <3>3. CASE x = 2
      <4>1. "Tx" \notin c /\ "Rx" \in c
        BY <2>8, <3>3
      <4>2. c = {"Rx"}
        BY <2>8, <4>1
      <4>3. QED
        BY <2>6, <3>3, <4>2
    <3>4. CASE x = 3
      <4>1. "Tx" \in c /\ "Rx" \in c
        BY <2>8, <3>4
      <4>2. c = {"Tx", "Rx"}
        BY <2>8, <4>1
      <4>3. QED
        BY <2>6, <3>4, <4>2
    <3>5. QED
      BY <2>4, <3>1, <3>2, <3>3, <3>4
  <2>10. QED
    BY <1>1, <2>1, <2>7, <2>9
<1>4. \A f \in Switches \ Checksums : f \in Fields /\ value[f] \in 0..1
  BY <1>1 DEF Valid, Fields
<1>5. \A f \in Segmentations :
        view.MaxOffLoadSize[f] = IF o.value[f] = 1 THEN o.GsoMaxOffloadSize ELSE 0
  BY <1>1, <1>2, <1>4, MpConfigAssumption DEF MpFillOffload, Switches
<1>6. view.Rsc["RscIPv4"] = (o.value["RscIPv4"] = 1) /\ view.Rsc["RscIPv6"] = (o.value["RscIPv4"] = 1)
  BY <1>1, <1>2, <1>4, MpConfigAssumption DEF MpFillOffload, Switches
<1>7. QED
  BY <1>2, <1>3, <1>5, <1>6 DEF Tells

(* A change of the offloads or the MTU that succeeds and overlaps no other   *)
(* leaves NDIS told what is stored, in every member but Rsc.IPv6, whatever   *)
(* races and failures there were before (MpSetOffloadParameters,             *)
(* MpFillOffload, SharedIrpUpdateTaskOffload, SharedIrpSetMtu).              *)
THEOREM NdisAgreesAfterLoneChange == Spec => []AloneAgrees
<1>1. Inv /\ StoresValid => AloneAgrees
  <2> SUFFICES ASSUME Inv, StoresValid, NEW t \in clean
               PROVE  IF t = "MtuSize" THEN indicated[t] = MtuSize
                      ELSE Tells(indicated[t], Offload[t])
    BY DEF AloneAgrees
  <2>1. indicated[t] = Current(t) /\ t \in Topics
    BY DEF Inv, CleanIsCurrent, Shape
  <2>2. CASE t = "MtuSize"
    BY <2>1, <2>2 DEF Current
  <2>3. CASE t # "MtuSize"
    <3>1. t \in Stores /\ indicated[t] = MpFillOffload(Offload[t])
      BY <2>1, <2>3 DEF Current, Topics
    <3>2. Tells(indicated[t], Offload[t])
      BY <3>1, FillTells DEF StoresValid
    <3>3. QED
      BY <2>3, <3>2
  <2>4. QED
    BY <2>2, <2>3
<1>2. QED
  BY <1>1, InitInv, NextInv, StoresStayValid, PTL DEF Spec
=============================================================================

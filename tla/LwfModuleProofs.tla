-------------------------- MODULE LwfModuleProofs ---------------------------
(***************************************************************************)
(* Proofs about LwfModule, for any finite number of handles and frames and *)
(* any number of filters, requests and status codes.                       *)
(*                                                                         *)
(* A module in the list is held by the NDIS thread, so an open never takes *)
(* a reference on a count of zero; and frames are only sent below the      *)
(* module while it runs, since the rundown is open for the filter the NDIS *)
(* thread has, and for no longer than that thread is "running".            *)
(* The status filters have an invariant of their own, StatusInv: no other  *)
(* part of a module's state depends on them.                               *)
(***************************************************************************)
EXTENDS LwfModule, FiniteSetTheorems, TLAPS

PCs == {"idle", "paused", "running", "pausing", "detaching", "rundown", "dereference", "free",
        "opening", "open", "cleanup", "flush", "oid", "oidwait"}
Attached == {"paused", "running", "pausing"}

FilterType == [live : BOOLEAN, NdisState : {"Detached", "Paused", "Running"},
               ReferenceCount : Int, nblOpen : BOOLEAN, nblRefs : Int,
               oidOpen : BOOLEAN, oidRefs : Int, watchdog : BOOLEAN]
WorkType == [pc : PCs, f : Filters \cup {None}]

Types ==
    /\ filter \in [Filters -> FilterType]
    /\ listed \in SUBSET Filters
    /\ work \in [Threads -> WorkType]
    /\ where = [x \in Frames \cup Foreign |-> where[x]]

Holders(f) == {t \in Threads : work[t].f = f /\ work[t].pc # "free"}

(* Who refers to a filter: threads, each counted until it frees the filter,  *)
(* and the list while NDIS has the module attached.                          *)
AliveInv ==
    /\ \A t \in Threads : work[t].pc = "idle" <=> work[t].f = None
    /\ \A t \in Threads : work[t].pc # "idle" => filter[work[t].f].live
    /\ \A f \in Filters : filter[f].ReferenceCount = Cardinality(Holders(f))
    /\ \A f \in listed : work[Ndis].f = f /\ work[Ndis].pc \in Attached
    /\ \A t \in Threads : work[t].pc = "free" => Holders(work[t].f) = {}
    /\ \A t, u \in Threads :
        work[t].pc = "free" /\ work[u].pc = "free" /\ work[t].f = work[u].f => t = u

(* The frames below the module have their references, and none is below a    *)
(* module that does not run.                                                 *)
QuietInv ==
    /\ \A f \in Filters : filter[f].nblRefs = IF work[Ndis].f = f THEN Cardinality(Below) ELSE 0
    /\ Below # {} => work[Ndis].pc \in {"running", "pausing"}
    /\ \A f \in Filters : filter[f].nblOpen => work[Ndis].f = f /\ work[Ndis].pc = "running"

IInv == Types /\ AliveInv /\ QuietInv

-----------------------------------------------------------------------------

\* The sets that are counted are finite.
LEMMA Finite ==
    /\ IsFiniteSet(Below) /\ IsFiniteSet(Below')
    /\ \A h, at : IsFiniteSet(Held(h, at))
    /\ \A f : IsFiniteSet(Holders(f))
<1>1. IsFiniteSet(Threads)
  BY LwfModuleAssumption, FS_AddElement DEF Threads
<1>2. Below \subseteq Frames /\ Below' \subseteq Frames /\ \A h, at : Held(h, at) \subseteq Frames
  BY DEF Below, Held
<1>3. \A f : Holders(f) \subseteq Threads
  BY DEF Holders
<1>4. IsFiniteSet(Frames)
  BY LwfModuleAssumption
<1> QED BY <1>1, <1>2, <1>3, <1>4, FS_Subset

(* A thread in a call holds a filter. *)
LEMMA OwnsFilter ==
    ASSUME Types, AliveInv, NEW t \in Threads, work[t].pc # "idle"
    PROVE  work[t].f \in Filters /\ filter[work[t].f].live
<1>1. work[t] \in WorkType
  BY DEF Types
<1> QED BY <1>1 DEF AliveInv, WorkType

(* A step that changes neither the threads nor the references. *)
LEMMA AliveKept ==
    ASSUME Types, AliveInv, work' = work, listed' = listed,
           \A f \in Filters : /\ filter'[f].live = filter[f].live
                              /\ filter'[f].ReferenceCount = filter[f].ReferenceCount
    PROVE  AliveInv'
<1>1. \A f : Holders(f)' = Holders(f)
  BY DEF Holders
<1>2. \A t \in Threads : work[t].pc # "idle" => work[t].f \in Filters
  BY OwnsFilter
<1> QED BY <1>1, <1>2 DEF AliveInv

(* A thread that holds a filter moves on and holds it still. *)
LEMMA AliveMoves ==
    ASSUME Types, AliveInv, NEW t \in Threads, NEW p \in PCs \ {"idle", "free"},
           work[t].pc \notin {"idle", "free"}, Goes(t, p), listed' \subseteq listed,
           t = Ndis => listed' = {} \/ p \in Attached,
           \A f \in Filters : /\ filter'[f].live = filter[f].live
                              /\ filter'[f].ReferenceCount = filter[f].ReferenceCount
    PROVE  /\ AliveInv'
           /\ work' \in [Threads -> WorkType]
           /\ work'[t].pc = p /\ work'[t].f = work[t].f
           /\ \A u \in Threads \ {t} : work'[u] = work[u]
<1>1. /\ work' \in [Threads -> WorkType]
      /\ work'[t].pc = p /\ work'[t].f = work[t].f
      /\ \A u \in Threads \ {t} : work'[u] = work[u]
  BY DEF Types, Goes, WorkType
<1>2. \A f : Holders(f)' = Holders(f)
  BY <1>1 DEF Holders
<1>3. \A u \in Threads : /\ work'[u].f = work[u].f
                         /\ work'[u].pc = "free" <=> work[u].pc = "free"
                         /\ work'[u].pc = "idle" <=> work[u].pc = "idle"
  BY <1>1
<1>4. \A u \in Threads : work[u].pc # "idle" => work[u].f \in Filters
  BY OwnsFilter
<1>5. \A f \in listed' : work'[Ndis].f = f /\ work'[Ndis].pc \in Attached
  <2>1. Ndis \in Threads
    BY DEF Threads
  <2>2. CASE t = Ndis
    BY <1>1, <2>2 DEF AliveInv
  <2>3. CASE t # Ndis
    BY <1>1, <2>1, <2>3 DEF AliveInv
  <2> QED BY <2>2, <2>3
<1>6. AliveInv'
  <2>1. \A u \in Threads : work'[u].pc = "idle" <=> work'[u].f = None
    BY <1>3 DEF AliveInv
  <2>2. \A u \in Threads : work'[u].pc # "idle" => filter'[work'[u].f].live
    BY <1>3, <1>4 DEF AliveInv
  <2>3. \A f \in Filters : filter'[f].ReferenceCount = Cardinality(Holders(f)')
    BY <1>2 DEF AliveInv
  <2>4. (\A u \in Threads : work[u].pc = "free" => Holders(work[u].f) = {})'
    BY <1>3 DEF AliveInv, Holders
  <2>5. \A v, u \in Threads :
            work'[v].pc = "free" /\ work'[u].pc = "free" /\ work'[v].f = work'[u].f => v = u
    BY <1>3 DEF AliveInv
  <2> QED BY <1>5, <2>1, <2>2, <2>3, <2>4, <2>5 DEF AliveInv
<1> QED BY <1>1, <1>6

(* A step that leaves alone the frames below, and NDIS's view of the module. *)
LEMMA QuietKept ==
    ASSUME QuietInv, Below' = Below, work'[Ndis] = work[Ndis],
           \A f \in Filters : /\ filter'[f].nblRefs = filter[f].nblRefs
                              /\ filter'[f].nblOpen = filter[f].nblOpen
    PROVE  QuietInv'
BY DEF QuietInv

(* A step of the NDIS thread that keeps the frames below and the references. *)
LEMMA QuietNdis ==
    ASSUME QuietInv, Below' = Below, work'[Ndis].f = work[Ndis].f,
           Below # {} => work'[Ndis].pc \in {"running", "pausing"},
           \A f \in Filters : /\ filter'[f].nblRefs = filter[f].nblRefs
                              /\ filter'[f].nblOpen => /\ work[Ndis].f = f
                                                       /\ work'[Ndis].pc = "running"
    PROVE  QuietInv'
BY DEF QuietInv

(* Where frames go. *)
LEMMA Moved ==
    ASSUME Types, NEW S, NEW to, Move(S, to)
    PROVE  /\ where' = [x \in Frames \cup Foreign |-> where'[x]]
           /\ \A x \in Frames \cup Foreign : where'[x] = IF x \in S THEN to ELSE where[x]
<1>1. DOMAIN where = Frames \cup Foreign
  BY DEF Types
<1> QED BY <1>1 DEF Move

(* Frames that move from one place above NDIS to another. *)
LEMMA MovedAbove ==
    ASSUME Types, NEW S, NEW to, Move(S, to), to # BelowFilter,
           \A x \in S \cap Frames : where[x] # BelowFilter
    PROVE  where' = [x \in Frames \cup Foreign |-> where'[x]] /\ Below' = Below
BY Moved DEF Below

\* A frame that is queued or being flushed is not below the filter.
LEMMA Places ==
    /\ Nowhere # BelowFilter
    /\ \A h, x : where[x] = [at |-> "queued", h |-> h] => where[x] # BelowFilter
    /\ \A h, x : where[x] = [at |-> "flushing", h |-> h] => where[x] # BelowFilter
    /\ \A h : [at |-> "queued", h |-> h] # BelowFilter
    /\ \A h : [at |-> "flushing", h |-> h] # BelowFilter
<1>1. Nowhere.at = "none" /\ BelowFilter.at = "ndis"
  BY DEF Nowhere, BelowFilter
<1>2. \A h : [at |-> "queued", h |-> h].at = "queued" /\ [at |-> "flushing", h |-> h].at = "flushing"
  OBVIOUS
<1> QED BY <1>1, <1>2

-----------------------------------------------------------------------------
(* The steps. *)

\* The threads: one for NDIS and one per handle.
LEMMA ThreadsAre ==
    /\ Ndis \in Threads
    /\ \A h \in Handles : h \in Threads /\ h # Ndis
    /\ \A t \in Threads : t # Ndis => t \in Handles
BY LwfModuleAssumption DEF Threads

(* A handle goes on; neither the references nor the frames below change. *)
LEMMA HandleMoves ==
    ASSUME IInv, NEW h \in Handles, NEW p \in PCs \ {"idle", "free"},
           work[h].pc \notin {"idle", "free"}, Goes(h, p), listed' = listed,
           filter' \in [Filters -> FilterType],
           \A f \in Filters : /\ filter'[f].live = filter[f].live
                              /\ filter'[f].ReferenceCount = filter[f].ReferenceCount
                              /\ filter'[f].nblRefs = filter[f].nblRefs
                              /\ filter'[f].nblOpen = filter[f].nblOpen,
           where' = [x \in Frames \cup Foreign |-> where'[x]], Below' = Below
    PROVE  IInv'
<1>1. h \in Threads /\ h # Ndis /\ Ndis \in Threads
  BY ThreadsAre
<1>2. /\ AliveInv' /\ work' \in [Threads -> WorkType]
      /\ \A u \in Threads \ {h} : work'[u] = work[u]
  BY <1>1, AliveMoves DEF IInv
<1>3. QuietInv'
  BY <1>1, <1>2, QuietKept DEF IInv
<1> QED BY <1>2, <1>3 DEF IInv, Types

(* The NDIS thread goes on; the frames stay where they are. *)
LEMMA NdisMoves ==
    ASSUME IInv, NEW p \in PCs \ {"idle", "free"}, work[Ndis].pc \notin {"idle", "free"},
           Goes(Ndis, p), listed' \subseteq listed, listed' = {} \/ p \in Attached,
           filter' \in [Filters -> FilterType],
           \A f \in Filters : /\ filter'[f].live = filter[f].live
                              /\ filter'[f].ReferenceCount = filter[f].ReferenceCount
                              /\ filter'[f].nblRefs = filter[f].nblRefs
                              /\ filter'[f].nblOpen => work[Ndis].f = f /\ p = "running",
           where' = where, Below # {} => p \in {"running", "pausing"}
    PROVE  IInv'
<1>1. Ndis \in Threads
  BY ThreadsAre
<1>2. /\ AliveInv' /\ work' \in [Threads -> WorkType]
      /\ work'[Ndis].pc = p /\ work'[Ndis].f = work[Ndis].f
  BY <1>1, AliveMoves DEF IInv
<1>3. Below' = Below
  BY DEF Below
<1>4. QuietInv'
  BY <1>2, <1>3, QuietNdis DEF IInv
<1> QED BY <1>2, <1>4 DEF IInv, Types

\* The invariant holds at first.
LEMMA InitIInv == Init => IInv
<1> SUFFICES ASSUME Init PROVE IInv
  OBVIOUS
<1>1. \A t \in Threads : work[t].pc = "idle" /\ work[t].f = None
  BY DEF Init, Idle
<1>2. \A f \in Filters : /\ filter[f].live = FALSE /\ filter[f].ReferenceCount = 0
                         /\ filter[f].nblRefs = 0 /\ filter[f].nblOpen = FALSE
  BY DEF Init, NoFilter
<1>3. Types
  <2>1. NoFilter \in FilterType
    BY DEF NoFilter, FilterType
  <2>2. Idle \in WorkType
    BY DEF Idle, WorkType, PCs
  <2> QED BY <2>1, <2>2 DEF Init, Types
<1>4. \A f \in Filters : Holders(f) = {}
  BY <1>1, LwfModuleAssumption DEF Holders
<1>5. Below = {}
  BY Places DEF Init, Below
<1>6. AliveInv
  BY <1>1, <1>2, <1>4, FS_EmptySet, Zenon DEF AliveInv, Init
<1>7. QuietInv
  BY <1>1, <1>2, <1>5, ThreadsAre, LwfModuleAssumption DEF QuietInv
<1> QED BY <1>3, <1>6, <1>7 DEF IInv

\* FilterAttach preserves the invariant.
LEMMA AttachPreserves ==
    ASSUME IInv, NEW f \in Filters, NEW ok \in BOOLEAN, FilterAttach(f, ok)
    PROVE  IInv'
<1>1. Ndis \in Threads /\ work[Ndis].pc = "idle" /\ work[Ndis].f = None /\ ~filter[f].live
  BY ThreadsAre DEF FilterAttach, At, IInv, AliveInv
<1>2. PICK p \in {"paused", "detaching"} :
        /\ work' = [work EXCEPT ![Ndis] = [pc |-> p, f |-> f]]
        /\ p = "paused" <=> ok
  BY Zenon DEF FilterAttach
<1>3. /\ work'[Ndis].pc = p /\ work'[Ndis].f = f
      /\ \A u \in Threads \ {Ndis} : work'[u] = work[u]
      /\ work' \in [Threads -> WorkType]
  BY <1>1, <1>2 DEF IInv, Types, WorkType, PCs
<1>4. PICK s \in {"Paused", "Detached"} :
        filter' = [filter EXCEPT ![f] = [NoFilter EXCEPT !.live = TRUE, !.ReferenceCount = 1,
                                                         !.oidOpen = TRUE, !.NdisState = s]]
  BY Zenon DEF FilterAttach
<1>5. PICK r : r = [NoFilter EXCEPT !.live = TRUE, !.ReferenceCount = 1,
                                    !.oidOpen = TRUE, !.NdisState = s]
  OBVIOUS
<1>6. /\ r \in FilterType /\ r.live = TRUE /\ r.ReferenceCount = 1
      /\ r.nblRefs = 0 /\ r.nblOpen = FALSE
  <2>1. r = [live |-> TRUE, NdisState |-> s, ReferenceCount |-> 1, nblOpen |-> FALSE,
             nblRefs |-> 0, oidOpen |-> TRUE, oidRefs |-> 0, watchdog |-> FALSE]
    BY <1>5, Zenon DEF NoFilter
  <2> QED BY <2>1 DEF FilterType
<1>7. /\ filter' \in [Filters -> FilterType] /\ filter'[f] = r
      /\ \A g \in Filters \ {f} : filter'[g] = filter[g]
  BY <1>4, <1>5, <1>6 DEF IInv, Types
<1>8. \A t \in Threads : work[t].f # f
  <2> SUFFICES ASSUME NEW t \in Threads, work[t].f = f PROVE FALSE
    OBVIOUS
  <2>1. work[t].pc # "idle"
    BY LwfModuleAssumption DEF IInv, AliveInv
  <2> QED BY <1>1, <2>1 DEF IInv, AliveInv
<1>9. /\ (Holders(f))' = {Ndis}
      /\ \A g \in Filters \ {f} : Holders(g)' = Holders(g)
  BY <1>1, <1>3, <1>8, LwfModuleAssumption DEF Holders
<1>10. \A t \in Threads : work'[t].pc = "free" => t # Ndis /\ work[t].pc = "free" /\ work[t].f # f
                                                /\ work'[t].f = work[t].f
  BY <1>3, <1>8
<1>11. AliveInv'
  <2>1. \A t \in Threads : work'[t].pc = "idle" <=> work'[t].f = None
    BY <1>3, LwfModuleAssumption DEF IInv, AliveInv
  <2>2. \A t \in Threads : work'[t].pc # "idle" => filter'[work'[t].f].live
    <3> SUFFICES ASSUME NEW t \in Threads, work'[t].pc # "idle"
                 PROVE filter'[work'[t].f].live
      OBVIOUS
    <3>1. CASE t = Ndis
      BY <1>3, <1>6, <1>7, <3>1
    <3>2. CASE t # Ndis
      <4>1. work'[t] = work[t] /\ work[t].f \in Filters /\ filter[work[t].f].live
        BY <1>3, <3>2, OwnsFilter DEF IInv
      <4> QED BY <1>7, <1>8, <4>1
    <3> QED BY <3>1, <3>2
  <2>3. \A g \in Filters : filter'[g].ReferenceCount = Cardinality(Holders(g)')
    <3>1. Cardinality({Ndis}) = 1
      BY FS_Singleton
    <3>2. filter'[f].ReferenceCount = Cardinality(Holders(f)')
      BY <1>6, <1>7, <1>9, <3>1
    <3>3. \A g \in Filters \ {f} : filter'[g].ReferenceCount = Cardinality(Holders(g)')
      BY <1>7, <1>9 DEF IInv, AliveInv
    <3> QED BY <3>2, <3>3
  <2>4. \A g \in listed' : work'[Ndis].f = g /\ work'[Ndis].pc \in Attached
    BY <1>2, <1>3 DEF FilterAttach, Attached
  <2>5. (\A t \in Threads : work[t].pc = "free" => Holders(work[t].f) = {})'
    <3> SUFFICES ASSUME NEW t \in Threads, work'[t].pc = "free", NEW u \in Threads,
                        work'[u].f = work'[t].f, work'[u].pc # "free"
                 PROVE FALSE
      BY DEF Holders
    <3>1. u # Ndis
      BY <1>3, <1>10
    <3>2. u \in Holders(work[t].f)
      BY <1>3, <1>10, <3>1 DEF Holders
    <3> QED BY <1>10, <3>2 DEF IInv, AliveInv
  <2>6. \A t, u \in Threads :
            work'[t].pc = "free" /\ work'[u].pc = "free" /\ work'[t].f = work'[u].f => t = u
    BY <1>10 DEF IInv, AliveInv
  <2> QED BY <2>1, <2>2, <2>3, <2>4, <2>5, <2>6 DEF AliveInv
<1>12. where' = where /\ Below' = Below /\ listed' \in SUBSET Filters
  BY DEF FilterAttach, frameVars, Below
<1>13. QuietInv'
  <2>1. Below = {}
    BY <1>1 DEF IInv, QuietInv
  <2> QED BY <1>1, <1>3, <1>6, <1>7, <1>12, <2>1, FS_EmptySet, LwfModuleAssumption
          DEF IInv, QuietInv
<1> QED BY <1>3, <1>7, <1>11, <1>12, <1>13 DEF IInv, Types

(* FilterRestart and FilterPause open and close the rundown. *)
LEMMA RestartPreserves ==
    ASSUME IInv, FilterRestart \/ FilterPause
    PROVE  IInv'
<1>1. PICK g, o, s, p :
        /\ g = work[Ndis].f /\ p = (IF o THEN "running" ELSE "pausing") /\ o \in BOOLEAN
        /\ s \in {"Running", "Paused"} /\ Goes(Ndis, p)
        /\ filter' = [filter EXCEPT ![g] = [filter[g] EXCEPT !.nblOpen = o, !.NdisState = s]]
  <2>1. CASE FilterRestart
    BY <2>1, Zenon DEF FilterRestart, Own
  <2>2. CASE FilterPause
    BY <2>2, Zenon DEF FilterPause, Own
  <2> QED BY <2>1, <2>2, Zenon
<1>2. work[Ndis].pc \in {"paused", "running"} /\ listed' = listed /\ where' = where
  BY DEF FilterRestart, FilterPause, At, frameVars
<1>3. g \in Filters
  BY <1>1, <1>2, ThreadsAre, OwnsFilter DEF IInv
<1>4. PICK r : r = [filter[g] EXCEPT !.nblOpen = o, !.NdisState = s]
  OBVIOUS
<1>5. filter[g] \in FilterType
  BY <1>3 DEF IInv, Types
<1>6. /\ r \in FilterType /\ r.live = filter[g].live /\ r.nblRefs = filter[g].nblRefs
      /\ r.ReferenceCount = filter[g].ReferenceCount /\ r.nblOpen = o
  BY <1>1, <1>4, <1>5, Zenon DEF FilterType
<1>7. /\ filter' \in [Filters -> FilterType] /\ filter'[g] = r
      /\ \A f \in Filters \ {g} : filter'[f] = filter[f]
  BY <1>1, <1>3, <1>4, <1>6, Zenon DEF IInv, Types
<1>8. \A f \in Filters : /\ filter'[f].live = filter[f].live
                         /\ filter'[f].ReferenceCount = filter[f].ReferenceCount
                         /\ filter'[f].nblRefs = filter[f].nblRefs
  BY <1>6, <1>7
<1>9. \A f \in Filters : filter'[f].nblOpen => work[Ndis].f = f /\ p = "running"
  BY <1>1, <1>6, <1>7 DEF IInv, QuietInv
<1>10. p \in PCs \ {"idle", "free"} /\ p \in Attached /\ p \in {"running", "pausing"}
  BY <1>1 DEF PCs, Attached
<1>11. Goes(Ndis, p)
  BY <1>1
<1> QED BY <1>2, <1>7, <1>8, <1>9, <1>10, <1>11, NdisMoves

\* The end of FilterPause preserves the invariant.
LEMMA PauseEndsPreserves ==
    ASSUME IInv, FilterPauseEnds
    PROVE  IInv'
<1>1. /\ work[Ndis].pc = "pausing" /\ Goes(Ndis, "paused") /\ UNCHANGED <<filter, listed, where>>
      /\ filter[work[Ndis].f].nblRefs = 0
  BY DEF FilterPauseEnds, At, Own, frameVars
<1>2. work[Ndis].f \in Filters
  BY <1>1, ThreadsAre, OwnsFilter DEF IInv
<1>3. Below = {}
  <2>1. Cardinality(Below) = 0
    BY <1>1, <1>2 DEF IInv, QuietInv
  <2> QED BY <2>1, Finite, FS_EmptySet
<1>4. \A f \in Filters : ~filter[f].nblOpen
  BY <1>1 DEF IInv, QuietInv
<1>5. "paused" \in PCs \ {"idle", "free"} /\ "paused" \in Attached
  BY DEF PCs, Attached
<1> QED BY <1>1, <1>3, <1>4, <1>5, NdisMoves DEF IInv, Types

(* The three steps of FilterDetach, on a paused module. *)
LEMMA DetachPreserves ==
    ASSUME IInv, FilterDetach \/ FilterDetachRundown \/ FilterDetachEnds
    PROVE  IInv'
<1>1. PICK p \in {"detaching", "rundown", "dereference"} : Goes(Ndis, p)
  BY DEF FilterDetach, FilterDetachRundown, FilterDetachEnds
<1>2. work[Ndis].pc \in {"paused", "detaching", "rundown"} /\ where' = where
  BY DEF FilterDetach, FilterDetachRundown, FilterDetachEnds, At, frameVars
<1>3. PICK g : g = work[Ndis].f
  OBVIOUS
<1>4. g \in Filters /\ filter[g] \in FilterType /\ \A f \in listed : f = g
  BY <1>2, <1>3, ThreadsAre, OwnsFilter, Zenon DEF IInv, Types, AliveInv
<1>5. listed' = {}
  <2>1. CASE FilterDetach
    BY <1>3, <1>4, <2>1 DEF FilterDetach, Own
  <2>2. CASE FilterDetachRundown \/ FilterDetachEnds
    <3>1. work[Ndis].pc \notin Attached /\ listed' = listed
      BY <2>2 DEF FilterDetachRundown, FilterDetachEnds, At, Attached
    <3> QED BY <3>1 DEF IInv, AliveInv
  <2> QED BY <2>1, <2>2
<1>6. /\ filter' \in [Filters -> FilterType]
      /\ \A f \in Filters : /\ filter'[f].live = filter[f].live
                            /\ filter'[f].ReferenceCount = filter[f].ReferenceCount
                            /\ filter'[f].nblRefs = filter[f].nblRefs
                            /\ filter'[f].nblOpen = filter[f].nblOpen
  <2>1. CASE FilterDetach
    <3>1. filter' = [filter EXCEPT ![g].NdisState = "Detached"]
      BY <1>3, <2>1 DEF FilterDetach, Own
    <3> QED BY <1>4, <3>1 DEF IInv, Types, FilterType
  <2>2. CASE FilterDetachRundown
    <3>1. filter' = [filter EXCEPT ![g].oidOpen = FALSE]
      BY <1>3, <2>2 DEF FilterDetachRundown, Own
    <3> QED BY <1>4, <3>1, Zenon DEF IInv, Types, FilterType
  <2>3. CASE FilterDetachEnds
    BY <2>3 DEF FilterDetachEnds, IInv, Types
  <2> QED BY <2>1, <2>2, <2>3
<1>7. Below = {} /\ \A f \in Filters : ~filter[f].nblOpen
  BY <1>2 DEF IInv, QuietInv
<1>8. p \in PCs \ {"idle", "free"}
  BY DEF PCs
<1>9. listed' \subseteq listed /\ work[Ndis].pc \notin {"idle", "free"}
  BY <1>2, <1>5
<1> QED BY <1>1, <1>2, <1>5, <1>6, <1>7, <1>8, <1>9, NdisMoves

(* DefaultIrpCreate finds a filter that NDIS holds. *)
LEMMA CreatePreserves ==
    ASSUME IInv, NEW h \in Handles, DefaultIrpCreate(h)
    PROVE  IInv'
<1>1. PICK g \in listed : /\ work[h].pc = "idle"
                          /\ filter' = [filter EXCEPT ![g].ReferenceCount = @ + 1]
                          /\ work' = [work EXCEPT ![h] = [pc |-> "opening", f |-> g]]
                          /\ UNCHANGED <<listed, where>>
  BY Zenon DEF DefaultIrpCreate, At, frameVars
<1>2. /\ h \in Threads /\ Ndis \in Threads /\ h # Ndis
      /\ g \in Filters /\ work[Ndis].f = g /\ work[Ndis].pc \in Attached /\ work[h].f = None
  BY <1>1, ThreadsAre DEF IInv, AliveInv, Types
<1>3. Ndis \in Holders(g) /\ filter[g].live /\ \A t \in Threads : work[t].pc = "free" => work[t].f # g
  BY <1>2 DEF Holders, IInv, AliveInv, Attached
<1>4. /\ work'[h].pc = "opening" /\ work'[h].f = g
      /\ \A u \in Threads \ {h} : work'[u] = work[u]
      /\ work' \in [Threads -> WorkType]
  BY <1>1, <1>2 DEF IInv, Types, WorkType, PCs
<1>5. /\ filter' \in [Filters -> FilterType]
      /\ filter'[g].ReferenceCount = filter[g].ReferenceCount + 1
      /\ \A f \in Filters : /\ filter'[f].live = filter[f].live
                            /\ filter'[f].nblRefs = filter[f].nblRefs
                            /\ filter'[f].nblOpen = filter[f].nblOpen
      /\ \A f \in Filters \ {g} : filter'[f].ReferenceCount = filter[f].ReferenceCount
  BY <1>1, <1>2 DEF IInv, Types, FilterType
<1>6. /\ (Holders(g))' = Holders(g) \cup {h} /\ h \notin Holders(g)
      /\ \A f \in Filters \ {g} : Holders(f)' = Holders(f)
  BY <1>2, <1>4, LwfModuleAssumption DEF Holders
<1>7. \A t \in Threads : work'[t].pc = "free" =>
            t # h /\ work[t].pc = "free" /\ work'[t].f = work[t].f /\ work[t].f # g
  BY <1>3, <1>4
<1>8. AliveInv'
  <2>1. \A t \in Threads : work'[t].pc = "idle" <=> work'[t].f = None
    BY <1>2, <1>4, LwfModuleAssumption DEF IInv, AliveInv
  <2>2. \A t \in Threads : work'[t].pc # "idle" => filter'[work'[t].f].live
    <3> SUFFICES ASSUME NEW t \in Threads, work'[t].pc # "idle"
                 PROVE filter'[work'[t].f].live
      OBVIOUS
    <3>1. CASE t = h
      BY <1>2, <1>3, <1>4, <1>5, <3>1
    <3>2. CASE t # h
      <4>1. work'[t] = work[t] /\ work[t].f \in Filters /\ filter[work[t].f].live
        BY <1>4, <3>2, OwnsFilter DEF IInv
      <4> QED BY <1>5, <4>1
    <3> QED BY <3>1, <3>2
  <2>3. \A f \in Filters : filter'[f].ReferenceCount = Cardinality(Holders(f)')
    <3>1. Cardinality(Holders(g) \cup {h}) = Cardinality(Holders(g)) + 1
      BY <1>6, Finite, FS_AddElement, Zenon
    <3>2. filter'[g].ReferenceCount = Cardinality(Holders(g)')
      BY <1>2, <1>5, <1>6, <3>1 DEF IInv, AliveInv
    <3>3. \A f \in Filters \ {g} : filter'[f].ReferenceCount = Cardinality(Holders(f)')
      BY <1>5, <1>6 DEF IInv, AliveInv
    <3> QED BY <3>2, <3>3
  <2>4. \A f \in listed' : work'[Ndis].f = f /\ work'[Ndis].pc \in Attached
    BY <1>1, <1>2, <1>4 DEF IInv, AliveInv
  <2>5. (\A t \in Threads : work[t].pc = "free" => Holders(work[t].f) = {})'
    <3> SUFFICES ASSUME NEW t \in Threads, work'[t].pc = "free", NEW u \in Threads,
                        work'[u].f = work'[t].f, work'[u].pc # "free"
                 PROVE FALSE
      BY DEF Holders
    <3>1. u \in Holders(work[t].f)
      BY <1>4, <1>7 DEF Holders
    <3> QED BY <1>7, <3>1 DEF IInv, AliveInv
  <2>6. \A t, u \in Threads :
            work'[t].pc = "free" /\ work'[u].pc = "free" /\ work'[t].f = work'[u].f => t = u
    BY <1>7 DEF IInv, AliveInv
  <2> QED BY <2>1, <2>2, <2>3, <2>4, <2>5, <2>6 DEF AliveInv
<1>9. Below' = Below
  BY <1>1 DEF Below
<1>10. QuietInv'
  BY <1>2, <1>4, <1>5, <1>9, QuietKept DEF IInv
<1> QED BY <1>1, <1>4, <1>5, <1>8, <1>10 DEF IInv, Types

(* What holds once NDIS has given the module up, or has none. *)
LEMMA NdisDone ==
    ASSUME IInv, work[Ndis].pc \notin {"running", "pausing"}
    PROVE  /\ Below = {} /\ Cardinality(Below) = 0
           /\ \A f \in Filters : filter[f].nblRefs = 0 /\ ~filter[f].nblOpen
           /\ work[Ndis].pc \notin Attached => listed = {}
<1>1. Below = {} /\ Cardinality(Below) = 0
  BY FS_EmptySet DEF IInv, QuietInv
<1> QED BY <1>1 DEF IInv, QuietInv, AliveInv

(* Quiet when no frame is below and NDIS leaves the module. *)
LEMMA QuietDone ==
    ASSUME Below' = {}, \A f \in Filters : filter'[f].nblRefs = 0 /\ ~filter'[f].nblOpen
    PROVE  QuietInv'
<1>1. Cardinality(Below') = 0
  BY FS_EmptySet
<1> QED BY <1>1 DEF QuietInv

\* A dereference preserves the invariant.
LEMMA DereferencePreserves ==
    ASSUME IInv, NEW t \in Threads, FilterDereferenceFilter(t)
    PROVE  IInv'
<1>1. PICK g, n : g = work[t].f /\ n = filter[g].ReferenceCount - 1
  OBVIOUS
<1>2. /\ work[t].pc = "dereference"
      /\ filter' = [filter EXCEPT ![g].ReferenceCount = n]
      /\ work' = [work EXCEPT ![t] = IF n = 0 THEN [pc |-> "free", f |-> g] ELSE Idle]
      /\ UNCHANGED <<listed, where>>
  BY <1>1 DEF FilterDereferenceFilter, At, Own, frameVars
<1>3. g \in Filters /\ filter[g].live /\ t \in Holders(g)
  BY <1>1, <1>2, OwnsFilter DEF IInv, Holders
<1>4. /\ n = Cardinality(Holders(g) \ {t}) /\ n \in Nat
      /\ n = 0 <=> Holders(g) \ {t} = {}
  <2>1. IsFiniteSet(Holders(g)) /\ IsFiniteSet(Holders(g) \ {t})
    BY Finite, FS_RemoveElement
  <2>2. Cardinality(Holders(g) \ {t}) = Cardinality(Holders(g)) - 1
    BY <1>3, <2>1, FS_RemoveElement
  <2>3. n = Cardinality(Holders(g) \ {t})
    BY <1>1, <1>3, <2>2 DEF IInv, AliveInv
  <2> QED BY <2>1, <2>3, FS_CardinalityType, FS_EmptySet
<1>5. \A u \in Threads : work[u].pc = "free" => work[u].f # g
  BY <1>3 DEF IInv, AliveInv
<1>6. /\ filter' \in [Filters -> FilterType]
      /\ filter'[g].ReferenceCount = n
      /\ \A f \in Filters : /\ filter'[f].live = filter[f].live
                            /\ filter'[f].nblRefs = filter[f].nblRefs
                            /\ filter'[f].nblOpen = filter[f].nblOpen
      /\ \A f \in Filters \ {g} : filter'[f].ReferenceCount = filter[f].ReferenceCount
  BY <1>2, <1>3, <1>4 DEF IInv, Types, FilterType
<1>7. /\ n = 0 => work'[t].pc = "free" /\ work'[t].f = g
      /\ n # 0 => work'[t].pc = "idle" /\ work'[t].f = None
      /\ \A u \in Threads \ {t} : work'[u] = work[u]
      /\ work' \in [Threads -> WorkType]
  BY <1>2, <1>3 DEF IInv, Types, WorkType, PCs, Idle
<1>8. (Holders(g))' = Holders(g) \ {t}
  BY <1>3, <1>7, LwfModuleAssumption DEF Holders
<1>9. \A f \in Filters \ {g} : Holders(f)' = Holders(f)
  BY <1>1, <1>3, <1>7, LwfModuleAssumption DEF Holders
<1>10. AliveInv'
  <2>1. \A u \in Threads : work'[u].pc = "idle" <=> work'[u].f = None
    BY <1>3, <1>7, LwfModuleAssumption DEF IInv, AliveInv
  <2>2. \A u \in Threads : work'[u].pc # "idle" => work'[u].f \in Filters /\ filter'[work'[u].f].live
    <3> SUFFICES ASSUME NEW u \in Threads, work'[u].pc # "idle"
                 PROVE work'[u].f \in Filters /\ filter'[work'[u].f].live
      OBVIOUS
    <3>1. CASE u = t
      BY <1>3, <1>6, <1>7, <3>1
    <3>2. CASE u # t
      <4>1. work'[u] = work[u] /\ work[u].f \in Filters /\ filter[work[u].f].live
        BY <1>7, <3>2, OwnsFilter DEF IInv
      <4> QED BY <1>6, <4>1
    <3> QED BY <3>1, <3>2
  <2>3. \A f \in Filters : filter'[f].ReferenceCount = Cardinality(Holders(f)')
    <3>1. filter'[g].ReferenceCount = Cardinality(Holders(g)')
      BY <1>4, <1>6, <1>8
    <3>2. \A f \in Filters \ {g} : filter'[f].ReferenceCount = Cardinality(Holders(f)')
      BY <1>6, <1>9 DEF IInv, AliveInv
    <3> QED BY <3>1, <3>2
  <2>4. \A f \in listed' : work'[Ndis].f = f /\ work'[Ndis].pc \in Attached
    <3>1. CASE t = Ndis
      <4>1. listed = {}
        BY <1>2, <3>1 DEF IInv, AliveInv, Attached
      <4> QED BY <1>2, <4>1
    <3>2. CASE t # Ndis
      BY <1>2, <1>7, <3>2, ThreadsAre DEF IInv, AliveInv
    <3> QED BY <3>1, <3>2
  <2>5. (\A u \in Threads : work[u].pc = "free" => Holders(work[u].f) = {})'
    <3> SUFFICES ASSUME NEW u \in Threads, work'[u].pc = "free", NEW v \in Threads,
                        work'[v].f = work'[u].f, work'[v].pc # "free"
                 PROVE FALSE
      BY DEF Holders
    <3>1. CASE u = t
      <4>1. n = 0 /\ work'[u].f = g
        BY <1>7, <3>1
      <4>2. v \in Holders(g) \ {t}
        BY <1>7, <3>1, <4>1 DEF Holders
      <4> QED BY <1>4, <4>1, <4>2
    <3>2. CASE u # t
      <4>1. work[u].pc = "free" /\ work'[u].f = work[u].f /\ work[u].f # g /\ work[u].f \in Filters
        BY <1>5, <1>7, <3>2, OwnsFilter DEF IInv
      <4>2. v # t
        BY <1>7, <4>1, LwfModuleAssumption
      <4>3. v \in Holders(work[u].f)
        BY <1>7, <4>1, <4>2 DEF Holders
      <4> QED BY <4>1, <4>3 DEF IInv, AliveInv
    <3> QED BY <3>1, <3>2
  <2>6. \A v, u \in Threads :
            work'[v].pc = "free" /\ work'[u].pc = "free" /\ work'[v].f = work'[u].f => v = u
    BY <1>5, <1>7 DEF IInv, AliveInv
  <2> QED BY <2>1, <2>2, <2>3, <2>4, <2>5, <2>6 DEF AliveInv
<1>11. Below' = Below
  BY <1>2 DEF Below
<1>12. QuietInv'
  <2>1. CASE t = Ndis
    <3>1. Below = {} /\ \A f \in Filters : filter[f].nblRefs = 0 /\ ~filter[f].nblOpen
      BY <1>2, <2>1, NdisDone
    <3> QED BY <1>6, <1>11, <3>1, QuietDone
  <2>2. CASE t # Ndis
    BY <1>6, <1>7, <1>11, <2>2, ThreadsAre, QuietKept DEF IInv
  <2> QED BY <2>1, <2>2
<1> QED BY <1>2, <1>6, <1>7, <1>10, <1>12 DEF IInv, Types

\* FilterFree preserves the invariant.
LEMMA FreePreserves ==
    ASSUME IInv, NEW t \in Threads, FilterFree(t)
    PROVE  IInv'
<1>1. PICK g : g = work[t].f
  OBVIOUS
<1>2. /\ work[t].pc = "free"
      /\ filter' = [filter EXCEPT ![g] = NoFilter]
      /\ work' = [work EXCEPT ![t] = Idle]
      /\ UNCHANGED <<listed, where>>
  BY <1>1 DEF FilterFree, At, Own, frameVars
<1>3. g \in Filters /\ Holders(g) = {}
  BY <1>1, <1>2, OwnsFilter DEF IInv, AliveInv
<1>4. \A u \in Threads \ {t} : work[u].f # g
  <2> SUFFICES ASSUME NEW u \in Threads \ {t}, work[u].f = g PROVE FALSE
    OBVIOUS
  <2>1. CASE work[u].pc = "free"
    BY <1>1, <1>2, <2>1 DEF IInv, AliveInv
  <2>2. CASE work[u].pc # "free"
    BY <1>3, <2>2 DEF Holders
  <2> QED BY <2>1, <2>2
<1>5. NoFilter \in FilterType /\ NoFilter.ReferenceCount = 0 /\ NoFilter.nblRefs = 0
      /\ NoFilter.nblOpen = FALSE
  BY DEF NoFilter, FilterType
<1>6. /\ filter' \in [Filters -> FilterType] /\ filter'[g] = NoFilter
      /\ \A f \in Filters \ {g} : filter'[f] = filter[f]
  BY <1>2, <1>3, <1>5 DEF IInv, Types
<1>7. /\ work'[t].pc = "idle" /\ work'[t].f = None
      /\ \A u \in Threads \ {t} : work'[u] = work[u]
      /\ work' \in [Threads -> WorkType]
  BY <1>2 DEF IInv, Types, WorkType, PCs, Idle
<1>8. \A f \in Filters : Holders(f)' = Holders(f)
  BY <1>2, <1>7, LwfModuleAssumption DEF Holders
<1>9. AliveInv'
  <2>1. \A u \in Threads : work'[u].pc = "idle" <=> work'[u].f = None
    BY <1>7 DEF IInv, AliveInv
  <2>2. \A u \in Threads : work'[u].pc # "idle" => filter'[work'[u].f].live
    <3> SUFFICES ASSUME NEW u \in Threads, work'[u].pc # "idle"
                 PROVE filter'[work'[u].f].live
      OBVIOUS
    <3>1. u # t /\ work'[u] = work[u]
      BY <1>7
    <3>2. work[u].f \in Filters /\ filter[work[u].f].live
      BY <3>1, OwnsFilter DEF IInv
    <3> QED BY <1>4, <1>6, <3>1, <3>2
  <2>3. \A f \in Filters : filter'[f].ReferenceCount = Cardinality(Holders(f)')
    <3>1. filter'[g].ReferenceCount = Cardinality(Holders(g)')
      BY <1>3, <1>5, <1>6, <1>8, FS_EmptySet
    <3>2. \A f \in Filters \ {g} : filter'[f].ReferenceCount = Cardinality(Holders(f)')
      BY <1>6, <1>8 DEF IInv, AliveInv
    <3> QED BY <3>1, <3>2
  <2>4. \A f \in listed' : work'[Ndis].f = f /\ work'[Ndis].pc \in Attached
    <3>1. CASE t = Ndis
      <4>1. listed = {}
        BY <1>2, <3>1 DEF IInv, AliveInv, Attached
      <4> QED BY <1>2, <4>1
    <3>2. CASE t # Ndis
      BY <1>2, <1>7, <3>2, ThreadsAre DEF IInv, AliveInv
    <3> QED BY <3>1, <3>2
  <2>5. (\A u \in Threads : work[u].pc = "free" => Holders(work[u].f) = {})'
    <3> SUFFICES ASSUME NEW u \in Threads, work'[u].pc = "free", NEW v \in Threads,
                        work'[v].f = work'[u].f, work'[v].pc # "free"
                 PROVE FALSE
      BY DEF Holders
    <3>1. work'[u] = work[u] /\ work[u].f \in Filters
      BY <1>7, OwnsFilter DEF IInv
    <3>2. v # t
      BY <1>7, <3>1, LwfModuleAssumption
    <3>3. v \in Holders(work[u].f)
      BY <1>7, <3>1, <3>2 DEF Holders
    <3> QED BY <3>1, <3>3 DEF IInv, AliveInv
  <2>6. \A v, u \in Threads :
            work'[v].pc = "free" /\ work'[u].pc = "free" /\ work'[v].f = work'[u].f => v = u
    BY <1>7 DEF IInv, AliveInv
  <2> QED BY <2>1, <2>2, <2>3, <2>4, <2>5, <2>6 DEF AliveInv
<1>10. Below' = Below
  BY <1>2 DEF Below
<1>11. QuietInv'
  <2>1. CASE t = Ndis
    <3>1. Below = {} /\ \A f \in Filters : filter[f].nblRefs = 0 /\ ~filter[f].nblOpen
      BY <1>2, <2>1, NdisDone
    <3> QED BY <1>5, <1>6, <1>10, <3>1, QuietDone
  <2>2. CASE t # Ndis
    <3>1. work'[Ndis] = work[Ndis] /\ work[Ndis].f # g
      BY <1>4, <1>7, <2>2, ThreadsAre
    <3>2. filter[g].nblRefs = 0 /\ ~filter[g].nblOpen
      BY <1>3, <3>1 DEF IInv, QuietInv
    <3>3. filter[g].nblOpen \in BOOLEAN
      BY <1>3 DEF IInv, Types, FilterType
    <3> QED BY <1>5, <1>6, <1>10, <3>1, <3>2, <3>3, QuietKept, Zenon DEF IInv
  <2> QED BY <2>1, <2>2
<1> QED BY <1>2, <1>6, <1>7, <1>9, <1>11 DEF IInv, Types

\* The watchdog preserves the invariant.
LEMMA WatchdogPreserves ==
    ASSUME IInv, NEW g \in Filters, FilterWatchdogTimeout(g)
    PROVE  IInv'
<1>1. /\ filter' = [filter EXCEPT ![g].watchdog = ~@]
      /\ UNCHANGED <<listed, work, where>>
  BY DEF FilterWatchdogTimeout, frameVars
<1>2. /\ filter' \in [Filters -> FilterType]
      /\ \A f \in Filters : /\ filter'[f].live = filter[f].live
                            /\ filter'[f].ReferenceCount = filter[f].ReferenceCount
                            /\ filter'[f].nblRefs = filter[f].nblRefs
                            /\ filter'[f].nblOpen = filter[f].nblOpen
  <2>1. PICK r : r = [filter[g] EXCEPT !.watchdog = ~filter[g].watchdog]
    BY Zenon
  <2>2. filter[g] \in FilterType
    BY DEF IInv, Types
  <2>3. /\ r \in FilterType /\ r.live = filter[g].live /\ r.nblRefs = filter[g].nblRefs
        /\ r.ReferenceCount = filter[g].ReferenceCount /\ r.nblOpen = filter[g].nblOpen
    BY <2>1, <2>2, Zenon DEF FilterType
  <2>4. filter' = [filter EXCEPT ![g] = r]
    BY <1>1, <2>1
  <2> QED BY <2>3, <2>4 DEF IInv, Types
<1>3. Below' = Below
  BY <1>1 DEF Below
<1>4. AliveInv' /\ QuietInv'
  BY <1>1, <1>2, <1>3, AliveKept, QuietKept DEF IInv
<1> QED BY <1>1, <1>2, <1>4 DEF IInv, Types

(* TxIrpFlush with the rundown: the frames it sends are counted with those   *)
(* that are below already, and the module runs.                              *)
LEMMA SendPreserves ==
    ASSUME IInv, NEW h \in Handles, TxSend(h)
    PROVE  IInv'
<1>1. PICK g, S : g = work[h].f /\ S = Held(h, "flushing")
  OBVIOUS
<1>2. /\ work[h].pc = "flush" /\ filter[g].nblOpen
      /\ filter' = [filter EXCEPT ![g].nblRefs = @ + Cardinality(S)]
      /\ Move(S, BelowFilter) /\ Goes(h, "open") /\ listed' = listed
  BY <1>1 DEF TxSend, At, Own
<1>3. h \in Threads /\ h # Ndis /\ Ndis \in Threads /\ g \in Filters
  BY <1>1, <1>2, ThreadsAre, OwnsFilter DEF IInv
<1>4. work[Ndis].f = g /\ work[Ndis].pc = "running"
  BY <1>2, <1>3 DEF IInv, QuietInv
<1>5. /\ where' = [x \in Frames \cup Foreign |-> where'[x]]
      /\ \A x \in Frames \cup Foreign : where'[x] = IF x \in S THEN BelowFilter ELSE where[x]
  BY <1>2, Moved DEF IInv
<1>6. S \subseteq Frames /\ S \cap Below = {}
  BY <1>1, Places DEF Held, Below
<1>7. Below' = Below \cup S
  BY <1>5, <1>6 DEF Below
<1>8. /\ Cardinality(Below') = Cardinality(Below) + Cardinality(S)
      /\ Cardinality(S) \in Nat /\ Cardinality(Below) \in Nat
  <2>1. IsFiniteSet(S) /\ IsFiniteSet(Below)
    BY <1>1, Finite
  <2>2. Cardinality(Below \cup S) = Cardinality(Below) + Cardinality(S) - Cardinality(Below \cap S)
    BY <2>1, FS_Union
  <2>3. Below \cap S = {}
    BY <1>6
  <2>4. Cardinality(Below \cap S) = 0
    BY <2>3, FS_EmptySet
  <2>5. Cardinality(S) \in Nat /\ Cardinality(Below) \in Nat
    BY <2>1, FS_CardinalityType
  <2> QED BY <1>7, <2>2, <2>4, <2>5
<1>9. /\ filter' \in [Filters -> FilterType]
      /\ filter'[g].nblRefs = filter[g].nblRefs + Cardinality(S)
      /\ \A f \in Filters : /\ filter'[f].live = filter[f].live
                            /\ filter'[f].ReferenceCount = filter[f].ReferenceCount
                            /\ filter'[f].nblOpen = filter[f].nblOpen
      /\ \A f \in Filters \ {g} : filter'[f].nblRefs = filter[f].nblRefs
  BY <1>2, <1>3, <1>8 DEF IInv, Types, FilterType
<1>10. /\ AliveInv' /\ work' \in [Threads -> WorkType]
       /\ \A u \in Threads \ {h} : work'[u] = work[u]
  <2>1. "open" \in PCs \ {"idle", "free"}
    BY DEF PCs
  <2> QED BY <1>2, <1>3, <1>9, <2>1, AliveMoves DEF IInv
<1>11. QuietInv'
  <2>1. work'[Ndis] = work[Ndis]
    BY <1>3, <1>10
  <2>2. filter'[g].nblRefs = Cardinality(Below')
    BY <1>3, <1>4, <1>8, <1>9 DEF IInv, QuietInv
  <2> QED BY <1>4, <1>9, <2>1, <2>2 DEF IInv, QuietInv
<1> QED BY <1>2, <1>5, <1>9, <1>10, <1>11 DEF IInv, Types

(* A completed chain gives back the references of its own frames. *)
LEMMA CompletePreserves ==
    ASSUME IInv, NEW chain \in SUBSET (Frames \cup Foreign),
           FilterSendNetBufferListsComplete(chain)
    PROVE  IInv'
<1>1. PICK g, S : g = work[Ndis].f /\ S = chain \cap Frames
  BY Zenon
<1>2. /\ \A x \in chain : where[x] = BelowFilter
      /\ filter' = [filter EXCEPT ![g].nblRefs = @ - Cardinality(S)]
      /\ Move(chain, Nowhere) /\ UNCHANGED <<listed, work>>
  BY <1>1 DEF FilterSendNetBufferListsComplete, Own
<1>3. /\ where' = [x \in Frames \cup Foreign |-> where'[x]]
      /\ \A x \in Frames \cup Foreign : where'[x] = IF x \in chain THEN Nowhere ELSE where[x]
  BY <1>2, Moved DEF IInv
<1>4. S \subseteq Below /\ Below' = Below \ S
  BY <1>1, <1>2, <1>3, Places DEF Below
<1>5. /\ Cardinality(Below') = Cardinality(Below) - Cardinality(S)
      /\ Cardinality(S) \in Nat /\ Cardinality(Below) \in Nat
  <2>1. IsFiniteSet(Below) /\ IsFiniteSet(S)
    BY <1>4, Finite, FS_Subset
  <2>2. Cardinality(Below \ S) = Cardinality(Below) - Cardinality(Below \cap S)
    BY <2>1, FS_Difference, Zenon
  <2>3. Below \cap S = S
    BY <1>4
  <2> QED BY <1>4, <2>1, <2>2, <2>3, FS_CardinalityType, Zenon
<1>6. /\ filter' \in [Filters -> FilterType]
      /\ g \in Filters => filter'[g].nblRefs = filter[g].nblRefs - Cardinality(S)
      /\ \A f \in Filters : /\ filter'[f].live = filter[f].live
                            /\ filter'[f].ReferenceCount = filter[f].ReferenceCount
                            /\ filter'[f].nblOpen = filter[f].nblOpen
      /\ \A f \in Filters \ {g} : filter'[f].nblRefs = filter[f].nblRefs
  <2>1. CASE g \in Filters
    BY <1>2, <1>5, <2>1 DEF IInv, Types, FilterType
  <2>2. CASE g \notin Filters
    <3>1. filter' = filter
      BY <1>2, <2>2 DEF IInv, Types
    <3> QED BY <2>2, <3>1 DEF IInv, Types
  <2> QED BY <2>1, <2>2
<1>7. AliveInv'
  BY <1>2, <1>6, AliveKept DEF IInv
<1>8. QuietInv'
  <2>1. \A f \in Filters : filter'[f].nblRefs = IF work[Ndis].f = f THEN Cardinality(Below') ELSE 0
    BY <1>1, <1>5, <1>6 DEF IInv, QuietInv
  <2>2. Below' # {} => Below # {}
    BY <1>4
  <2> QED BY <1>2, <1>6, <2>1, <2>2 DEF IInv, QuietInv
<1> QED BY <1>2, <1>3, <1>6, <1>7, <1>8 DEF IInv, Types

(* The other steps of a handle that change its thread. *)
LEMMA IrpPreserves ==
    ASSUME IInv, NEW h \in Handles,
           \/ \E ok \in BOOLEAN : DefaultIrpCreateEnds(h, ok)
           \/ StatusCleanup(h) \/ DefaultCleanup(h) \/ TxIrpFlush(h) \/ TxReturn(h)
           \/ OidInternalRequest(h) \/ OidInternalRequestReturns(h) \/ OidIrpSubmitRequest(h)
    PROVE  IInv'
<1>1. PICK p \in PCs \ {"idle", "free"} : Goes(h, p)
  BY DEF PCs, DefaultIrpCreateEnds, StatusCleanup, DefaultCleanup, TxIrpFlush, TxReturn,
         OidInternalRequest, OidInternalRequestReturns, OidIrpSubmitRequest
<1>2. work[h].pc \notin {"idle", "free"} /\ listed' = listed
  BY DEF At, DefaultIrpCreateEnds, StatusCleanup, DefaultCleanup, TxIrpFlush, TxReturn,
         OidInternalRequest, OidInternalRequestReturns, OidIrpSubmitRequest
<1>3. PICK g : g = work[h].f
  OBVIOUS
<1>4. g \in Filters
  BY <1>2, <1>3, ThreadsAre, OwnsFilter DEF IInv
<1>5. \/ filter' = filter
      \/ filter' = [filter EXCEPT ![g].oidRefs = @ + 1]
      \/ filter' = [filter EXCEPT ![g].oidRefs = @ - 1]
  BY <1>3 DEF Own, DefaultIrpCreateEnds, StatusCleanup, DefaultCleanup, TxIrpFlush, TxReturn,
              OidInternalRequest, OidInternalRequestReturns, OidIrpSubmitRequest
<1>6. /\ filter' \in [Filters -> FilterType]
      /\ \A f \in Filters : /\ filter'[f].live = filter[f].live
                            /\ filter'[f].ReferenceCount = filter[f].ReferenceCount
                            /\ filter'[f].nblRefs = filter[f].nblRefs
                            /\ filter'[f].nblOpen = filter[f].nblOpen
  <2>1. CASE filter' = filter
    BY <2>1 DEF IInv, Types
  <2>2. CASE filter' = [filter EXCEPT ![g].oidRefs = @ + 1]
    BY <1>4, <2>2 DEF IInv, Types, FilterType
  <2>3. CASE filter' = [filter EXCEPT ![g].oidRefs = @ - 1]
    BY <1>4, <2>3 DEF IInv, Types, FilterType
  <2> QED BY <1>5, <2>1, <2>2, <2>3
<1>7. where' = [x \in Frames \cup Foreign |-> where'[x]] /\ Below' = Below
  <2>1. CASE where' = where
    BY <2>1 DEF IInv, Types, Below
  <2>2. CASE DefaultCleanup(h)
    <3>1. \A x \in Held(h, "queued") : where[x] # BelowFilter
      BY Places DEF Held
    <3> QED BY <2>2, <3>1, Places, MovedAbove DEF DefaultCleanup, IInv
  <2>3. CASE TxIrpFlush(h)
    <3>1. \A x \in Held(h, "queued") : where[x] # BelowFilter
      BY Places DEF Held
    <3>2. PICK to : to = [at |-> "flushing", h |-> h]
      BY Zenon
    <3>3. to # BelowFilter /\ Move(Held(h, "queued"), to)
      BY <2>3, <3>2, Places, Zenon DEF TxIrpFlush
    <3> QED BY <3>1, <3>3, MovedAbove DEF IInv
  <2>4. CASE TxReturn(h)
    <3>1. \A x \in Held(h, "flushing") : where[x] # BelowFilter
      BY Places DEF Held
    <3> QED BY <2>4, <3>1, Places, MovedAbove DEF TxReturn, IInv
  <2> QED
    BY <2>1, <2>2, <2>3, <2>4 DEF frameVars, DefaultIrpCreateEnds, StatusCleanup,
       OidInternalRequest, OidInternalRequestReturns, OidIrpSubmitRequest
<1> QED BY <1>1, <1>2, <1>6, <1>7, HandleMoves

(* The steps that change neither a filter nor a thread. *)
LEMMA OtherPreserves ==
    ASSUME IInv, UNCHANGED lifeVars,
           \/ where' = where
           \/ \E h \in Handles, x \in Frames : TxIrpEnqueue(h, x)
           \/ \E x \in Foreign : FilterSendNetBufferLists(x)
    PROVE  IInv'
<1>1. UNCHANGED <<filter, listed, work>>
  BY DEF lifeVars
<1>2. where' = [x \in Frames \cup Foreign |-> where'[x]] /\ Below' = Below
  <2>1. CASE where' = where
    BY <2>1 DEF IInv, Types, Below
  <2>2. ASSUME NEW h \in Handles, NEW x \in Frames, TxIrpEnqueue(h, x)
        PROVE  where' = [y \in Frames \cup Foreign |-> where'[y]] /\ Below' = Below
    <3>1. PICK to : to = [at |-> "queued", h |-> h]
      BY Zenon
    <3>2. to # BelowFilter /\ Move({x}, to) /\ where[x] # BelowFilter
      BY <2>2, <3>1, Places DEF TxIrpEnqueue
    <3> QED BY <3>2, MovedAbove DEF IInv
  <2>3. ASSUME NEW x \in Foreign, FilterSendNetBufferLists(x)
        PROVE  where' = [y \in Frames \cup Foreign |-> where'[y]] /\ Below' = Below
    <3>1. /\ where' = [y \in Frames \cup Foreign |-> where'[y]]
          /\ \A y \in Frames \cup Foreign : where'[y] = IF y \in {x} THEN BelowFilter ELSE where[y]
      BY <2>3, Moved DEF FilterSendNetBufferLists, IInv
    <3>2. x \notin Frames
      BY LwfModuleAssumption
    <3> QED BY <3>1, <3>2 DEF Below
  <2> QED BY <2>1, <2>2, <2>3
<1>3. AliveInv' /\ QuietInv'
  BY <1>1, <1>2, AliveKept, QuietKept DEF IInv
<1> QED BY <1>1, <1>2, <1>3 DEF IInv, Types

\* Every step preserves the invariant.
LEMMA NextIInv == IInv /\ [Next]_vars => IInv'
<1> SUFFICES ASSUME IInv, [Next]_vars PROVE IInv'
  OBVIOUS
<1>1. ASSUME NEW h \in Handles, DefaultIrpDeviceIoControl(h)
      PROVE  IInv'
  <2>1. CASE TxIrpFlush(h) \/ OidInternalRequest(h)
    BY <2>1, IrpPreserves
  <2>2. CASE \E x \in Frames : TxIrpEnqueue(h, x)
    <3>1. UNCHANGED lifeVars
      BY <2>2 DEF TxIrpEnqueue
    <3> QED BY <2>2, <3>1, OtherPreserves
  <2>3. CASE \/ StatusIrpGetIndication(h)
             \/ \E code \in Codes, queue \in BOOLEAN : StatusIrpFilter(h, code, queue)
    <3>1. UNCHANGED lifeVars /\ where' = where
      BY <2>3 DEF StatusIrpGetIndication, StatusIrpFilter, frameVars
    <3> QED BY <3>1, OtherPreserves
  <2> QED BY <1>1, <2>1, <2>2, <2>3 DEF DefaultIrpDeviceIoControl
<1>2. ASSUME NEW h \in Handles, IrpStep(h)
      PROVE  IInv'
  BY <1>2, IrpPreserves, SendPreserves DEF IrpStep
<1>3. ASSUME NEW h \in Handles, \E ok \in BOOLEAN : DefaultIrpCreateEnds(h, ok)
      PROVE  IInv'
  BY <1>3, IrpPreserves
<1>4. CASE NdisReturns
  BY <1>4, PauseEndsPreserves, DetachPreserves DEF NdisReturns
<1>5. CASE NdisCompletes
  <2>1. ASSUME NEW h \in Handles, OidInternalRequestComplete(h)
        PROVE  IInv'
    <3>1. UNCHANGED lifeVars /\ where' = where
      BY <2>1 DEF OidInternalRequestComplete, frameVars
    <3> QED BY <3>1, OtherPreserves
  <2>2. ASSUME NEW r \in Requests, FilterOidRequestComplete(r)
        PROVE  IInv'
    <3>1. UNCHANGED lifeVars /\ where' = where
      BY <2>2 DEF FilterOidRequestComplete, frameVars
    <3> QED BY <3>1, OtherPreserves
  <2> QED BY <1>5, <2>1, <2>2, CompletePreserves DEF NdisCompletes
<1>6. ASSUME NEW x \in Foreign, FilterSendNetBufferLists(x)
      PROVE  IInv'
  <2>1. UNCHANGED lifeVars
    BY <1>6 DEF FilterSendNetBufferLists
  <2> QED BY <1>6, <2>1, OtherPreserves
<1>7. ASSUME NEW r \in Requests,
             FilterOidRequest(r) \/ \E p \in BOOLEAN : FilterOidRequestReturns(r, p)
      PROVE  IInv'
  <2>1. UNCHANGED lifeVars /\ where' = where
    BY <1>7 DEF FilterOidRequest, FilterOidRequestReturns, frameVars
  <2> QED BY <2>1, OtherPreserves
<1>8. ASSUME NEW code \in Codes, FilterStatus(code)
      PROVE  IInv'
  <2>1. UNCHANGED lifeVars /\ where' = where
    BY <1>8 DEF FilterStatus, frameVars
  <2> QED BY <2>1, OtherPreserves
<1>9. CASE UNCHANGED vars
  <2>1. UNCHANGED lifeVars /\ where' = where
    BY <1>9 DEF vars, lifeVars
  <2> QED BY <2>1, OtherPreserves
<1>10. ASSUME NEW t \in Threads, ThreadStep(t)
       PROVE  IInv'
  BY <1>10, DereferencePreserves, FreePreserves DEF ThreadStep
<1>11. ASSUME NEW h \in Handles, StatusCleanup(h)
       PROVE  IInv'
  BY <1>11, IrpPreserves
<1> QED
  BY <1>1, <1>2, <1>3, <1>4, <1>5, <1>6, <1>7, <1>8, <1>9, <1>10, <1>11,
     AttachPreserves, RestartPreserves, DetachPreserves, WatchdogPreserves, CreatePreserves
  DEF Next

\* The invariant holds throughout.
LEMMA Inductive == Spec => []IInv
BY InitIInv, NextIInv, PTL DEF Spec

(* No frame injected by a client is below a paused module, and the rundown   *)
(* counts the frames below exactly, however flushes, completions and pauses  *)
(* interleave (TxIrpFlush, FilterSendNetBufferListsComplete, FilterPause).   *)
THEOREM PausedModuleIsQuiet == Spec => []PausedIsQuiet
<1>1. IInv => PausedIsQuiet
  BY DEF IInv, QuietInv, PausedIsQuiet, Own
<1> QED BY <1>1, Inductive, PTL

(* A filter is live while NDIS or a handle is in it or finds it in the list, *)
(* and its count is the number of its holders until one thread frees it      *)
(* (FilterFindAndReferenceFilter, FilterDereferenceFilter).                  *)
THEOREM FilterOutlivesHolders == Spec => []FilterAlive
<1>1. IInv => FilterAlive
  <2> SUFFICES ASSUME IInv PROVE FilterAlive
    OBVIOUS
  <2>1. \A t \in Threads : work[t].pc # "idle" => filter[Own(t)].live
    BY DEF IInv, AliveInv, Own
  <2>2. \A f \in Filters : filter[f].ReferenceCount =
            Cardinality({t \in Threads : Own(t) = f /\ work[t].pc # "free"})
    BY DEF IInv, AliveInv, Own, Holders
  <2>3. \A f \in listed : filter[f].live
    <3>1. Ndis \in Threads
      BY ThreadsAre
    <3> QED BY <3>1 DEF IInv, AliveInv, Attached
  <2> QED BY <2>1, <2>2, <2>3 DEF FilterAlive
<1> QED BY <1>1, Inductive, PTL

-----------------------------------------------------------------------------
(* Status indications.  That the list names open handles only needs that a   *)
(* handle is in it once, so that unlinking it takes it out.                  *)

StatusType == [code : Codes \cup {None}, queue : BOOLEAN, list : Seq(Codes)]
Closed == {"idle", "opening", "cleanup", "dereference", "free"}

StatusInv ==
    /\ status \in [Handles -> StatusType] /\ statusList \in Seq(Handles)
    /\ \A i, j \in 1 .. Len(statusList) : statusList[i] = statusList[j] => i = j
    /\ \A i \in 1 .. Len(statusList) : work[statusList[i]].pc \notin Closed
    /\ \A h \in Handles : \A i \in 1 .. Len(status[h].list) :
           status[h].list[i] = status[h].code /\ status[h].queue

\* A step that leaves the status filters alone and takes no handle out of its open state.
LEMMA StatusKept ==
    ASSUME StatusInv, UNCHANGED statusVars,
           \A h \in Handles : work[h].pc \notin Closed => work'[h].pc \notin Closed
    PROVE  StatusInv'
<1>1. status' = status /\ statusList' = statusList
  BY DEF statusVars
<1>2. \A i \in 1 .. Len(statusList) : statusList[i] \in Handles
  BY DEF StatusInv
<1> QED BY <1>1, <1>2 DEF StatusInv

\* A thread that goes to another place.
LEMMA ThreadGoes ==
    ASSUME Types, NEW t \in Threads, NEW p, Goes(t, p)
    PROVE  work'[t].pc = p /\ \A u \in Threads \ {t} : work'[u] = work[u]
<1>1. work \in [Threads -> WorkType]
  BY DEF Types
<1> QED BY <1>1 DEF Goes, WorkType

\* A step of a handle between two places of an open one, or from a closed one.
LEMMA StatusHandleGoes ==
    ASSUME Types, StatusInv, UNCHANGED statusVars, NEW h \in Handles, NEW p, Goes(h, p),
           work[h].pc \in Closed \/ p \notin Closed
    PROVE  StatusInv'
<1>1. work'[h].pc = p /\ \A u \in Threads \ {h} : work'[u] = work[u]
  BY ThreadGoes, ThreadsAre
<1>2. \A g \in Handles : work[g].pc \notin Closed => work'[g].pc \notin Closed
  BY <1>1, ThreadsAre
<1> QED BY <1>2, StatusKept

\* A step of the NDIS thread.
LEMMA StatusNdisGoes ==
    ASSUME Types, StatusInv, UNCHANGED statusVars, NEW p, Goes(Ndis, p)
    PROVE  StatusInv'
<1>1. \A u \in Threads \ {Ndis} : work'[u] = work[u]
  BY ThreadGoes, ThreadsAre
<1>2. \A g \in Handles : work[g].pc \notin Closed => work'[g].pc \notin Closed
  BY <1>1, ThreadsAre
<1> QED BY <1>2, StatusKept

\* At first nothing is filtered.
LEMMA InitStatus == Init => StatusInv
<1> SUFFICES ASSUME Init PROVE StatusInv
  OBVIOUS
<1>1. NoStatus \in StatusType /\ Len(NoStatus.list) = 0
  <2>1. <<>> \in Seq(Codes) /\ Len(<<>>) = 0
    OBVIOUS
  <2> QED BY <2>1 DEF NoStatus, StatusType
<1>2. status \in [Handles -> StatusType] /\ \A h \in Handles : Len(status[h].list) = 0
  BY <1>1 DEF Init
<1>3. statusList \in Seq(Handles) /\ Len(statusList) = 0
  BY DEF Init
<1> QED BY <1>2, <1>3 DEF StatusInv

\* A part of a sequence.
LEMMA Part ==
    ASSUME NEW S, NEW s \in Seq(S), NEW m \in 1 .. Len(s) + 1, NEW n \in 0 .. Len(s), m <= n + 1,
           NEW q, q = SubSeq(s, m, n)
    PROVE  q \in Seq(S) /\ Len(q) = n - m + 1 /\ \A j \in 1 .. Len(q) : q[j] = s[j + m - 1]
OBVIOUS

\* t is the sequence s over S without its i-th element.
Without(S, s, i, t) ==
    /\ t \in Seq(S) /\ Len(t) = Len(s) - 1
    /\ \A j \in 1 .. Len(t) : t[j] = IF j < i THEN s[j] ELSE s[j + 1]

LEMMA WithoutOne ==
    ASSUME NEW S, NEW s \in Seq(S), NEW i \in 1 .. Len(s),
           NEW t, t = RemoveEntryList(s, i)
    PROVE  Without(S, s, i, t)
<1>1. PICK a \in Seq(S) : /\ a = SubSeq(s, 1, i - 1) /\ Len(a) = i - 1
                          /\ \A j \in 1 .. Len(a) : a[j] = s[j]
  <2>1. PICK a : a = SubSeq(s, 1, i - 1)
    BY Zenon
  <2>2. 1 \in 1 .. Len(s) + 1 /\ i - 1 \in 0 .. Len(s) /\ 1 <= (i - 1) + 1
    OBVIOUS
  <2>3. a \in Seq(S) /\ Len(a) = i - 1 /\ \A j \in 1 .. Len(a) : a[j] = s[j]
    BY <2>1, <2>2, Part
  <2> QED BY <2>1, <2>3
<1>2. PICK b \in Seq(S) : /\ b = SubSeq(s, i + 1, Len(s)) /\ Len(b) = Len(s) - i
                          /\ \A j \in 1 .. Len(b) : b[j] = s[j + i]
  <2>1. PICK b : b = SubSeq(s, i + 1, Len(s))
    BY Zenon
  <2>2. i + 1 \in 1 .. Len(s) + 1 /\ Len(s) \in 0 .. Len(s) /\ i + 1 <= Len(s) + 1
    OBVIOUS
  <2>3. b \in Seq(S) /\ Len(b) = Len(s) - i /\ \A j \in 1 .. Len(b) : b[j] = s[j + i]
    BY <2>1, <2>2, Part
  <2> QED BY <2>1, <2>3, Zenon
<1>3. t = a \o b
  BY <1>1, <1>2 DEF RemoveEntryList
<1>4. /\ t \in Seq(S) /\ Len(t) = Len(a) + Len(b)
      /\ \A j \in 1 .. Len(t) : t[j] = IF j <= Len(a) THEN a[j] ELSE b[j - Len(a)]
  BY <1>3
<1>5. Len(s) \in Nat /\ Len(a) = i - 1 /\ Len(b) = Len(s) - i /\ Len(t) = Len(s) - 1
  BY <1>1, <1>2, <1>4
<1>6. ASSUME NEW j \in 1 .. Len(t)
      PROVE  t[j] = IF j < i THEN s[j] ELSE s[j + 1]
  <2>1. CASE j < i
    <3>1. j <= Len(a) /\ j \in 1 .. Len(a)
      BY <1>5, <2>1
    <3>2. t[j] = s[j]
      BY <1>1, <1>4, <3>1
    <3> QED BY <2>1, <3>2
  <2>2. CASE ~(j < i)
    <3>1. ~(j <= Len(a)) /\ j - Len(a) \in 1 .. Len(b) /\ (j - Len(a)) + i = j + 1
      BY <1>5, <2>2
    <3>2. t[j] = s[j + 1]
      BY <1>2, <1>4, <3>1, Zenon
    <3> QED BY <2>2, <3>2
  <2> QED BY <2>1, <2>2
<1> QED BY <1>4, <1>5, <1>6 DEF Without

\* StatusCleanup drops what is queued and unlinks the handle.
LEMMA StatusCleanupStep ==
    ASSUME Types, StatusInv, NEW h \in Handles, StatusCleanup(h)
    PROVE  StatusInv'
<1>1. /\ work'[h].pc = "cleanup" /\ \A g \in Handles \ {h} : work'[g] = work[g]
  BY ThreadGoes, ThreadsAre DEF StatusCleanup
<1>2. NoStatus \in StatusType /\ Len(NoStatus.list) = 0
  <2>1. <<>> \in Seq(Codes) /\ Len(<<>>) = 0
    OBVIOUS
  <2> QED BY <2>1 DEF NoStatus, StatusType
<1>3. /\ status' \in [Handles -> StatusType] /\ Len(status'[h].list) = 0
      /\ \A g \in Handles \ {h} : status'[g] = status[g]
  BY <1>2 DEF StatusCleanup, StatusInv
<1>4. \A g \in Handles : \A i \in 1 .. Len(status'[g].list) :
          status'[g].list[i] = status'[g].code /\ status'[g].queue
  <2> SUFFICES ASSUME NEW g \in Handles, NEW i \in 1 .. Len(status'[g].list)
               PROVE  status'[g].list[i] = status'[g].code /\ status'[g].queue
    OBVIOUS
  <2>1. g # h
    BY <1>3
  <2>2. status'[g] = status[g]
    BY <1>3, <2>1, Zenon
  <2>3. i \in 1 .. Len(status[g].list)
    BY <2>2, Zenon
  <2> QED BY <2>2, <2>3, Zenon DEF StatusInv
<1>5. CASE h \notin Filtering /\ UNCHANGED statusList
  <2>1. \A i \in 1 .. Len(statusList) : statusList[i] \in Handles \ {h}
    BY <1>5 DEF Filtering, StatusInv
  <2> QED BY <1>1, <1>3, <1>4, <1>5, <2>1 DEF StatusInv
<1>6. ASSUME NEW i \in DOMAIN statusList, statusList[i] = h,
             statusList' = RemoveEntryList(statusList, i)
      PROVE  StatusInv'
  <2>1. statusList \in Seq(Handles) /\ i \in 1 .. Len(statusList)
    <3>1. statusList \in Seq(Handles)
      BY Zenon DEF StatusInv
    <3> QED BY <3>1
  <2>2. PICK t : t = RemoveEntryList(statusList, i)
    BY Zenon
  <2>3. /\ t \in Seq(Handles) /\ Len(t) = Len(statusList) - 1
        /\ \A j \in 1 .. Len(t) : t[j] = IF j < i THEN statusList[j] ELSE statusList[j + 1]
    <3>1. Without(Handles, statusList, i, t)
      BY <2>1, <2>2, WithoutOne, Zenon
    <3> QED BY <3>1, Zenon DEF Without
  <2>4. ASSUME NEW j \in 1 .. Len(t)
        PROVE  t[j] \in Handles \ {h} /\ work[t[j]].pc \notin Closed
    <3>1. PICK m \in 1 .. Len(statusList) : t[j] = statusList[m] /\ m = IF j < i THEN j ELSE j + 1
      BY <2>1, <2>3
    <3>2. m # i
      BY <2>1, <3>1
    <3>3. statusList[m] \in Handles
      BY <2>1
    <3>4. statusList[m] # statusList[i] /\ work[statusList[m]].pc \notin Closed
      BY <2>1, <3>2, Zenon DEF StatusInv
    <3> QED BY <1>6, <3>1, <3>3, <3>4, Zenon
  <2>5. \A j, k \in 1 .. Len(t) : t[j] = t[k] => j = k
    <3> SUFFICES ASSUME NEW j \in 1 .. Len(t), NEW k \in 1 .. Len(t), t[j] = t[k] PROVE j = k
      OBVIOUS
    <3>1. PICK m \in 1 .. Len(statusList) : t[j] = statusList[m] /\ m = IF j < i THEN j ELSE j + 1
      BY <2>1, <2>3
    <3>2. PICK n \in 1 .. Len(statusList) : t[k] = statusList[n] /\ n = IF k < i THEN k ELSE k + 1
      BY <2>1, <2>3
    <3>3. m = n
      BY <3>1, <3>2, Zenon DEF StatusInv
    <3> QED BY <2>1, <3>1, <3>2, <3>3
  <2>6. statusList' = t
    BY <1>6, <2>2
  <2>7. \A j \in 1 .. Len(t) : work'[t[j]].pc \notin Closed
    BY <1>1, <2>4
  <2> QED BY <1>3, <1>4, <2>3, <2>5, <2>6, <2>7, Zenon DEF StatusInv
<1> QED BY <1>5, <1>6 DEF StatusCleanup

\* StatusIrpFilter empties the queue, and links a handle that is not linked yet.
LEMMA StatusFilterStep ==
    ASSUME StatusInv, NEW h \in Handles, NEW code \in Codes, NEW queue \in BOOLEAN,
           StatusIrpFilter(h, code, queue)
    PROVE  StatusInv'
<1>1. work' = work /\ work[h].pc = "open"
  BY DEF StatusIrpFilter, At, lifeVars
<1>2. PICK s : s = [code |-> code, queue |-> queue, list |-> <<>>]
  BY Zenon
<1>3. s \in StatusType /\ Len(s.list) = 0
  <2>1. <<>> \in Seq(Codes) /\ Len(<<>>) = 0
    OBVIOUS
  <2> QED BY <1>2, <2>1 DEF StatusType
<1>4. /\ status' \in [Handles -> StatusType] /\ Len(status'[h].list) = 0
      /\ \A g \in Handles \ {h} : status'[g] = status[g]
  BY <1>2, <1>3, Zenon DEF StatusIrpFilter, StatusInv
<1>5. \A g \in Handles : \A i \in 1 .. Len(status'[g].list) :
          status'[g].list[i] = status'[g].code /\ status'[g].queue
  <2> SUFFICES ASSUME NEW g \in Handles, NEW i \in 1 .. Len(status'[g].list)
               PROVE  status'[g].list[i] = status'[g].code /\ status'[g].queue
    OBVIOUS
  <2>1. g # h
    BY <1>4
  <2>2. status'[g] = status[g]
    BY <1>4, <2>1, Zenon
  <2>3. i \in 1 .. Len(status[g].list)
    BY <2>2, Zenon
  <2> QED BY <2>2, <2>3, Zenon DEF StatusInv
<1>6. CASE h \in Filtering
  <2>1. statusList' = statusList
    BY <1>6 DEF StatusIrpFilter
  <2> QED BY <1>1, <1>4, <1>5, <2>1, Zenon DEF StatusInv
<1>7. CASE h \notin Filtering
  <2>1. statusList \in Seq(Handles) /\ \A i \in 1 .. Len(statusList) : statusList[i] # h
    BY <1>7 DEF Filtering, StatusInv
  <2>2. PICK t : t = Append(statusList, h)
    BY Zenon
  <2>3. /\ t \in Seq(Handles) /\ Len(t) = Len(statusList) + 1 /\ t[Len(t)] = h
        /\ \A i \in 1 .. Len(statusList) : t[i] = statusList[i]
    BY <2>1, <2>2
  <2>4. \A i \in 1 .. Len(t) : i = Len(t) \/ i \in 1 .. Len(statusList)
    BY <2>1, <2>3
  <2>5. \A i \in 1 .. Len(t) : work[t[i]].pc \notin Closed
    BY <1>1, <2>3, <2>4 DEF StatusInv, Closed
  <2>6. \A i, j \in 1 .. Len(t) : t[i] = t[j] => i = j
    BY <2>1, <2>3, <2>4 DEF StatusInv
  <2>7. statusList' = t
    BY <1>7, <2>2 DEF StatusIrpFilter
  <2> QED BY <1>1, <1>4, <1>5, <2>3, <2>5, <2>6, <2>7, Zenon DEF StatusInv
<1> QED BY <1>6, <1>7

\* StatusIrpGetIndication takes the first, FilterStatus appends to a matching filter.
LEMMA StatusQueueStep ==
    ASSUME StatusInv,
           \/ \E h \in Handles : StatusIrpGetIndication(h)
           \/ \E code \in Codes : FilterStatus(code)
    PROVE  StatusInv'
<1>1. work' = work /\ statusList' = statusList
  BY DEF StatusIrpGetIndication, FilterStatus, lifeVars
<1>2. PICK h \in Handles, q \in Seq(Codes) :
        /\ status' = [status EXCEPT ![h].list = q]
        /\ \A i \in 1 .. Len(q) : q[i] = status[h].code /\ status[h].queue
  <2>1. ASSUME NEW h \in Handles, StatusIrpGetIndication(h)
        PROVE  \E q \in Seq(Codes) :
                  /\ status' = [status EXCEPT ![h].list = q]
                  /\ \A i \in 1 .. Len(q) : q[i] = status[h].code /\ status[h].queue
    <3>1. PICK l : l = status[h].list
      OBVIOUS
    <3>2. l \in Seq(Codes) /\ l # <<>>
      BY <2>1, <3>1 DEF StatusInv, StatusType, StatusIrpGetIndication
    <3>3. PICK q : q = Tail(l)
      BY Zenon
    <3>4. q \in Seq(Codes) /\ \A i \in 1 .. Len(q) : q[i] = l[i + 1] /\ i + 1 \in 1 .. Len(l)
      BY <3>2, <3>3
    <3>5. status' = [status EXCEPT ![h].list = q]
      BY <2>1, <3>1, <3>3 DEF StatusIrpGetIndication
    <3>6. \A i \in 1 .. Len(q) : q[i] = status[h].code /\ status[h].queue
      BY <3>1, <3>4 DEF StatusInv
    <3> QED BY <3>4, <3>5, <3>6, Zenon
  <2>2. ASSUME NEW code \in Codes, FilterStatus(code)
        PROVE  \E h \in Handles : \E q \in Seq(Codes) :
                  /\ status' = [status EXCEPT ![h].list = q]
                  /\ \A i \in 1 .. Len(q) : q[i] = status[h].code /\ status[h].queue
    <3>1. PICK n \in Match(code) :
            /\ status[statusList[n]].queue
            /\ status' = [status EXCEPT ![statusList[n]].list = Append(@, code)]
      BY <2>2, Zenon DEF FilterStatus
    <3>2. PICK h \in Handles : h = statusList[n] /\ status[h].code = code
      BY <3>1 DEF Match, StatusInv
    <3>3. PICK l : l = status[h].list
      OBVIOUS
    <3>4. l \in Seq(Codes)
      BY <3>3 DEF StatusInv, StatusType
    <3>5. PICK q : q = Append(l, code)
      BY Zenon
    <3>6. /\ q \in Seq(Codes)
          /\ \A i \in 1 .. Len(q) : q[i] = code \/ (i \in 1 .. Len(l) /\ q[i] = l[i])
      BY <3>4, <3>5
    <3>7. status' = [status EXCEPT ![h].list = q]
      BY <3>1, <3>2, <3>3, <3>5
    <3>8. \A i \in 1 .. Len(q) : q[i] = status[h].code /\ status[h].queue
      BY <3>1, <3>2, <3>3, <3>6 DEF StatusInv
    <3> QED BY <3>6, <3>7, <3>8, Zenon
  <2> QED BY <2>1, <2>2
<1>3. status[h] \in StatusType
  BY DEF StatusInv
<1>4. PICK s : s = [status[h] EXCEPT !.list = q]
  BY Zenon
<1>5. s \in StatusType /\ s.code = status[h].code /\ s.queue = status[h].queue /\ s.list = q
  BY <1>3, <1>4 DEF StatusType
<1>6. status' = [status EXCEPT ![h] = s]
  BY <1>2, <1>4
<1>7. /\ status' \in [Handles -> StatusType] /\ status'[h] = s
      /\ \A g \in Handles \ {h} : status'[g] = status[g]
  BY <1>5, <1>6 DEF StatusInv
<1>8. \A g \in Handles : \A i \in 1 .. Len(status'[g].list) :
          status'[g].list[i] = status'[g].code /\ status'[g].queue
  BY <1>2, <1>5, <1>7 DEF StatusInv
<1> QED BY <1>1, <1>7, <1>8, Zenon DEF StatusInv

\* Every step preserves what is said of the status filters.
LEMMA NextStatus == Types /\ StatusInv /\ [Next]_vars => StatusInv'
<1> SUFFICES ASSUME Types, StatusInv, [Next]_vars PROVE StatusInv'
  OBVIOUS
<1>1. CASE UNCHANGED <<work, statusVars>>
  BY <1>1, StatusKept
<1>2. ASSUME NEW p, Goes(Ndis, p), UNCHANGED statusVars PROVE StatusInv'
  BY <1>2, StatusNdisGoes
<1>3. ASSUME NEW f \in Filters, NEW ok \in BOOLEAN, FilterAttach(f, ok) PROVE StatusInv'
  <2>1. UNCHANGED statusVars /\ \A g \in Handles : work'[g] = work[g]
    BY <1>3, ThreadsAre DEF FilterAttach, Types
  <2> QED BY <2>1, StatusKept
<1>4. ASSUME NEW t \in Threads, ThreadStep(t) PROVE StatusInv'
  <2>1. UNCHANGED statusVars /\ work[t].pc \in Closed /\ \A u \in Threads \ {t} : work'[u] = work[u]
    BY <1>4 DEF ThreadStep, FilterDereferenceFilter, FilterFree, At, Closed, Types
  <2>2. \A g \in Handles : work[g].pc \notin Closed => work'[g].pc \notin Closed
    BY <2>1, ThreadsAre
  <2> QED BY <2>1, <2>2, StatusKept
<1>5. ASSUME NEW h \in Handles, DefaultIrpCreate(h) PROVE StatusInv'
  <2>1. UNCHANGED statusVars /\ work[h].pc \in Closed /\ \A u \in Threads \ {h} : work'[u] = work[u]
    BY <1>5 DEF DefaultIrpCreate, At, Closed, Types
  <2>2. \A g \in Handles : work[g].pc \notin Closed => work'[g].pc \notin Closed
    BY <2>1, ThreadsAre
  <2> QED BY <2>1, <2>2, StatusKept
<1>6. ASSUME NEW h \in Handles,
             \/ IrpStep(h) \/ TxIrpFlush(h) \/ OidInternalRequest(h)
             \/ \E ok \in BOOLEAN : DefaultIrpCreateEnds(h, ok)
      PROVE  StatusInv'
  <2>1. UNCHANGED statusVars
    BY <1>6 DEF IrpStep, DefaultCleanup, TxSend, TxReturn, OidInternalRequestReturns,
                OidIrpSubmitRequest, TxIrpFlush, OidInternalRequest, DefaultIrpCreateEnds
  <2>2. \E p : Goes(h, p) /\ (work[h].pc \in Closed \/ p \notin Closed)
    BY <1>6 DEF IrpStep, DefaultCleanup, TxSend, TxReturn, OidInternalRequestReturns, At, Closed,
                OidIrpSubmitRequest, TxIrpFlush, OidInternalRequest, DefaultIrpCreateEnds
  <2> QED BY <2>1, <2>2, StatusHandleGoes
<1>7. ASSUME NEW h \in Handles, DefaultIrpDeviceIoControl(h) PROVE StatusInv'
  <2>1. CASE TxIrpFlush(h) \/ OidInternalRequest(h)
    BY <1>6, <2>1
  <2>2. CASE \E x \in Frames : TxIrpEnqueue(h, x)
    BY <1>1, <2>2 DEF TxIrpEnqueue, lifeVars
  <2> QED BY <1>7, <2>1, <2>2, StatusQueueStep, StatusFilterStep DEF DefaultIrpDeviceIoControl
<1>8. CASE \/ FilterRestart \/ FilterPause \/ FilterDetach \/ NdisReturns
  <2>1. UNCHANGED statusVars /\ \E p : Goes(Ndis, p)
    BY <1>8 DEF FilterRestart, FilterPause, FilterDetach, NdisReturns, FilterPauseEnds,
                FilterDetachRundown, FilterDetachEnds
  <2> QED BY <1>2, <2>1
<1>9. CASE NdisCompletes \/ \E f \in Filters : FilterWatchdogTimeout(f)
  <2>1. UNCHANGED <<work, statusVars>>
    BY <1>9, Zenon DEF NdisCompletes, FilterWatchdogTimeout, FilterSendNetBufferListsComplete,
                OidInternalRequestComplete, FilterOidRequestComplete, lifeVars
  <2> QED BY <1>1, <2>1
<1>10. CASE \/ \E x \in Foreign : FilterSendNetBufferLists(x)
            \/ \E r \in Requests : \/ FilterOidRequest(r)
                                   \/ \E p \in BOOLEAN : FilterOidRequestReturns(r, p)
  <2>1. UNCHANGED <<work, statusVars>>
    BY <1>10, Zenon DEF FilterSendNetBufferLists, FilterOidRequest, FilterOidRequestReturns, lifeVars
  <2> QED BY <1>1, <2>1
<1>11. CASE UNCHANGED vars
  BY <1>1, <1>11 DEF vars, statusVars
<1> QED
  BY <1>3, <1>4, <1>5, <1>6, <1>7, <1>8, <1>9, <1>10, <1>11, StatusCleanupStep, StatusQueueStep
  DEF Next

(* What a client reads was queued under the filter it has set, and the list  *)
(* of a module names open handles only, for any number of handles, codes and *)
(* indications (StatusIrpFilter, StatusCleanup, FilterStatus).               *)
THEOREM QueuesBelongToFilters == Spec => []QueueBelongsToFilter
<1>1. Spec => []StatusInv
  <2>1. IInv => Types
    BY DEF IInv
  <2> QED BY <2>1, Inductive, InitStatus, NextStatus, PTL DEF Spec
<1>2. StatusInv => QueueBelongsToFilter
  <2> SUFFICES ASSUME StatusInv PROVE QueueBelongsToFilter
    OBVIOUS
  <2>1. /\ DOMAIN statusList = 1 .. Len(statusList)
        /\ \A h \in Handles : DOMAIN status[h].list = 1 .. Len(status[h].list)
    BY DEF StatusInv, StatusType
  <2> QED BY <2>1, Zenon DEF StatusInv, QueueBelongsToFilter, Filtering, Closed
<1> QED BY <1>1, <1>2, PTL
=============================================================================

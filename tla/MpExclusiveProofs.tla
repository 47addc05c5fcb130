-------------------------- MODULE MpExclusiveProofs ---------------------------
(***************************************************************************)
(* Proofs about MpExclusive, for any sets of handles, clients, ports and   *)
(* requests, and any filters.                                              *)
(*                                                                         *)
(* The inductive invariant has four parts beside the types.  OidInv: every *)
(* request NDIS waits for is at one place of the lists and the threads'    *)
(* hands, and without a filter the lists are empty.  PortInv: the list has *)
(* the ports that have a state, each once, and NDIS's view of a port is    *)
(* the one its state says; a port NDIS has allocated that is not listed is *)
(* in the hands of a thread about to insert it.  ThreadInv: where a thread *)
(* is says in which state its port and its handle are, no two threads are  *)
(* at one port, and a handle that is not open is cleaned up by one thread. *)
(* OwnInv: the owner is the handle that is open or being closed, and ports *)
(* and filter are an owner's.                                              *)
(*                                                                         *)
(* The steps are sorted by what they leave alone: PortStep, OidStep and    *)
(* NdisStep say what remains to be shown of each kind.                     *)
(***************************************************************************)
EXTENDS MpExclusive, FiniteSetTheorems, TLAPS

\* Every request that NDIS waits for is in one place of f, any other in none.
Once(f, O) ==
    /\ \A x \in DOMAIN f : \A j \in 1 .. Len(f[x]) : f[x][j] \in O
    /\ \A x, y \in DOMAIN f : \A j \in 1 .. Len(f[x]), k \in 1 .. Len(f[y]) :
          f[x][j] = f[y][k] => x = y /\ j = k
    /\ \A r \in O : \E x \in DOMAIN f : \E j \in 1 .. Len(f[x]) : f[x][j] = r

OidInv ==
    /\ Once(Held, outstanding)
    /\ \A r \in late : \E i \in Interfaces : \E j \in 1 .. Len(Filtered[i]) : Filtered[i][j] = r
    /\ OidFilterKeys = {} => \A i \in Interfaces : Filtered[i] = <<>>

In(s, x) == \E i \in 1 .. Len(s) : s[i] = x
Distinct(s) == \A i, j \in 1 .. Len(s) : s[i] = s[j] => i = j

PortInv ==
    /\ Distinct(PortList)
    /\ \A p \in Ports : State[p] # "none" <=> In(PortList, p)
    /\ \A p \in Ports : State[p] \in {"allocated", "activating"} => ndis[p] = "allocated"
    /\ \A p \in Ports : State[p] \in {"activated", "deactivating"} => ndis[p] = "active"
    /\ \A p \in Ports : State[p] = "none" /\ ndis[p] # "free" =>
          \E w \in Workers : work[w].pc = "insert" /\ work[w].port = p

Transit == {"activate", "deactivate", "deactivated"}
Cleaning == {"ports", "deactivated", "release"}

\* A thread at an operation on a port, and what it has made of the port.
PortFits(r) ==
    /\ r.port # NoPort <=> r.pc \in Transit \cup {"insert"}
    /\ r.pc = "insert" => State[r.port] = "none" /\ ndis[r.port] = "allocated"
    /\ asserted = "none" /\ r.pc \in Transit =>
          State[r.port] = IF r.pc = "activate" THEN "activating" ELSE "deactivating"

\* The handle a thread works on.
HandleFits(w, r) ==
    /\ r.reqs # <<>> <=> r.pc = "complete"
    /\ r.pc = "idle" => r.on = NoHandle
    /\ r.on = NoHandle => r.pc \in {"idle", "flush", "complete"}
    /\ w # Watchdog /\ r.on = NoHandle => r.pc = "idle"
    /\ w = Watchdog => r.on = NoHandle
    /\ r.pc \in {"insert", "activate", "deactivate"} => file[r.on] = "open"
    /\ r.pc \in Cleaning => file[r.on] \in {"closing", "refused"}
    /\ r.pc = "flush" /\ r.on # NoHandle => file[r.on] = "closing"
    /\ r.pc = "complete" /\ r.on # NoHandle => file[r.on] \in {"open", "closing"}
    /\ r.pc \in {"flush", "complete", "release"} /\ r.on # NoHandle /\ file[r.on] = "closing" =>
          PortList = <<>>
    /\ r.pc \in {"complete", "release"} /\ r.on # NoHandle /\ file[r.on] = "closing" =>
          OidFilterKeys = {}

ThreadInv ==
    /\ \A w \in Workers : PortFits(work[w]) /\ HandleFits(w, work[w])
    /\ \A w, v \in Workers : work[w].port # NoPort /\ work[w].port = work[v].port => w = v
    /\ \A w, v \in Workers :
          work[w].on # NoHandle /\ work[w].on = work[v].on /\ file[work[w].on] # "open" => w = v

OwnInv ==
    /\ \A h \in Handles : file[h] \in {"open", "closing"} <=> UserContext = h
    /\ \A h \in SetOidFilter : UserContext = h
    /\ OidFilterKeys # {} => UserContext \in SetOidFilter
    /\ UserContext = NoHandle => PortList = <<>>

IInv == TypeOK /\ OidInv /\ PortInv /\ ThreadInv /\ OwnInv

-----------------------------------------------------------------------------
(* Requests that move between the sequences of a function.                 *)

\* Equal requests are at the same place.
LEMMA OnceEqual ==
    ASSUME NEW f, NEW O, Once(f, O), NEW x \in DOMAIN f, NEW y \in DOMAIN f,
           NEW j \in 1 .. Len(f[x]), NEW k \in 1 .. Len(f[y]), f[x][j] = f[y][k]
    PROVE  x = y /\ j = k
BY DEF Once

\* What is held is waited for.
LEMMA OnceHeld ==
    ASSUME NEW f, NEW O, Once(f, O), NEW x \in DOMAIN f, NEW j \in 1 .. Len(f[x])
    PROVE  f[x][j] \in O
BY DEF Once

\* The requests that move from f to g.
Others(f, g, T) == \A y \in DOMAIN f : y \notin T => g[y] = f[y]
Added(f, g, x, r) == g[x] = Append(f[x], r) /\ Others(f, g, {x})
Dropped(f, g, t, r) == f[t] # <<>> /\ r = Head(f[t]) /\ g[t] = Tail(f[t]) /\ Others(f, g, {t})
Moved(f, g, x, t) ==
    f[x] # <<>> /\ g[x] = Tail(f[x]) /\ g[t] = Append(f[t], Head(f[x])) /\ Others(f, g, {x, t})
Flushed(f, g, a, b, t) ==
    /\ f[t] = <<>> /\ g[a] = <<>> /\ g[b] = <<>> /\ g[t] = f[a] \o f[b]
    /\ Others(f, g, {a, b, t})

\* A request NDIS did not wait for joins the end of x.
LEMMA OnceAdd ==
    ASSUME NEW S, NEW R, NEW f \in [S -> Seq(R)], NEW g \in [S -> Seq(R)], NEW O, Once(f, O),
           NEW x \in S, NEW r \in R, r \notin O, Added(f, g, x, r), NEW Q, Q = O \cup {r}
    PROVE  Once(g, Q)
<1>1. DOMAIN f = S /\ DOMAIN g = S
  OBVIOUS
<1> g[x] = Append(f[x], r) /\ \A y \in S : y # x => g[y] = f[y]
  BY <1>1 DEF Added, Others
<1>2. \A y \in S : Len(f[y]) \in Nat /\ f[y] \in Seq(R)
  OBVIOUS
<1>3. /\ Len(g[x]) = Len(f[x]) + 1 /\ g[x][Len(f[x]) + 1] = r
      /\ \A j \in 1 .. Len(f[x]) : j \in 1 .. Len(g[x]) /\ g[x][j] = f[x][j]
  BY <1>2
<1>4. ASSUME NEW y \in S, NEW j \in 1 .. Len(g[y])
      PROVE  \/ j \in 1 .. Len(f[y]) /\ g[y][j] = f[y][j] /\ g[y][j] \in O
             \/ y = x /\ j = Len(f[x]) + 1 /\ g[y][j] = r
  <2>1. CASE y = x
    <3>1. j \in 1 .. Len(f[x]) \/ j = Len(f[x]) + 1
      BY <1>2, <1>3, <2>1
    <3>2. QED
      BY <1>1, <1>3, <2>1, <3>1 DEF Once
  <2>2. CASE y # x
    BY <1>1, <2>2 DEF Once
  <2>3. QED
    BY <2>1, <2>2
<1>5. ASSUME NEW y \in S, NEW z \in S, NEW j \in 1 .. Len(g[y]), NEW k \in 1 .. Len(g[z]),
             g[y][j] = g[z][k]
      PROVE  y = z /\ j = k
  <2>1. CASE j \in 1 .. Len(f[y]) /\ g[y][j] = f[y][j] /\ g[y][j] \in O
    <3>1. k \in 1 .. Len(f[z]) /\ g[z][k] = f[z][k]
      BY <1>4, <1>5, <2>1, Zenon
    <3>2. f[y][j] = f[z][k]
      BY <1>5, <2>1, <3>1, Zenon
    <3>3. QED
      BY <1>1, <2>1, <3>1, <3>2, OnceEqual
  <2>2. CASE y = x /\ j = Len(f[x]) + 1 /\ g[y][j] = r
    BY <1>4, <1>5, <2>2
  <2>3. QED
    BY <1>4, <2>1, <2>2
<1>6. ASSUME NEW q \in O \cup {r}
      PROVE  \E y \in S : \E j \in 1 .. Len(g[y]) : g[y][j] = q
  <2>1. CASE q = r
    <3>1. Len(f[x]) + 1 \in 1 .. Len(g[x])
      BY <1>2, <1>3
    <3>2. QED
      BY <1>3, <2>1, <3>1
  <2>2. CASE q \in O
    <3>1. PICK y \in S : \E j \in 1 .. Len(f[y]) : f[y][j] = q
      BY <1>1, <2>2 DEF Once
    <3>2. PICK j \in 1 .. Len(f[y]) : f[y][j] = q
      BY <3>1
    <3>3. QED
      BY <1>3, <3>2
  <2>3. QED
    BY <2>1, <2>2
<1>7. QED
  BY <1>1, <1>4, <1>5, <1>6 DEF Once

\* The first request of t is completed.
LEMMA OnceDrop ==
    ASSUME NEW S, NEW R, NEW f \in [S -> Seq(R)], NEW g \in [S -> Seq(R)], NEW O, Once(f, O),
           NEW t \in S, NEW r, Dropped(f, g, t, r), NEW Q, Q = O \ {r}
    PROVE  Once(g, Q)
<1>1. DOMAIN f = S /\ DOMAIN g = S
  OBVIOUS
<1> /\ f[t] # <<>> /\ r = Head(f[t]) /\ g[t] = Tail(f[t])
    /\ \A y \in S : y # t => g[y] = f[y]
  BY <1>1 DEF Dropped, Others
<1>2. \A y \in S : Len(f[y]) \in Nat /\ f[y] \in Seq(R)
  OBVIOUS
<1>3. /\ Len(g[t]) = Len(f[t]) - 1 /\ Head(f[t]) = f[t][1] /\ 1 \in 1 .. Len(f[t])
      /\ \A j \in 1 .. Len(g[t]) : j + 1 \in 1 .. Len(f[t]) /\ g[t][j] = f[t][j + 1]
  BY <1>2
<1>4. ASSUME NEW y \in S, NEW j \in 1 .. Len(g[y])
      PROVE  \/ y = t /\ j + 1 \in 1 .. Len(f[y]) /\ g[y][j] = f[y][j + 1]
             \/ y # t /\ j \in 1 .. Len(f[y]) /\ g[y][j] = f[y][j]
  BY <1>3, Zenon
<1>5. ASSUME NEW y \in S, NEW j \in 1 .. Len(g[y])
      PROVE  g[y][j] \in O \ {Head(f[t])}
  <2>1. CASE y = t
    <3>1. j + 1 \in 1 .. Len(f[t]) /\ g[t][j] = f[t][j + 1] /\ j + 1 # 1
      BY <1>3, <2>1
    <3>2. f[t][j + 1] # f[t][1]
      BY <1>1, <1>3, <3>1, OnceEqual
    <3>3. f[t][j + 1] \in O
      BY <1>1, <3>1 DEF Once
    <3>4. QED
      BY <1>3, <2>1, <3>1, <3>2, <3>3, Zenon
  <2>2. CASE y # t
    BY <1>1, <1>3, <1>4, <2>2 DEF Once
  <2>3. QED
    BY <2>1, <2>2
<1>6. ASSUME NEW y \in S, NEW z \in S, NEW j \in 1 .. Len(g[y]), NEW k \in 1 .. Len(g[z]),
             g[y][j] = g[z][k]
      PROVE  y = z /\ j = k
  <2>1. CASE y = t /\ z = t
    <3>1. j + 1 \in 1 .. Len(f[t]) /\ k + 1 \in 1 .. Len(f[t]) /\ f[t][j + 1] = f[t][k + 1]
      BY <1>3, <1>6, <2>1, Zenon
    <3>2. j + 1 = k + 1
      BY <1>1, <3>1, OnceEqual
    <3>3. QED
      BY <2>1, <3>2
  <2>2. CASE y # t /\ z # t
    BY <1>1, <1>4, <1>6, <2>2 DEF Once
  <2>3. CASE y = t /\ z # t
    BY <1>1, <1>4, <1>6, <2>3 DEF Once
  <2>4. CASE y # t /\ z = t
    BY <1>1, <1>4, <1>6, <2>4 DEF Once
  <2>5. QED
    BY <2>1, <2>2, <2>3, <2>4
<1>7. ASSUME NEW q \in O \ {Head(f[t])}
      PROVE  \E y \in S : \E j \in 1 .. Len(g[y]) : g[y][j] = q
  <2>1. PICK y \in S : \E j \in 1 .. Len(f[y]) : f[y][j] = q
    BY <1>1 DEF Once
  <2>2. PICK j \in 1 .. Len(f[y]) : f[y][j] = q
    BY <2>1
  <2>3. CASE y # t
    BY <2>2, <2>3
  <2>4. CASE y = t
    <3>1. j # 1
      BY <1>3, <2>2, <2>4
    <3>2. j - 1 \in 1 .. Len(g[t]) /\ g[t][j - 1] = f[t][(j - 1) + 1] /\ (j - 1) + 1 = j
      BY <1>2, <1>3, <2>2, <2>4, <3>1
    <3>3. QED
      BY <2>2, <2>4, <3>2, Zenon
  <2>5. QED
    BY <2>3, <2>4
<1>8. QED
  BY <1>1, <1>5, <1>6, <1>7 DEF Once

\* A sequence without its first element.
LEMMA TakeFrom ==
    ASSUME NEW S, NEW s \in Seq(S), s # <<>>
    PROVE  /\ Tail(s) \in Seq(S) /\ Head(s) \in S
           /\ Len(s) \in Nat \ {0} /\ Len(Tail(s)) = Len(s) - 1
OBVIOUS

\* The first request of x moves to the end of t.
LEMMA OnceMove ==
    ASSUME NEW S, NEW R, NEW f \in [S -> Seq(R)], NEW g \in [S -> Seq(R)], NEW O, Once(f, O),
           NEW x \in S, NEW t \in S, x # t, Moved(f, g, x, t)
    PROVE  Once(g, O)
<1>1. f[x] \in Seq(R) /\ f[x] # <<>> /\ DOMAIN f = S
  BY DEF Moved
<1>2. PICK r \in R : r = Head(f[x])
  BY <1>1
<1>3. PICK s \in Seq(R) : s = Tail(f[x])
  BY <1>1, TakeFrom, Zenon
<1>4. PICK h \in [S -> Seq(R)] : h = [f EXCEPT ![x] = s]
  BY Zenon
<1>5. DOMAIN h = S /\ h[x] = s /\ \A y \in S : y # x => h[y] = f[y]
  BY <1>4
<1>6. Dropped(f, h, x, r)
  BY <1>1, <1>2, <1>3, <1>5 DEF Dropped, Others
<1>7. PICK P : P = O \ {r}
  BY Zenon
<1>8. Once(h, P)
  BY <1>6, <1>7, OnceDrop, Zenon
<1>9. Added(h, g, t, r)
  <2>1. g[x] = h[x] /\ g[t] = Append(f[t], r) /\ \A y \in S : y \notin {x, t} => g[y] = f[y]
    BY <1>1, <1>2, <1>3, <1>5 DEF Moved, Others
  <2>2. g[t] = Append(h[t], r) /\ \A y \in S : y # t => g[y] = h[y]
    BY <1>5, <2>1, Zenon
  <2>3. QED
    BY <1>5, <2>2 DEF Added, Others
<1>10. r \in O
  <2>1. 1 \in 1 .. Len(f[x]) /\ r = f[x][1]
    BY <1>1, <1>2
  <2>2. QED
    BY <1>1, <2>1, OnceHeld
<1>11. O = P \cup {r} /\ r \notin P
  BY <1>7, <1>10
<1>12. QED
  BY <1>8, <1>9, <1>11, OnceAdd, Zenon

\* All requests of a and b move to t, which had none.
LEMMA OnceFlush ==
    ASSUME NEW S, NEW R, NEW f \in [S -> Seq(R)], NEW g \in [S -> Seq(R)], NEW O, Once(f, O),
           NEW a \in S, NEW b \in S, NEW t \in S, a # b, t # a, t # b, Flushed(f, g, a, b, t)
    PROVE  Once(g, O)
<1>1. DOMAIN f = S /\ DOMAIN g = S
  OBVIOUS
<1> /\ f[t] = <<>> /\ g[a] = <<>> /\ g[b] = <<>> /\ g[t] = f[a] \o f[b]
    /\ \A y \in S : y \notin {a, b, t} => g[y] = f[y]
  BY <1>1 DEF Flushed, Others
<1>2. PICK m \in Nat, n \in Nat : m = Len(f[a]) /\ n = Len(f[b])
  <2>1. f[a] \in Seq(R) /\ f[b] \in Seq(R)
    OBVIOUS
  <2>2. QED
    BY <2>1
<1>3. /\ Len(g[t]) = m + n
      /\ \A j \in 1 .. m : g[t][j] = f[a][j]
      /\ \A j \in 1 .. n : g[t][m + j] = f[b][j]
  <2>1. f[a] \in Seq(R) /\ f[b] \in Seq(R)
    OBVIOUS
  <2>2. QED
    BY <1>2, <2>1
<1>4. ASSUME NEW j \in 1 .. Len(g[t])
      PROVE  \/ j \in 1 .. Len(f[a]) /\ g[t][j] = f[a][j]
             \/ j - m \in 1 .. Len(f[b]) /\ g[t][j] = f[b][j - m]
  <2>1. j \in 1 .. m \/ (j - m \in 1 .. n /\ m + (j - m) = j)
    BY <1>2, <1>3
  <2>2. QED
    BY <1>2, <1>3, <2>1
<1>5. ASSUME NEW y \in S, NEW j \in 1 .. Len(g[y])
      PROVE  y \in {a, b} => FALSE
  <2>1. Len(<<>>) = 0 /\ ~(j \in 1 .. 0)
    OBVIOUS
  <2>2. QED
    BY <2>1
<1>6. ASSUME NEW y \in S, NEW j \in 1 .. Len(g[y])
      PROVE  \/ y = t
             \/ y \notin {a, b, t} /\ j \in 1 .. Len(f[y]) /\ g[y][j] = f[y][j]
  BY <1>5
<1>7. ASSUME NEW y \in S, NEW j \in 1 .. Len(g[y]) PROVE g[y][j] \in O
  <2>1. CASE y = t
    <3>1. CASE j \in 1 .. Len(f[a]) /\ g[t][j] = f[a][j]
      BY <1>1, <2>1, <3>1, Zenon DEF Once
    <3>2. CASE j - m \in 1 .. Len(f[b]) /\ g[t][j] = f[b][j - m]
      <4>1. PICK i \in 1 .. Len(f[b]) : i = j - m /\ g[t][j] = f[b][i]
        BY <3>2, Zenon
      <4>2. QED
        BY <1>1, <2>1, <4>1, OnceHeld
    <3>3. QED
      BY <1>4, <2>1, <3>1, <3>2
  <2>2. CASE y # t
    BY <1>1, <1>6, <2>2 DEF Once
  <2>3. QED
    BY <2>1, <2>2
<1>8. ASSUME NEW j \in 1 .. Len(g[t]), NEW k \in 1 .. Len(g[t]), g[t][j] = g[t][k]
      PROVE  j = k
  <2>1. CASE j \in 1 .. Len(f[a]) /\ g[t][j] = f[a][j]
    <3>1. CASE k \in 1 .. Len(f[a]) /\ g[t][k] = f[a][k]
      <4>1. f[a][j] = f[a][k]
        BY <1>8, <2>1, <3>1, Zenon
      <4>2. QED
        BY <1>1, <2>1, <3>1, <4>1, OnceEqual
    <3>2. CASE k - m \in 1 .. Len(f[b]) /\ g[t][k] = f[b][k - m]
      <4>1. f[a][j] = f[b][k - m]
        BY <1>8, <2>1, <3>2, Zenon
      <4>2. QED
        BY <1>1, <2>1, <3>2, <4>1, OnceEqual
    <3>3. QED
      BY <1>4, <3>1, <3>2
  <2>2. CASE j - m \in 1 .. Len(f[b]) /\ g[t][j] = f[b][j - m]
    <3>1. CASE k \in 1 .. Len(f[a]) /\ g[t][k] = f[a][k]
      <4>1. f[b][j - m] = f[a][k]
        BY <1>8, <2>2, <3>1, Zenon
      <4>2. QED
        BY <1>1, <2>2, <3>1, <4>1, OnceEqual
    <3>2. CASE k - m \in 1 .. Len(f[b]) /\ g[t][k] = f[b][k - m]
      <4>1. PICK i \in 1 .. Len(f[b]), l \in 1 .. Len(f[b]) : i = j - m /\ l = k - m
        BY <2>2, <3>2
      <4>2. f[b][i] = f[b][l]
        BY <1>8, <2>2, <3>2, <4>1, Zenon
      <4>3. i = l
        BY <1>1, <4>2, OnceEqual
      <4>4. QED
        BY <1>2, <1>3, <4>1, <4>3
    <3>3. QED
      BY <1>4, <3>1, <3>2
  <2>3. QED
    BY <1>4, <2>1, <2>2
<1>9. ASSUME NEW j \in 1 .. Len(g[t]), NEW z \in S, NEW k \in 1 .. Len(g[z]), z # t
      PROVE  g[t][j] # g[z][k]
  <2>1. z \notin {a, b, t} /\ k \in 1 .. Len(f[z]) /\ g[z][k] = f[z][k]
    BY <1>6, <1>9
  <2>2. CASE j \in 1 .. Len(f[a]) /\ g[t][j] = f[a][j]
    <3>1. f[a][j] # f[z][k]
      BY <1>1, <2>1, <2>2, OnceEqual
    <3>2. QED
      BY <2>1, <2>2, <3>1
  <2>3. CASE j - m \in 1 .. Len(f[b]) /\ g[t][j] = f[b][j - m]
    <3>1. PICK i \in 1 .. Len(f[b]) : g[t][j] = f[b][i]
      BY <2>3, Zenon
    <3>2. f[b][i] # f[z][k]
      BY <1>1, <2>1, OnceEqual
    <3>3. QED
      BY <2>1, <3>1, <3>2, Zenon
  <2>4. QED
    BY <1>4, <2>2, <2>3, Zenon
<1>10. ASSUME NEW y \in S, NEW z \in S, NEW j \in 1 .. Len(g[y]), NEW k \in 1 .. Len(g[z]),
              g[y][j] = g[z][k]
       PROVE  y = z /\ j = k
  <2>1. CASE y = t /\ z = t
    BY <1>8, <1>10, <2>1
  <2>2. CASE y = t /\ z # t
    BY <1>9, <1>10, <2>2
  <2>3. CASE y # t /\ z = t
    BY <1>9, <1>10, <2>3, Zenon
  <2>4. CASE y # t /\ z # t
    <3>1. j \in 1 .. Len(f[y]) /\ k \in 1 .. Len(f[z]) /\ f[y][j] = f[z][k]
      BY <1>6, <1>10, <2>4
    <3>2. QED
      BY <1>1, <3>1, OnceEqual
  <2>5. QED
    BY <2>1, <2>2, <2>3, <2>4
<1>11. ASSUME NEW q \in O PROVE \E y \in S : \E j \in 1 .. Len(g[y]) : g[y][j] = q
  <2>1. PICK y \in S : \E j \in 1 .. Len(f[y]) : f[y][j] = q
    BY <1>1, Zenon DEF Once
  <2>2. PICK j \in 1 .. Len(f[y]) : f[y][j] = q
    BY <2>1
  <2>3. CASE y = a
    <3>1. j \in 1 .. m /\ j \in 1 .. Len(g[t])
      BY <1>2, <1>3, <2>2, <2>3
    <3>2. QED
      BY <1>3, <2>2, <2>3, <3>1, Zenon
  <2>4. CASE y = b
    <3>1. j \in 1 .. n /\ m + j \in 1 .. Len(g[t])
      BY <1>2, <1>3, <2>2, <2>4
    <3>2. QED
      BY <1>3, <2>2, <2>4, <3>1, Zenon
  <2>5. CASE y = t
    <3>1. Len(f[t]) = 0
      OBVIOUS
    <3>2. QED
      BY <2>2, <2>5, <3>1
  <2>6. CASE y \notin {a, b, t}
    BY <2>2, <2>6
  <2>7. QED
    BY <2>3, <2>4, <2>5, <2>6
<1>12. QED
  BY <1>1, <1>7, <1>10, <1>11 DEF Once

-----------------------------------------------------------------------------
(* What the invariant says of one thread, one handle, one port.            *)

\* What the invariant says of one thread.
LEMMA OfWorker ==
    ASSUME IInv, NEW w \in Workers
    PROVE  work[w] \in WorkRecords /\ PortFits(work[w]) /\ HandleFits(w, work[w])
BY Zenon DEF IInv, TypeOK, ThreadInv

\* A handle that a thread works on is in use.
LEMMA HandleUsed ==
    ASSUME IInv, NEW w \in Workers, work[w].on # NoHandle
    PROVE  work[w].on \in Handles /\ file[work[w].on] # "none" /\ w # Watchdog
<1>1. work[w] \in WorkRecords /\ HandleFits(w, work[w])
  BY OfWorker
<1>2. work[w].on \in Handles /\ work[w].pc \in PCs
  BY <1>1 DEF WorkRecords
<1>3. QED
  BY <1>1, <1>2 DEF HandleFits, PCs, Cleaning

\* A port that a thread works on has been allocated and, once listed, is in
\* transition.
LEMMA PortUsed ==
    ASSUME IInv, asserted = "none", NEW w \in Workers, work[w].port # NoPort
    PROVE  /\ work[w].port \in Ports
           /\ ndis[work[w].port] # "free"
           /\ State[work[w].port] \in {"none", "activating", "deactivating"}
           /\ State[work[w].port] = "none" => work[w].pc = "insert"
<1>1. work[w] \in WorkRecords /\ PortFits(work[w])
  BY OfWorker
<1>2. work[w].port \in Ports
  BY <1>1 DEF WorkRecords
<1>3. CASE work[w].pc = "insert"
  BY <1>1, <1>2, <1>3 DEF PortFits
<1>4. CASE work[w].pc \in Transit
  <2>1. State[work[w].port] \in {"activating", "deactivating"}
    BY <1>1, <1>4 DEF PortFits
  <2>2. ndis[work[w].port] # "free"
    BY <1>2, <2>1 DEF IInv, PortInv
  <2>3. QED
    BY <1>2, <2>1, <2>2
<1>5. QED
  BY <1>1, <1>3, <1>4 DEF PortFits

\* Only the owner's handle is open or being closed.
LEMMA OneOwner ==
    ASSUME IInv, NEW h \in Handles
    PROVE  /\ file[h] \in {"open", "closing"} <=> UserContext = h
           /\ file[h] = "open" => \A k \in Handles : file[k] # "closing"
BY DEF IInv, OwnInv

-----------------------------------------------------------------------------
(* Steps that leave a thread alone.                                        *)

\* What thread v works on does not change.
Undisturbed(v) ==
    /\ work[v].on # NoHandle => file'[work[v].on] = file[work[v].on]
    /\ work[v].port # NoPort =>
          State'[work[v].port] = State[work[v].port] /\ ndis'[work[v].port] = ndis[work[v].port]

\* Nothing is set up while the owner's handle is being closed.
Calm ==
    /\ asserted' = "none" => asserted = "none"
    /\ \/ PortList = <<>> => PortList' = <<>>
       \/ \A h \in Handles : file[h] # "closing"
    /\ \/ OidFilterKeys = {} => OidFilterKeys' = {}
       \/ \A h \in Handles : file[h] # "closing"

\* A thread that does r works on another port, and another handle unless it is open.
Apart(r, v) ==
    /\ r.port # NoPort => work[v].port # r.port
    /\ r.on # NoHandle /\ file'[r.on] # "open" => work[v].on # r.on

\* A thread that a step leaves alone still fits its port and its handle.
LEMMA StillFits ==
    ASSUME IInv, Calm, NEW v \in Workers, work'[v] = work[v], Undisturbed(v)
    PROVE  PortFits(work[v])' /\ HandleFits(v, work[v])'
<1>1. PICK r \in WorkRecords : r = work[v] /\ PortFits(r) /\ HandleFits(v, r)
  BY OfWorker
<1>2. /\ r.on # NoHandle => r.on \in Handles /\ file'[r.on] = file[r.on]
      /\ r.port # NoPort => State'[r.port] = State[r.port] /\ ndis'[r.port] = ndis[r.port]
  BY <1>1, HandleUsed DEF Undisturbed
<1>3. asserted' = "none" => asserted = "none"
  BY DEF Calm
<1>4. PortFits(r)'
  BY <1>1, <1>2, <1>3 DEF PortFits, Transit
<1>5. r.on # NoHandle /\ file[r.on] = "closing" =>
         /\ PortList = <<>> => PortList' = <<>>
         /\ OidFilterKeys = {} => OidFilterKeys' = {}
  BY <1>2 DEF Calm
<1>6. r.pc # "idle" => r.on # NoHandle \/ r.pc \in {"flush", "complete"}
  BY <1>1 DEF HandleFits
<1>7. HandleFits(v, r)'
  BY <1>1, <1>2, <1>5, <1>6, Zenon DEF HandleFits, Cleaning
<1>8. QED
  BY <1>1, <1>4, <1>7

\* No thread moves.
LEMMA ThreadsKept ==
    ASSUME IInv, Calm, work' = work, \A v \in Workers : Undisturbed(v)
    PROVE  ThreadInv'
<1>1. \A v \in Workers : PortFits(work[v])' /\ HandleFits(v, work[v])'
  BY StillFits
<1>2. \A w, v \in Workers : work[w].port # NoPort /\ work[w].port = work[v].port => w = v
  BY DEF IInv, ThreadInv
<1>3. ASSUME NEW w \in Workers, NEW v \in Workers,
             work[w].on # NoHandle, work[w].on = work[v].on, file'[work[w].on] # "open"
      PROVE  w = v
  BY <1>3 DEF IInv, ThreadInv, Undisturbed
<1>4. QED
  BY <1>1, <1>2, <1>3 DEF ThreadInv

\* Thread w goes on with r.
LEMMA ThreadMoves ==
    ASSUME IInv, Calm, NEW w \in Workers, NEW r \in WorkRecords, work' = [work EXCEPT ![w] = r],
           PortFits(r)', HandleFits(w, r)',
           \A v \in Workers : v # w => Undisturbed(v) /\ Apart(r, v)
    PROVE  ThreadInv' /\ work' \in [Workers -> WorkRecords]
<1>1. work' \in [Workers -> WorkRecords] /\ work'[w] = r
  BY Zenon DEF IInv, TypeOK
<1>2. \A v \in Workers : v # w => work'[v] = work[v]
  BY Zenon DEF IInv, TypeOK
<1>3. ASSUME NEW v \in Workers PROVE PortFits(work[v])' /\ HandleFits(v, work[v])'
  <2>1. CASE v = w
    BY <1>1, <2>1
  <2>2. CASE v # w
    BY <1>2, <2>2, StillFits
  <2>3. QED
    BY <2>1, <2>2
<1>4. ASSUME NEW u \in Workers, NEW v \in Workers,
             work'[u].port # NoPort, work'[u].port = work'[v].port
      PROVE  u = v
  <2>1. CASE u # w /\ v # w
    BY <1>2, <1>4, <2>1 DEF IInv, ThreadInv
  <2>2. CASE u = w /\ v # w
    BY <1>1, <1>2, <1>4, <2>2 DEF Apart
  <2>3. CASE u # w /\ v = w
    BY <1>1, <1>2, <1>4, <2>3 DEF Apart
  <2>4. QED
    BY <2>1, <2>2, <2>3
<1>5. ASSUME NEW u \in Workers, NEW v \in Workers,
             work'[u].on # NoHandle, work'[u].on = work'[v].on, file'[work'[u].on] # "open"
      PROVE  u = v
  <2>1. CASE u # w /\ v # w
    BY <1>2, <1>5, <2>1 DEF IInv, ThreadInv, Undisturbed
  <2>2. CASE u = w /\ v # w
    BY <1>1, <1>2, <1>5, <2>2 DEF Apart
  <2>3. CASE u # w /\ v = w
    BY <1>1, <1>2, <1>5, <2>3 DEF Apart
  <2>4. QED
    BY <2>1, <2>2, <2>3
<1>6. QED
  BY <1>1, <1>3, <1>4, <1>5 DEF ThreadInv

-----------------------------------------------------------------------------
(* Steps that leave the requests or the ports alone.                       *)

Places == Interfaces \cup Workers

\* Where requests are held: the lists and the hands of threads.
LEMMA HeldIs ==
    ASSUME TypeOK
    PROVE  /\ Held \in [Places -> Seq(Requests)]
           /\ \A i \in Interfaces : Held[i] = Filtered[i]
           /\ \A w \in Workers : Held[w] = work[w].reqs
BY MpExclusiveAssumption, Zenon DEF Held, Places, TypeOK, WorkRecords

\* A step that moves no request.
LEMMA OidsKept ==
    ASSUME IInv, UNCHANGED oidVars, \A w \in Workers : work'[w].reqs = work[w].reqs
    PROVE  OidInv'
<1>1. Filtered' = Filtered /\ OidFilterKeys' = OidFilterKeys /\ late' = late
      /\ outstanding' = outstanding
  BY DEF oidVars
<1>2. Held' = Held
  BY <1>1 DEF Held
<1>3. QED
  BY <1>1, <1>2 DEF IInv, OidInv

\* A thread that neither had a port to insert nor has requests to complete moves.
LEMMA PortsKept ==
    ASSUME IInv, UNCHANGED portVars, NEW w \in Workers, NEW r, work[w].pc # "insert",
           work' = [work EXCEPT ![w] = r]
    PROVE  PortInv'
<1>1. PortList' = PortList /\ State' = State /\ ndis' = ndis
  BY DEF portVars
<1>2. \A v \in Workers : work[v].pc = "insert" => work'[v] = work[v]
  BY Zenon DEF IInv, TypeOK
<1>3. \A p \in Ports : State[p] = "none" /\ ndis[p] # "free" =>
         \E v \in Workers : work'[v].pc = "insert" /\ work'[v].port = p
  BY <1>2 DEF IInv, PortInv
<1>4. QED
  BY <1>1, <1>3 DEF IInv, PortInv

\* A thread without requests in its hands moves.
LEMMA OidsStill ==
    ASSUME IInv, UNCHANGED oidVars, NEW w \in Workers, NEW r, r.reqs = <<>>,
           work[w].pc # "complete", work' = [work EXCEPT ![w] = r]
    PROVE  OidInv'
<1>1. work[w].reqs = <<>>
  BY OfWorker DEF HandleFits
<1>2. \A v \in Workers : work'[v].reqs = work[v].reqs
  BY <1>1, Zenon DEF IInv, TypeOK
<1>3. QED
  BY <1>2, OidsKept

\* The records threads are given.
LEMMA Calls ==
    ASSUME NEW pc \in PCs, NEW h \in Handles \cup {NoHandle}, NEW p \in Ports \cup {NoPort}
    PROVE  \E r \in WorkRecords : /\ r = At(pc, h, p) /\ r.pc = pc /\ r.on = h
                                  /\ r.port = p /\ r.reqs = <<>>
<1>1. At(pc, h, p) \in WorkRecords
  BY DEF At, WorkRecords
<1>2. /\ At(pc, h, p).pc = pc /\ At(pc, h, p).on = h
      /\ At(pc, h, p).port = p /\ At(pc, h, p).reqs = <<>>
  BY DEF At
<1>3. QED
  BY <1>1, <1>2, Zenon

\* A thread with nothing to do.
LEMMA IdleCall ==
    /\ Idle \in WorkRecords
    /\ Idle.pc = "idle" /\ Idle.on = NoHandle /\ Idle.port = NoPort /\ Idle.reqs = <<>>
BY DEF Idle, WorkRecords, PCs

-----------------------------------------------------------------------------
(* Opening and closing.                                                    *)

\* The first open becomes the owner.
LEMMA CreateOwner ==
    ASSUME IInv, NEW c \in Clients, NEW h \in Handles, ExclusiveIrpCreate(c, h),
           UserContext = NoHandle
    PROVE  IInv'
<1>1. /\ UserContext' = h /\ file[h] = "none" /\ file' = [file EXCEPT ![h] = "open"]
      /\ work' = work /\ UNCHANGED <<SetOidFilter, portVars, oidVars, asserted>>
  BY DEF ExclusiveIrpCreate
<1>2. /\ PortList' = PortList /\ State' = State /\ ndis' = ndis
      /\ OidFilterKeys' = OidFilterKeys /\ Filtered' = Filtered
      /\ late' = late /\ outstanding' = outstanding /\ asserted' = asserted
      /\ SetOidFilter' = SetOidFilter
  BY <1>1 DEF portVars, oidVars
<1>3. file'[h] = "open" /\ \A k \in Handles : k # h => file'[k] = file[k]
  BY <1>1, Zenon DEF IInv, TypeOK
<1>4. TypeOK'
  BY <1>1, <1>2, Zenon DEF IInv, TypeOK
<1>5. OidInv'
  BY <1>1, OidsKept
<1>6. PortInv'
  BY <1>1, <1>2 DEF IInv, PortInv
<1>7. ASSUME NEW v \in Workers PROVE Undisturbed(v)
  BY <1>1, <1>2, <1>3, HandleUsed DEF Undisturbed
<1>8. ThreadInv'
  <2>1. Calm
    BY <1>2 DEF Calm
  <2>2. QED
    BY <1>1, <1>7, <2>1, ThreadsKept
<1>9. SetOidFilter = {} /\ OidFilterKeys = {}
  <2>1. \A k \in SetOidFilter : k \in Handles /\ UserContext = k
    BY Zenon DEF IInv, OwnInv, TypeOK
  <2>2. \A k \in SetOidFilter : FALSE
    BY <2>1, MpExclusiveAssumption
  <2>3. OidFilterKeys # {} => UserContext \in SetOidFilter
    BY DEF IInv, OwnInv
  <2>4. QED
    BY <2>2, <2>3
<1>10. \A k \in Handles : file'[k] \in {"open", "closing"} <=> UserContext' = k
  BY <1>1, <1>3, OneOwner, MpExclusiveAssumption
<1>11. OwnInv'
  BY <1>1, <1>2, <1>9, <1>10, MpExclusiveAssumption DEF OwnInv
<1>12. QED
  BY <1>4, <1>5, <1>6, <1>8, <1>11 DEF IInv

\* A thread begins to clean up a handle nobody else works on.
LEMMA CleanupBegins ==
    ASSUME IInv, NEW c \in Clients, work[c].pc = "idle", NEW h \in Handles,
           \A v \in Workers : work[v].on # h,
           NEW f \in {"closing", "refused"}, f = "closing" <=> UserContext = h,
           file' = [file EXCEPT ![h] = f], work' = [work EXCEPT ![c] = At("ports", h, NoPort)],
           UNCHANGED <<UserContext, SetOidFilter, portVars, oidVars, asserted>>
    PROVE  IInv'
<1>1. /\ PortList' = PortList /\ State' = State /\ ndis' = ndis
      /\ OidFilterKeys' = OidFilterKeys /\ Filtered' = Filtered
      /\ late' = late /\ outstanding' = outstanding /\ asserted' = asserted
      /\ UserContext' = UserContext /\ SetOidFilter' = SetOidFilter
      /\ UNCHANGED portVars /\ UNCHANGED oidVars
  BY DEF portVars, oidVars
<1>2. c \in Workers
  BY DEF Workers
<1>3. PICK r \in WorkRecords : /\ r = At("ports", h, NoPort) /\ r.pc = "ports" /\ r.on = h
                               /\ r.port = NoPort /\ r.reqs = <<>>
  <2>1. "ports" \in PCs /\ h \in Handles \cup {NoHandle} /\ NoPort \in Ports \cup {NoPort}
    BY DEF PCs
  <2>2. QED
    BY <2>1, Calls
<1>4. work' = [work EXCEPT ![c] = r]
  BY <1>3
<1>5. file'[h] = f /\ file' \in [Handles -> {"none", "open", "closing", "refused"}]
      /\ \A k \in Handles : k # h => file'[k] = file[k]
  BY Zenon DEF IInv, TypeOK
<1>6. OidInv'
  BY <1>1, <1>2, <1>3, <1>4, OidsStill, Zenon
<1>7. PortInv'
  BY <1>1, <1>2, <1>4, PortsKept, Zenon
<1>8. PortFits(r)'
  BY <1>3 DEF PortFits, Transit
<1>9. HandleFits(c, r)'
  BY <1>3, <1>5, MpExclusiveAssumption, Zenon DEF HandleFits, Cleaning
<1>10. ASSUME NEW v \in Workers, v # c PROVE Undisturbed(v) /\ Apart(r, v)
  BY <1>1, <1>3, <1>5, HandleUsed, Zenon DEF Undisturbed, Apart
<1>11. Calm
  BY <1>1, Zenon DEF Calm
<1>12. ThreadInv' /\ work' \in [Workers -> WorkRecords]
  BY <1>2, <1>4, <1>8, <1>9, <1>10, <1>11, ThreadMoves, Zenon
<1>13. OwnInv'
  BY <1>1, <1>5 DEF IInv, OwnInv
<1>14. TypeOK'
  BY <1>1, <1>5, <1>12, Zenon DEF IInv, TypeOK
<1>15. QED
  BY <1>6, <1>7, <1>12, <1>13, <1>14 DEF IInv

\* A refused open and a close begin their clean-up.
LEMMA CreateStep ==
    ASSUME IInv, NEW c \in Clients, NEW h \in Handles, ExclusiveIrpCreate(c, h)
    PROVE  IInv'
<1>1. CASE UserContext = NoHandle
  BY <1>1, CreateOwner
<1>2. CASE UserContext # NoHandle
  <2>1. file[h] = "none" /\ work[c].pc = "idle"
    BY DEF ExclusiveIrpCreate, Running
  <2>2. UserContext # h
    BY <2>1, OneOwner
  <2>3. \A v \in Workers : work[v].on # h
    BY <2>1, HandleUsed, MpExclusiveAssumption
  <2>4. QED
    BY <1>2, <2>1, <2>2, <2>3, CleanupBegins DEF ExclusiveIrpCreate
<1>3. QED
  BY <1>1, <1>2

\* ExclusiveIrpClose: the owner starts to clean up, no IOCTL in progress.
LEMMA CloseStep ==
    ASSUME IInv, NEW c \in Clients, NEW h \in Handles, ExclusiveIrpClose(c, h)
    PROVE  IInv'
<1>1. file[h] = "open" /\ work[c].pc = "idle"
  BY DEF ExclusiveIrpClose, Ready, Running
<1>2. UserContext = h
  BY <1>1, OneOwner
<1>3. \A v \in Workers : work[v].on # h
  BY HandleUsed, MpExclusiveAssumption DEF ExclusiveIrpClose, Workers
<1>4. QED
  BY <1>1, <1>2, <1>3, CleanupBegins, Zenon DEF ExclusiveIrpClose

\* The end of ExclusiveCleanup: the owner leaves nothing behind.
LEMMA CleanupEnds ==
    ASSUME IInv, NEW c \in Workers, ExclusiveCleanup(c)
    PROVE  IInv'
<1>1. PICK h \in Handles : h = work[c].on /\ work[c].pc = "release"
  <2>1. work[c].pc = "release" /\ work[c] \in WorkRecords /\ HandleFits(c, work[c])
    BY OfWorker DEF ExclusiveCleanup, Running
  <2>2. QED
    BY <2>1, Zenon DEF HandleFits, WorkRecords
<1>2. file[h] \in {"closing", "refused"}
  BY <1>1, OfWorker DEF HandleFits, Cleaning
<1>3. /\ UserContext' = IF UserContext = h THEN NoHandle ELSE UserContext
      /\ file' = [file EXCEPT ![h] = "none"] /\ SetOidFilter' = SetOidFilter \ {h}
      /\ work' = [work EXCEPT ![c] = Idle] /\ UNCHANGED portVars /\ UNCHANGED oidVars
      /\ asserted' = asserted
  BY <1>1 DEF ExclusiveCleanup, Return
<1>4. /\ PortList' = PortList /\ State' = State /\ ndis' = ndis
      /\ OidFilterKeys' = OidFilterKeys /\ Filtered' = Filtered
      /\ late' = late /\ outstanding' = outstanding
  BY <1>3 DEF portVars, oidVars
<1>5. PICK r \in WorkRecords : /\ r = Idle /\ r.pc = "idle" /\ r.on = NoHandle
                               /\ r.port = NoPort /\ r.reqs = <<>>
  BY IdleCall
<1>6. work' = [work EXCEPT ![c] = r]
  BY <1>3, <1>5
<1>7. /\ file'[h] = "none" /\ file' \in [Handles -> {"none", "open", "closing", "refused"}]
      /\ \A k \in Handles : k # h => file'[k] = file[k]
  BY <1>3, Zenon DEF IInv, TypeOK
<1>8. \A v \in Workers : v # c => work[v].on # h
  BY <1>1, <1>2, MpExclusiveAssumption DEF IInv, ThreadInv
<1>9. OidInv'
  BY <1>1, <1>3, <1>5, <1>6, OidsStill, Zenon
<1>10. PortInv'
  BY <1>1, <1>3, <1>6, PortsKept, Zenon
<1>11. PortFits(r)' /\ HandleFits(c, r)'
  BY <1>5 DEF PortFits, HandleFits, Transit, Cleaning
<1>12. ASSUME NEW v \in Workers, v # c PROVE Undisturbed(v) /\ Apart(r, v)
  BY <1>4, <1>5, <1>7, <1>8, <1>12, HandleUsed, Zenon DEF Undisturbed, Apart
<1>13. Calm
  BY <1>3, <1>4 DEF Calm
<1>14. ThreadInv' /\ work' \in [Workers -> WorkRecords]
  BY <1>6, <1>11, <1>12, <1>13, ThreadMoves, Zenon
<1>15. UserContext = h => PortList = <<>> /\ OidFilterKeys = {}
  <2>1. UserContext = h => file[h] = "closing"
    BY <1>2, OneOwner
  <2>2. QED
    BY <1>1, <2>1, OfWorker, MpExclusiveAssumption, Zenon DEF HandleFits
<1>16. OwnInv'
  <2>1. CASE UserContext = h
    <3>1. UserContext' = NoHandle /\ SetOidFilter' = {}
      BY <1>3, <2>1 DEF IInv, OwnInv
    <3>2. \A k \in Handles : file'[k] \notin {"open", "closing"} /\ k # NoHandle
      BY <1>7, <2>1, OneOwner, MpExclusiveAssumption
    <3>3. QED
      BY <1>4, <1>15, <2>1, <3>1, <3>2 DEF OwnInv
  <2>2. CASE UserContext # h
    <3>1. UserContext' = UserContext /\ SetOidFilter' = SetOidFilter
      BY <1>3, <2>2 DEF IInv, OwnInv
    <3>2. \A k \in Handles : file'[k] \in {"open", "closing"} <=> UserContext = k
      BY <1>7, <2>2, OneOwner
    <3>3. QED
      BY <1>4, <3>1, <3>2 DEF IInv, OwnInv
  <2>3. QED
    BY <2>1, <2>2
<1>17. TypeOK'
  BY <1>3, <1>4, <1>7, <1>14, Zenon DEF IInv, TypeOK
<1>18. QED
  BY <1>9, <1>10, <1>14, <1>16, <1>17 DEF IInv

-----------------------------------------------------------------------------
(* The list of ports.                                                      *)

\* InsertTailList of an entry that is in no list.
LEMMA Appended ==
    ASSUME NEW S, NEW s \in Seq(S), Distinct(s), NEW x \in S, ~In(s, x), NEW q, q = Append(s, x)
    PROVE  q \in Seq(S) /\ Distinct(q) /\ \A y : In(q, y) <=> In(s, y) \/ y = x
<1>1. /\ q \in Seq(S) /\ Len(s) \in Nat /\ Len(q) = Len(s) + 1 /\ q[Len(s) + 1] = x
      /\ \A i \in 1 .. Len(s) : q[i] = s[i]
  OBVIOUS
<1>2. \A i \in 1 .. Len(q) : i \in 1 .. Len(s) \/ i = Len(s) + 1
  BY <1>1
<1>3. Distinct(q)
  BY <1>1, <1>2 DEF Distinct, In
<1>4. ASSUME NEW y PROVE In(q, y) <=> In(s, y) \/ y = x
  <2>1. ASSUME In(q, y) PROVE In(s, y) \/ y = x
    BY <1>1, <1>2, <2>1 DEF In
  <2>2. ASSUME In(s, y) PROVE In(q, y)
    <3>1. PICK i \in 1 .. Len(s) : s[i] = y
      BY <2>2 DEF In
    <3>2. i \in 1 .. Len(q) /\ q[i] = y
      BY <1>1, <3>1
    <3>3. QED
      BY <3>2 DEF In
  <2>3. ASSUME y = x PROVE In(q, y)
    <3>1. Len(s) + 1 \in 1 .. Len(q)
      BY <1>1
    <3>2. QED
      BY <1>1, <2>3, <3>1 DEF In
  <2>4. QED
    BY <2>1, <2>2, <2>3
<1>5. QED
  BY <1>1, <1>3, <1>4

\* The first n entries of a list, and the list without them.
Heads(s, n) == {s[i] : i \in 1 .. n}
Behind(s, n) == SubSeq(s, n + 1, Len(s))

\* The first n entries are removed, one RemoveHeadList after the other.
LEMMA HeadsLeave ==
    ASSUME NEW S, NEW s \in Seq(S), Distinct(s), NEW n \in 0 .. Len(s), NEW q, q = Behind(s, n)
    PROVE  /\ Heads(s, n) \subseteq S
           /\ q \in Seq(S) /\ Distinct(q) /\ Len(q) = Len(s) - n
           /\ \A y : In(q, y) <=> In(s, y) /\ y \notin Heads(s, n)
<1>0. /\ \A y : y \notin Heads(s, n) <=> \A i \in 1 .. n : y # s[i]
      /\ Heads(s, n) \subseteq S
  BY DEF Heads
<1>1. /\ q \in Seq(S) /\ Len(s) \in Nat /\ Len(q) = Len(s) - n
      /\ \A i \in 1 .. Len(q) : q[i] = s[i + n]
  BY DEF Behind
<1>2. \A i \in 1 .. Len(q) : i + n \in 1 .. Len(s)
  BY <1>1
<1>3. ASSUME NEW i \in 1 .. Len(q), NEW j \in 1 .. Len(q), q[i] = q[j] PROVE i = j
  <2>1. i + n \in 1 .. Len(s) /\ j + n \in 1 .. Len(s) /\ s[i + n] = s[j + n]
    BY <1>1, <1>2, <1>3
  <2>2. i + n = j + n
    BY <2>1 DEF Distinct
  <2>3. QED
    BY <2>2
<1>4. ASSUME NEW y PROVE In(q, y) <=> In(s, y) /\ \A i \in 1 .. n : y # s[i]
  <2>1. ASSUME In(q, y) PROVE In(s, y) /\ \A i \in 1 .. n : y # s[i]
    <3>1. PICK i \in 1 .. Len(q) : q[i] = y
      BY <2>1 DEF In
    <3>2. PICK k \in 1 .. Len(s) : k = i + n /\ s[k] = y
      BY <1>1, <1>2, <3>1
    <3>3. ASSUME NEW j \in 1 .. n, y = s[j] PROVE FALSE
      <4>1. j \in 1 .. Len(s) /\ j # k
        BY <3>2
      <4>2. QED
        BY <3>2, <3>3, <4>1 DEF Distinct
    <3>4. QED
      BY <3>2, <3>3 DEF In
  <2>2. ASSUME In(s, y), \A i \in 1 .. n : y # s[i] PROVE In(q, y)
    <3>1. PICK k \in 1 .. Len(s) : s[k] = y
      BY <2>2 DEF In
    <3>2. PICK i \in 1 .. Len(q) : i = k - n /\ i + n = k
      BY <1>1, <2>2, <3>1
    <3>3. q[i] = y
      BY <1>1, <3>1, <3>2
    <3>4. QED
      BY <3>3 DEF In
  <2>3. QED
    BY <2>1, <2>2
<1>5. QED
  BY <1>0, <1>1, <1>3, <1>4 DEF Distinct

\* A part of a sequence.
LEMMA Part ==
    ASSUME NEW S, NEW s \in Seq(S), NEW m \in 1 .. Len(s) + 1, NEW n \in 0 .. Len(s), m <= n + 1,
           NEW q, q = SubSeq(s, m, n)
    PROVE  q \in Seq(S) /\ Len(q) = n - m + 1 /\ \A j \in 1 .. Len(q) : q[j] = s[j + m - 1]
OBVIOUS

\* RemoveEntryList.
LEMMA Removed ==
    ASSUME NEW S, NEW s \in Seq(S), Distinct(s), NEW i \in 1 .. Len(s),
           NEW q, q = RemoveEntryList(s, i)
    PROVE  q \in Seq(S) /\ Distinct(q) /\ \A y : In(q, y) <=> In(s, y) /\ y # s[i]
<1>1. PICK a \in Seq(S) : a = SubSeq(s, 1, i - 1) /\ Len(a) = i - 1
                          /\ \A j \in 1 .. Len(a) : a[j] = s[j]
  <2>1. PICK a : a = SubSeq(s, 1, i - 1)
    BY Zenon
  <2>2. 1 \in 1 .. Len(s) + 1 /\ i - 1 \in 0 .. Len(s) /\ 1 <= (i - 1) + 1
    OBVIOUS
  <2>3. a \in Seq(S) /\ Len(a) = i - 1 /\ \A j \in 1 .. Len(a) : a[j] = s[j]
    BY <2>1, <2>2, Part
  <2>4. QED
    BY <2>1, <2>3
<1>2. PICK b \in Seq(S) : b = SubSeq(s, i + 1, Len(s)) /\ Len(b) = Len(s) - i
                          /\ \A j \in 1 .. Len(b) : b[j] = s[j + i]
  <2>1. PICK b : b = SubSeq(s, i + 1, Len(s))
    BY Zenon
  <2>2. i + 1 \in 1 .. Len(s) + 1 /\ Len(s) \in 0 .. Len(s) /\ i + 1 <= Len(s) + 1
    OBVIOUS
  <2>3. b \in Seq(S) /\ Len(b) = Len(s) - i /\ \A j \in 1 .. Len(b) : b[j] = s[j + i]
    BY <2>1, <2>2, Part
  <2>4. QED
    BY <2>1, <2>3, Zenon
<1>3. q = a \o b
  BY <1>1, <1>2 DEF RemoveEntryList
<1>4. /\ q \in Seq(S) /\ Len(q) = Len(a) + Len(b)
      /\ \A j \in 1 .. Len(q) : q[j] = IF j <= Len(a) THEN a[j] ELSE b[j - Len(a)]
  BY <1>3
<1>5. Len(s) \in Nat /\ Len(a) = i - 1 /\ Len(b) = Len(s) - i /\ Len(q) = Len(s) - 1
  BY <1>1, <1>2, <1>4
<1>6. ASSUME NEW j \in 1 .. Len(q)
      PROVE  \E k \in 1 .. Len(s) : k = (IF j < i THEN j ELSE j + 1) /\ q[j] = s[k]
  <2>1. CASE j < i
    <3>1. j <= Len(a) /\ j \in 1 .. Len(a) /\ j \in 1 .. Len(s)
      BY <1>5, <2>1
    <3>2. q[j] = s[j]
      BY <1>1, <1>4, <3>1
    <3>3. QED
      BY <2>1, <3>1, <3>2
  <2>2. CASE j >= i
    <3>1. ~(j <= Len(a)) /\ j - Len(a) \in 1 .. Len(b) /\ (j - Len(a)) + i = j + 1
          /\ j + 1 \in 1 .. Len(s) /\ ~(j < i)
      BY <1>5, <2>2
    <3>2. q[j] = s[j + 1]
      BY <1>2, <1>4, <3>1, Zenon
    <3>3. QED
      BY <3>1, <3>2
  <2>3. QED
    BY <2>1, <2>2
<1>7. ASSUME NEW j \in 1 .. Len(q), NEW k \in 1 .. Len(q), q[j] = q[k] PROVE j = k
  <2>1. PICK l \in 1 .. Len(s) : l = (IF j < i THEN j ELSE j + 1) /\ q[j] = s[l]
    BY <1>6
  <2>2. PICK m \in 1 .. Len(s) : m = (IF k < i THEN k ELSE k + 1) /\ q[k] = s[m]
    BY <1>6
  <2>3. l = m
    BY <1>7, <2>1, <2>2, Zenon DEF Distinct
  <2>4. QED
    BY <2>1, <2>2, <2>3
<1>8. ASSUME NEW y PROVE In(q, y) <=> In(s, y) /\ y # s[i]
  <2>1. ASSUME In(q, y) PROVE In(s, y) /\ y # s[i]
    <3>1. PICK j \in 1 .. Len(q) : q[j] = y
      BY <2>1 DEF In
    <3>2. PICK k \in 1 .. Len(s) : k = (IF j < i THEN j ELSE j + 1) /\ q[j] = s[k]
      BY <1>6
    <3>3. k # i
      BY <3>2
    <3>4. QED
      BY <3>1, <3>2, <3>3 DEF In, Distinct
  <2>2. ASSUME In(s, y), y # s[i] PROVE In(q, y)
    <3>1. PICK k \in 1 .. Len(s) : s[k] = y
      BY <2>2 DEF In
    <3>2. k # i
      BY <2>2, <3>1
    <3>3. PICK j \in 1 .. Len(q) : j = (IF k < i THEN k ELSE k - 1)
      BY <1>5, <3>2
    <3>4. PICK l \in 1 .. Len(s) : l = (IF j < i THEN j ELSE j + 1) /\ q[j] = s[l]
      BY <1>6
    <3>5. l = k
      BY <3>2, <3>3, <3>4
    <3>6. QED
      BY <3>1, <3>4, <3>5 DEF In
  <2>3. QED
    BY <2>1, <2>2
<1>9. QED
  BY <1>4, <1>7, <1>8 DEF Distinct

-----------------------------------------------------------------------------
(* Ports.                                                                  *)

\* What remains to be shown of a step of thread c on the ports.
LEMMA PortStep ==
    ASSUME IInv, NEW c \in Workers, work[c].pc # "complete",
           UNCHANGED ownVars, UNCHANGED oidVars, Calm,
           NEW r \in WorkRecords, r.reqs = <<>>, work' = [work EXCEPT ![c] = r],
           PortFits(r)', HandleFits(c, r)',
           \A v \in Workers : v # c => Undisturbed(v) /\ Apart(r, v),
           PortList' \in Seq(Ports),
           State' \in [Ports -> {"none", "allocated", "activating", "activated", "deactivating"}],
           ndis' \in [Ports -> {"free", "allocated", "active"}],
           asserted' \in {"none", "MpPortCleanup: State", "MpPortCleanup: MpDeactivatePort"},
           PortInv', UserContext = NoHandle => PortList' = <<>>
    PROVE  IInv'
<1>1. /\ OidFilterKeys' = OidFilterKeys /\ Filtered' = Filtered
      /\ late' = late /\ outstanding' = outstanding
      /\ UserContext' = UserContext /\ file' = file /\ SetOidFilter' = SetOidFilter
  BY Zenon DEF ownVars, oidVars
<1>2. OidInv'
  BY OidsStill, Zenon
<1>3. ThreadInv' /\ work' \in [Workers -> WorkRecords]
  BY ThreadMoves, Zenon
<1>4. OwnInv'
  BY <1>1, Zenon DEF IInv, OwnInv
<1>5. TypeOK'
  BY <1>1, <1>3, Zenon DEF IInv, TypeOK
<1>6. QED
  BY <1>2, <1>3, <1>4, <1>5, Zenon DEF IInv

\* A port that no other thread works on changes.
LEMMA OnePort ==
    ASSUME IInv, UNCHANGED ownVars, NEW c \in Workers, NEW p \in Ports,
           \A v \in Workers : v # c => work[v].port # p,
           \A q \in Ports : q # p => State'[q] = State[q] /\ ndis'[q] = ndis[q]
    PROVE  \A v \in Workers : v # c => Undisturbed(v)
<1>1. file' = file
  BY DEF ownVars
<1>2. \A v \in Workers : work[v].port # NoPort => work[v].port \in Ports
  BY Zenon DEF IInv, TypeOK, WorkRecords
<1>3. QED
  BY <1>1, <1>2 DEF Undisturbed

\* Nobody works on a port that is free, or listed and not in transition.
LEMMA Settled ==
    ASSUME IInv, asserted = "none", NEW p \in Ports,
           ndis[p] = "free" \/ State[p] \in {"allocated", "activated"}
    PROVE  \A v \in Workers : work[v].port # p
<1>1. ASSUME NEW v \in Workers, work[v].port = p PROVE FALSE
  BY <1>1, PortUsed, MpExclusiveAssumption, Zenon
<1>2. QED
  BY <1>1

\* A listed port changes its state, and NDIS its view of it.
LEMMA PortTurns ==
    ASSUME IInv, NEW c \in Workers, work[c].pc # "insert", NEW r, work' = [work EXCEPT ![c] = r],
           PortList' = PortList, NEW p \in Ports, State[p] # "none",
           NEW s \in {"allocated", "activating", "activated", "deactivating"},
           NEW n \in {"allocated", "active"},
           n = "allocated" <=> s \in {"allocated", "activating"},
           State' = [State EXCEPT ![p] = s], ndis' = [ndis EXCEPT ![p] = n]
    PROVE  /\ PortInv'
           /\ PortList' \in Seq(Ports)
           /\ State' \in [Ports -> {"none", "allocated", "activating", "activated", "deactivating"}]
           /\ ndis' \in [Ports -> {"free", "allocated", "active"}]
           /\ State'[p] = s /\ ndis'[p] = n
           /\ \A q \in Ports : q # p => State'[q] = State[q] /\ ndis'[q] = ndis[q]
<1>1. /\ PortList' \in Seq(Ports)
      /\ State' \in [Ports -> {"none", "allocated", "activating", "activated", "deactivating"}]
      /\ ndis' \in [Ports -> {"free", "allocated", "active"}]
      /\ State'[p] = s /\ ndis'[p] = n
      /\ \A q \in Ports : q # p => State'[q] = State[q] /\ ndis'[q] = ndis[q]
  BY Zenon DEF IInv, TypeOK
<1>2. \A v \in Workers : work[v].pc = "insert" => work'[v] = work[v]
  BY Zenon DEF IInv, TypeOK
<1>3. Distinct(PortList) /\ \A q \in Ports : State[q] # "none" <=> In(PortList, q)
  BY DEF IInv, PortInv
<1>4. \A q \in Ports : State'[q] # "none" <=> In(PortList, q)
  BY <1>1, <1>3
<1>5. ASSUME NEW q \in Ports
      PROVE  /\ State'[q] \in {"allocated", "activating"} => ndis'[q] = "allocated"
             /\ State'[q] \in {"activated", "deactivating"} => ndis'[q] = "active"
             /\ State'[q] = "none" /\ ndis'[q] # "free" =>
                   \E v \in Workers : work'[v].pc = "insert" /\ work'[v].port = q
  <2>1. CASE q = p
    BY <1>1, <2>1
  <2>2. CASE q # p
    BY <1>1, <1>2, <2>2 DEF IInv, PortInv
  <2>3. QED
    BY <2>1, <2>2
<1>6. PortInv'
  BY <1>3, <1>4, <1>5, Zenon DEF PortInv
<1>7. QED
  BY <1>1, <1>6

\* MpIrpAllocatePort, NDIS having handed out p.
LEMMA AllocateStep ==
    ASSUME IInv, NEW c \in Clients, NEW h \in Handles, NEW p \in Ports, MpIrpAllocatePort(c, h, p)
    PROVE  IInv'
<1>1. /\ asserted = "none" /\ work[c].pc = "idle" /\ file[h] = "open" /\ ndis[p] = "free"
      /\ ndis' = [ndis EXCEPT ![p] = "allocated"] /\ PortList' = PortList /\ State' = State
      /\ UNCHANGED ownVars /\ UNCHANGED oidVars /\ asserted' = asserted /\ file' = file
      /\ OidFilterKeys' = OidFilterKeys
  BY DEF MpIrpAllocatePort, Ready, Running, ownVars, oidVars
<1>2. c \in Workers
  BY DEF Workers
<1>3. PICK r \in WorkRecords : /\ r = At("insert", h, p) /\ r.pc = "insert" /\ r.on = h
                               /\ r.port = p /\ r.reqs = <<>>
  <2>1. "insert" \in PCs /\ h \in Handles \cup {NoHandle} /\ p \in Ports \cup {NoPort}
    BY DEF PCs
  <2>2. QED
    BY <2>1, Calls
<1>4. work' = [work EXCEPT ![c] = r]
  BY <1>3 DEF MpIrpAllocatePort
<1>5. State[p] = "none"
  BY <1>1 DEF IInv, PortInv, TypeOK
<1>6. /\ ndis' \in [Ports -> {"free", "allocated", "active"}] /\ ndis'[p] = "allocated"
      /\ \A q \in Ports : q # p => ndis'[q] = ndis[q]
  BY <1>1 DEF IInv, TypeOK
<1>7. \A v \in Workers : work[v].port # p
  BY <1>1, Settled
<1>8. \A v \in Workers : v # c => Undisturbed(v) /\ Apart(r, v)
  <2>1. \A v \in Workers : v # c => Undisturbed(v)
    BY <1>1, <1>2, <1>6, <1>7, OnePort, Zenon
  <2>2. QED
    BY <1>1, <1>3, <1>7, <2>1, Zenon DEF Apart
<1>9. PortFits(r)'
  BY <1>1, <1>3, <1>5, <1>6, MpExclusiveAssumption, Zenon DEF PortFits, Transit
<1>10. HandleFits(c, r)'
  BY <1>1, <1>3, MpExclusiveAssumption, Zenon DEF HandleFits, Cleaning
<1>11. Calm
  BY <1>1, Zenon DEF Calm
<1>12. ASSUME NEW q \in Ports, State'[q] = "none", ndis'[q] # "free"
       PROVE  \E v \in Workers : work'[v].pc = "insert" /\ work'[v].port = q
  <2>1. CASE q = p
    <3>1. work'[c] = r
      BY <1>2, <1>4, Zenon DEF IInv, TypeOK
    <3>2. QED
      BY <1>2, <1>3, <2>1, <3>1
  <2>2. CASE q # p
    <3>1. PICK v \in Workers : work[v].pc = "insert" /\ work[v].port = q
      BY <1>1, <1>6, <1>12, <2>2, Zenon DEF IInv, PortInv
    <3>2. work'[v] = work[v]
      BY <1>1, <1>4, <3>1 DEF IInv, TypeOK
    <3>3. QED
      BY <3>1, <3>2
  <2>3. QED
    BY <2>1, <2>2
<1>13. \A q \in Ports :
          /\ State'[q] \in {"allocated", "activating"} => ndis'[q] = "allocated"
          /\ State'[q] \in {"activated", "deactivating"} => ndis'[q] = "active"
  BY <1>1, <1>5, <1>6, Zenon DEF IInv, PortInv
<1>14. PortInv'
  BY <1>1, <1>12, <1>13, Zenon DEF IInv, PortInv
<1>15. /\ PortList' \in Seq(Ports) /\ (UserContext = NoHandle => PortList' = <<>>)
       /\ State' \in [Ports -> {"none", "allocated", "activating", "activated", "deactivating"}]
       /\ asserted' \in {"none", "MpPortCleanup: State", "MpPortCleanup: MpDeactivatePort"}
  BY <1>1 DEF IInv, TypeOK, OwnInv
<1>16. QED
  BY <1>1, <1>2, <1>3, <1>4, <1>6, <1>8, <1>9, <1>10, <1>11, <1>14, <1>15, PortStep, Zenon

\* MpInsertPort: the port a thread has allocated joins the list.
LEMMA InsertStep ==
    ASSUME IInv, NEW c \in Workers, MpInsertPort(c)
    PROVE  IInv'
<1>1. PICK p \in Ports : p = work[c].port /\ State[p] = "none" /\ ndis[p] = "allocated"
  <2>1. work[c] \in WorkRecords /\ PortFits(work[c]) /\ work[c].pc = "insert"
    BY OfWorker DEF MpInsertPort, Running
  <2>2. QED
    BY <2>1, Zenon DEF PortFits, WorkRecords
<1>2. /\ asserted = "none" /\ work[c].pc = "insert" /\ PortList' = Append(PortList, p)
      /\ State' = [State EXCEPT ![p] = "allocated"] /\ ndis' = ndis
      /\ UNCHANGED ownVars /\ UNCHANGED oidVars /\ asserted' = asserted
      /\ OidFilterKeys' = OidFilterKeys
  BY <1>1, Zenon DEF MpInsertPort, Running, oidVars
<1>3. PICK r \in WorkRecords : /\ r = Idle /\ r.pc = "idle" /\ r.on = NoHandle
                               /\ r.port = NoPort /\ r.reqs = <<>>
  BY IdleCall
<1>4. work' = [work EXCEPT ![c] = r]
  BY <1>3, Zenon DEF MpInsertPort, Return
<1>5. work[c].on # NoHandle /\ file[work[c].on] = "open"
  BY <1>2, OfWorker, Zenon DEF HandleFits
<1>6. UserContext = work[c].on /\ UserContext # NoHandle /\ \A h \in Handles : file[h] # "closing"
  BY <1>5, HandleUsed, OneOwner, Zenon
<1>7. /\ PortList' \in Seq(Ports) /\ Distinct(PortList')
      /\ \A q : In(PortList', q) <=> In(PortList, q) \/ q = p
  <2>1. PortList \in Seq(Ports) /\ Distinct(PortList) /\ ~In(PortList, p)
    BY <1>1, Zenon DEF IInv, TypeOK, PortInv
  <2>2. QED
    BY <1>2, <2>1, Appended, Zenon
<1>8. /\ State' \in [Ports -> {"none", "allocated", "activating", "activated", "deactivating"}]
      /\ State'[p] = "allocated" /\ \A q \in Ports : q # p => State'[q] = State[q]
  BY <1>2 DEF IInv, TypeOK
<1>9. \A v \in Workers : v # c => work[v].port # p
  BY <1>1, MpExclusiveAssumption, Zenon DEF IInv, ThreadInv
<1>10. \A v \in Workers : v # c => Undisturbed(v) /\ Apart(r, v)
  <2>1. \A v \in Workers : v # c => Undisturbed(v)
    BY <1>2, <1>8, <1>9, OnePort, Zenon
  <2>2. QED
    BY <1>3, <2>1 DEF Apart
<1>11. PortFits(r)' /\ HandleFits(c, r)'
  BY <1>3 DEF PortFits, HandleFits, Transit, Cleaning
<1>12. Calm
  BY <1>2, <1>6 DEF Calm
<1>13. ASSUME NEW q \in Ports
       PROVE  /\ State'[q] # "none" <=> In(PortList', q)
              /\ State'[q] \in {"allocated", "activating"} => ndis'[q] = "allocated"
              /\ State'[q] \in {"activated", "deactivating"} => ndis'[q] = "active"
              /\ State'[q] = "none" /\ ndis'[q] # "free" =>
                    \E v \in Workers : work'[v].pc = "insert" /\ work'[v].port = q
  <2>1. CASE q = p
    BY <1>1, <1>2, <1>7, <1>8, <2>1, Zenon
  <2>2. CASE q # p
    <3>1. State'[q] # "none" <=> In(PortList', q)
      BY <1>7, <1>8, <2>2 DEF IInv, PortInv
    <3>2. \A v \in Workers : work[v].port = q => work'[v] = work[v]
      BY <1>1, <1>4, <2>2, Zenon DEF IInv, TypeOK
    <3>3. State'[q] = State[q] /\ ndis'[q] = ndis[q]
      BY <1>2, <1>8, <2>2
    <3>4. /\ State[q] \in {"allocated", "activating"} => ndis[q] = "allocated"
          /\ State[q] \in {"activated", "deactivating"} => ndis[q] = "active"
          /\ State[q] = "none" /\ ndis[q] # "free" =>
                \E v \in Workers : work[v].pc = "insert" /\ work[v].port = q
      BY Zenon DEF IInv, PortInv
    <3>5. QED
      BY <3>1, <3>2, <3>3, <3>4, Zenon
  <2>3. QED
    BY <2>1, <2>2, Zenon
<1>14. PortInv'
  BY <1>7, <1>13, Zenon DEF PortInv
<1>15. /\ ndis' \in [Ports -> {"free", "allocated", "active"}]
       /\ asserted' \in {"none", "MpPortCleanup: State", "MpPortCleanup: MpDeactivatePort"}
  BY <1>2 DEF IInv, TypeOK
<1>16. QED
  BY <1>2, <1>3, <1>4, <1>6, <1>7, <1>8, <1>10, <1>11, <1>12, <1>14, <1>15, PortStep, Zenon

\* MpFindPortEntry finds a listed port.
LEMMA Found ==
    ASSUME IInv, NEW p \in Ports, NEW S, NEW i \in MpFindPortEntry(p, S)
    PROVE  i \in 1 .. Len(PortList) /\ PortList[i] = p /\ State[p] \in S
<1>1. PortList \in Seq(Ports)
  BY Zenon DEF IInv, TypeOK
<1>2. QED
  BY <1>1 DEF MpFindPortEntry

\* MpIrpFreePort: a settled, inactive port leaves the list and goes back to NDIS.
LEMMA FreeStep ==
    ASSUME IInv, NEW c \in Clients, NEW h \in Handles, NEW p \in Ports, MpIrpFreePort(c, h, p)
    PROVE  IInv'
<1>1. PICK i \in 1 .. Len(PortList) :
         /\ PortList[i] = p /\ State[p] = "allocated" /\ PortList' = RemoveEntryList(PortList, i)
         /\ ndis' = [q \in Ports |-> IF q \in {p} THEN "free" ELSE ndis[q]]
  <2>1. PICK i \in MpFindPortEntry(p, {"allocated"}) : MpFreePort({p}, RemoveEntryList(PortList, i))
    BY DEF MpIrpFreePort
  <2>2. i \in 1 .. Len(PortList) /\ PortList[i] = p /\ State[p] = "allocated"
    BY <2>1, Found, Zenon
  <2>3. /\ PortList' = RemoveEntryList(PortList, i)
        /\ ndis' = [q \in Ports |-> IF q \in {p} THEN "free" ELSE ndis[q]]
    BY <2>1 DEF MpFreePort
  <2>4. QED
    BY <2>2, <2>3
<1>2. /\ asserted = "none" /\ work[c].pc = "idle" /\ State' = [State EXCEPT ![p] = "none"]
      /\ UNCHANGED ownVars /\ UNCHANGED oidVars /\ asserted' = asserted
      /\ OidFilterKeys' = OidFilterKeys
  BY Zenon DEF MpIrpFreePort, Ready, Running, oidVars
<1>3. c \in Workers
  BY DEF Workers
<1>4. PICK r \in WorkRecords : /\ r = work[c] /\ r.pc = "idle" /\ r.on = NoHandle
                               /\ r.port = NoPort /\ r.reqs = <<>>
  BY <1>2, <1>3, OfWorker, Zenon DEF PortFits, HandleFits, Transit
<1>5. work' = [work EXCEPT ![c] = r]
  BY <1>3, <1>4, Zenon DEF IInv, TypeOK, MpIrpFreePort
<1>6. /\ PortList' \in Seq(Ports) /\ Distinct(PortList')
      /\ \A q : In(PortList', q) <=> In(PortList, q) /\ q # p
  <2>1. PortList \in Seq(Ports) /\ Distinct(PortList)
    BY Zenon DEF IInv, TypeOK, PortInv
  <2>2. QED
    BY <1>1, <2>1, Removed, Zenon
<1>7. /\ State' \in [Ports -> {"none", "allocated", "activating", "activated", "deactivating"}]
      /\ ndis' \in [Ports -> {"free", "allocated", "active"}]
      /\ State'[p] = "none" /\ ndis'[p] = "free"
      /\ \A q \in Ports : q # p => State'[q] = State[q] /\ ndis'[q] = ndis[q]
  BY <1>1, <1>2 DEF IInv, TypeOK
<1>8. \A v \in Workers : work[v].port # p
  BY <1>1, <1>2, Settled, Zenon
<1>9. \A v \in Workers : v # c => Undisturbed(v) /\ Apart(r, v)
  <2>1. \A v \in Workers : v # c => Undisturbed(v)
    <3>1. /\ \A v \in Workers : v # c => work[v].port # p
          /\ \A q \in Ports : q # p => State'[q] = State[q] /\ ndis'[q] = ndis[q]
      BY <1>7, <1>8
    <3>2. QED
      BY <1>2, <1>3, <3>1, OnePort, Zenon
  <2>2. QED
    BY <1>4, <2>1, Zenon DEF Apart
<1>10. PortFits(r)' /\ HandleFits(c, r)'
  BY <1>4, Zenon DEF PortFits, HandleFits, Transit, Cleaning
<1>11. PortList = <<>> => PortList' = <<>>
  BY <1>1
<1>12. Calm
  BY <1>2, <1>11, Zenon DEF Calm
<1>13. ASSUME NEW q \in Ports
       PROVE  /\ State'[q] # "none" <=> In(PortList', q)
              /\ State'[q] \in {"allocated", "activating"} => ndis'[q] = "allocated"
              /\ State'[q] \in {"activated", "deactivating"} => ndis'[q] = "active"
              /\ State'[q] = "none" /\ ndis'[q] # "free" =>
                    \E v \in Workers : work'[v].pc = "insert" /\ work'[v].port = q
  <2>1. CASE q = p
    BY <1>6, <1>7, <2>1, Zenon
  <2>2. CASE q # p
    <3>1. State'[q] = State[q] /\ ndis'[q] = ndis[q] /\ (In(PortList', q) <=> In(PortList, q))
      BY <1>6, <1>7, <2>2, Zenon
    <3>2. work' = work
      BY DEF MpIrpFreePort
    <3>3. QED
      BY <3>1, <3>2, Zenon DEF IInv, PortInv
  <2>3. QED
    BY <2>1, <2>2, Zenon
<1>14. PortInv'
  BY <1>6, <1>13, Zenon DEF PortInv
<1>15. /\ asserted' \in {"none", "MpPortCleanup: State", "MpPortCleanup: MpDeactivatePort"}
       /\ UserContext = NoHandle => PortList' = <<>>
  BY <1>2, <1>11 DEF IInv, TypeOK, OwnInv
<1>16. QED
  BY <1>2, <1>3, <1>4, <1>5, <1>6, <1>7, <1>9, <1>10, <1>12, <1>14, <1>15, PortStep, Zenon

\* A settled port of the list is to be activated or deactivated.
LEMMA TurnBegins ==
    ASSUME IInv, NEW c \in Clients, NEW h \in Handles, NEW p \in Ports, Ready(c, h),
           NEW S \in {"allocated", "activated"}, MpFindPortEntry(p, {S}) # {},
           NEW s, s = (IF S = "allocated" THEN "activating" ELSE "deactivating"),
           NEW pc, pc = (IF S = "allocated" THEN "activate" ELSE "deactivate"),
           State' = [State EXCEPT ![p] = s], work' = [work EXCEPT ![c] = At(pc, h, p)],
           UNCHANGED <<ownVars, PortList, ndis, oidVars, asserted>>
    PROVE  IInv'
<1>1. /\ asserted = "none" /\ work[c].pc = "idle" /\ file[h] = "open"
      /\ UNCHANGED ownVars /\ UNCHANGED oidVars /\ asserted' = asserted /\ PortList' = PortList
      /\ file' = file /\ OidFilterKeys' = OidFilterKeys
  BY DEF Ready, Running, ownVars, oidVars
<1>2. c \in Workers
  BY DEF Workers
<1>3. State[p] = S
  <2>1. PICK i \in MpFindPortEntry(p, {S}) : TRUE
    OBVIOUS
  <2>2. State[p] \in {S}
    BY <2>1, Found
  <2>3. QED
    BY <2>2
<1>4. PICK r \in WorkRecords : /\ r = At(pc, h, p) /\ r.pc = pc /\ r.on = h
                               /\ r.port = p /\ r.reqs = <<>>
  <2>1. pc \in PCs /\ h \in Handles \cup {NoHandle} /\ p \in Ports \cup {NoPort}
    BY DEF PCs
  <2>2. QED
    BY <2>1, Calls
<1>5. work' = [work EXCEPT ![c] = r]
  BY <1>4, Zenon
<1>6. PICK n \in {"allocated", "active"} :
         /\ n = "allocated" <=> s \in {"allocated", "activating"}
         /\ ndis' = [ndis EXCEPT ![p] = n]
  <2>1. ndis[p] = IF S = "allocated" THEN "allocated" ELSE "active"
    BY <1>3, Zenon DEF IInv, PortInv
  <2>2. ndis' = [ndis EXCEPT ![p] = ndis[p]]
    BY Zenon DEF IInv, TypeOK
  <2>3. QED
    BY <2>1, <2>2, Zenon
<1>7. /\ PortInv'
      /\ PortList' \in Seq(Ports)
      /\ State' \in [Ports -> {"none", "allocated", "activating", "activated", "deactivating"}]
      /\ ndis' \in [Ports -> {"free", "allocated", "active"}]
      /\ State'[p] = s /\ ndis'[p] = n
      /\ \A q \in Ports : q # p => State'[q] = State[q] /\ ndis'[q] = ndis[q]
  <2>1. /\ State[p] # "none" /\ work[c].pc # "insert"
        /\ s \in {"allocated", "activating", "activated", "deactivating"}
    BY <1>1, <1>3
  <2>2. QED
    BY <1>1, <1>2, <1>5, <1>6, <2>1, PortTurns, Zenon
<1>8. \A v \in Workers : work[v].port # p
  BY <1>1, <1>3, Settled, Zenon
<1>9. \A v \in Workers : v # c => Undisturbed(v) /\ Apart(r, v)
  <2>1. \A v \in Workers : v # c => Undisturbed(v)
    <3>1. /\ \A v \in Workers : v # c => work[v].port # p
          /\ \A q \in Ports : q # p => State'[q] = State[q] /\ ndis'[q] = ndis[q]
      BY <1>7, <1>8
    <3>2. QED
      BY <1>1, <1>2, <3>1, OnePort, Zenon
  <2>2. QED
    BY <1>1, <1>4, <1>8, <2>1, Zenon DEF Apart
<1>10. PortFits(r)'
  <2>1. r.pc \in Transit /\ r.pc # "insert" /\ r.port # NoPort
    BY <1>4, MpExclusiveAssumption, Zenon DEF Transit
  <2>2. State'[r.port] = IF r.pc = "activate" THEN "activating" ELSE "deactivating"
    BY <1>4, <1>7, Zenon
  <2>3. QED
    BY <2>1, <2>2, Zenon DEF PortFits
<1>11. HandleFits(c, r)'
  BY <1>1, <1>4, MpExclusiveAssumption, Zenon DEF HandleFits, Cleaning
<1>12. Calm
  BY <1>1 DEF Calm
<1>13. /\ asserted' \in {"none", "MpPortCleanup: State", "MpPortCleanup: MpDeactivatePort"}
       /\ UserContext = NoHandle => PortList' = <<>>
  BY <1>1 DEF IInv, TypeOK, OwnInv
<1>14. QED
  BY <1>1, <1>2, <1>4, <1>5, <1>7, <1>9, <1>10, <1>11, <1>12, <1>13, PortStep, Zenon

\* NDIS has answered: the port is settled again.
LEMMA TurnEnds ==
    ASSUME IInv, NEW c \in Workers, asserted = "none", work[c].pc \in {"activate", "deactivate"},
           NEW s \in {"allocated", "activated"}, NEW n \in {"allocated", "active"},
           n = "allocated" <=> s = "allocated",
           State' = [State EXCEPT ![work[c].port] = s], ndis' = [ndis EXCEPT ![work[c].port] = n],
           Return(c), UNCHANGED <<ownVars, PortList, oidVars, asserted>>
    PROVE  IInv'
<1>1. PICK p \in Ports : p = work[c].port /\ State[p] # "none"
  <2>1. work[c] \in WorkRecords /\ PortFits(work[c])
    BY OfWorker, Zenon
  <2>2. QED
    BY <2>1, Zenon DEF PortFits, Transit, WorkRecords
<1>2. /\ UNCHANGED ownVars /\ UNCHANGED oidVars /\ asserted' = asserted /\ PortList' = PortList
      /\ OidFilterKeys' = OidFilterKeys
  BY Zenon DEF oidVars
<1>3. PICK r \in WorkRecords : /\ r = Idle /\ r.pc = "idle" /\ r.on = NoHandle
                               /\ r.port = NoPort /\ r.reqs = <<>>
  BY IdleCall, Zenon
<1>4. work' = [work EXCEPT ![c] = r]
  BY <1>3 DEF Return
<1>5. /\ PortInv'
      /\ PortList' \in Seq(Ports)
      /\ State' \in [Ports -> {"none", "allocated", "activating", "activated", "deactivating"}]
      /\ ndis' \in [Ports -> {"free", "allocated", "active"}]
      /\ State'[p] = s /\ ndis'[p] = n
      /\ \A q \in Ports : q # p => State'[q] = State[q] /\ ndis'[q] = ndis[q]
  <2>1. /\ work[c].pc # "insert" /\ (n = "allocated" <=> s \in {"allocated", "activating"})
        /\ s \in {"allocated", "activating", "activated", "deactivating"}
        /\ State' = [State EXCEPT ![p] = s] /\ ndis' = [ndis EXCEPT ![p] = n]
    BY <1>1
  <2>2. QED
    BY <1>1, <1>2, <1>4, <2>1, PortTurns, Zenon
<1>6. \A v \in Workers : v # c => Undisturbed(v) /\ Apart(r, v)
  <2>1. \A v \in Workers : v # c => Undisturbed(v)
    <3>1. /\ \A v \in Workers : v # c => work[v].port # p
          /\ \A q \in Ports : q # p => State'[q] = State[q] /\ ndis'[q] = ndis[q]
      BY <1>1, <1>5, MpExclusiveAssumption, Zenon DEF IInv, ThreadInv
    <3>2. QED
      BY <1>2, <3>1, OnePort, Zenon
  <2>2. QED
    BY <1>3, <2>1 DEF Apart
<1>7. PortFits(r)' /\ HandleFits(c, r)'
  BY <1>3, Zenon DEF PortFits, HandleFits, Transit, Cleaning
<1>8. Calm
  BY <1>2, Zenon DEF Calm
<1>9. /\ asserted' \in {"none", "MpPortCleanup: State", "MpPortCleanup: MpDeactivatePort"}
      /\ UserContext = NoHandle => PortList' = <<>>
  BY <1>2 DEF IInv, TypeOK, OwnInv
<1>10. QED
  BY <1>2, <1>3, <1>4, <1>5, <1>6, <1>7, <1>8, <1>9, PortStep, Zenon

\* The requests to activate and to deactivate a port, and NDIS's answers.
LEMMA TurnStep ==
    ASSUME IInv,
           \/ \E c \in Clients, h \in Handles, p \in Ports :
                 MpIrpActivatePort(c, h, p) \/ MpIrpDeactivatePort(c, h, p)
           \/ \E w \in Workers, ok \in BOOLEAN :
                 MpActivatePortDone(w, ok) \/ MpDeactivatePortDone(w, ok)
    PROVE  IInv'
<1>1. ASSUME NEW c \in Clients, NEW h \in Handles, NEW p \in Ports, MpIrpActivatePort(c, h, p)
      PROVE  IInv'
  BY <1>1, TurnBegins, Zenon DEF MpIrpActivatePort
<1>2. ASSUME NEW c \in Clients, NEW h \in Handles, NEW p \in Ports, MpIrpDeactivatePort(c, h, p)
      PROVE  IInv'
  BY <1>2, TurnBegins, Zenon DEF MpIrpDeactivatePort
<1>3. ASSUME NEW w \in Workers, NEW ok \in BOOLEAN, MpActivatePortDone(w, ok) PROVE IInv'
  <2>1. State[work[w].port] = "activating" /\ work[w].port \in Ports /\ asserted = "none"
        /\ work[w].pc = "activate"
    BY <1>3, OfWorker, Zenon DEF MpActivatePortDone, Running, PortFits, Transit, WorkRecords
  <2>2. ndis[work[w].port] = "allocated"
    BY <2>1, Zenon DEF IInv, PortInv
  <2>3. PICK n \in {"allocated", "active"}, s \in {"allocated", "activated"} :
           /\ n = "allocated" <=> s = "allocated"
           /\ State' = [State EXCEPT ![work[w].port] = s]
           /\ ndis' = [ndis EXCEPT ![work[w].port] = n]
    <3>1. CASE ok
      BY <1>3, <3>1 DEF MpActivatePortDone
    <3>2. CASE ~ok
      BY <1>3, <2>2, <3>2 DEF MpActivatePortDone
    <3>3. QED
      BY <3>1, <3>2
  <2>4. QED
    BY <1>3, <2>1, <2>3, TurnEnds, Zenon DEF MpActivatePortDone
<1>4. ASSUME NEW w \in Workers, NEW ok \in BOOLEAN, MpDeactivatePortDone(w, ok) PROVE IInv'
  <2>1. State[work[w].port] = "deactivating" /\ work[w].port \in Ports /\ asserted = "none"
        /\ work[w].pc = "deactivate"
    BY <1>4, OfWorker, Zenon DEF MpDeactivatePortDone, Running, PortFits, Transit, WorkRecords
  <2>2. ndis[work[w].port] = "active"
    BY <2>1, Zenon DEF IInv, PortInv
  <2>3. PICK n \in {"allocated", "active"}, s \in {"allocated", "activated"} :
           /\ n = "allocated" <=> s = "allocated"
           /\ State' = [State EXCEPT ![work[w].port] = s]
           /\ ndis' = [ndis EXCEPT ![work[w].port] = n]
    <3>1. CASE ok
      BY <1>4, <3>1 DEF MpDeactivatePortDone
    <3>2. CASE ~ok
      BY <1>4, <2>2, <3>2 DEF MpDeactivatePortDone
    <3>3. QED
      BY <3>1, <3>2
  <2>4. QED
    BY <1>4, <2>1, <2>3, TurnEnds, Zenon DEF MpDeactivatePortDone
<1>5. QED
  BY <1>1, <1>2, <1>3, <1>4

-----------------------------------------------------------------------------
(* The loop of MpPortCleanup.                                              *)

\* The ports of F are freed; another port stays as it is or is to be deactivated.
LEMMA PortsFreed ==
    ASSUME IInv, NEW c \in Workers, work[c].pc # "insert", NEW r, work' = [work EXCEPT ![c] = r],
           NEW F \in SUBSET Ports,
           PortList' \in Seq(Ports), Distinct(PortList'),
           \A q \in Ports : In(PortList', q) <=> In(PortList, q) /\ q \notin F,
           ndis' = [p \in Ports |-> IF p \in F THEN "free" ELSE ndis[p]],
           \A q \in F : State'[q] = "none",
           \A q \in Ports \ F : \/ State'[q] = State[q]
                                \/ State[q] = "activated" /\ State'[q] = "deactivating"
    PROVE  PortInv' /\ ndis' \in [Ports -> {"free", "allocated", "active"}]
<1>1. ndis' \in [Ports -> {"free", "allocated", "active"}]
  BY Zenon DEF IInv, TypeOK
<1>2. \A v \in Workers : work[v].pc = "insert" => work'[v] = work[v]
  BY Zenon DEF IInv, TypeOK
<1>3. ASSUME NEW q \in Ports
      PROVE  /\ State'[q] # "none" <=> In(PortList', q)
             /\ State'[q] \in {"allocated", "activating"} => ndis'[q] = "allocated"
             /\ State'[q] \in {"activated", "deactivating"} => ndis'[q] = "active"
             /\ State'[q] = "none" /\ ndis'[q] # "free" =>
                   \E v \in Workers : work'[v].pc = "insert" /\ work'[v].port = q
  <2>1. CASE q \in F
    <3>1. State'[q] = "none" /\ ndis'[q] = "free" /\ ~In(PortList', q)
      BY <2>1, Zenon
    <3>2. QED
      BY <3>1, Zenon
  <2>2. CASE q \notin F
    <3>1. /\ ndis'[q] = ndis[q] /\ (In(PortList', q) <=> In(PortList, q))
          /\ \/ State'[q] = State[q]
             \/ State[q] = "activated" /\ State'[q] = "deactivating"
      BY <2>2, Zenon
    <3>2. /\ State[q] # "none" <=> In(PortList, q)
          /\ State[q] \in {"allocated", "activating"} => ndis[q] = "allocated"
          /\ State[q] \in {"activated", "deactivating"} => ndis[q] = "active"
          /\ State[q] = "none" /\ ndis[q] # "free" =>
                \E v \in Workers : work[v].pc = "insert" /\ work[v].port = q
      BY Zenon DEF IInv, PortInv
    <3>3. QED
      BY <1>2, <3>1, <3>2, Zenon
  <2>3. QED
    BY <2>1, <2>2, Zenon
<1>4. PortInv'
  BY <1>3, Zenon DEF PortInv
<1>5. QED
  BY <1>1, <1>4, Zenon

\* The ports of gone are freed and then the n heads of list, all settled: F together.
Frees(gone, list, n, F) ==
    /\ F = gone \cup Heads(list, n)
    /\ \A q \in Heads(list, n) : State[q] = "allocated"
    /\ PortList' = Behind(list, n)

\* What is left of the list, and that nobody else works on a port of F.
LEMMA HeadsFreed ==
    ASSUME IInv, asserted = "none", NEW c \in Workers, NEW gone \in SUBSET Ports,
           NEW list \in Seq(Ports), Distinct(list),
           \A q \in Ports : In(list, q) <=> In(PortList, q) /\ q \notin gone,
           \A v \in Workers : v # c => work[v].port \notin gone,
           NEW n \in 0 .. Len(list), NEW F, Frees(gone, list, n, F)
    PROVE  /\ F \in SUBSET Ports
           /\ PortList' \in Seq(Ports) /\ Distinct(PortList') /\ Len(PortList') = Len(list) - n
           /\ \A q \in Ports : In(PortList', q) <=> In(PortList, q) /\ q \notin F
           /\ \A v \in Workers : v # c => work[v].port \notin F
<1>0. /\ F = gone \cup Heads(list, n) /\ PortList' = Behind(list, n)
      /\ \A q \in Heads(list, n) : State[q] = "allocated"
  BY DEF Frees
<1>1. /\ Heads(list, n) \subseteq Ports
      /\ PortList' \in Seq(Ports) /\ Distinct(PortList') /\ Len(PortList') = Len(list) - n
      /\ \A q : In(PortList', q) <=> In(list, q) /\ q \notin Heads(list, n)
  BY <1>0, HeadsLeave, Zenon
<1>2. F \in SUBSET Ports /\ \A q : q \notin F <=> q \notin gone /\ q \notin Heads(list, n)
  BY <1>0, <1>1, Zenon
<1>3. \A q \in Ports : In(PortList', q) <=> In(PortList, q) /\ q \notin F
  BY <1>1, <1>2
<1>4. \A q \in Heads(list, n) : \A v \in Workers : work[v].port # q
  BY <1>0, <1>1, Settled, Zenon
<1>5. \A v \in Workers : v # c => work[v].port \notin F
  BY <1>2, <1>4
<1>6. QED
  BY <1>1, <1>2, <1>3, <1>5

\* After the ports: what the handle being cleaned up goes on with.
LEMMA AfterPortsFits ==
    ASSUME IInv, NEW c \in Workers, work[c].pc \in {"ports", "deactivated"},
           UNCHANGED ownVars, UNCHANGED oidVars, PortList' = <<>>,
           NEW h \in Handles, h = work[c].on,
           NEW r \in WorkRecords, r.pc = AfterPorts(h), r.on = h, r.port = NoPort, r.reqs = <<>>
    PROVE  PortFits(r)' /\ HandleFits(c, r)'
<1>1. /\ file' = file /\ OidFilterKeys' = OidFilterKeys
  BY DEF ownVars, oidVars
<1>2. file[h] \in {"closing", "refused"} /\ c # Watchdog /\ h # NoHandle
  BY OfWorker, HandleUsed, MpExclusiveAssumption, Zenon DEF HandleFits, Cleaning
<1>3. CASE h \in SetOidFilter
  <2>1. r.pc = "flush"
    BY <1>3, Zenon DEF AfterPorts
  <2>2. file[h] = "closing"
    BY <1>2, <1>3, OneOwner, Zenon DEF IInv, OwnInv
  <2>3. PortFits(r)'
    BY <2>1, Zenon DEF PortFits, Transit
  <2>4. HandleFits(c, r)'
    BY <1>1, <1>2, <2>1, <2>2, Zenon DEF HandleFits, Cleaning
  <2>5. QED
    BY <2>3, <2>4
<1>4. CASE h \notin SetOidFilter
  <2>1. r.pc = "release"
    BY <1>4 DEF AfterPorts
  <2>2. file[h] = "closing" => OidFilterKeys = {}
    BY <1>4, OneOwner, Zenon DEF IInv, OwnInv
  <2>3. PortFits(r)'
    BY <2>1 DEF PortFits, Transit
  <2>4. HandleFits(c, r)'
    BY <1>1, <1>2, <2>1, <2>2, Zenon DEF HandleFits, Cleaning
  <2>5. QED
    BY <2>3, <2>4
<1>5. QED
  BY <1>3, <1>4

\* How the loop goes: n heads of list are freed with F, and what stopped it.
LoopGoes(c, n, F, list) ==
    LET cleared == [p \in Ports |-> IF p \in F THEN "none" ELSE State[p]] IN
    \/ /\ n = Len(list)
       /\ State' = cleared
       /\ work' = [work EXCEPT ![c] = At(AfterPorts(@.on), @.on, NoPort)]
       /\ asserted' = asserted
    \/ /\ n < Len(list)
       /\ State[list[n + 1]] = "activated"
       /\ State' = [cleared EXCEPT ![list[n + 1]] = "deactivating"]
       /\ work' = [work EXCEPT ![c] = At("deactivated", @.on, list[n + 1])]
       /\ asserted' = asserted
    \/ /\ State' = cleared
       /\ asserted' = "MpPortCleanup: State"
       /\ work' = work

\* What CleanupLoop says, in these terms.
LEMMA LoopIs ==
    ASSUME NEW c \in Workers, NEW gone, NEW list, CleanupLoop(c, gone, list)
    PROVE  \E n \in 0 .. Len(list) : \E F :
              /\ Frees(gone, list, n, F)
              /\ ndis' = [p \in Ports |-> IF p \in F THEN "free" ELSE ndis[p]]
              /\ LoopGoes(c, n, F, list)
<1> DEFINE freed(n) == gone \cup {list[i] : i \in 1 .. n}
           cleared(n) == [p \in Ports |-> IF p \in freed(n) THEN "none" ELSE State[p]]
<1>1. PICK n \in 0 .. Len(list) :
        /\ \A i \in 1 .. n : State[list[i]] = "allocated"
        /\ MpFreePort(freed(n), SubSeq(list, n + 1, Len(list)))
        /\ \/ /\ n = Len(list)
              /\ State' = cleared(n)
              /\ work' = [work EXCEPT ![c] = At(AfterPorts(@.on), @.on, NoPort)]
              /\ UNCHANGED asserted
           \/ /\ n < Len(list)
              /\ State[list[n + 1]] = "activated"
              /\ State' = [cleared(n) EXCEPT ![list[n + 1]] = "deactivating"]
              /\ work' = [work EXCEPT ![c] = At("deactivated", @.on, list[n + 1])]
              /\ UNCHANGED asserted
           \/ /\ n < Len(list)
              /\ State[list[n + 1]] \notin {"allocated", "activated"}
              /\ State' = cleared(n)
              /\ asserted' = "MpPortCleanup: State"
              /\ UNCHANGED work
  BY Zenon DEF CleanupLoop
<1>2. PICK F : F = freed(n)
  BY Zenon
<1>3. F = gone \cup Heads(list, n) /\ \A q \in Heads(list, n) : State[q] = "allocated"
  <2>1. F = gone \cup Heads(list, n)
    BY <1>2 DEF Heads
  <2>2. \A i \in 1 .. n : State[list[i]] = "allocated"
    BY <1>1, Zenon
  <2>3. \A q \in Heads(list, n) : State[q] = "allocated"
    BY <2>2, Zenon DEF Heads
  <2>4. QED
    BY <2>1, <2>3, Zenon
<1>4. /\ ndis' = [p \in Ports |-> IF p \in F THEN "free" ELSE ndis[p]]
      /\ PortList' = Behind(list, n)
  BY <1>1, <1>2, Zenon DEF MpFreePort, Behind
<1>5. LoopGoes(c, n, F, list)
  BY <1>1, <1>2, Zenon DEF LoopGoes
<1>6. Frees(gone, list, n, F)
  BY <1>3, <1>4 DEF Frees
<1>7. QED
  BY <1>4, <1>5, <1>6

\* One pass of the loop under PushLock.
LEMMA LoopStep ==
    ASSUME IInv, asserted = "none", NEW c \in Workers, work[c].pc \in {"ports", "deactivated"},
           UNCHANGED ownVars, UNCHANGED oidVars,
           NEW gone \in SUBSET Ports, NEW list \in Seq(Ports), Distinct(list),
           \A q \in Ports : In(list, q) <=> In(PortList, q) /\ q \notin gone,
           \A v \in Workers : v # c => work[v].port \notin gone,
           PortList = <<>> => Len(list) = 0, CleanupLoop(c, gone, list)
    PROVE  IInv'
<1>0. PICK n \in 0 .. Len(list) : \E F :
         /\ Frees(gone, list, n, F)
         /\ ndis' = [p \in Ports |-> IF p \in F THEN "free" ELSE ndis[p]]
         /\ LoopGoes(c, n, F, list)
  BY LoopIs, Zenon
<1>1. PICK F :
         /\ Frees(gone, list, n, F)
         /\ ndis' = [p \in Ports |-> IF p \in F THEN "free" ELSE ndis[p]]
         /\ LoopGoes(c, n, F, list)
  BY <1>0, Zenon
<1>2. /\ F \in SUBSET Ports
      /\ PortList' \in Seq(Ports) /\ Distinct(PortList') /\ Len(PortList') = Len(list) - n
      /\ \A q \in Ports : In(PortList', q) <=> In(PortList, q) /\ q \notin F
      /\ \A v \in Workers : v # c => work[v].port \notin F
  BY <1>1, HeadsFreed, Zenon
<1>3. PICK h \in Handles : h = work[c].on /\ file[h] \in {"closing", "refused"} /\ h # NoHandle
  <2>1. work[c].on # NoHandle /\ file[work[c].on] \in {"closing", "refused"}
    BY OfWorker, Zenon DEF HandleFits, Cleaning
  <2>2. QED
    BY <2>1, HandleUsed, Zenon
<1>4. file' = file /\ OidFilterKeys' = OidFilterKeys
  BY Zenon DEF ownVars, oidVars
<1>5. \A v \in Workers : v # c => work[v].on # h
  BY <1>3, Zenon DEF IInv, ThreadInv
<1>6. (PortList = <<>> => PortList' = <<>>) /\ (n = Len(list) => PortList' = <<>>)
  <2>1. PICK q \in Seq(Ports) : q = PortList' /\ Len(q) = Len(list) - n
    BY <1>2, Zenon
  <2>2. Len(q) = 0 => q = <<>>
    OBVIOUS
  <2>3. (Len(list) = 0 => n = Len(list)) /\ (n = Len(list) => Len(list) - n = 0)
    OBVIOUS
  <2>4. QED
    BY <2>1, <2>2, <2>3, Zenon
<1>7. UserContext = NoHandle => PortList' = <<>>
  BY <1>6, Zenon DEF IInv, OwnInv
<1>8. Calm
  BY <1>4, <1>6, Zenon DEF Calm
<1>9. \A p \in Ports : State[p] \in {"none", "allocated", "activating", "activated", "deactivating"}
  BY DEF IInv, TypeOK
<1>10. CASE /\ n = Len(list)
            /\ State' = [p \in Ports |-> IF p \in F THEN "none" ELSE State[p]]
            /\ work' = [work EXCEPT ![c] = At(AfterPorts(@.on), @.on, NoPort)]
            /\ asserted' = asserted
  <2>1. PICK r \in WorkRecords : /\ r = At(AfterPorts(h), h, NoPort) /\ r.pc = AfterPorts(h)
                                 /\ r.on = h /\ r.port = NoPort /\ r.reqs = <<>>
    <3>1. AfterPorts(h) \in PCs /\ h \in Handles \cup {NoHandle} /\ NoPort \in Ports \cup {NoPort}
      BY Zenon DEF AfterPorts, PCs
    <3>2. QED
      BY <3>1, Calls
  <2>2. work' = [work EXCEPT ![c] = r]
    BY <1>3, <1>10, <2>1, Zenon DEF IInv, TypeOK
  <2>3. PortFits(r)' /\ HandleFits(c, r)'
    BY <1>3, <1>6, <1>10, <2>1, AfterPortsFits, Zenon
  <2>4. /\ \A q \in F : State'[q] = "none"
        /\ \A q \in Ports \ F : State'[q] = State[q]
        /\ State' \in [Ports -> {"none", "allocated", "activating", "activated", "deactivating"}]
    BY <1>2, <1>9, <1>10, Zenon
  <2>5. PortInv' /\ ndis' \in [Ports -> {"free", "allocated", "active"}]
    BY <1>1, <1>2, <2>2, <2>4, PortsFreed, Zenon
  <2>6. \A v \in Workers : v # c => Undisturbed(v) /\ Apart(r, v)
    <3>1. \A q \in Ports : q \notin F => State'[q] = State[q] /\ ndis'[q] = ndis[q]
      BY <1>1, <2>4, Zenon
    <3>2. \A v \in Workers : work[v].port # NoPort => work[v].port \in Ports
      BY DEF IInv, TypeOK, WorkRecords
    <3>3. QED
      BY <1>2, <1>4, <1>5, <2>1, <3>1, <3>2, Zenon DEF Undisturbed, Apart
  <2>7. asserted' \in {"none", "MpPortCleanup: State", "MpPortCleanup: MpDeactivatePort"}
        /\ work[c].pc # "complete"
    BY <1>10, Zenon
  <2>8. QED
    BY <1>2, <1>7, <1>8, <2>1, <2>2, <2>3, <2>4, <2>5, <2>6, <2>7, PortStep, Zenon
<1>11. CASE /\ n < Len(list)
            /\ State[list[n + 1]] = "activated"
            /\ State' = [[p \in Ports |-> IF p \in F THEN "none" ELSE State[p]]
                           EXCEPT ![list[n + 1]] = "deactivating"]
            /\ work' = [work EXCEPT ![c] = At("deactivated", @.on, list[n + 1])]
            /\ asserted' = asserted
  <2>1. PICK p \in Ports : p = list[n + 1] /\ State[p] = "activated" /\ p \notin F
    <3>1. n + 1 \in 1 .. Len(list)
      <4>1. n < Len(list)
        BY <1>11, Zenon
      <4>2. QED
        BY <4>1
    <3>2. list[n + 1] \in Ports
      BY <3>1
    <3>3. In(list, list[n + 1])
      BY <3>1 DEF In
    <3>4. list[n + 1] \notin F
      BY <1>1, <1>11, <3>2, <3>3 DEF Frees
    <3>5. QED
      BY <1>11, <3>2, <3>4, Zenon
  <2>2. PICK r \in WorkRecords : /\ r = At("deactivated", h, p) /\ r.pc = "deactivated"
                                 /\ r.on = h /\ r.port = p /\ r.reqs = <<>>
    <3>1. "deactivated" \in PCs /\ h \in Handles \cup {NoHandle} /\ p \in Ports \cup {NoPort}
      BY DEF PCs
    <3>2. QED
      BY <3>1, Calls
  <2>3. work' = [work EXCEPT ![c] = r]
    BY <1>3, <1>11, <2>1, <2>2, Zenon DEF IInv, TypeOK
  <2>4. /\ \A q \in F : State'[q] = "none"
        /\ \A q \in Ports \ F : q # p => State'[q] = State[q]
        /\ State'[p] = "deactivating"
        /\ State' \in [Ports -> {"none", "allocated", "activating", "activated", "deactivating"}]
    BY <1>2, <1>9, <1>11, <2>1
  <2>5. PortInv' /\ ndis' \in [Ports -> {"free", "allocated", "active"}]
    <3>1. \A q \in Ports \ F : \/ State'[q] = State[q]
                               \/ State[q] = "activated" /\ State'[q] = "deactivating"
      BY <2>1, <2>4, Zenon
    <3>2. QED
      BY <1>1, <1>2, <2>3, <2>4, <3>1, PortsFreed, Zenon
  <2>6. \A v \in Workers : work[v].port # p
    BY <2>1, Settled, Zenon
  <2>7. \A v \in Workers : v # c => Undisturbed(v) /\ Apart(r, v)
    <3>1. \A q \in Ports : q \notin F /\ q # p => State'[q] = State[q] /\ ndis'[q] = ndis[q]
      BY <1>1, <2>4, Zenon
    <3>2. \A v \in Workers : work[v].port # NoPort => work[v].port \in Ports
      BY DEF IInv, TypeOK, WorkRecords
    <3>3. QED
      BY <1>2, <1>4, <1>5, <2>2, <2>6, <3>1, <3>2, Zenon DEF Undisturbed, Apart
  <2>8. PortFits(r)'
    BY <2>2, <2>4, MpExclusiveAssumption, Zenon DEF PortFits, Transit
  <2>9. HandleFits(c, r)'
    BY <1>3, <1>4, <2>2, HandleUsed, Zenon DEF HandleFits, Cleaning
  <2>10. asserted' \in {"none", "MpPortCleanup: State", "MpPortCleanup: MpDeactivatePort"}
         /\ work[c].pc # "complete"
    BY <1>11, Zenon
  <2>11. QED
    BY <1>2, <1>7, <1>8, <2>2, <2>3, <2>4, <2>5, <2>7, <2>8, <2>9, <2>10, PortStep, Zenon
<1>12. CASE /\ State' = [p \in Ports |-> IF p \in F THEN "none" ELSE State[p]]
            /\ asserted' = "MpPortCleanup: State"
            /\ work' = work
  <2>1. PICK r \in WorkRecords : r = work[c] /\ PortFits(r) /\ HandleFits(c, r)
    BY OfWorker, Zenon
  <2>2. work' = [work EXCEPT ![c] = r]
    BY <1>12, <2>1, Zenon DEF IInv, TypeOK
  <2>3. r.reqs = <<>> /\ PortFits(r)' /\ HandleFits(c, r)'
    BY <1>3, <1>4, <1>12, <2>1, Zenon DEF PortFits, HandleFits, Transit, Cleaning
  <2>4. /\ \A q \in F : State'[q] = "none"
        /\ \A q \in Ports \ F : State'[q] = State[q]
        /\ State' \in [Ports -> {"none", "allocated", "activating", "activated", "deactivating"}]
    BY <1>2, <1>9, <1>12, Zenon
  <2>5. PortInv' /\ ndis' \in [Ports -> {"free", "allocated", "active"}]
    BY <1>1, <1>2, <2>2, <2>4, PortsFreed, Zenon
  <2>6. \A v \in Workers : v # c => Undisturbed(v) /\ Apart(r, v)
    <3>1. \A q \in Ports : q \notin F => State'[q] = State[q] /\ ndis'[q] = ndis[q]
      BY <1>1, <2>4, Zenon
    <3>2. \A v \in Workers : work[v].port # NoPort => work[v].port \in Ports
      BY DEF IInv, TypeOK, WorkRecords
    <3>3. \A v \in Workers : v # c => Apart(r, v)
      BY <1>3, <1>5, <2>1, Zenon DEF IInv, ThreadInv, Apart
    <3>4. QED
      BY <1>2, <1>4, <3>1, <3>2, <3>3, Zenon DEF Undisturbed
  <2>7. asserted' \in {"none", "MpPortCleanup: State", "MpPortCleanup: MpDeactivatePort"}
        /\ work[c].pc # "complete"
    BY <1>12, Zenon
  <2>8. QED
    BY <1>2, <1>7, <1>8, <2>1, <2>2, <2>3, <2>4, <2>5, <2>6, <2>7, PortStep, Zenon
<1>13. QED
  BY <1>1, <1>10, <1>11, <1>12, Zenon DEF LoopGoes

\* MpPortCleanup starts with the whole list.
LEMMA CleanupStep ==
    ASSUME IInv, NEW c \in Workers, MpPortCleanup(c)
    PROVE  IInv'
<1>1. /\ asserted = "none" /\ work[c].pc \in {"ports", "deactivated"}
      /\ CleanupLoop(c, {}, PortList) /\ UNCHANGED ownVars /\ UNCHANGED oidVars
  BY Zenon DEF MpPortCleanup, Running
<1>2. PortList \in Seq(Ports) /\ Distinct(PortList)
  BY Zenon DEF IInv, TypeOK, PortInv
<1>3. /\ \A q \in Ports : In(PortList, q) <=> In(PortList, q) /\ q \notin {}
      /\ \A v \in Workers : v # c => work[v].port \notin {}
      /\ {} \in SUBSET Ports
      /\ PortList = <<>> => Len(PortList) = 0
  BY <1>2
<1>4. QED
  BY <1>1, <1>2, <1>3, LoopStep, Zenon

\* NDIS has deactivated a port: it is freed first, or FRE_ASSERT fails.
LEMMA DeactivatedStep ==
    ASSUME IInv, NEW c \in Workers, NEW ok \in BOOLEAN, MpPortCleanupDeactivated(c, ok)
    PROVE  IInv'
<1>1. /\ asserted = "none" /\ work[c].pc \in {"ports", "deactivated"} /\ work[c].pc = "deactivated"
      /\ UNCHANGED ownVars /\ UNCHANGED oidVars
  BY Zenon DEF MpPortCleanupDeactivated, Running
<1>2. PICK p \in Ports : p = work[c].port
  BY <1>1, OfWorker, Zenon DEF PortFits, Transit, WorkRecords
<1>3. \A v \in Workers : v # c => work[v].port # p
  BY <1>2, MpExclusiveAssumption, Zenon DEF IInv, ThreadInv
<1>4. CASE ok
  <2>1. PICK i \in MpFindPortEntry(p, {"deactivating"}) :
           CleanupLoop(c, {p}, RemoveEntryList(PortList, i))
    BY <1>2, <1>4 DEF MpPortCleanupDeactivated
  <2>2. i \in 1 .. Len(PortList) /\ PortList[i] = p
    BY <2>1, Found
  <2>3. PICK list : list = RemoveEntryList(PortList, i)
    OBVIOUS
  <2>4. PortList \in Seq(Ports) /\ Distinct(PortList)
    BY Zenon DEF IInv, TypeOK, PortInv
  <2>5. list \in Seq(Ports) /\ Distinct(list) /\ \A y : In(list, y) <=> In(PortList, y) /\ y # PortList[i]
    BY <2>2, <2>3, <2>4, Removed
  <2>6. /\ {p} \in SUBSET Ports
        /\ \A q \in Ports : In(list, q) <=> In(PortList, q) /\ q \notin {p}
        /\ \A v \in Workers : v # c => work[v].port \notin {p}
    BY <1>3, <2>2, <2>5, Zenon
  <2>7. PortList = <<>> => Len(list) = 0
    BY <2>2
  <2>8. CleanupLoop(c, {p}, list)
    BY <2>1, <2>3
  <2>9. QED
    BY <1>1, <2>5, <2>6, <2>7, <2>8, LoopStep, Zenon
<1>5. CASE ~ok
  <2>1. asserted' = "MpPortCleanup: MpDeactivatePort" /\ UNCHANGED portVars /\ work' = work
    BY <1>5, Zenon DEF MpPortCleanupDeactivated
  <2>2. /\ PortList' = PortList /\ State' = State /\ ndis' = ndis /\ file' = file
        /\ UserContext' = UserContext /\ SetOidFilter' = SetOidFilter
        /\ OidFilterKeys' = OidFilterKeys /\ Filtered' = Filtered /\ late' = late
        /\ outstanding' = outstanding
    BY <1>1, <2>1, Zenon DEF ownVars, portVars, oidVars
  <2>3. OidInv'
    BY <1>1, <2>1, OidsKept, Zenon
  <2>4. PortInv'
    BY <2>1, <2>2, Zenon DEF IInv, PortInv
  <2>5. Calm /\ \A v \in Workers : Undisturbed(v)
    BY <1>1, <2>2, Zenon DEF Calm, Undisturbed
  <2>6. ThreadInv'
    BY <2>1, <2>5, ThreadsKept, Zenon
  <2>7. OwnInv'
    BY <2>2 DEF IInv, OwnInv
  <2>8. TypeOK'
    BY <2>1, <2>2, Zenon DEF IInv, TypeOK
  <2>9. QED
    BY <2>3, <2>4, <2>6, <2>7, <2>8 DEF IInv
<1>6. QED
  BY <1>4, <1>5

-----------------------------------------------------------------------------
(* The OID filter.                                                         *)

\* What remains to be shown of a step of thread c on the requests.
LEMMA OidStep ==
    ASSUME IInv, UNCHANGED portVars, UNCHANGED ownVars, asserted' = asserted, OidInv',
           OidFilterKeys' \in {OidFilterKeys, {}},
           Filtered' \in [Interfaces -> Seq(Requests)],
           outstanding' \in SUBSET Requests, late' \in SUBSET outstanding',
           NEW c \in Workers, work[c].pc # "insert",
           NEW r \in WorkRecords, work' = [work EXCEPT ![c] = r],
           PortFits(r)', HandleFits(c, r)', \A v \in Workers : v # c => Apart(r, v)
    PROVE  IInv'
<1>1. /\ UserContext' = UserContext /\ file' = file /\ SetOidFilter' = SetOidFilter
      /\ PortList' = PortList /\ State' = State /\ ndis' = ndis
  BY DEF portVars, ownVars
<1>2. Calm /\ \A v \in Workers : Undisturbed(v)
  BY <1>1, Zenon DEF Calm, Undisturbed
<1>3. ThreadInv' /\ work' \in [Workers -> WorkRecords]
  BY <1>2, ThreadMoves, Zenon
<1>4. PortInv'
  BY PortsKept, Zenon
<1>5. OwnInv'
  BY <1>1 DEF IInv, OwnInv
<1>6. TypeOK'
  BY <1>1, <1>3, Zenon DEF IInv, TypeOK
<1>7. QED
  BY <1>3, <1>4, <1>5, <1>6 DEF IInv

\* The same for a step that no thread of the adapter takes.
LEMMA NdisStep ==
    ASSUME IInv, UNCHANGED portVars, UNCHANGED ownVars, asserted' = asserted, work' = work,
           OidInv', OidFilterKeys' = OidFilterKeys,
           Filtered' \in [Interfaces -> Seq(Requests)],
           outstanding' \in SUBSET Requests, late' \in SUBSET outstanding'
    PROVE  IInv'
<1>1. /\ UserContext' = UserContext /\ file' = file /\ SetOidFilter' = SetOidFilter
      /\ PortList' = PortList /\ State' = State /\ ndis' = ndis
  BY DEF portVars, ownVars
<1>2. Calm /\ \A v \in Workers : Undisturbed(v)
  BY <1>1 DEF Calm, Undisturbed
<1>3. ThreadInv'
  BY <1>2, ThreadsKept
<1>4. PortInv'
  BY <1>1, Zenon DEF IInv, PortInv
<1>5. OwnInv'
  BY <1>1 DEF IInv, OwnInv
<1>6. TypeOK'
  BY <1>1, Zenon DEF IInv, TypeOK
<1>7. QED
  BY <1>3, <1>4, <1>5, <1>6 DEF IInv

\* MpIrpOidSetFilter: the owner sets the filter, nobody closing it.
LEMMA SetFilterStep ==
    ASSUME IInv, NEW c \in Clients, NEW h \in Handles, NEW keys \in Filters,
           MpIrpOidSetFilter(c, h, keys)
    PROVE  IInv'
<1>1. /\ file[h] = "open" /\ OidFilterKeys' = keys /\ UserContext' = UserContext /\ file' = file
      /\ SetOidFilter' = SetOidFilter \cup {UserContext}
      /\ PortList' = PortList /\ State' = State /\ ndis' = ndis /\ Filtered' = Filtered
      /\ late' = late /\ outstanding' = outstanding /\ asserted' = asserted
  BY DEF MpIrpOidSetFilter, Ready, portVars
<1>2. UserContext = h /\ \A k \in Handles : file[k] # "closing"
  BY <1>1, OneOwner
<1>3. work' = work
  BY DEF MpIrpOidSetFilter
<1>4. keys # {} /\ keys \in SUBSET Keys
  BY MpExclusiveAssumption
<1>5. Held' = Held
  BY <1>1, <1>3 DEF Held
<1>6. OidInv'
  BY <1>1, <1>4, <1>5 DEF IInv, OidInv
<1>7. Calm /\ \A v \in Workers : Undisturbed(v)
  BY <1>1, <1>2, Zenon DEF Calm, Undisturbed
<1>8. ThreadInv'
  BY <1>3, <1>7, ThreadsKept
<1>9. PortInv'
  BY <1>1, <1>3, Zenon DEF IInv, PortInv
<1>10. OwnInv'
  BY <1>1, <1>2 DEF IInv, OwnInv
<1>11. TypeOK'
  BY <1>1, <1>2, <1>3, <1>4, Zenon DEF IInv, TypeOK
<1>12. QED
  BY <1>6, <1>8, <1>9, <1>10, <1>11 DEF IInv

\* MpFilterOid: a request NDIS has just sent joins the list of its interface.
LEMMA FilterStep ==
    ASSUME IInv, NEW r \in Requests, MpFilterOid(r)
    PROVE  IInv'
<1>1. PICK i \in Interfaces : i = Interface[Key[r]]
  BY MpExclusiveAssumption
<1>2. /\ r \notin outstanding /\ Key[r] \in OidFilterKeys /\ outstanding' = outstanding \cup {r}
      /\ Filtered' = [Filtered EXCEPT ![i] = Append(@, r)] /\ OidFilterKeys' = OidFilterKeys
      /\ late' = late /\ asserted' = asserted /\ UNCHANGED portVars /\ UNCHANGED ownVars
  BY <1>1, Zenon DEF MpFilterOid
<1>3. work' = work
  BY Zenon DEF MpFilterOid
<1>4. /\ Filtered' \in [Interfaces -> Seq(Requests)] /\ Filtered'[i] = Append(Filtered[i], r)
      /\ \A j \in Interfaces : j # i => Filtered'[j] = Filtered[j]
  <2>1. Filtered \in [Interfaces -> Seq(Requests)]
    BY Zenon DEF IInv, TypeOK
  <2>2. PICK s \in Seq(Requests) : s = Append(Filtered[i], r)
    <3>1. PICK t \in Seq(Requests) : t = Filtered[i]
      BY <2>1
    <3>2. Append(t, r) \in Seq(Requests)
      OBVIOUS
    <3>3. QED
      BY <3>1, <3>2, Zenon
  <2>3. Filtered' = [Filtered EXCEPT ![i] = s]
    BY <1>2, <2>2
  <2>4. QED
    BY <2>1, <2>2, <2>3
<1>5. /\ Held \in [Places -> Seq(Requests)]
      /\ \A j \in Interfaces : Held[j] = Filtered[j]
      /\ \A w \in Workers : Held[w] = work[w].reqs
  BY HeldIs DEF IInv
<1>6. outstanding' \in SUBSET Requests /\ late' \in SUBSET outstanding'
  BY <1>2, Zenon DEF IInv, TypeOK
<1>7. /\ Held' \in [Places -> Seq(Requests)]
      /\ \A j \in Interfaces : Held'[j] = Filtered'[j]
      /\ \A w \in Workers : Held'[w] = work[w].reqs
  BY <1>3, <1>4, MpExclusiveAssumption, Zenon DEF Held, Places, IInv, TypeOK, WorkRecords
<1>8. PICK f \in [Places -> Seq(Requests)], g \in [Places -> Seq(Requests)] : f = Held /\ g = Held'
  BY <1>5, <1>7, Zenon
<1>9. Added(f, g, i, r)
  <2>1. g[i] = Append(f[i], r)
    BY <1>4, <1>5, <1>7, <1>8, Zenon
  <2>2. \A y \in Places : y # i => g[y] = f[y]
    BY <1>4, <1>5, <1>7, <1>8, Zenon DEF Places
  <2>3. QED
    BY <2>1, <2>2 DEF Added, Others
<1>10. PICK Q : Q = outstanding'
  OBVIOUS
<1>11. Once(g, Q)
  <2>1. Once(f, outstanding) /\ Q = outstanding \cup {r} /\ i \in Places
    BY <1>2, <1>8, <1>10 DEF IInv, OidInv, Places
  <2>2. QED
    BY <1>2, <1>9, <2>1, OnceAdd, Zenon
<1>12. ASSUME NEW q \in late'
       PROVE  \E k \in Interfaces : \E j \in 1 .. Len(Filtered'[k]) : Filtered'[k][j] = q
  <2>0. PICK k \in Interfaces : \E j \in 1 .. Len(Filtered[k]) : Filtered[k][j] = q
    BY <1>2 DEF IInv, OidInv
  <2>1. PICK j \in 1 .. Len(Filtered[k]) : Filtered[k][j] = q
    BY <2>0
  <2>2. Filtered[k] \in Seq(Requests) /\ Filtered[i] \in Seq(Requests)
    BY Zenon DEF IInv, TypeOK
  <2>3. CASE k = i
    <3>1. PICK s \in Seq(Requests) : s = Filtered[i]
      BY <2>2
    <3>2. Len(Append(s, r)) = Len(s) + 1 /\ \A m \in 1 .. Len(s) : Append(s, r)[m] = s[m]
      OBVIOUS
    <3>3. j \in 1 .. Len(s) /\ s[j] = q /\ Filtered'[i] = Append(s, r)
      BY <1>4, <2>1, <2>3, <3>1, Zenon
    <3>4. j \in 1 .. Len(Filtered'[i]) /\ Filtered'[i][j] = q
      BY <3>2, <3>3
    <3>5. QED
      BY <2>3, <3>4
  <2>4. CASE k # i
    BY <1>4, <2>1, <2>4
  <2>5. QED
    BY <2>3, <2>4
<1>13. OidInv'
  BY <1>2, <1>8, <1>10, <1>11, <1>12 DEF OidInv
<1>14. QED
  BY <1>2, <1>3, <1>4, <1>6, <1>13, NdisStep

\* Time passes: every pended request may be late, and every such one is waited for.
LEMMA AgeStep ==
    ASSUME IInv, Age
    PROVE  IInv'
<1>1. /\ late' = UNION {{Filtered[i][j] : j \in DOMAIN Filtered[i]} : i \in Interfaces}
      /\ OidFilterKeys' = OidFilterKeys /\ Filtered' = Filtered /\ outstanding' = outstanding
      /\ asserted' = asserted /\ UNCHANGED portVars /\ UNCHANGED ownVars
  BY Zenon DEF Age
<1>2. work' = work
  BY Zenon DEF Age
<1>3. Filtered \in [Interfaces -> Seq(Requests)] /\ outstanding \in SUBSET Requests
  BY Zenon DEF IInv, TypeOK
<1>4. \A q \in late' : \E i \in Interfaces : \E j \in 1 .. Len(Filtered[i]) : Filtered[i][j] = q
  <2>1. \A q \in late' : \E i \in Interfaces : \E j \in DOMAIN Filtered[i] : Filtered[i][j] = q
    BY <1>1, Zenon
  <2>2. \A i \in Interfaces : DOMAIN Filtered[i] = 1 .. Len(Filtered[i])
    BY <1>3
  <2>3. QED
    BY <2>1, <2>2, Zenon
<1>5. /\ Held \in [Places -> Seq(Requests)]
      /\ \A j \in Interfaces : Held[j] = Filtered[j]
  BY HeldIs DEF IInv
<1>6. late' \in SUBSET outstanding'
  <2>1. ASSUME NEW i \in Interfaces, NEW j \in 1 .. Len(Filtered[i])
        PROVE  Filtered[i][j] \in outstanding
    <3>1. i \in DOMAIN Held /\ j \in 1 .. Len(Held[i]) /\ Held[i][j] = Filtered[i][j]
      BY <1>5 DEF Places
    <3>2. QED
      BY <3>1, Zenon DEF IInv, OidInv, Once
  <2>2. QED
    BY <1>1, <1>4, <2>1
<1>7. Held' = Held
  BY <1>1, <1>2 DEF Held
<1>8. OidInv'
  BY <1>1, <1>4, <1>7, Zenon DEF IInv, OidInv
<1>9. QED
  BY <1>1, <1>2, <1>3, <1>6, <1>8, NdisStep

\* The watchdog has found an expired request.
LEMMA TimeoutStep ==
    ASSUME IInv, ExclusiveWatchdogTimeout
    PROVE  IInv'
<1>1. PICK w \in Workers : w = Watchdog
  BY DEF Workers
<1>2. /\ work[w].pc = "idle" /\ work' = [work EXCEPT ![w].pc = "flush"]
      /\ UNCHANGED oidVars /\ UNCHANGED portVars /\ UNCHANGED ownVars /\ asserted' = asserted
      /\ OidFilterKeys' = OidFilterKeys /\ Filtered' = Filtered /\ late' = late
      /\ outstanding' = outstanding
  BY <1>1 DEF ExclusiveWatchdogTimeout, Running, Goto, oidVars
<1>3. work[w] \in WorkRecords /\ PortFits(work[w]) /\ HandleFits(w, work[w])
  BY OfWorker
<1>4. PICK r \in WorkRecords : r = [work[w] EXCEPT !.pc = "flush"]
  BY <1>3, Zenon DEF WorkRecords, PCs
<1>5. r.pc = "flush" /\ r.on = NoHandle /\ r.port = NoPort /\ r.reqs = <<>>
  BY <1>2, <1>3, <1>4 DEF WorkRecords, PortFits, HandleFits, Transit
<1>6. work' = [work EXCEPT ![w] = r]
  BY <1>2, <1>4, Zenon DEF IInv, TypeOK
<1>7. OidInv'
  BY <1>2, <1>5, <1>6, OidsStill, Zenon
<1>8. /\ OidFilterKeys' \in {OidFilterKeys, {}} /\ Filtered' \in [Interfaces -> Seq(Requests)]
      /\ outstanding' \in SUBSET Requests /\ late' \in SUBSET outstanding'
  BY <1>2, Zenon DEF IInv, TypeOK
<1>9. PortFits(r)' /\ HandleFits(w, r)' /\ \A v \in Workers : v # w => Apart(r, v)
  BY <1>1, <1>5, Zenon DEF PortFits, HandleFits, Apart, Transit, Cleaning
<1>10. QED
  BY <1>2, <1>6, <1>7, <1>8, <1>9, OidStep, Zenon

\* The requests in the lists and in the hands of threads once w goes on with r.
LEMMA HeldAfter ==
    ASSUME IInv, Filtered' \in [Interfaces -> Seq(Requests)],
           NEW w \in Workers, NEW r \in WorkRecords, work' = [work EXCEPT ![w] = r]
    PROVE  /\ Held' \in [Places -> Seq(Requests)]
           /\ \A i \in Interfaces : Held'[i] = Filtered'[i]
           /\ Held'[w] = r.reqs
           /\ \A v \in Workers : v # w => Held'[v] = Held[v]
<1>1. work' \in [Workers -> WorkRecords] /\ work'[w] = r /\ \A v \in Workers : v # w => work'[v] = work[v]
  BY Zenon DEF IInv, TypeOK
<1>2. \A v \in Workers : work'[v].reqs \in Seq(Requests)
  BY <1>1, Zenon DEF WorkRecords
<1>3. Held' = [x \in Interfaces \cup Workers |-> IF x \in Interfaces THEN Filtered'[x] ELSE work'[x].reqs]
  BY DEF Held
<1>4. Held' \in [Places -> Seq(Requests)]
  BY <1>2, <1>3 DEF Places
<1>5. \A x \in Workers : x \notin Interfaces
  BY MpExclusiveAssumption
<1>6. \A v \in Workers : v # w => Held[v] = work[v].reqs
  BY <1>5 DEF Held
<1>7. QED
  BY <1>1, <1>3, <1>4, <1>5, <1>6, Zenon

\* MpIrpOidCompleteRequest: the head of a list goes to the thread that completes it.
LEMMA TakeHeadStep ==
    ASSUME IInv, NEW c \in Clients, NEW h \in Handles, NEW k \in Keys,
           MpIrpOidCompleteRequest(c, h, k)
    PROVE  IInv'
<1>1. PICK i \in Interfaces : i = Interface[k]
  BY MpExclusiveAssumption
<1>2. PICK s \in Seq(Requests) : s = Filtered[i]
  BY Zenon DEF IInv, TypeOK
<1>3. PICK q : /\ q \in MpOidFindFilteredOidByKey(k)
               /\ Ready(c, h)
               /\ Filtered' = [Filtered EXCEPT ![i] = Tail(@)]
               /\ late' = late \ {q}
               /\ work' = [work EXCEPT ![c] = [At("complete", h, NoPort) EXCEPT !.reqs = <<q>>]]
               /\ UNCHANGED <<ownVars, portVars, OidFilterKeys, outstanding, asserted>>
  BY <1>1, Zenon DEF MpIrpOidCompleteRequest
<1>4. s # <<>> /\ q = Head(s)
  BY <1>1, <1>2, <1>3 DEF MpOidFindFilteredOidByKey
<1>5. q \in Requests /\ Tail(s) \in Seq(Requests)
  BY <1>4, TakeFrom
<1>6. /\ file[h] = "open" /\ work[c].pc = "idle" /\ OidFilterKeys' = OidFilterKeys
      /\ outstanding' = outstanding /\ asserted' = asserted /\ UNCHANGED ownVars
      /\ UNCHANGED portVars /\ file' = file
  BY <1>3 DEF Ready, Running, ownVars
<1>7. c \in Workers
  BY DEF Workers
<1>8. PICK r \in WorkRecords : /\ r = [At("complete", h, NoPort) EXCEPT !.reqs = <<q>>]
                               /\ r.pc = "complete" /\ r.on = h /\ r.port = NoPort /\ r.reqs = <<q>>
  <2>1. PICK Q \in Seq(Requests) : Q = <<q>>
    <3>1. PICK x \in Requests : x = q
      BY <1>5
    <3>2. <<x>> \in Seq(Requests)
      OBVIOUS
    <3>3. QED
      BY <3>1, <3>2, Zenon
  <2>2. PICK a \in WorkRecords : /\ a = At("complete", h, NoPort)
                                 /\ a.pc = "complete" /\ a.on = h /\ a.port = NoPort
    <3>1. "complete" \in PCs /\ h \in Handles \cup {NoHandle} /\ NoPort \in Ports \cup {NoPort}
      BY DEF PCs
    <3>2. QED
      BY <3>1, Calls
  <2>3. PICK r \in WorkRecords : r = [a EXCEPT !.reqs = Q]
    BY Zenon DEF WorkRecords
  <2>4. r.pc = a.pc /\ r.on = a.on /\ r.port = a.port /\ r.reqs = Q
    BY <2>3 DEF WorkRecords
  <2>5. QED
    BY <2>1, <2>2, <2>3, <2>4, Zenon
<1>9. work' = [work EXCEPT ![c] = r]
  BY <1>3, <1>8
<1>10. PICK t \in Seq(Requests) : t = Tail(s)
  BY <1>5, Zenon
<1>11. /\ Filtered' \in [Interfaces -> Seq(Requests)] /\ Filtered'[i] = t
       /\ \A j \in Interfaces : j # i => Filtered'[j] = Filtered[j]
  <2>1. Filtered \in [Interfaces -> Seq(Requests)]
    BY Zenon DEF IInv, TypeOK
  <2>2. Filtered' = [Filtered EXCEPT ![i] = t]
    BY <1>2, <1>3, <1>10
  <2>3. QED
    BY <2>1, <2>2
<1>12. /\ Held \in [Places -> Seq(Requests)]
       /\ \A j \in Interfaces : Held[j] = Filtered[j]
       /\ \A w \in Workers : Held[w] = work[w].reqs
  BY HeldIs DEF IInv
<1>13. /\ Held' \in [Places -> Seq(Requests)]
       /\ \A j \in Interfaces : Held'[j] = Filtered'[j]
       /\ Held'[c] = r.reqs
       /\ \A v \in Workers : v # c => Held'[v] = Held[v]
  BY <1>7, <1>9, <1>11, HeldAfter, Zenon
<1>14. PICK f \in [Places -> Seq(Requests)], g \in [Places -> Seq(Requests)] : f = Held /\ g = Held'
  BY <1>12, <1>13, Zenon
<1>15. Moved(f, g, i, c)
  <2>1. f[i] = s /\ g[i] = t
    BY <1>2, <1>11, <1>12, <1>13, <1>14, Zenon
  <2>2. f[c] = <<>> /\ g[c] = <<q>>
    BY <1>6, <1>7, <1>8, <1>12, <1>13, <1>14, OfWorker, Zenon DEF HandleFits
  <2>3. \A y \in Places : y \notin {i, c} => g[y] = f[y]
    BY <1>11, <1>12, <1>13, <1>14, Zenon DEF Places
  <2>4. g[c] = Append(f[c], Head(f[i]))
    BY <1>4, <2>1, <2>2
  <2>5. f[i] # <<>> /\ g[i] = Tail(f[i])
    BY <1>4, <1>10, <2>1
  <2>6. QED
    BY <2>3, <2>4, <2>5 DEF Moved, Others
<1>16. Once(g, outstanding)
  <2>1. Once(f, outstanding)
    BY <1>14, Zenon DEF IInv, OidInv
  <2>2. i \in Places /\ c \in Places /\ i # c
    BY <1>7, MpExclusiveAssumption, Zenon DEF Places
  <2>3. QED
    BY <1>15, <2>1, <2>2, OnceMove, Zenon
<1>17. ASSUME NEW x \in late'
       PROVE  \E n \in Interfaces : \E j \in 1 .. Len(Filtered'[n]) : Filtered'[n][j] = x
  <2>1. x \in late /\ x # q
    BY <1>3
  <2>2. PICK n \in Interfaces : \E j \in 1 .. Len(Filtered[n]) : Filtered[n][j] = x
    BY <2>1, Zenon DEF IInv, OidInv
  <2>3. PICK j \in 1 .. Len(Filtered[n]) : Filtered[n][j] = x
    BY <2>2
  <2>4. CASE n = i
    <3>1. j \in 1 .. Len(s) /\ s[j] = x /\ s[1] = q
      BY <1>2, <1>4, <2>3, <2>4
    <3>2. j - 1 \in 1 .. Len(t) /\ t[j - 1] = x
      BY <1>4, <1>10, <2>1, <3>1
    <3>3. QED
      BY <1>11, <2>4, <3>2
  <2>5. CASE n # i
    BY <1>11, <2>3, <2>5
  <2>6. QED
    BY <2>4, <2>5, Zenon
<1>18. OidFilterKeys # {}
  BY <1>2, <1>4 DEF IInv, OidInv
<1>19. OidInv'
  BY <1>6, <1>14, <1>16, <1>17, <1>18, Zenon DEF OidInv
<1>20. /\ OidFilterKeys' \in {OidFilterKeys, {}}
       /\ outstanding' \in SUBSET Requests /\ late' \in SUBSET outstanding'
  BY <1>3, <1>6, Zenon DEF IInv, TypeOK
<1>21. PortFits(r)' /\ HandleFits(c, r)' /\ \A v \in Workers : v # c => Apart(r, v)
  <2>1. PortFits(r)'
    BY <1>8 DEF PortFits, Transit
  <2>2. r.reqs # <<>> /\ c # Watchdog /\ h # NoHandle
    BY <1>8, MpExclusiveAssumption
  <2>3. HandleFits(c, r)'
    BY <1>6, <1>8, <2>2 DEF HandleFits, Cleaning
  <2>4. QED
    BY <1>6, <1>8, <2>1, <2>3 DEF Apart
<1>22. QED
  BY <1>6, <1>7, <1>9, <1>11, <1>19, <1>20, <1>21, OidStep, Zenon

\* What a thread goes on with once it has no request to complete.
LEMMA AfterCompletionFits ==
    ASSUME IInv, UNCHANGED ownVars, UNCHANGED portVars, NEW w \in Workers,
           work[w].pc \in {"flush", "complete"},
           OidFilterKeys' = {} \/ (work[w].pc = "complete" /\ OidFilterKeys' = OidFilterKeys)
    PROVE  \E r \in WorkRecords :
              /\ r = AfterCompletion(w) /\ r.reqs = <<>>
              /\ PortFits(r)' /\ HandleFits(w, r)' /\ \A v \in Workers : v # w => Apart(r, v)
<1>1. file' = file /\ PortList' = PortList
  BY DEF ownVars, portVars
<1>2. work[w] \in WorkRecords /\ HandleFits(w, work[w])
  BY OfWorker
<1>3. CASE work[w].on # NoHandle /\ file[work[w].on] = "closing"
  <2>1. PICK h \in Handles : h = work[w].on /\ h # NoHandle /\ file[h] = "closing" /\ w # Watchdog
    BY <1>3, HandleUsed, Zenon
  <2>2. PICK r \in WorkRecords : /\ r = At("release", h, NoPort) /\ r.pc = "release" /\ r.on = h
                                 /\ r.port = NoPort /\ r.reqs = <<>>
    <3>1. "release" \in PCs /\ h \in Handles \cup {NoHandle} /\ NoPort \in Ports \cup {NoPort}
      BY DEF PCs
    <3>2. QED
      BY <3>1, Calls
  <2>3. r = AfterCompletion(w)
    BY <1>3, <2>1, <2>2 DEF AfterCompletion
  <2>4. PortList = <<>> /\ OidFilterKeys' = {}
    BY <1>2, <2>1, Zenon DEF HandleFits
  <2>5. PortFits(r)'
    BY <2>2, Zenon DEF PortFits, Transit
  <2>6. HandleFits(w, r)'
    BY <1>1, <2>1, <2>2, <2>4, Zenon DEF HandleFits, Cleaning
  <2>7. \A v \in Workers : v # w => Apart(r, v)
    BY <1>1, <2>1, <2>2, Zenon DEF Apart, IInv, ThreadInv
  <2>8. QED
    BY <2>2, <2>3, <2>5, <2>6, <2>7, Zenon
<1>4. CASE ~(work[w].on # NoHandle /\ file[work[w].on] = "closing")
  <2>1. PICK r \in WorkRecords : /\ r = Idle /\ r.pc = "idle" /\ r.on = NoHandle
                                 /\ r.port = NoPort /\ r.reqs = <<>>
    BY IdleCall, Zenon
  <2>2. r = AfterCompletion(w)
    BY <1>4, <2>1, Zenon DEF AfterCompletion
  <2>3. PortFits(r)' /\ HandleFits(w, r)' /\ \A v \in Workers : v # w => Apart(r, v)
    BY <2>1, Zenon DEF PortFits, HandleFits, Apart, Transit, Cleaning
  <2>4. QED
    BY <2>1, <2>2, <2>3, Zenon
<1>5. QED
  BY <1>3, <1>4, Zenon

\* A thread with requests to complete goes on with others.
LEMMA CompletingFits ==
    ASSUME IInv, UNCHANGED ownVars, UNCHANGED portVars, NEW w \in Workers,
           work[w].pc \in {"flush", "complete"},
           OidFilterKeys' = {} \/ (work[w].pc = "complete" /\ OidFilterKeys' = OidFilterKeys),
           NEW Q \in Seq(Requests), Q # <<>>
    PROVE  \E r \in WorkRecords :
              /\ r = [work[w] EXCEPT !.pc = "complete", !.reqs = Q] /\ r.reqs = Q
              /\ PortFits(r)' /\ HandleFits(w, r)' /\ \A v \in Workers : v # w => Apart(r, v)
<1>1. file' = file /\ PortList' = PortList
  BY DEF ownVars, portVars
<1>2. PICK a \in WorkRecords : a = work[w] /\ HandleFits(w, a) /\ PortFits(a)
  BY OfWorker, Zenon
<1>3. PICK r \in WorkRecords : r = [a EXCEPT !.pc = "complete", !.reqs = Q]
  BY Zenon DEF WorkRecords, PCs
<1>4. r.pc = "complete" /\ r.on = a.on /\ r.port = a.port /\ r.reqs = Q
  BY <1>3 DEF WorkRecords
<1>5. r.port = NoPort
  BY <1>2, <1>4 DEF PortFits, Transit
<1>6. PortFits(r)'
  BY <1>4, <1>5, Zenon DEF PortFits, Transit
<1>7. /\ w # Watchdog => r.on # NoHandle
      /\ w = Watchdog => r.on = NoHandle
      /\ r.on # NoHandle => file[r.on] \in {"open", "closing"}
      /\ r.on # NoHandle /\ file[r.on] = "closing" => PortList = <<>> /\ OidFilterKeys' = {}
  BY <1>2, <1>4, Zenon DEF HandleFits
<1>8. HandleFits(w, r)'
  BY <1>1, <1>4, <1>7, Zenon DEF HandleFits, Cleaning
<1>9. \A v \in Workers : v # w => Apart(r, v)
  BY <1>1, <1>2, <1>4, <1>5, Zenon DEF Apart, IInv, ThreadInv
<1>10. QED
  BY <1>2, <1>3, <1>4, <1>6, <1>8, <1>9, Zenon

\* MpOidCompleteRequest: one request goes back to NDIS.
LEMMA CompleteStep ==
    ASSUME IInv, NEW w \in Workers, MpOidCompleteRequest(w)
    PROVE  IInv'
<1>1. /\ work[w].pc = "complete" /\ UNCHANGED ownVars /\ UNCHANGED portVars
      /\ OidFilterKeys' = OidFilterKeys /\ Filtered' = Filtered /\ late' = late
      /\ asserted' = asserted
  BY DEF MpOidCompleteRequest, Running
<1>2. PICK s \in Seq(Requests) : s = work[w].reqs /\ s # <<>>
  BY <1>1, OfWorker, Zenon DEF HandleFits, WorkRecords
<1>3. PICK q \in Requests : q = Head(s)
  BY <1>2, TakeFrom
<1>4. PICK t \in Seq(Requests) : t = Tail(s) /\ Len(t) = Len(s) - 1 /\ Len(s) \in Nat \ {0}
  BY <1>2, TakeFrom, Zenon
<1>5. outstanding' = outstanding \ {q}
  BY <1>2, <1>3 DEF MpOidCompleteRequest
<1>6. PICK r \in WorkRecords :
         /\ work' = [work EXCEPT ![w] = r] /\ r.reqs = t
         /\ PortFits(r)' /\ HandleFits(w, r)' /\ \A v \in Workers : v # w => Apart(r, v)
  <2>1. CASE Len(s) = 1
    <3>1. t = <<>>
      BY <1>4, <2>1
    <3>2. work' = [work EXCEPT ![w] = AfterCompletion(w)]
      BY <1>2, <2>1 DEF MpOidCompleteRequest
    <3>3. PICK r \in WorkRecords :
              /\ r = AfterCompletion(w) /\ r.reqs = <<>>
              /\ PortFits(r)' /\ HandleFits(w, r)' /\ \A v \in Workers : v # w => Apart(r, v)
      BY <1>1, AfterCompletionFits, Zenon
    <3>4. QED
      BY <3>1, <3>2, <3>3, Zenon
  <2>2. CASE Len(s) # 1
    <3>1. t # <<>>
      <4>1. Len(t) # 0
        BY <1>4, <2>2
      <4>2. QED
        BY <4>1
    <3>2. work' = [work EXCEPT ![w] = [work[w] EXCEPT !.reqs = t]]
      <4>1. work' = [work EXCEPT ![w] = [work[w] EXCEPT !.reqs = Tail(work[w].reqs)]]
        <5>1. Len(work[w].reqs) # 1
          BY <1>2, <2>2
        <5>2. QED
          BY <5>1 DEF MpOidCompleteRequest
      <4>2. QED
        BY <1>2, <1>4, <4>1, Zenon
    <3>3. PICK r \in WorkRecords :
              /\ r = [work[w] EXCEPT !.pc = "complete", !.reqs = t] /\ r.reqs = t
              /\ PortFits(r)' /\ HandleFits(w, r)' /\ \A v \in Workers : v # w => Apart(r, v)
      BY <1>1, <3>1, CompletingFits, Zenon
    <3>4. [work[w] EXCEPT !.reqs = t] = [work[w] EXCEPT !.pc = "complete", !.reqs = t]
      <4>1. PICK a \in WorkRecords : a = work[w] /\ a.pc = "complete"
        BY <1>1, OfWorker
      <4>2. [a EXCEPT !.reqs = t] = [a EXCEPT !.pc = "complete", !.reqs = t]
        BY <4>1, Zenon DEF WorkRecords
      <4>3. QED
        BY <4>1, <4>2
    <3>5. QED
      BY <3>2, <3>3, <3>4, Zenon
  <2>3. QED
    BY <2>1, <2>2
<1>7. Filtered' \in [Interfaces -> Seq(Requests)]
  BY <1>1, Zenon DEF IInv, TypeOK
<1>8. /\ Held \in [Places -> Seq(Requests)]
      /\ \A j \in Interfaces : Held[j] = Filtered[j]
      /\ Held[w] = s
  BY <1>2, HeldIs DEF IInv
<1>9. /\ Held' \in [Places -> Seq(Requests)]
      /\ \A j \in Interfaces : Held'[j] = Filtered'[j]
      /\ Held'[w] = t
      /\ \A v \in Workers : v # w => Held'[v] = Held[v]
  BY <1>6, <1>7, HeldAfter, Zenon
<1>10. PICK f \in [Places -> Seq(Requests)], g \in [Places -> Seq(Requests)] : f = Held /\ g = Held'
  BY <1>8, <1>9, Zenon
<1>11. Dropped(f, g, w, q)
  <2>1. f[w] # <<>> /\ q = Head(f[w]) /\ g[w] = Tail(f[w])
    BY <1>2, <1>3, <1>4, <1>8, <1>9, <1>10, Zenon
  <2>2. \A y \in Places : y # w => g[y] = f[y]
    BY <1>1, <1>8, <1>9, <1>10, Zenon DEF Places
  <2>3. QED
    BY <2>1, <2>2 DEF Dropped, Others
<1>12. Once(f, outstanding) /\ w \in Places
  BY <1>10, Zenon DEF IInv, OidInv, Places
<1>13. PICK Q : Q = outstanding'
  OBVIOUS
<1>14. Once(g, Q)
  BY <1>5, <1>11, <1>12, <1>13, OnceDrop, Zenon
<1>15. q \notin late
  <2>1. SUFFICES ASSUME q \in late PROVE FALSE
    OBVIOUS
  <2>2. PICK i \in Interfaces : \E j \in 1 .. Len(Filtered[i]) : Filtered[i][j] = q
    BY <2>1, Zenon DEF IInv, OidInv
  <2>3. PICK j \in 1 .. Len(Filtered[i]) : Filtered[i][j] = q
    BY <2>2
  <2>4. j \in 1 .. Len(f[i]) /\ 1 \in 1 .. Len(f[w]) /\ f[i][j] = f[w][1]
    <3>1. f[i] = Filtered[i] /\ f[w] = s
      BY <1>8, <1>10, Zenon
    <3>2. 1 \in 1 .. Len(s) /\ s[1] = q
      BY <1>2, <1>3
    <3>3. QED
      BY <2>3, <3>1, <3>2, Zenon
  <2>5. i \in DOMAIN f /\ w \in DOMAIN f
    BY DEF Places
  <2>6. i = w
    BY <1>12, <2>4, <2>5, OnceEqual, Zenon
  <2>7. QED
    BY <2>6, MpExclusiveAssumption
<1>16. OidInv'
  <2>1. Once(Held', outstanding')
    BY <1>10, <1>13, <1>14
  <2>2. QED
    BY <1>1, <2>1, Zenon DEF IInv, OidInv
<1>17. /\ OidFilterKeys' \in {OidFilterKeys, {}}
       /\ outstanding' \in SUBSET Requests /\ late' \in SUBSET outstanding'
  BY <1>1, <1>5, <1>15, Zenon DEF IInv, TypeOK
<1>18. work[w].pc # "insert"
  BY <1>1
<1>19. QED
  BY <1>1, <1>6, <1>7, <1>16, <1>17, <1>18, OidStep, Zenon

\* MpOidClearFilterAndFlush: both lists go to the thread that completes them.
LEMMA FlushStep ==
    ASSUME IInv, NEW w \in Workers, MpOidClearFilterAndFlush(w)
    PROVE  IInv'
<1>1. PICK a \in Interfaces, b \in Interfaces : a = "regular" /\ b = "direct" /\ a # b
  BY DEF Interfaces
<1>2. \A i \in Interfaces : i = a \/ i = b
  BY <1>1 DEF Interfaces
<1>3. /\ work[w].pc = "flush" /\ UNCHANGED ownVars /\ UNCHANGED portVars
      /\ OidFilterKeys' = {} /\ Filtered' = [i \in Interfaces |-> <<>>] /\ late' = {}
      /\ outstanding' = outstanding /\ asserted' = asserted
  BY DEF MpOidClearFilterAndFlush, Running
<1>4. PICK Q \in Seq(Requests) : Q = Filtered[a] \o Filtered[b]
  <2>1. PICK s \in Seq(Requests), t \in Seq(Requests) : s = Filtered[a] /\ t = Filtered[b]
    BY Zenon DEF IInv, TypeOK
  <2>2. s \o t \in Seq(Requests)
    OBVIOUS
  <2>3. QED
    BY <2>1, <2>2, Zenon
<1>5. PICK r \in WorkRecords :
         /\ work' = [work EXCEPT ![w] = r] /\ r.reqs = Q
         /\ PortFits(r)' /\ HandleFits(w, r)' /\ \A v \in Workers : v # w => Apart(r, v)
  <2>1. CASE Q = <<>>
    <3>1. work' = [work EXCEPT ![w] = AfterCompletion(w)]
      BY <1>1, <1>4, <2>1 DEF MpOidClearFilterAndFlush
    <3>2. PICK r \in WorkRecords :
              /\ r = AfterCompletion(w) /\ r.reqs = <<>>
              /\ PortFits(r)' /\ HandleFits(w, r)' /\ \A v \in Workers : v # w => Apart(r, v)
      BY <1>3, AfterCompletionFits, Zenon
    <3>3. QED
      BY <2>1, <3>1, <3>2, Zenon
  <2>2. CASE Q # <<>>
    <3>1. work' = [work EXCEPT ![w] = [work[w] EXCEPT !.pc = "complete", !.reqs = Q]]
      BY <1>1, <1>4, <2>2, Zenon DEF MpOidClearFilterAndFlush
    <3>2. PICK r \in WorkRecords :
              /\ r = [work[w] EXCEPT !.pc = "complete", !.reqs = Q] /\ r.reqs = Q
              /\ PortFits(r)' /\ HandleFits(w, r)' /\ \A v \in Workers : v # w => Apart(r, v)
      BY <1>3, <2>2, CompletingFits, Zenon
    <3>3. QED
      BY <3>1, <3>2, Zenon
  <2>3. QED
    BY <2>1, <2>2, Zenon
<1>6. /\ Filtered' \in [Interfaces -> Seq(Requests)]
      /\ \A i \in Interfaces : Filtered'[i] = <<>>
  BY <1>3
<1>7. /\ Held \in [Places -> Seq(Requests)]
      /\ \A j \in Interfaces : Held[j] = Filtered[j]
      /\ Held[w] = <<>>
  BY <1>3, HeldIs, OfWorker, Zenon DEF IInv, HandleFits
<1>8. /\ Held' \in [Places -> Seq(Requests)]
      /\ \A j \in Interfaces : Held'[j] = Filtered'[j]
      /\ Held'[w] = Q
      /\ \A v \in Workers : v # w => Held'[v] = Held[v]
  BY <1>5, <1>6, HeldAfter, Zenon
<1>9. PICK f \in [Places -> Seq(Requests)], g \in [Places -> Seq(Requests)] : f = Held /\ g = Held'
  BY <1>7, <1>8
<1>10. Flushed(f, g, a, b, w)
  <2>1. f[w] = <<>> /\ g[a] = <<>> /\ g[b] = <<>> /\ g[w] = f[a] \o f[b]
    BY <1>4, <1>6, <1>7, <1>8, <1>9, Zenon
  <2>2. \A y \in Places : y \notin {a, b, w} => g[y] = f[y]
    BY <1>2, <1>8, <1>9 DEF Places
  <2>3. QED
    BY <2>1, <2>2 DEF Flushed, Others
<1>11. Once(g, outstanding)
  <2>1. Once(f, outstanding)
    BY <1>9, Zenon DEF IInv, OidInv
  <2>2. a \in Places /\ b \in Places /\ w \in Places
    BY Zenon DEF Places
  <2>3. w # a /\ w # b
    BY MpExclusiveAssumption, Zenon
  <2>4. QED
    BY <1>1, <1>10, <2>1, <2>2, <2>3, OnceFlush, Zenon
<1>12. OidInv'
  <2>1. Once(Held', outstanding')
    BY <1>3, <1>9, <1>11, Zenon
  <2>2. QED
    BY <1>3, <1>6, <2>1, Zenon DEF OidInv
<1>13. /\ OidFilterKeys' \in {OidFilterKeys, {}}
       /\ outstanding' \in SUBSET Requests /\ late' \in SUBSET outstanding'
       /\ work[w].pc # "insert"
  BY <1>3, Zenon DEF IInv, TypeOK
<1>14. QED
  BY <1>3, <1>5, <1>6, <1>12, <1>13, OidStep, Zenon

-----------------------------------------------------------------------------
(* The invariant holds throughout.                                         *)

\* The adapter starts without an owner.
LEMMA InitInv == Init => IInv
<1> SUFFICES ASSUME Init PROVE IInv
  OBVIOUS
<1>1. \A w \in Workers : work[w] = Idle
  BY DEF Init
<1>2. TypeOK
  <2>1. work \in [Workers -> WorkRecords]
    BY IdleCall, Zenon DEF Init
  <2>2. /\ file \in [Handles -> {"none", "open", "closing", "refused"}]
        /\ State \in [Ports -> {"none", "allocated", "activating", "activated", "deactivating"}]
        /\ ndis \in [Ports -> {"free", "allocated", "active"}]
    BY DEF Init
  <2>3. PortList \in Seq(Ports) /\ Filtered \in [Interfaces -> Seq(Requests)]
    BY DEF Init
  <2>4. QED
    BY <2>1, <2>2, <2>3 DEF Init, TypeOK
<1>3. OidInv
  <2>1. /\ Held \in [Places -> Seq(Requests)]
        /\ \A i \in Interfaces : Held[i] = Filtered[i]
        /\ \A w \in Workers : Held[w] = work[w].reqs
    BY <1>2, HeldIs, Zenon
  <2>2. \A x \in Places : Held[x] = <<>>
    BY <1>1, <2>1, IdleCall DEF Init, Places
  <2>3. DOMAIN Held = Places /\ \A x \in Places : Len(Held[x]) = 0
    <3>1. DOMAIN Held = Places
      BY <2>1, Zenon
    <3>2. Len(<<>>) = 0
      OBVIOUS
    <3>3. QED
      BY <2>2, <3>1, <3>2
  <2>4. Once(Held, {})
    <3>1. \A x \in Places : \A j \in 1 .. Len(Held[x]) : FALSE
      BY <2>3
    <3>2. QED
      BY <2>3, <3>1, Zenon DEF Once
  <2>5. QED
    BY <2>4 DEF Init, OidInv
<1>4. PortInv
  BY DEF Init, PortInv, Distinct, In
<1>5. ThreadInv
  <2>1. \A w \in Workers : /\ work[w].pc = "idle" /\ work[w].on = NoHandle
                           /\ work[w].port = NoPort /\ work[w].reqs = <<>>
    BY <1>1, IdleCall
  <2>2. ASSUME NEW w \in Workers PROVE PortFits(work[w]) /\ HandleFits(w, work[w])
    BY <2>1, Zenon DEF PortFits, HandleFits, Transit, Cleaning
  <2>3. QED
    BY <2>1, <2>2 DEF ThreadInv
<1>6. OwnInv
  BY MpExclusiveAssumption DEF Init, OwnInv
<1>7. QED
  BY <1>2, <1>3, <1>4, <1>5, <1>6 DEF IInv

\* A step that changes nothing.
LEMMA Stutters ==
    ASSUME IInv, UNCHANGED vars
    PROVE  IInv'
<1>1. /\ UNCHANGED oidVars /\ UNCHANGED portVars /\ UNCHANGED ownVars /\ work' = work
      /\ asserted' = asserted /\ Filtered' = Filtered /\ OidFilterKeys' = OidFilterKeys
      /\ outstanding' = outstanding /\ late' = late
  BY DEF vars, oidVars
<1>2. OidInv'
  BY <1>1, OidsKept
<1>3. /\ Filtered' \in [Interfaces -> Seq(Requests)]
      /\ outstanding' \in SUBSET Requests /\ late' \in SUBSET outstanding'
  BY <1>1, Zenon DEF IInv, TypeOK
<1>4. QED
  BY <1>1, <1>2, <1>3, NdisStep

\* Every step preserves the invariant.
LEMMA NextInv == IInv /\ [Next]_vars => IInv'
<1> SUFFICES ASSUME IInv, [Next]_vars PROVE IInv'
  OBVIOUS
<1>1. ASSUME NEW c \in Clients, NEW h \in Handles, ExclusiveIrpCreate(c, h) PROVE IInv'
  BY <1>1, CreateStep
<1>2. ASSUME NEW c \in Clients, NEW h \in Handles, ExclusiveIrpDeviceIoControl(c, h) PROVE IInv'
  <2>1. ASSUME NEW keys \in Filters, MpIrpOidSetFilter(c, h, keys) PROVE IInv'
    BY <2>1, SetFilterStep
  <2>2. ASSUME NEW k \in Keys, MpIrpOidCompleteRequest(c, h, k) PROVE IInv'
    BY <2>2, TakeHeadStep
  <2>3. ASSUME NEW p \in Ports, MpIrpAllocatePort(c, h, p) PROVE IInv'
    BY <2>3, AllocateStep
  <2>4. ASSUME NEW p \in Ports, MpIrpFreePort(c, h, p) PROVE IInv'
    BY <2>4, FreeStep
  <2>5. ASSUME NEW p \in Ports, MpIrpActivatePort(c, h, p) \/ MpIrpDeactivatePort(c, h, p)
        PROVE  IInv'
    BY <2>5, TurnStep
  <2>6. QED
    BY <1>2, <2>1, <2>2, <2>3, <2>4, <2>5 DEF ExclusiveIrpDeviceIoControl
<1>3. ASSUME NEW c \in Clients, NEW h \in Handles, ExclusiveIrpClose(c, h) PROVE IInv'
  BY <1>3, CloseStep
<1>4. ASSUME NEW w \in Workers, Step(w) PROVE IInv'
  <2>1. CASE MpInsertPort(w)
    BY <2>1, InsertStep
  <2>2. ASSUME NEW ok \in BOOLEAN, MpActivatePortDone(w, ok) \/ MpDeactivatePortDone(w, ok)
        PROVE  IInv'
    BY <2>2, TurnStep
  <2>3. ASSUME NEW ok \in BOOLEAN, MpPortCleanupDeactivated(w, ok) PROVE IInv'
    BY <2>3, DeactivatedStep
  <2>4. CASE MpPortCleanup(w)
    BY <2>4, CleanupStep
  <2>5. CASE MpOidClearFilterAndFlush(w)
    BY <2>5, FlushStep
  <2>6. CASE MpOidCompleteRequest(w)
    BY <2>6, CompleteStep
  <2>7. CASE ExclusiveCleanup(w)
    BY <2>7, CleanupEnds
  <2>8. QED
    BY <1>4, <2>1, <2>2, <2>3, <2>4, <2>5, <2>6, <2>7 DEF Step
<1>5. ASSUME NEW r \in Requests, MpFilterOid(r) PROVE IInv'
  BY <1>5, FilterStep
<1>6. CASE Age
  BY <1>6, AgeStep
<1>7. CASE ExclusiveWatchdogTimeout
  BY <1>7, TimeoutStep
<1>8. CASE UNCHANGED vars
  BY <1>8, Stutters
<1>9. QED
  BY <1>1, <1>2, <1>3, <1>4, <1>5, <1>6, <1>7, <1>8 DEF Next, Finished

\* Opens, closes, IOCTLs, NDIS and the watchdog, interleaved in any way, keep IInv.
THEOREM Invariance == Spec => []IInv
  BY InitInv, NextInv, PTL DEF Spec

-----------------------------------------------------------------------------
(* What the runs check on a small instance.                                *)

\* A request NDIS waits for is in exactly one list or thread's hands, any other in
\* none: user mode, the watchdog and the close complete each request exactly once.
THEOREM OidsConservedAlways == Spec => []OidsConserved
<1>1. ASSUME IInv, NEW r \in Requests
      PROVE  Cardinality(Links(r)) = IF r \in outstanding THEN 1 ELSE 0
  <2> DEFINE Spots(x) == {j \in DOMAIN Held[x] : Held[x][j] = r}
             links == UNION {{x} \X Spots(x) : x \in Places}
  <2>1. Links(r) = links
    BY DEF Links, Places
  <2>2. /\ DOMAIN Held = Places /\ Once(Held, outstanding)
        /\ \A x \in Places : DOMAIN Held[x] = 1 .. Len(Held[x])
    <3>1. Held \in [Places -> Seq(Requests)]
      BY <1>1, HeldIs DEF IInv
    <3>2. QED
      BY <1>1, <3>1 DEF IInv, OidInv
  <2>3. CASE r \in outstanding
    <3>1. PICK x \in Places : \E j \in 1 .. Len(Held[x]) : Held[x][j] = r
      BY <2>2, <2>3 DEF Once
    <3>2. PICK j \in 1 .. Len(Held[x]) : Held[x][j] = r
      BY <3>1
    <3>3. ASSUME NEW y \in Places, NEW k \in Spots(y) PROVE y = x /\ k = j
      <4>1. k \in 1 .. Len(Held[y]) /\ Held[y][k] = r
        BY <2>2, Zenon
      <4>2. QED
        BY <2>2, <3>2, <4>1 DEF Once
    <3>4. j \in Spots(x)
      BY <2>2, <3>2
    <3>5. <<x, j>> \in links
      BY <3>4
    <3>6. ASSUME NEW z \in links PROVE z = <<x, j>>
      <4>1. PICK y \in Places : z \in {y} \X Spots(y)
        OBVIOUS
      <4>2. PICK k \in Spots(y) : z = <<y, k>>
        BY <4>1
      <4>3. QED
        BY <3>3, <4>2
    <3>7. links = {<<x, j>>}
      BY <3>5, <3>6
    <3>8. Cardinality(links) = 1
      BY <3>7, FS_Singleton, Zenon
    <3>9. QED
      BY <2>1, <2>3, <3>8
  <2>4. CASE r \notin outstanding
    <3>1. \A y \in Places : Spots(y) = {}
      BY <2>2, <2>4 DEF Once
    <3>2. ASSUME NEW z \in links PROVE FALSE
      <4>1. PICK y \in Places : z \in {y} \X Spots(y)
        OBVIOUS
      <4>2. QED
        BY <3>1, <4>1
    <3>3. links = {}
      BY <3>2
    <3>4. Cardinality(links) = 0
      BY <3>3, FS_EmptySet
    <3>5. QED
      BY <2>1, <2>4, <3>4
  <2>5. QED
    BY <2>3, <2>4
<1>2. IInv => OidsConserved
  BY <1>1 DEF OidsConserved
<1>3. QED
  BY <1>2, Invariance, PTL

\* A port entry that a thread uses across a call into NDIS is still listed, in the
\* state it was left in, and no other thread's.
THEOREM EntryOutlivesCallAlways == Spec => []EntryOutlivesCall
<1>1. ASSUME IInv, asserted = "none", NEW w \in Workers, work[w].pc \in Transit
      PROVE  /\ \E i \in DOMAIN PortList : PortList[i] = work[w].port
             /\ State[work[w].port] = IF work[w].pc = "activate" THEN "activating" ELSE "deactivating"
             /\ \A v \in Workers \ {w} : work[v].port # work[w].port
  <2>1. work[w] \in WorkRecords /\ PortFits(work[w])
    BY <1>1, OfWorker
  <2>2. PICK p \in Ports : p = work[w].port /\ p # NoPort
    BY <1>1, <2>1, Zenon DEF PortFits, WorkRecords
  <2>3. State[p] = IF work[w].pc = "activate" THEN "activating" ELSE "deactivating"
    BY <1>1, <2>1, <2>2, Zenon DEF PortFits
  <2>4. In(PortList, p)
    BY <1>1, <2>3, Zenon DEF IInv, PortInv
  <2>5. DOMAIN PortList = 1 .. Len(PortList)
    BY <1>1 DEF IInv, TypeOK
  <2>6. \E i \in DOMAIN PortList : PortList[i] = p
    BY <2>4, <2>5 DEF In
  <2>7. \A v \in Workers \ {w} : work[v].port # p
    BY <1>1, <2>2, Zenon DEF IInv, ThreadInv
  <2>8. QED
    BY <2>2, <2>3, <2>6, <2>7
<1>2. IInv => EntryOutlivesCall
  BY <1>1 DEF EntryOutlivesCall, Transit
<1>3. QED
  BY <1>2, Invariance, PTL

\* PortList has every port NDIS has allocated, once, but for one that a thread is
\* about to insert, and settled entries agree with NDIS.
THEOREM PortsMatchNdisAlways == Spec => []PortsMatchNdis
<1>1. ASSUME IInv, NEW p \in Ports
      PROVE  Cardinality({i \in DOMAIN PortList : PortList[i] = p})
               + Cardinality({w \in Workers : work[w].pc = "insert" /\ work[w].port = p})
             = IF ndis[p] = "free" THEN 0 ELSE 1
  <2> DEFINE spots == {i \in DOMAIN PortList : PortList[i] = p}
             inserters == {w \in Workers : work[w].pc = "insert" /\ work[w].port = p}
  <2>1. DOMAIN PortList = 1 .. Len(PortList)
    <3>1. PortList \in Seq(Ports)
      BY <1>1, Zenon DEF IInv, TypeOK
    <3>2. QED
      BY <3>1
  <2>2. ASSUME NEW w \in inserters PROVE State[p] = "none" /\ ndis[p] = "allocated"
    <3>1. w \in Workers /\ work[w].pc = "insert" /\ work[w].port = p
      BY Zenon
    <3>2. PortFits(work[w])
      BY <1>1, <3>1, OfWorker, Zenon
    <3>3. QED
      BY <3>1, <3>2, Zenon DEF PortFits
  <2>3. CASE State[p] # "none"
    <3>1. PICK i \in 1 .. Len(PortList) : PortList[i] = p
      BY <1>1, <2>3, Zenon DEF IInv, PortInv, In
    <3>2. spots = {i}
      BY <1>1, <2>1, <3>1 DEF IInv, PortInv, Distinct
    <3>3. Cardinality(spots) = 1
      BY <3>2, FS_Singleton, Zenon
    <3>4. Cardinality(inserters) = 0
      <4>1. inserters = {}
        BY <2>2, <2>3
      <4>2. QED
        BY <4>1, FS_EmptySet
    <3>5. ndis[p] # "free"
      <4>1. State[p] \in {"allocated", "activating", "activated", "deactivating"}
        BY <1>1, <2>3, Zenon DEF IInv, TypeOK
      <4>2. QED
        BY <1>1, <4>1, Zenon DEF IInv, PortInv
    <3>6. Cardinality(spots) + Cardinality(inserters) = 1
      BY <3>3, <3>4
    <3>7. QED
      BY <3>5, <3>6, Zenon
  <2>4. CASE State[p] = "none" /\ ndis[p] # "free"
    <3>1. Cardinality(spots) = 0
      <4>1. spots = {}
        BY <1>1, <2>1, <2>4 DEF IInv, PortInv, In
      <4>2. QED
        BY <4>1, FS_EmptySet
    <3>2. PICK w \in Workers : work[w].pc = "insert" /\ work[w].port = p
      BY <1>1, <2>4 DEF IInv, PortInv
    <3>3. inserters = {w}
      BY <1>1, <3>2, MpExclusiveAssumption, Zenon DEF IInv, ThreadInv
    <3>4. Cardinality(inserters) = 1
      BY <3>3, FS_Singleton, Zenon
    <3>5. Cardinality(spots) + Cardinality(inserters) = 1
      BY <3>1, <3>4
    <3>6. QED
      BY <2>4, <3>5, Zenon
  <2>5. CASE State[p] = "none" /\ ndis[p] = "free"
    <3>1. Cardinality(spots) = 0
      <4>1. spots = {}
        BY <1>1, <2>1, <2>5 DEF IInv, PortInv, In
      <4>2. QED
        BY <4>1, FS_EmptySet
    <3>2. Cardinality(inserters) = 0
      <4>1. inserters = {}
        BY <2>2, <2>5
      <4>2. QED
        BY <4>1, FS_EmptySet
    <3>3. Cardinality(spots) + Cardinality(inserters) = 0
      BY <3>1, <3>2
    <3>4. QED
      BY <2>5, <3>3, Zenon
  <2>6. QED
    BY <2>3, <2>4, <2>5, Zenon
<1>2. ASSUME IInv, NEW p \in Ports
      PROVE  /\ State[p] = "activated" => ndis[p] = "active"
             /\ State[p] = "allocated" => ndis[p] = "allocated"
  BY <1>2, Zenon DEF IInv, PortInv
<1>3. IInv => PortsMatchNdis
  BY <1>1, <1>2 DEF PortsMatchNdis
<1>4. QED
  BY <1>3, Invariance, PTL

\* An adapter without an owner has no port, no filter and no pended request.
THEOREM OwnerLeavesNothingAlways == Spec => []OwnerLeavesNothing
<1>1. ASSUME IInv, UserContext = NoHandle
      PROVE  /\ PortList = <<>> /\ \A p \in Ports : ndis[p] = "free"
             /\ OidFilterKeys = {} /\ \A i \in Interfaces : Filtered[i] = <<>>
  <2>1. PortList = <<>>
    BY <1>1 DEF IInv, OwnInv
  <2>2. ASSUME NEW p \in Ports, ndis[p] # "free" PROVE FALSE
    <3>1. ~In(PortList, p)
      BY <2>1 DEF In
    <3>2. State[p] = "none"
      BY <1>1, <3>1, Zenon DEF IInv, PortInv
    <3>3. PICK w \in Workers : work[w].pc = "insert" /\ work[w].port = p
      BY <1>1, <2>2, <3>2, Zenon DEF IInv, PortInv
    <3>4. work[w].on # NoHandle /\ file[work[w].on] = "open"
      BY <1>1, <3>3, OfWorker, Zenon DEF HandleFits
    <3>5. UserContext = work[w].on
      BY <1>1, <3>4, HandleUsed, OneOwner, Zenon
    <3>6. QED
      BY <1>1, <3>4, <3>5
  <2>3. OidFilterKeys = {}
    BY <1>1, MpExclusiveAssumption, Zenon DEF IInv, OwnInv, TypeOK
  <2>4. \A i \in Interfaces : Filtered[i] = <<>>
    BY <1>1, <2>3, Zenon DEF IInv, OidInv
  <2>5. QED
    BY <2>1, <2>2, <2>3, <2>4, Zenon
<1>2. IInv => OwnerLeavesNothing
  BY <1>1 DEF OwnerLeavesNothing
<1>3. QED
  BY <1>2, Invariance, PTL

=============================================================================

----------------------------- MODULE FnSockProofs -----------------------------
(***************************************************************************)
(* Proofs about FnSock, for any sets of sockets, connections and threads   *)
(* and any bounds on data and sends.                                       *)
(*                                                                         *)
(* The inductive invariant has three parts.  Sound(r, w) relates a binding *)
(* to the socket the provider has for it: every send in progress is in the *)
(* list FnSockClose awaits, data in the queue are increasing and not above *)
(* the last one indicated, a connection nobody has accepted has no         *)
(* callbacks yet, and a socket that lost its binding was abandoned.        *)
(* QueueInv says that the queues of the listeners hold the *)
(* queued connections, each once.  ThreadInv says which state a binding is *)
(* in while a thread uses it, and that a thread that accepts or closes it  *)
(* is the only one.                                                        *)
(***************************************************************************)
EXTENDS FnSock, FiniteSetTheorems, TLAPS

Gone == {"none", "closed"}

Lost == {"abandoned", "fault"}

Ordered(r) ==
    /\ \A i \in 1 .. Len(r.recv) : r.got < r.recv[i]
    /\ \A i, j \in 1 .. Len(r.recv) : i < j => r.recv[i] < r.recv[j]

UpTo(r, k) == r.got <= k /\ \A i \in 1 .. Len(r.recv) : r.recv[i] <= k

Listed(r, w) == \A n \in w.sending : \E i \in 1 .. Len(r.sends) : r.sends[i] = n

Untouched(r, w) ==
    /\ w.state = "connected" /\ w.callbacks = {}
    /\ r.sends = <<>> /\ r.recv = <<>> /\ r.accept = <<>>

Sound(r, w) ==
    /\ r.state = "free" => r.accept = <<>> /\ (w.state = "none" \/ w.life \in Lost)
    /\ w.life \in Lost => r.state \in {"free", "closing"} /\ w.sending = {}
    /\ r.state # "free" => r.type # "none"
    /\ r.state = "open" => w.state \notin Gone
    /\ r.state \in {"queued", "held"} => Untouched(r, w)
    /\ w.state \in Gone => w.callbacks = {} /\ w.sending = {}
    /\ Listed(r, w)
    /\ Ordered(r)
    /\ w.state \notin Gone => UpTo(r, w.indicated)

LocalInv == \A b \in Bindings : Sound(binding[b], wsk[b])

QueueInv ==
    /\ \A l \in Bindings : \A i \in 1 .. Len(binding[l].accept) :
          binding[binding[l].accept[i]].state = "queued"
    /\ \A l, m \in Bindings :
          \A i \in 1 .. Len(binding[l].accept), j \in 1 .. Len(binding[m].accept) :
              binding[l].accept[i] = binding[m].accept[j] => l = m /\ i = j
    /\ \A n \in Bindings : binding[n].state = "queued" =>
          \E l \in Bindings : \E i \in 1 .. Len(binding[l].accept) : binding[l].accept[i] = n

Alone == {"enabling", "closing", "flushing"}

\* The state of the binding a thread uses.
Used(c) ==
    /\ c.pc = "idle" <=> c.b = NoBinding
    /\ c.pc \in {"receiving", "received", "accepting", "accepted"} => binding[c.b].state = "open"
    /\ c.pc = "enabling" => binding[c.b].state = "held"
    /\ c.pc \in {"closing", "flushing"} => binding[c.b].state = "closing"

ThreadInv ==
    /\ \A t \in Threads : Used(work[t])
    /\ \A t, u \in Threads :
          work[t].pc \in Alone /\ work[u].b = work[t].b => t = u
    /\ \A n \in Bindings :
          binding[n].state \in {"held", "closing"} => \E t \in Threads : work[t].b = n

IInv == TypeOK /\ LocalInv /\ QueueInv /\ ThreadInv

-----------------------------------------------------------------------------
(* Steps that change one binding and leave its state and its queue of      *)
(* connections alone.                                                      *)

SameStates == \A b \in Bindings : binding'[b].state = binding[b].state

SameQueued ==
    \A b \in Bindings : binding'[b].state = "queued" <=> binding[b].state = "queued"

SameQueues == \A b \in Bindings : binding'[b].accept = binding[b].accept

\* A step that gives one binding, and the provider's socket of it, records that
\* are sound together keeps LocalInv.
LEMMA OneBinding ==
    ASSUME IInv, NEW b \in Bindings, NEW r \in BindingRecords, NEW w \in SocketRecords,
           Sound(r, w),
           binding' = [binding EXCEPT ![b] = r], wsk' = [wsk EXCEPT ![b] = w]
    PROVE  /\ binding' \in [Bindings -> BindingRecords]
           /\ wsk' \in [Bindings -> SocketRecords]
           /\ LocalInv'
<1>1. binding' \in [Bindings -> BindingRecords] /\ wsk' \in [Bindings -> SocketRecords]
  BY DEF IInv, TypeOK
<1>2. ASSUME NEW c \in Bindings PROVE Sound(binding'[c], wsk'[c])
  <2>1. CASE c = b
    <3>1. binding'[c] = r /\ wsk'[c] = w
      BY <2>1 DEF IInv, TypeOK
    <3>2. QED
      BY <3>1
  <2>2. CASE c # b
    <3>1. binding'[c] = binding[c] /\ wsk'[c] = wsk[c]
      BY <2>2 DEF IInv, TypeOK
    <3>2. QED
      BY <3>1 DEF IInv, LocalInv
  <2>3. QED
    BY <2>1, <2>2
<1>3. QED
  BY <1>1, <1>2 DEF LocalInv

\* The queues of the listeners depend on who is queued and on the queues alone.
LEMMA QueuesKept ==
    ASSUME IInv, SameQueued, SameQueues
    PROVE  QueueInv'
<1>1. \A l \in Bindings : binding[l].accept \in Seq(Bindings)
  BY DEF IInv, TypeOK, BindingRecords
<1>2. \A l \in Bindings : \A i \in 1 .. Len(binding[l].accept) : binding[l].accept[i] \in Bindings
  BY <1>1
<1>3. ASSUME NEW l \in Bindings, NEW i \in 1 .. Len(binding'[l].accept)
      PROVE  binding'[binding'[l].accept[i]].state = "queued"
  <2>1. binding'[l].accept = binding[l].accept
    BY DEF SameQueues
  <2>2. binding[binding[l].accept[i]].state = "queued" /\ binding[l].accept[i] \in Bindings
    BY <1>2, <2>1 DEF IInv, QueueInv
  <2>3. QED
    BY <2>1, <2>2 DEF SameQueued
<1>4. ASSUME NEW l \in Bindings, NEW m \in Bindings,
             NEW i \in 1 .. Len(binding'[l].accept), NEW j \in 1 .. Len(binding'[m].accept),
             binding'[l].accept[i] = binding'[m].accept[j]
      PROVE  l = m /\ i = j
  <2>1. binding'[l].accept = binding[l].accept /\ binding'[m].accept = binding[m].accept
    BY DEF SameQueues
  <2>2. QED
    BY <1>4, <2>1 DEF IInv, QueueInv
<1>5. ASSUME NEW n \in Bindings, binding'[n].state = "queued"
      PROVE  \E l \in Bindings : \E i \in 1 .. Len(binding'[l].accept) : binding'[l].accept[i] = n
  <2>1. PICK l \in Bindings : \E i \in 1 .. Len(binding[l].accept) : binding[l].accept[i] = n
    BY <1>5 DEF IInv, QueueInv, SameQueued
  <2>2. binding'[l].accept = binding[l].accept
    BY DEF SameQueues
  <2>3. QED
    BY <2>1, <2>2
<1>6. QED
  BY <1>3, <1>4, <1>5 DEF QueueInv

\* The threads depend on the states of the bindings and on the calls they are in.
LEMMA ThreadsKept ==
    ASSUME IInv, SameStates, work' = work
    PROVE  ThreadInv'
<1>1. \A t \in Threads : work[t].pc # "idle" => work[t].b \in Bindings
  BY DEF IInv, TypeOK, CallRecords, ThreadInv, Used
<1>2. ASSUME NEW t \in Threads PROVE Used(work[t])'
  <2>1. Used(work[t])
    BY DEF IInv, ThreadInv
  <2>2. QED
    BY <1>1, <2>1 DEF Used, SameStates
<1>3. QED
  BY <1>2 DEF IInv, ThreadInv, SameStates

\* A thread goes on in its call, or begins or ends one that leaves the binding
\* open.
LEMMA CallChanges ==
    ASSUME IInv, SameStates, NEW t \in Threads, NEW c \in CallRecords,
           Used(c), work' = [work EXCEPT ![t] = c],
           \/ c.b = work[t].b /\ (c.pc \in Alone <=> work[t].pc \in Alone)
           \/ c.pc \notin Alone /\ work[t].pc \notin Alone
    PROVE  work' \in [Threads -> CallRecords] /\ ThreadInv'
<1>1. work' \in [Threads -> CallRecords] /\ work'[t] = c
  BY DEF IInv, TypeOK
<1>2. \A u \in Threads : u # t => work'[u] = work[u]
  BY DEF IInv, TypeOK
<1>3. \A u \in Threads : work[u].pc # "idle" => work[u].b \in Bindings
  BY DEF IInv, TypeOK, CallRecords, ThreadInv, Used
<1>4. c.pc # "idle" => c.b \in Bindings
  BY DEF CallRecords, Used
<1>5. \A u \in Threads : Used(work[u])
  BY DEF IInv, ThreadInv
<1>6. ASSUME NEW u \in Threads PROVE Used(work[u])'
  <2>1. CASE u = t
    BY <1>1, <1>4, <2>1 DEF Used, SameStates
  <2>2. CASE u # t
    <3>1. Used(work[u])
      BY <1>5
    <3>2. QED
      BY <1>2, <1>3, <2>2, <3>1 DEF Used, SameStates
  <2>3. QED
    BY <2>1, <2>2
<1>7. ASSUME NEW u \in Threads, NEW v \in Threads,
             work'[u].pc \in Alone, work'[v].b = work'[u].b
      PROVE  u = v
  <2>1. \A x, y \in Threads : work[x].pc \in Alone /\ work[y].b = work[x].b => x = y
    BY DEF IInv, ThreadInv
  <2>2. CASE c.b = work[t].b /\ (c.pc \in Alone <=> work[t].pc \in Alone)
    BY <1>1, <1>2, <1>7, <2>1, <2>2
  <2>3. CASE c.pc \notin Alone /\ work[t].pc \notin Alone
    <3>1. u # t /\ work[u].pc \in Alone
      BY <1>1, <1>2, <1>7, <2>3
    <3>2. work[u].b \in Bindings /\ binding[work[u].b].state \in {"held", "closing"}
      BY <1>3, <1>5, <3>1 DEF Used, Alone
    <3>3. work[u].b # c.b
      BY <2>3, <3>2, NoBindingAssumption DEF Used, Alone, CallRecords
    <3>4. QED
      BY <1>1, <1>2, <1>7, <2>1, <3>1, <3>3
  <2>4. QED
    BY <2>2, <2>3
<1>8. ASSUME NEW n \in Bindings, binding[n].state \in {"held", "closing"}
      PROVE  \E u \in Threads : work'[u].b = n
  <2>1. PICK u \in Threads : work[u].b = n
    BY <1>8 DEF IInv, ThreadInv
  <2>2. work[u].pc \in Alone
    <3>1. Used(work[u]) /\ work[u] \in CallRecords
      BY <1>5 DEF IInv, TypeOK
    <3>2. QED
      BY <1>8, <2>1, <3>1, NoBindingAssumption DEF Used, Alone, CallRecords
  <2>3. work'[u].b = n
    BY <1>1, <1>2, <2>1, <2>2
  <2>4. QED
    BY <2>3
<1>9. QED
  BY <1>1, <1>6, <1>7, <1>8 DEF ThreadInv, SameStates

\* Both together, for a step that leaves the state of the binding and its queue of
\* connections alone.
LEMMA Quiet ==
    ASSUME IInv, NEW b \in Bindings, NEW r \in BindingRecords, NEW w \in SocketRecords,
           Sound(r, w), r.state = binding[b].state, r.accept = binding[b].accept,
           binding' = [binding EXCEPT ![b] = r], wsk' = [wsk EXCEPT ![b] = w]
    PROVE  /\ binding' \in [Bindings -> BindingRecords]
           /\ wsk' \in [Bindings -> SocketRecords]
           /\ LocalInv' /\ QueueInv' /\ SameStates
<1>1. binding' \in [Bindings -> BindingRecords] /\ wsk' \in [Bindings -> SocketRecords] /\ LocalInv'
  BY OneBinding, Zenon
<1>2. \A c \in Bindings : binding'[c] = IF c = b THEN r ELSE binding[c]
  BY DEF IInv, TypeOK
<1>3. SameStates /\ SameQueues /\ SameQueued
  BY <1>2 DEF SameStates, SameQueues, SameQueued
<1>4. QED
  BY <1>1, <1>3, QueuesKept

\* What the invariant says of one binding.
LEMMA OfBinding ==
    ASSUME IInv, NEW b \in Bindings
    PROVE  /\ binding[b] \in BindingRecords /\ wsk[b] \in SocketRecords
           /\ Sound(binding[b], wsk[b])
           /\ binding = [binding EXCEPT ![b] = binding[b]]
           /\ wsk = [wsk EXCEPT ![b] = wsk[b]]
<1>1. binding \in [Bindings -> BindingRecords] /\ wsk \in [Bindings -> SocketRecords]
  BY DEF IInv, TypeOK
<1>2. QED
  BY <1>1 DEF IInv, LocalInv

\* Adding an element to a queue, and taking the first one.
LEMMA AddTo ==
    ASSUME NEW S, NEW s \in Seq(S), NEW e \in S
    PROVE  Append(s, e) \in Seq(S)
OBVIOUS

\* A sequence without its first element.
LEMMA TakeFrom ==
    ASSUME NEW S, NEW s \in Seq(S), s # <<>>
    PROVE  Tail(s) \in Seq(S) /\ Head(s) \in S
OBVIOUS

\* The sequences of a binding, one element added or taken away.
LEMMA AddSend ==
    ASSUME NEW r \in BindingRecords, NEW n \in 1 .. MaxSends
    PROVE  [r EXCEPT !.sends = Append(@, n)] \in BindingRecords
<1>1. r.sends \in Seq(1 .. MaxSends)
  BY DEF BindingRecords
<1>2. PICK s \in Seq(1 .. MaxSends) : s = Append(r.sends, n)
  BY <1>1, AddTo, Zenon
<1>3. [r EXCEPT !.sends = s] \in BindingRecords
  BY Zenon DEF BindingRecords
<1>4. QED
  BY <1>2, <1>3

\* A binding without the first of its sends is a binding.
LEMMA DropSend ==
    ASSUME NEW r \in BindingRecords, r.sends # <<>>
    PROVE  [r EXCEPT !.sends = Tail(@)] \in BindingRecords
<1>1. r.sends \in Seq(1 .. MaxSends)
  BY DEF BindingRecords
<1>2. PICK s \in Seq(1 .. MaxSends) : s = Tail(r.sends)
  BY <1>1, TakeFrom, Zenon
<1>3. [r EXCEPT !.sends = s] \in BindingRecords
  BY Zenon DEF BindingRecords
<1>4. QED
  BY <1>2, <1>3

\* A binding with one more datum in its queue is a binding.
LEMMA AddDatum ==
    ASSUME NEW r \in BindingRecords, NEW n \in 1 .. MaxData
    PROVE  [r EXCEPT !.recv = Append(@, n), !.recvEvent = TRUE] \in BindingRecords
<1>1. r.recv \in Seq(1 .. MaxData)
  BY DEF BindingRecords
<1>2. PICK s \in Seq(1 .. MaxData) : s = Append(r.recv, n)
  BY <1>1, AddTo, Zenon
<1>3. [r EXCEPT !.recv = s, !.recvEvent = TRUE] \in BindingRecords
  BY Zenon DEF BindingRecords
<1>4. QED
  BY <1>2, <1>3

\* A binding whose first datum has been taken is a binding.
LEMMA DropDatum ==
    ASSUME NEW r \in BindingRecords, r.recv # <<>>
    PROVE  [r EXCEPT !.recv = Tail(@), !.got = Head(r.recv)] \in BindingRecords
<1>1. r.recv \in Seq(1 .. MaxData)
  BY DEF BindingRecords
<1>2. PICK s \in Seq(1 .. MaxData) : s = Tail(r.recv)
  BY <1>1, TakeFrom, Zenon
<1>3. PICK g \in 0 .. MaxData : g = Head(r.recv)
  BY <1>1, TakeFrom, BoundsAssumption
<1>4. [r EXCEPT !.recv = s, !.got = g] \in BindingRecords
  BY Zenon DEF BindingRecords
<1>5. QED
  BY <1>2, <1>3, <1>4

\* Data are numbers.
LEMMA DataAreNumbers ==
    ASSUME NEW r \in BindingRecords
    PROVE  /\ r.got \in Nat /\ r.recv \in Seq(Nat) /\ Len(r.recv) \in Nat
           /\ \A i \in 1 .. Len(r.recv) : r.recv[i] \in Nat
<1>1. r.got \in 0 .. MaxData /\ r.recv \in Seq(1 .. MaxData)
  BY DEF BindingRecords
<1>2. QED
  BY <1>1, BoundsAssumption

\* A binding that is free and a socket there is not.
LEMMA FreshRecords == Free \in BindingRecords /\ NoSocket \in SocketRecords
<1>1. 0 \in 0 .. MaxData /\ 0 \in 0 .. MaxSends
  BY BoundsAssumption
<1>2. <<>> \in Seq(1 .. MaxSends) /\ <<>> \in Seq(1 .. MaxData) /\ <<>> \in Seq(Bindings)
  OBVIOUS
<1>3. Free \in BindingRecords
  BY <1>1, <1>2 DEF Free, BindingRecords
<1>4. NoSocket \in SocketRecords
  BY <1>1 DEF NoSocket, SocketRecords
<1>5. QED
  BY <1>3, <1>4

-----------------------------------------------------------------------------
(* What the calls of a socket make of its binding.                         *)

\* A call on an open binding may change the state of the socket, not to a closed
\* one, and its callbacks.
LEMMA OpenSound ==
    ASSUME NEW r \in BindingRecords, NEW w \in SocketRecords, Sound(r, w), r.state = "open",
           NEW s \in {"bound", "listening", "connected"},
           NEW C \in SUBSET {"receiveFrom", "receive", "accept"}
    PROVE  LET v == [w EXCEPT !.state = s, !.callbacks = C]
           IN  v \in SocketRecords /\ Sound(r, v)
<1>1. PICK v \in SocketRecords : v = [w EXCEPT !.state = s, !.callbacks = C]
  BY Zenon DEF SocketRecords
<1>2. v.sending = w.sending /\ v.indicated = w.indicated /\ v.state = s /\ v.life = w.life
  BY <1>1 DEF SocketRecords
<1>3. Sound(r, v)
  BY <1>2 DEF Sound, Gone, Listed, Ordered, UpTo
<1>4. QED
  BY <1>1, <1>3

\* The same without a change of the callbacks.
LEMMA OpenDeaf ==
    ASSUME NEW r \in BindingRecords, NEW w \in SocketRecords, Sound(r, w), r.state = "open",
           NEW s \in {"bound", "listening", "connected"}
    PROVE  LET v == [w EXCEPT !.state = s]
           IN  v \in SocketRecords /\ Sound(r, v)
<1>1. w.callbacks \in SUBSET {"receiveFrom", "receive", "accept"}
  BY DEF SocketRecords
<1>2. [w EXCEPT !.state = s] = [w EXCEPT !.state = s, !.callbacks = w.callbacks]
  BY Zenon DEF SocketRecords
<1>3. QED
  BY <1>1, <1>2, OpenSound, Zenon

\* Sound does not look at the fields a bind or an option changes.
LEMMA SoundAlike ==
    ASSUME NEW r, NEW q, NEW w, Sound(r, w),
           q.state = r.state, q.type = r.type, q.accept = r.accept, q.sends = r.sends,
           q.recv = r.recv, q.got = r.got
    PROVE  Sound(q, w)
BY DEF Sound, Listed, Ordered, UpTo, Untouched

\* Every outcome of FnSockBind is sound.
LEMMA BindSound ==
    ASSUME NEW r \in BindingRecords, NEW w \in SocketRecords, Sound(r, w), r.state = "open",
           NEW o \in BindOutcomes(r, w)
    PROVE  \E q \in BindingRecords, v \in SocketRecords, ok \in BOOLEAN :
              /\ o = [ok |-> ok, r |-> q, w |-> v]
              /\ Sound(q, v) /\ q.state = "open" /\ q.accept = r.accept
<1> DEFINE C == IF r.type = "datagram" THEN {"receiveFrom"} ELSE {}
<1>1. CASE o = [ok |-> FALSE, r |-> r, w |-> w]
  BY <1>1, Zenon
<1>2. CASE o = [ok |-> FALSE, r |-> r, w |-> [w EXCEPT !.state = "bound"]]
  BY <1>2, OpenDeaf, Zenon
<1>3. CASE o = [ok |-> TRUE, r |-> [r EXCEPT !.isBound = TRUE],
                w |-> [w EXCEPT !.state = "bound", !.callbacks = C]]
  <2>1. PICK q \in BindingRecords : q = [r EXCEPT !.isBound = TRUE]
    BY Zenon DEF BindingRecords
  <2>2. /\ q.state = r.state /\ q.type = r.type /\ q.accept = r.accept /\ q.sends = r.sends
        /\ q.recv = r.recv /\ q.got = r.got
    BY <2>1 DEF BindingRecords
  <2>3. C \in SUBSET {"receiveFrom", "receive", "accept"}
    OBVIOUS
  <2>4. PICK v \in SocketRecords : v = [w EXCEPT !.state = "bound", !.callbacks = C] /\ Sound(r, v)
    BY <2>3, OpenSound, Zenon
  <2>5. Sound(q, v)
    BY <2>2, <2>4, SoundAlike
  <2>6. QED
    BY <1>3, <2>1, <2>2, <2>4, <2>5, Zenon
<1>4. QED
  BY <1>1, <1>2, <1>3, Zenon DEF BindOutcomes

\* So is every outcome of connecting what came out of it.
LEMMA ConnectSound ==
    ASSUME NEW r \in BindingRecords, NEW w \in SocketRecords, Sound(r, w), r.state = "open",
           NEW p \in ConnectOutcomes([ok |-> TRUE, r |-> r, w |-> w])
    PROVE  \E v \in SocketRecords, ok \in BOOLEAN :
              p = [ok |-> ok, r |-> r, w |-> v] /\ Sound(r, v)
<1> DEFINE o == [ok |-> TRUE, r |-> r, w |-> w]
<1>1. CASE p = [o EXCEPT !.ok = FALSE]
  BY <1>1, Zenon
<1>2. CASE p = [o EXCEPT !.ok = FALSE, !.w.state = "connected"]
  <2>1. p = [ok |-> FALSE, r |-> r, w |-> [w EXCEPT !.state = "connected"]]
    BY <1>2, Zenon
  <2>2. QED
    BY <2>1, OpenDeaf, Zenon
<1>3. CASE p = [o EXCEPT !.w.state = "connected", !.w.callbacks = {"receive"}]
  <2>1. p = [ok |-> TRUE, r |-> r,
             w |-> [w EXCEPT !.state = "connected", !.callbacks = {"receive"}]]
    BY <1>3, Zenon
  <2>2. QED
    BY <2>1, OpenSound, Zenon
<1>4. QED
  BY <1>1, <1>2, <1>3 DEF ConnectOutcomes

-----------------------------------------------------------------------------
(* The steps that leave the states and the queues of connections alone.    *)

\* A call on a socket ends with one of its outcomes.
LEMMA TakeStep ==
    ASSUME IInv, NEW b \in Bindings, NEW q \in BindingRecords, NEW v \in SocketRecords,
           NEW ok \in BOOLEAN, Sound(q, v),
           q.state = binding[b].state, q.accept = binding[b].accept,
           Take(b, [ok |-> ok, r |-> q, w |-> v])
    PROVE  IInv'
<1>1. binding' = [binding EXCEPT ![b] = q] /\ wsk' = [wsk EXCEPT ![b] = v] /\ work' = work
  BY DEF Take
<1>2. lastError' \in {"success", "failure"}
  BY DEF Take, IInv, TypeOK
<1>3. /\ binding' \in [Bindings -> BindingRecords] /\ wsk' \in [Bindings -> SocketRecords]
      /\ LocalInv' /\ QueueInv' /\ SameStates
  BY <1>1, Quiet, Zenon
<1>4. ThreadInv'
  BY <1>1, <1>3, ThreadsKept
<1>5. work' \in [Threads -> CallRecords]
  BY <1>1 DEF IInv, TypeOK
<1>6. QED
  BY <1>2, <1>3, <1>4, <1>5 DEF IInv, TypeOK

\* A failure is recorded in the last error only.
LEMMA FailsStep ==
    ASSUME IInv, Fails
    PROVE  IInv'
<1>1. binding' = binding /\ wsk' = wsk /\ work' = work /\ lastError' = "failure"
  BY DEF Fails
<1>2. TypeOK'
  BY <1>1 DEF IInv, TypeOK
<1>3. LocalInv' /\ QueueInv' /\ ThreadInv'
  BY <1>1 DEF IInv, LocalInv, QueueInv, ThreadInv, Used
<1>4. QED
  BY <1>2, <1>3 DEF IInv

\* FnSockBind and FnSockConnect.
LEMMA BindConnectStep ==
    ASSUME IInv, NEW b \in Bindings, FnSockBind(b) \/ FnSockConnect(b)
    PROVE  IInv'
<1> DEFINE r == binding[b]
           w == wsk[b]
<1>1. r \in BindingRecords /\ w \in SocketRecords /\ Sound(r, w) /\ r.state = "open"
  BY OfBinding DEF FnSockBind, FnSockConnect
<1> HIDE DEF r, w
<1>2. CASE FnSockBind(b)
  <2>1. PICK o \in BindOutcomes(r, w) : Take(b, o)
    BY <1>2 DEF FnSockBind, r, w
  <2>2. PICK q \in BindingRecords, v \in SocketRecords, ok \in BOOLEAN :
           /\ o = [ok |-> ok, r |-> q, w |-> v]
           /\ Sound(q, v) /\ q.state = "open" /\ q.accept = r.accept
    BY <1>1, BindSound
  <2>3. QED
    BY <1>1, <2>1, <2>2, TakeStep DEF r
<1>3. CASE FnSockConnect(b)
  <2>1. PICK o \in (IF r.isBound THEN {[ok |-> TRUE, r |-> r, w |-> w]} ELSE BindOutcomes(r, w)) :
           \E p \in (IF o.ok THEN ConnectOutcomes(o) ELSE {o}) : Take(b, p)
    BY <1>3 DEF FnSockConnect, r, w
  <2>2. PICK p \in (IF o.ok THEN ConnectOutcomes(o) ELSE {o}) : Take(b, p)
    BY <2>1
  <2>3. PICK q \in BindingRecords, v \in SocketRecords, ok \in BOOLEAN :
           /\ o = [ok |-> ok, r |-> q, w |-> v]
           /\ Sound(q, v) /\ q.state = "open" /\ q.accept = r.accept
    <3>1. CASE r.isBound
      BY <1>1, <2>1, <3>1, Zenon
    <3>2. CASE ~r.isBound
      BY <1>1, <2>1, <3>2, BindSound
    <3>3. QED
      BY <3>1, <3>2
  <2>4. PICK u \in SocketRecords, k \in BOOLEAN : p = [ok |-> k, r |-> q, w |-> u] /\ Sound(q, u)
    <3>1. CASE ok
      <4>1. p \in ConnectOutcomes([ok |-> TRUE, r |-> q, w |-> v])
        BY <2>2, <2>3, <3>1
      <4>2. QED
        BY <2>3, <4>1, ConnectSound
    <3>2. CASE ~ok
      <4>1. p = [ok |-> ok, r |-> q, w |-> v]
        BY <2>2, <2>3, <3>2
      <4>2. QED
        BY <2>3, <4>1
    <3>3. QED
      BY <3>1, <3>2
  <2>5. QED
    BY <1>1, <2>2, <2>3, <2>4, TakeStep DEF r
<1>4. QED
  BY <1>2, <1>3

\* FnSockListen.
LEMMA ListenStep ==
    ASSUME IInv, NEW b \in Bindings, FnSockListen(b)
    PROVE  IInv'
<1>1. CASE Fails
  BY <1>1, FailsStep
<1>2. ASSUME NEW ok \in BOOLEAN,
             Take(b, [ok |-> ok, r |-> binding[b],
                      w |-> [wsk[b] EXCEPT !.state = "listening",
                                 !.callbacks = IF ok THEN {"accept"} ELSE {}]])
      PROVE  IInv'
  <2> DEFINE C == IF ok THEN {"accept"} ELSE {}
  <2>1. binding[b] \in BindingRecords /\ wsk[b] \in SocketRecords /\ Sound(binding[b], wsk[b])
    BY OfBinding
  <2>2. binding[b].state = "open" /\ C \in SUBSET {"receiveFrom", "receive", "accept"}
    BY Zenon DEF FnSockListen
  <2>3. PICK v \in SocketRecords :
           v = [wsk[b] EXCEPT !.state = "listening", !.callbacks = C] /\ Sound(binding[b], v)
    BY <2>1, <2>2, OpenSound, Zenon
  <2>4. QED
    BY <1>2, <2>1, <2>3, TakeStep
<1>3. QED
  BY <1>1, <1>2, Zenon DEF FnSockListen

\* FnSockSetSockOpt.
LEMMA SetSockOptStep ==
    ASSUME IInv, NEW b \in Bindings, FnSockSetSockOpt(b)
    PROVE  IInv'
<1>1. CASE Fails
  BY <1>1, FailsStep
<1>2. CASE binding' = [binding EXCEPT ![b].timed = TRUE] /\ UNCHANGED <<wsk, work, lastError>>
  <2>1. binding[b] \in BindingRecords /\ wsk[b] \in SocketRecords /\ Sound(binding[b], wsk[b])
        /\ wsk = [wsk EXCEPT ![b] = wsk[b]]
    BY OfBinding
  <2>2. PICK q \in BindingRecords : q = [binding[b] EXCEPT !.timed = TRUE]
    BY <2>1, Zenon DEF BindingRecords
  <2>3. /\ q.state = binding[b].state /\ q.type = binding[b].type /\ q.accept = binding[b].accept
        /\ q.sends = binding[b].sends /\ q.recv = binding[b].recv /\ q.got = binding[b].got
    BY <2>1, <2>2 DEF BindingRecords
  <2>4. Sound(q, wsk[b])
    BY <2>1, <2>3, SoundAlike
  <2>5. Take(b, [ok |-> TRUE, r |-> q, w |-> wsk[b]])
    BY <1>2, <2>1, <2>2 DEF Take
  <2>6. QED
    BY <2>1, <2>3, <2>4, <2>5, TakeStep, Zenon
<1>3. QED
  BY <1>1, <1>2 DEF FnSockSetSockOpt

\* What InsertTailList leaves of a list, and where the new element is.
LEMMA Appended ==
    ASSUME NEW S, NEW s \in Seq(S), NEW m \in S
    PROVE  \E u \in Seq(S) :
             /\ u = Append(s, m) /\ Len(u) = Len(s) + 1 /\ u[Len(s) + 1] = m
             /\ \A i \in 1 .. Len(s) : i \in 1 .. Len(u) /\ u[i] = s[i]
             /\ Len(s) + 1 \in 1 .. Len(u)
<1>1. Append(s, m) \in Seq(S) /\ Len(Append(s, m)) = Len(s) + 1
  OBVIOUS
<1>2. PICK u \in Seq(S) : u = Append(s, m) /\ Len(u) = Len(s) + 1
  BY <1>1, Zenon
<1>3. Len(s) \in Nat
  OBVIOUS
<1>4. u[Len(s) + 1] = m /\ Len(s) + 1 \in 1 .. Len(u)
  BY <1>2, <1>3
<1>5. ASSUME NEW i \in 1 .. Len(s)
      PROVE  i \in 1 .. Len(u) /\ u[i] = s[i]
  BY <1>2, <1>3
<1>6. QED
  BY <1>2, <1>4, <1>5, Zenon

\* A send that the provider takes is listed; one it completes stays listed.
LEMMA SendStep ==
    ASSUME IInv, NEW b \in Bindings,
           \/ SendTaken(b) /\ binding[b].state = "open"
           \/ SendCompletes(b)
    PROVE  IInv'
<1>1. /\ binding[b] \in BindingRecords /\ wsk[b] \in SocketRecords /\ Sound(binding[b], wsk[b])
      /\ binding = [binding EXCEPT ![b] = binding[b]]
  BY OfBinding
<1>2. CASE SendTaken(b) /\ binding[b].state = "open"
  <2> DEFINE n == wsk[b].sent + 1
  <2>1. n \in 1 .. MaxSends
    BY <1>1, <1>2, BoundsAssumption DEF SendTaken, SocketRecords
  <2>2. PICK q : q = [binding[b] EXCEPT !.sends = Append(@, n)]
    BY Zenon
  <2>3. PICK v : v = [wsk[b] EXCEPT !.sent = n, !.sending = @ \cup {n}]
    OBVIOUS
  <2>4. q \in BindingRecords /\ v \in SocketRecords
    <3>1. q \in BindingRecords
      BY <1>1, <2>1, <2>2, AddSend, Zenon
    <3>2. PICK N \in SUBSET (1 .. MaxSends) : N = wsk[b].sending \cup {n}
      BY <1>1, <2>1, Zenon DEF SocketRecords
    <3>3. PICK k \in 0 .. MaxSends : k = n
      BY <2>1, BoundsAssumption
    <3>4. [wsk[b] EXCEPT !.sent = k, !.sending = N] \in SocketRecords
      BY <1>1, Zenon DEF SocketRecords
    <3>5. QED
      BY <2>3, <3>1, <3>2, <3>3, <3>4
  <2>5. /\ q.state = binding[b].state /\ q.type = binding[b].type /\ q.accept = binding[b].accept
        /\ q.recv = binding[b].recv /\ q.got = binding[b].got /\ q.sends = Append(binding[b].sends, n)
    BY <1>1, <2>2 DEF BindingRecords
  <2>6. /\ v.state = wsk[b].state /\ v.callbacks = wsk[b].callbacks
        /\ v.indicated = wsk[b].indicated /\ v.sending = wsk[b].sending \cup {n}
        /\ v.life = wsk[b].life
    BY <1>1, <2>3 DEF SocketRecords
  <2>7. Listed(q, v)
    <3>1. binding[b].sends \in Seq(1 .. MaxSends)
      BY <1>1 DEF BindingRecords
    <3>2. PICK s \in Seq(1 .. MaxSends) : s = binding[b].sends /\ q.sends = Append(s, n)
      BY <2>5, <3>1, Zenon
    <3>3. PICK m \in 1 .. MaxSends : m = n
      BY <2>1, Zenon
    <3>4. PICK u \in Seq(1 .. MaxSends) :
             /\ u = Append(s, m) /\ Len(u) = Len(s) + 1 /\ u[Len(s) + 1] = m
             /\ \A i \in 1 .. Len(s) : i \in 1 .. Len(u) /\ u[i] = s[i]
             /\ Len(s) + 1 \in 1 .. Len(u)
      BY Appended, Zenon
    <3>5. \A x \in wsk[b].sending : \E i \in 1 .. Len(s) : s[i] = x
      BY <1>1, <3>2, Zenon DEF Sound, Listed
    <3>6. \A x \in wsk[b].sending \cup {n} : \E i \in 1 .. Len(u) : u[i] = x
      BY <3>3, <3>4, <3>5, Zenon
    <3>7. u = q.sends
      BY <3>2, <3>3, <3>4, Zenon
    <3>8. QED
      BY <2>6, <3>6, <3>7, Zenon DEF Listed
  <2>8. Sound(q, v)
    <3>1. Ordered(q)
      BY <1>1, <2>5 DEF Sound, Ordered
    <3>2. v.state \notin Gone => UpTo(q, v.indicated)
      BY <1>1, <2>5, <2>6 DEF Sound, UpTo
    <3>3. QED
      BY <1>1, <1>2, <2>5, <2>6, <2>7, <3>1, <3>2 DEF Sound
  <2>9. Take(b, [ok |-> TRUE, r |-> q, w |-> v])
    BY <1>1, <1>2, <2>2, <2>3, Zenon DEF SendTaken, Take, IInv, TypeOK
  <2>10. QED
    BY <2>4, <2>5, <2>8, <2>9, TakeStep, Zenon
<1>3. CASE SendCompletes(b)
  <2>1. PICK n \in wsk[b].sending : wsk' = [wsk EXCEPT ![b].sending = @ \ {n}]
    BY <1>3, Zenon DEF SendCompletes
  <2>2. PICK v : v = [wsk[b] EXCEPT !.sending = @ \ {n}]
    BY Zenon
  <2>3. v \in SocketRecords
    BY <1>1, <2>2 DEF SocketRecords
  <2>4. /\ v.state = wsk[b].state /\ v.callbacks = wsk[b].callbacks
        /\ v.indicated = wsk[b].indicated /\ v.sending = wsk[b].sending \ {n}
        /\ v.life = wsk[b].life
    BY <1>1, <2>2 DEF SocketRecords
  <2>5. Sound(binding[b], v)
    BY <1>1, <2>4 DEF Sound, Ordered, UpTo, Listed, Untouched
  <2>6. Take(b, [ok |-> TRUE, r |-> binding[b], w |-> v])
    BY <1>1, <1>3, <2>1, <2>2, Zenon DEF SendCompletes, Take
  <2>7. QED
    BY <1>1, <2>3, <2>5, <2>6, TakeStep, Zenon
<1>4. QED
  BY <1>2, <1>3

\* FnSockSend and FnSockSendMsg.
LEMMA SendCallStep ==
    ASSUME IInv, NEW b \in Bindings, FnSockSend(b) \/ FnSockSendMsg(b)
    PROVE  IInv'

BY FailsStep, SendStep DEF FnSockSend, FnSockSendMsg

\* An indication of data appends the next number to the queue, or drops it.
LEMMA IndicatedStep ==
    ASSUME IInv, NEW b \in Bindings, NEW callback, Indicated(b, callback)
    PROVE  IInv'
<1> DEFINE n == wsk[b].indicated + 1
<1>1. /\ binding[b] \in BindingRecords /\ wsk[b] \in SocketRecords /\ Sound(binding[b], wsk[b])
      /\ binding = [binding EXCEPT ![b] = binding[b]]
  BY OfBinding
<1>2. n \in 1 .. MaxData /\ wsk[b].indicated \in Nat
  BY <1>1, BoundsAssumption DEF Indicated, SocketRecords
<1>3. wsk[b].callbacks # {} /\ wsk[b].state \notin Gone
  BY <1>1 DEF Indicated, Sound
<1>4. PICK v : v = [wsk[b] EXCEPT !.indicated = n]
  BY Zenon
<1>5. v \in SocketRecords
  BY <1>1, <1>2, <1>4 DEF SocketRecords
<1>6. /\ v.state = wsk[b].state /\ v.callbacks = wsk[b].callbacks
      /\ v.indicated = n /\ v.sending = wsk[b].sending /\ v.life = wsk[b].life
  BY <1>1, <1>4 DEF SocketRecords
<1>7. wsk' = [wsk EXCEPT ![b] = v]
  BY <1>4 DEF Indicated
<1>8. /\ binding[b].recv \in Seq(1 .. MaxData) /\ binding[b].got \in 0 .. MaxData
      /\ UpTo(binding[b], n - 1) /\ Ordered(binding[b])
      /\ binding[b].state \notin {"queued", "held"}
  <2>1. /\ UpTo(binding[b], wsk[b].indicated) /\ Ordered(binding[b])
        /\ binding[b].state \notin {"queued", "held"}
    BY <1>1, <1>3, Zenon DEF Sound, Untouched
  <2>2. binding[b].recv \in Seq(1 .. MaxData) /\ binding[b].got \in 0 .. MaxData
    BY <1>1 DEF BindingRecords
  <2>3. n - 1 = wsk[b].indicated
    BY <1>2
  <2>4. QED
    BY <2>1, <2>2, <2>3
<1>9. CASE binding' = binding
  <2>1. UpTo(binding[b], n)
    <3>1. /\ binding[b].got \in Nat /\ n \in Nat
          /\ \A i \in 1 .. Len(binding[b].recv) : binding[b].recv[i] \in Nat
      BY <1>1, <1>2, DataAreNumbers
    <3>2. QED
      BY <1>8, <3>1 DEF UpTo
  <2>2. Sound(binding[b], v)
    BY <1>1, <1>3, <1>6, <1>8, <2>1 DEF Sound, Listed
  <2>3. Take(b, [ok |-> TRUE, r |-> binding[b], w |-> v])
    BY <1>1, <1>7, <1>9, Zenon DEF Indicated, Take
  <2>4. QED
    BY <1>1, <1>5, <2>2, <2>3, TakeStep, Zenon
<1>10. CASE binding' = QueueRecvData(b, n)
  <2>1. PICK q : q = [binding[b] EXCEPT !.recv = Append(@, n), !.recvEvent = TRUE]
    OBVIOUS
  <2>2. q \in BindingRecords
    BY <1>1, <1>2, <2>1, AddDatum, Zenon
  <2>3. /\ q.state = binding[b].state /\ q.type = binding[b].type /\ q.accept = binding[b].accept
        /\ q.sends = binding[b].sends /\ q.got = binding[b].got /\ q.recv = Append(binding[b].recv, n)
    BY <1>1, <2>1 DEF BindingRecords
  <2>4. Ordered(q) /\ UpTo(q, n)
    <3>1. PICK old : old = binding[b].recv
      OBVIOUS
    <3>2. /\ old \in Seq(Nat) /\ binding[b].got \in Nat /\ n \in Nat
          /\ \A i \in 1 .. Len(old) : old[i] \in Nat
      BY <1>1, <1>2, <3>1, DataAreNumbers
    <3>3. /\ Len(q.recv) = Len(old) + 1 /\ q.recv[Len(old) + 1] = n
          /\ \A i \in 1 .. Len(old) : q.recv[i] = old[i]
      BY <2>3, <3>1, <3>2
    <3>4. binding[b].got < n /\ \A i \in 1 .. Len(old) : old[i] < n
      <4>1. binding[b].got <= n - 1 /\ \A i \in 1 .. Len(old) : old[i] <= n - 1
        BY <1>8, <3>1 DEF UpTo
      <4>2. QED
        BY <3>2, <4>1
    <3>5. \A i \in 1 .. Len(q.recv) : i \in 1 .. Len(old) \/ i = Len(old) + 1
      BY <3>2, <3>3
    <3>6. \A i \in 1 .. Len(old) : binding[b].got < old[i]
      BY <1>8, <3>1 DEF Ordered
    <3>7. \A i, j \in 1 .. Len(old) : i < j => old[i] < old[j]
      BY <1>8, <3>1 DEF Ordered
    <3>8. ASSUME NEW i \in 1 .. Len(q.recv)
          PROVE  q.got < q.recv[i] /\ q.recv[i] <= n
      <4>1. CASE i \in 1 .. Len(old)
        <5>1. /\ q.got < old[i] /\ old[i] < n /\ old[i] \in Nat /\ q.recv[i] = old[i]
          BY <2>3, <3>2, <3>3, <3>4, <3>6, <4>1, Zenon
        <5>2. QED
          BY <3>2, <5>1
      <4>2. CASE i = Len(old) + 1
        <5>1. q.got < n /\ q.recv[i] = n
          BY <2>3, <3>3, <3>4, <4>2, Zenon
        <5>2. QED
          BY <3>2, <5>1
      <4>3. QED
        BY <3>5, <4>1, <4>2, Zenon
    <3>9. ASSUME NEW i \in 1 .. Len(q.recv), NEW j \in 1 .. Len(q.recv), i < j
          PROVE  q.recv[i] < q.recv[j]
      <4>1. i \in 1 .. Len(old)
        BY <3>2, <3>3, <3>9
      <4>2. QED
        BY <3>2, <3>3, <3>4, <3>5, <3>7, <3>9, <4>1
    <3>10. q.got <= n
      BY <2>3, <3>2, <3>4
    <3>11. QED
      BY <3>8, <3>9, <3>10 DEF Ordered, UpTo
  <2>5. Sound(q, v)
    BY <1>1, <1>3, <1>6, <1>8, <2>3, <2>4 DEF Sound, Listed
  <2>6. Take(b, [ok |-> TRUE, r |-> q, w |-> v])
    BY <1>1, <1>7, <1>10, <2>1, Zenon DEF Indicated, Take, QueueRecvData, IInv, TypeOK
  <2>7. QED
    BY <1>5, <2>2, <2>3, <2>5, <2>6, TakeStep, Zenon
<1>11. QED
  BY <1>9, <1>10 DEF Indicated

\* The callback that hands a connection over returns.
LEMMA AcceptEventReturnsStep ==
    ASSUME IInv, NEW b \in Bindings, AcceptEventReturns(b)
    PROVE  IInv'
<1>1. /\ binding[b] \in BindingRecords /\ wsk[b] \in SocketRecords /\ Sound(binding[b], wsk[b])
      /\ binding = [binding EXCEPT ![b] = binding[b]]
  BY OfBinding
<1>2. PICK v : v = [wsk[b] EXCEPT !.accepting = NoBinding]
  BY Zenon
<1>3. /\ v \in SocketRecords
      /\ v.state = wsk[b].state /\ v.callbacks = wsk[b].callbacks
      /\ v.indicated = wsk[b].indicated /\ v.sending = wsk[b].sending
      /\ v.life = wsk[b].life
  BY <1>1, <1>2 DEF SocketRecords
<1>4. Sound(binding[b], v)
  BY <1>1, <1>3 DEF Sound, Listed, Untouched
<1>5. Take(b, [ok |-> TRUE, r |-> binding[b], w |-> v])
  BY <1>1, <1>2 DEF AcceptEventReturns, Take
<1>6. QED
  BY <1>1, <1>3, <1>4, <1>5, TakeStep, Zenon

\* A send that has completed leaves the list of the socket that is closed.
LEMMA CloseSendStep ==
    ASSUME IInv, NEW t \in Threads, CloseSend(t)
    PROVE  IInv'
<1> DEFINE b == work[t].b
<1>1. b \in Bindings
  BY DEF CloseSend, IInv, TypeOK, CallRecords, ThreadInv, Used
<1> HIDE DEF b
<1>2. /\ binding[b] \in BindingRecords /\ wsk[b] \in SocketRecords /\ Sound(binding[b], wsk[b])
      /\ wsk = [wsk EXCEPT ![b] = wsk[b]]
  BY <1>1, OfBinding
<1>3. PICK q : q = [binding[b] EXCEPT !.sends = Tail(@)]
  BY Zenon
<1>4. /\ binding[b].sends \in Seq(1 .. MaxSends) /\ binding[b].sends # <<>>
      /\ Head(binding[b].sends) \notin wsk[b].sending
  BY <1>2 DEF CloseSend, b, BindingRecords
<1>5. /\ q \in BindingRecords
      /\ q.state = binding[b].state /\ q.type = binding[b].type /\ q.accept = binding[b].accept
      /\ q.recv = binding[b].recv /\ q.got = binding[b].got /\ q.sends = Tail(binding[b].sends)
  <2>1. q \in BindingRecords
    BY <1>2, <1>3, <1>4, DropSend, Zenon
  <2>2. QED
    BY <1>2, <1>3, <2>1 DEF BindingRecords
<1>6. Listed(q, wsk[b])
  <2>1. ASSUME NEW n \in wsk[b].sending
        PROVE  \E i \in 1 .. Len(q.sends) : q.sends[i] = n
    <3>1. PICK i \in 1 .. Len(binding[b].sends) : binding[b].sends[i] = n
      BY <1>2 DEF Sound, Listed
    <3>2. i # 1
      BY <1>4, <3>1
    <3>3. i - 1 \in 1 .. Len(q.sends) /\ q.sends[i - 1] = n
      BY <1>4, <1>5, <3>1, <3>2
    <3>4. QED
      BY <3>3
  <2>2. QED
    BY <2>1 DEF Listed
<1>7. binding[b].state = "closing"
  BY DEF CloseSend, b, IInv, ThreadInv, Used
<1>8. Sound(q, wsk[b])
  BY <1>2, <1>5, <1>6, <1>7 DEF Sound, Ordered, UpTo
<1>9. Take(b, [ok |-> TRUE, r |-> q, w |-> wsk[b]])
  BY <1>2, <1>3, Zenon DEF CloseSend, Take, b
<1>10. QED
  BY <1>1, <1>2, <1>5, <1>8, <1>9, TakeStep, Zenon

\* A step of a thread that changes no binding and no socket.
LEMMA WorkStep ==
    ASSUME IInv, binding' = binding, wsk' = wsk, lastError' \in {"success", "failure"},
           NEW t \in Threads, NEW c \in CallRecords, Used(c), work' = [work EXCEPT ![t] = c],
           \/ c.b = work[t].b /\ (c.pc \in Alone <=> work[t].pc \in Alone)
           \/ c.pc \notin Alone /\ work[t].pc \notin Alone
    PROVE  IInv'
<1>1. SameStates /\ SameQueues /\ SameQueued
  BY DEF SameStates, SameQueues, SameQueued
<1>2. QueueInv'
  BY <1>1, QueuesKept
<1>3. work' \in [Threads -> CallRecords] /\ ThreadInv'
  BY <1>1, CallChanges, Zenon
<1>4. LocalInv'
  BY DEF IInv, LocalInv
<1>5. QED
  BY <1>2, <1>3, <1>4 DEF IInv, TypeOK

\* A thread with nothing to do.
LEMMA RestUsed == Rest \in CallRecords /\ Used(Rest) /\ Rest.pc \notin Alone
BY DEF Rest, CallRecords, Used, Alone

\* What the invariant says of the binding a thread uses.
LEMMA OfThread ==
    ASSUME IInv, NEW t \in Threads
    PROVE  /\ work[t] \in CallRecords /\ Used(work[t])
           /\ work[t].pc # "idle" => work[t].b \in Bindings
BY DEF IInv, TypeOK, ThreadInv, Used, CallRecords

\* A thread waits for an event of an open socket.
LEMMA WaitStep ==
    ASSUME IInv, NEW t \in Threads, NEW b \in Bindings, binding[b].state = "open",
           work[t].pc = "idle", NEW pc \in {"receiving", "accepting"}, Wait(t, pc, b), wsk' = wsk
    PROVE  IInv'
<1>1. PICK c : c = [pc |-> pc, b |-> b, timer |-> IF binding[b].timed THEN "set" ELSE "none"]
  BY Zenon
<1>2. c \in CallRecords /\ c.pc \notin Alone /\ work[t].pc \notin Alone
  BY <1>1 DEF CallRecords, Alone
<1>3. Used(c)
  BY <1>1, NoBindingAssumption DEF Used
<1>4. lastError' \in {"success", "failure"}
  BY DEF Wait, IInv, TypeOK
<1>5. QED
  BY <1>1, <1>2, <1>3, <1>4, WorkStep, Zenon DEF Wait

\* A wait returns.
LEMMA WakesStep ==
    ASSUME IInv, NEW t \in Threads, RecvWakes(t) \/ AcceptWakes(t)
    PROVE  IInv'
<1>1. PICK pc \in {"received", "accepted"}, timer \in {work[t].timer, "expired"} :
         work' = [work EXCEPT ![t].pc = pc, ![t].timer = timer]
  <2>1. work \in [Threads -> CallRecords]
    BY DEF IInv, TypeOK
  <2>2. PICK pc \in {"received", "accepted"} :
           \/ work' = [work EXCEPT ![t].pc = pc]
           \/ work' = [work EXCEPT ![t].pc = pc, ![t].timer = "expired"]
    BY DEF RecvWakes, AcceptWakes, Wakes
  <2>3. [work EXCEPT ![t].pc = pc] = [work EXCEPT ![t].pc = pc, ![t].timer = work[t].timer]
    BY <2>1, Zenon DEF CallRecords
  <2>4. QED
    BY <2>2, <2>3
<1>2. PICK c : c = [work[t] EXCEPT !.pc = pc, !.timer = timer]
  OBVIOUS
<1>3. work[t] \in CallRecords /\ Used(work[t]) /\ work[t].pc \in {"receiving", "accepting"}
  BY OfThread DEF RecvWakes, AcceptWakes
<1>4. c \in CallRecords /\ c.b = work[t].b /\ c.pc = pc
  BY <1>2, <1>3, Zenon DEF CallRecords
<1>5. Used(c) /\ c.pc \notin Alone /\ work[t].pc \notin Alone
  BY <1>3, <1>4 DEF Used, Alone
<1>6. work' = [work EXCEPT ![t] = c]
  BY <1>1, <1>2, Zenon DEF IInv, TypeOK
<1>7. /\ binding' = binding /\ wsk' = wsk /\ lastError' \in {"success", "failure"}
  BY DEF RecvWakes, AcceptWakes, Wakes, IInv, TypeOK
<1>8. QED
  BY <1>4, <1>5, <1>6, <1>7, WorkStep, Zenon

\* A thread takes the first datum of an open socket and returns.
LEMMA ReceiveFirstStep ==
    ASSUME IInv, NEW t \in Threads, NEW b \in Bindings, binding[b].state = "open",
           binding[b].recv # <<>>, work[t].pc \notin Alone, ReceiveFirst(t, b), wsk' = wsk
    PROVE  IInv'
<1>1. /\ binding[b] \in BindingRecords /\ wsk[b] \in SocketRecords /\ Sound(binding[b], wsk[b])
      /\ wsk = [wsk EXCEPT ![b] = wsk[b]]
  BY OfBinding
<1>2. PICK q : q = [binding[b] EXCEPT !.recv = Tail(@), !.got = Head(binding[b].recv)]
  OBVIOUS
<1>3. q \in BindingRecords
  BY <1>1, <1>2, DropDatum, Zenon
<1>4. /\ q.state = binding[b].state /\ q.type = binding[b].type /\ q.accept = binding[b].accept
      /\ q.sends = binding[b].sends
      /\ q.recv = Tail(binding[b].recv) /\ q.got = Head(binding[b].recv)
  BY <1>1, <1>2 DEF BindingRecords
<1>5. Ordered(q) /\ \A k \in Nat : UpTo(binding[b], k) => UpTo(q, k)
  <2>1. PICK old : old = binding[b].recv
    OBVIOUS
  <2>2. old \in Seq(Nat) /\ old # <<>> /\ \A i \in 1 .. Len(old) : old[i] \in Nat
    BY <1>1, <2>1, DataAreNumbers
  <2>3. /\ Len(q.recv) = Len(old) - 1 /\ q.got = old[1] /\ 1 \in 1 .. Len(old)
        /\ \A i \in 1 .. Len(q.recv) : q.recv[i] = old[i + 1] /\ i + 1 \in 1 .. Len(old)
    BY <1>4, <2>1, <2>2
  <2>4. \A i, j \in 1 .. Len(old) : i < j => old[i] < old[j]
    BY <1>1, <2>1 DEF Sound, Ordered
  <2>5. \A i \in 1 .. Len(q.recv) : q.got < q.recv[i]
    <3> SUFFICES ASSUME NEW i \in 1 .. Len(q.recv) PROVE q.got < q.recv[i]
      OBVIOUS
    <3>1. q.recv[i] = old[i + 1] /\ i + 1 \in 1 .. Len(old) /\ 1 < i + 1
      BY <2>3
    <3>2. QED
      BY <2>3, <2>4, <3>1
  <2>6. \A i, j \in 1 .. Len(q.recv) : i < j => q.recv[i] < q.recv[j]
    BY <2>2, <2>3, <2>4
  <2>7. \A k \in Nat : UpTo(binding[b], k) => UpTo(q, k)
    BY <2>1, <2>2, <2>3, Zenon DEF UpTo
  <2>8. QED
    BY <2>5, <2>6, <2>7 DEF Ordered
<1>6. Sound(q, wsk[b])
  <2>1. wsk[b].indicated \in Nat
    BY <1>1, BoundsAssumption DEF SocketRecords
  <2>2. QED
    BY <1>1, <1>4, <1>5, <2>1 DEF Sound, Listed
<1>7. binding' = [binding EXCEPT ![b] = q] /\ wsk' = [wsk EXCEPT ![b] = wsk[b]]
  BY <1>1, <1>2, Zenon DEF ReceiveFirst, RemoveRecvData
<1>8. /\ binding' \in [Bindings -> BindingRecords] /\ wsk' \in [Bindings -> SocketRecords]
      /\ LocalInv' /\ QueueInv' /\ SameStates
  BY <1>1, <1>3, <1>4, <1>6, <1>7, Quiet, Zenon
<1>9. work' \in [Threads -> CallRecords] /\ ThreadInv'
  BY <1>8, RestUsed, CallChanges, Zenon DEF ReceiveFirst, Returns
<1>10. lastError' \in {"success", "failure"}
  BY DEF ReceiveFirst, IInv, TypeOK
<1>11. QED
  BY <1>8, <1>9, <1>10 DEF IInv, TypeOK

\* FnSockRecv and FnSockRecvMsg.
LEMMA RecvMsgStep ==
    ASSUME IInv, NEW t \in Threads, NEW b \in Bindings, FnSockRecvMsg(t, b)
    PROVE  IInv'
<1>1. CASE binding[b].recv # <<>>
  BY <1>1, ReceiveFirstStep DEF FnSockRecvMsg, Alone
<1>2. CASE binding[b].recv = <<>>
  BY <1>2, WaitStep DEF FnSockRecvMsg
<1>3. QED
  BY <1>1, <1>2

\* A thread returns without having changed anything but the last error.
LEMMA ReturnsStep ==
    ASSUME IInv, NEW t \in Threads, work[t].pc \notin Alone, Returns(t),
           binding' = binding, wsk' = wsk, lastError' = "failure"
    PROVE  IInv'
BY RestUsed, WorkStep, Zenon DEF Returns

\* FnSockRecv goes on after it waited, or gives up.
LEMMA RecvRetryStep ==
    ASSUME IInv, NEW t \in Threads, RecvRetry(t)
    PROVE  IInv'
<1>1. /\ work[t].b \in Bindings /\ work[t].pc = "received" /\ work[t].pc \notin Alone
      /\ binding[work[t].b].state = "open"
  BY OfThread DEF RecvRetry, Used, Alone
<1>2. CASE binding[work[t].b].recv # <<>>
  BY <1>1, <1>2, ReceiveFirstStep DEF RecvRetry
<1>3. CASE binding[work[t].b].recv = <<>>
  BY <1>1, <1>3, ReturnsStep DEF RecvRetry
<1>4. QED
  BY <1>2, <1>3

\* WskCloseSocketSync returns.
LEMMA Flushes ==
    ASSUME IInv, NEW t \in Threads, work[t].pc = "closing", NEW b \in Bindings, b = work[t].b,
           NEW v \in SocketRecords, Sound(binding[b], v), binding' = binding,
           wsk' = [wsk EXCEPT ![b] = v], work' = [work EXCEPT ![t].pc = "flushing"],
           lastError' = lastError
    PROVE  IInv'
<1>1. /\ binding[b] \in BindingRecords /\ binding = [binding EXCEPT ![b] = binding[b]]
  BY OfBinding
<1>2. binding[b].state = "closing"
  BY OfThread DEF Used
<1>3. binding' = [binding EXCEPT ![b] = binding[b]]
  BY <1>1
<1>4. /\ binding' \in [Bindings -> BindingRecords] /\ wsk' \in [Bindings -> SocketRecords]
      /\ LocalInv' /\ QueueInv' /\ SameStates
  BY <1>1, <1>3, Quiet, Zenon
<1>5. PICK c : c = [work[t] EXCEPT !.pc = "flushing"]
  BY Zenon
<1>6. c \in CallRecords /\ c.pc = "flushing" /\ c.b = work[t].b
  BY <1>5, OfThread DEF CallRecords
<1>7. Used(c) /\ c.pc \in Alone /\ work[t].pc \in Alone
  BY <1>2, <1>6, NoBindingAssumption DEF Used, Alone
<1>8. work' = [work EXCEPT ![t] = c]
  BY <1>5
<1>9. work' \in [Threads -> CallRecords] /\ ThreadInv'
  BY <1>4, <1>6, <1>7, <1>8, CallChanges, Zenon
<1>10. lastError' \in {"success", "failure"}
  BY DEF IInv, TypeOK
<1>11. QED
  BY <1>4, <1>9, <1>10 DEF IInv, TypeOK

\* The provider has closed the socket, or keeps it: no send is in progress any more.
LEMMA CloseSocketStep ==
    ASSUME IInv, NEW t \in Threads, CloseSocket(t) \/ CloseSocketFails(t)
    PROVE  IInv'
<1>1. PICK b \in Bindings : b = work[t].b
  BY OfThread DEF CloseSocket, CloseSocketFails
<1>2. binding[b] \in BindingRecords /\ wsk[b] \in SocketRecords /\ Sound(binding[b], wsk[b])
  BY OfBinding
<1>3. binding[b].state = "closing" /\ binding[b].sends = <<>> /\ work[t].pc = "closing"
  BY <1>1, OfThread DEF CloseSocket, CloseSocketFails, SendsAwaited, Used
<1>4. wsk[b].sending = {}
  BY <1>2, <1>3 DEF Sound, Listed
<1>5. CASE CloseSocket(t)
  <2>1. PICK v : v = [NoSocket EXCEPT !.state = "closed", !.sending = wsk[b].sending]
    OBVIOUS
  <2>2. /\ v \in SocketRecords
        /\ v.state = "closed" /\ v.callbacks = {} /\ v.sending = {} /\ v.life = "kept"
    <3>1. v = [state |-> "closed", callbacks |-> {}, sent |-> 0, sending |-> {},
               indicated |-> 0, accepting |-> NoBinding, life |-> "kept"]
      BY <1>4, <2>1, Zenon DEF NoSocket
    <3>2. 0 \in 0 .. MaxData /\ 0 \in 0 .. MaxSends
      BY BoundsAssumption
    <3>3. QED
      BY <3>1, <3>2 DEF SocketRecords
  <2>3. Sound(binding[b], v)
    BY <1>2, <1>3, <2>2 DEF Sound, Listed, Gone
  <2>4. /\ wsk' = [wsk EXCEPT ![b] = v] /\ binding' = binding /\ lastError' = lastError
        /\ work' = [work EXCEPT ![t].pc = "flushing"]
    BY <1>1, <1>5, <2>1 DEF CloseSocket
  <2>5. QED
    BY <1>1, <1>3, <2>2, <2>3, <2>4, Flushes
<1>6. CASE CloseSocketFails(t)
  <2>1. PICK v : v = [wsk[b] EXCEPT !.life = "abandoned"]
    BY Zenon
  <2>2. /\ v \in SocketRecords /\ v.life = "abandoned" /\ v.state = wsk[b].state
        /\ v.callbacks = wsk[b].callbacks /\ v.sending = wsk[b].sending
        /\ v.indicated = wsk[b].indicated
    BY <1>2, <2>1 DEF SocketRecords
  <2>3. Sound(binding[b], v)
    BY <1>2, <1>3, <1>4, <2>2 DEF Sound, Listed, Lost
  <2>4. /\ wsk' = [wsk EXCEPT ![b] = v] /\ binding' = binding /\ lastError' = lastError
        /\ work' = [work EXCEPT ![t].pc = "flushing"]
    BY <1>1, <1>6, <2>1 DEF CloseSocketFails
  <2>5. QED
    BY <1>1, <1>3, <2>2, <2>3, <2>4, Flushes
<1>7. QED
  BY <1>5, <1>6

-----------------------------------------------------------------------------
(* Steps that change the state of a binding.                               *)

\* Nobody uses a binding that is free or queued, and nobody else one that is being
\* accepted or closed.
LEMMA Unused ==
    ASSUME IInv, NEW n \in Bindings, binding[n].state \in {"free", "queued"}
    PROVE  \A u \in Threads : work[u].b # n
<1>1. ASSUME NEW u \in Threads PROVE work[u].b # n
  <2>1. work[u] \in CallRecords /\ Used(work[u])
    BY OfThread
  <2>2. QED
    BY <2>1, NoBindingAssumption DEF Used, CallRecords
<1>2. QED
  BY <1>1

\* A thread that accepts or closes a binding is the only one to use it.
LEMMA UsedAlone ==
    ASSUME IInv, NEW t \in Threads, work[t].pc \in Alone
    PROVE  \A u \in Threads : u # t => work[u].b # work[t].b
BY DEF IInv, ThreadInv

\* The state of one binding changes and nobody uses it.
LEMMA StateChanges ==
    ASSUME IInv, NEW n \in Bindings, \A u \in Threads : work[u].b # n, work' = work,
           \A m \in Bindings : m # n => binding'[m].state = binding[m].state,
           binding'[n].state \notin {"held", "closing"}
    PROVE  ThreadInv'
<1>1. ASSUME NEW t \in Threads PROVE Used(work[t])'
  <2>1. Used(work[t]) /\ (work[t].pc # "idle" => work[t].b \in Bindings)
    BY OfThread
  <2>2. QED
    BY <2>1 DEF Used
<1>2. QED
  BY <1>1 DEF IInv, ThreadInv

\* The state of one binding changes, and the call of the only thread that uses it.
LEMMA OwnerChanges ==
    ASSUME IInv, NEW n \in Bindings, NEW t \in Threads, NEW c \in CallRecords,
           \A u \in Threads : u # t => work[u].b # n,
           work[t].pc \notin Alone \/ work[t].b = n,
           work' = [work EXCEPT ![t] = c], Used(c)', c.b = n \/ c = Rest,
           \A m \in Bindings : m # n => binding'[m].state = binding[m].state,
           binding'[n].state \in {"held", "closing"} => c.b = n
    PROVE  work' \in [Threads -> CallRecords] /\ ThreadInv'
<1>1. work' \in [Threads -> CallRecords] /\ work'[t] = c
  BY DEF IInv, TypeOK
<1>2. \A u \in Threads : u # t => work'[u] = work[u]
  BY DEF IInv, TypeOK
<1>3. ASSUME NEW u \in Threads
      PROVE  /\ work[u] \in CallRecords /\ Used(work[u])
             /\ work[u].pc # "idle" => work[u].b \in Bindings
  BY OfThread
<1>4. ASSUME NEW u \in Threads PROVE Used(work[u])'
  <2>1. CASE u = t
    BY <1>1, <2>1 DEF Used
  <2>2. CASE u # t
    BY <1>2, <1>3, <2>2, Zenon DEF Used
  <2>3. QED
    BY <2>1, <2>2
<1>5. ASSUME NEW u \in Threads, NEW v \in Threads,
             work'[u].pc \in Alone, work'[v].b = work'[u].b
      PROVE  u = v
  <2>1. \A x, y \in Threads : work[x].pc \in Alone /\ work[y].b = work[x].b => x = y
    BY DEF IInv, ThreadInv
  <2>2. CASE c.b = n
    BY <1>1, <1>2, <1>5, <2>1, <2>2
  <2>3. CASE c = Rest
    <3>1. u # t /\ work[u].pc # "idle"
      BY <1>1, <1>2, <1>5, <2>3 DEF Rest, Alone
    <3>2. work[u].b # NoBinding
      BY <1>3, <3>1, NoBindingAssumption
    <3>3. QED
      BY <1>1, <1>2, <1>5, <2>1, <2>3, <3>1, <3>2 DEF Rest
  <2>4. QED
    BY <2>2, <2>3
<1>6. ASSUME NEW m \in Bindings, binding'[m].state \in {"held", "closing"}
      PROVE  \E u \in Threads : work'[u].b = m
  <2>1. CASE m = n
    BY <1>1, <1>6, <2>1
  <2>2. CASE m # n
    <3>1. PICK u \in Threads : work[u].b = m
      BY <1>6, <2>2 DEF IInv, ThreadInv
    <3>2. work[u].pc \in Alone
      BY <1>3, <1>6, <2>2, <3>1, NoBindingAssumption DEF Used, Alone, CallRecords
    <3>3. u # t
      BY <2>2, <3>1, <3>2
    <3>4. QED
      BY <1>2, <3>1, <3>3
  <2>3. QED
    BY <2>1, <2>2
<1>7. QED
  BY <1>1, <1>4, <1>5, <1>6 DEF ThreadInv

\* A step that gives two bindings and their sockets new records.
Both(n, p, v, l, q, w) ==
    /\ binding' = [binding EXCEPT ![n] = p, ![l] = q]
    /\ wsk' = [wsk EXCEPT ![n] = v, ![l] = w]

\* Two bindings change.
LEMMA TwoBindings ==
    ASSUME IInv, NEW n \in Bindings, NEW l \in Bindings, n # l,
           NEW p \in BindingRecords, NEW v \in SocketRecords, Sound(p, v),
           NEW q \in BindingRecords, NEW w \in SocketRecords, Sound(q, w),
           Both(n, p, v, l, q, w)
    PROVE  /\ binding' \in [Bindings -> BindingRecords]
           /\ wsk' \in [Bindings -> SocketRecords]
           /\ LocalInv'
           /\ binding'[n] = p /\ binding'[l] = q
           /\ \A b \in Bindings \ {n, l} : binding'[b] = binding[b]
<1>1. binding' \in [Bindings -> BindingRecords] /\ wsk' \in [Bindings -> SocketRecords]
  BY DEF Both, IInv, TypeOK
<1>2. binding'[n] = p /\ binding'[l] = q /\ wsk'[n] = v /\ wsk'[l] = w
  BY DEF Both, IInv, TypeOK
<1>3. \A b \in Bindings \ {n, l} : binding'[b] = binding[b] /\ wsk'[b] = wsk[b]
  BY DEF Both, IInv, TypeOK
<1>4. ASSUME NEW b \in Bindings PROVE Sound(binding'[b], wsk'[b])
  <2>1. CASE b \in {n, l}
    BY <1>2, <2>1
  <2>2. CASE b \notin {n, l}
    <3>1. Sound(binding[b], wsk[b])
      BY DEF IInv, LocalInv
    <3>2. QED
      BY <1>3, <2>2, <3>1, Zenon
  <2>3. QED
    BY <2>1, <2>2
<1>5. QED
  BY <1>1, <1>2, <1>3, <1>4 DEF LocalInv

\* The connections in the queues.
LEMMA InQueue ==
    ASSUME IInv, NEW l \in Bindings
    PROVE  /\ binding[l].accept \in Seq(Bindings)
           /\ \A i \in 1 .. Len(binding[l].accept) : binding[l].accept[i] \in Bindings
<1>1. binding[l].accept \in Seq(Bindings)
  BY DEF IInv, TypeOK, BindingRecords
<1>2. QED
  BY <1>1

\* A connection joins the queue of a listener.
LEMMA Enqueue ==
    ASSUME IInv, NEW n \in Bindings, NEW l \in Bindings, n # l,
           binding[n].state # "queued", binding'[n].state = "queued",
           \A b \in Bindings : b # n => binding'[b].state = binding[b].state,
           \A b \in Bindings : b # l => binding'[b].accept = binding[b].accept,
           binding'[l].accept = Append(binding[l].accept, n)
    PROVE  QueueInv'
<1> DEFINE old == binding[l].accept
           new == binding'[l].accept
<1>1. /\ old \in Seq(Bindings) /\ Len(new) = Len(old) + 1 /\ new[Len(old) + 1] = n
      /\ \A i \in 1 .. Len(old) : new[i] = old[i]
      /\ \A i \in 1 .. Len(new) : i \in 1 .. Len(old) \/ i = Len(old) + 1
  BY InQueue
<1>2. ASSUME NEW m \in Bindings, NEW i \in 1 .. Len(binding[m].accept)
      PROVE  /\ binding[m].accept[i] \in Bindings
             /\ binding[binding[m].accept[i]].state = "queued"
             /\ binding[m].accept[i] # n
  <2>1. binding[m].accept[i] \in Bindings
    BY InQueue
  <2>2. binding[binding[m].accept[i]].state = "queued"
    BY DEF IInv, QueueInv
  <2>3. QED
    BY <2>1, <2>2
<1> HIDE DEF old, new
<1>3. ASSUME NEW m \in Bindings, NEW i \in 1 .. Len(binding'[m].accept)
      PROVE  \/ i \in 1 .. Len(binding[m].accept) /\ binding'[m].accept[i] = binding[m].accept[i]
             \/ m = l /\ i = Len(old) + 1 /\ binding'[m].accept[i] = n
  <2>1. CASE m = l
    BY <1>1, <2>1 DEF old, new
  <2>2. CASE m # l
    BY <2>2
  <2>3. QED
    BY <2>1, <2>2
<1>4. ASSUME NEW m \in Bindings, NEW i \in 1 .. Len(binding'[m].accept)
      PROVE  binding'[binding'[m].accept[i]].state = "queued"
  <2>1. CASE i \in 1 .. Len(binding[m].accept) /\ binding'[m].accept[i] = binding[m].accept[i]
    <3>1. PICK x \in Bindings : x = binding[m].accept[i] /\ x # n /\ binding[x].state = "queued"
      BY <1>2, <2>1
    <3>2. binding'[x].state = "queued"
      BY <3>1
    <3>3. QED
      BY <2>1, <3>1, <3>2
  <2>2. CASE binding'[m].accept[i] = n
    BY <2>2
  <2>3. QED
    BY <1>3, <2>1, <2>2
<1>5. ASSUME NEW k \in Bindings, NEW m \in Bindings,
             NEW i \in 1 .. Len(binding'[k].accept), NEW j \in 1 .. Len(binding'[m].accept),
             binding'[k].accept[i] = binding'[m].accept[j]
      PROVE  k = m /\ i = j
  <2>1. CASE binding'[k].accept[i] = n
    <3>1. k = l /\ i = Len(old) + 1
      <4>1. CASE i \in 1 .. Len(binding[k].accept) /\ binding'[k].accept[i] = binding[k].accept[i]
        BY <1>2, <2>1, <4>1
      <4>2. QED
        BY <1>3, <4>1
    <3>2. m = l /\ j = Len(old) + 1
      <4>1. CASE j \in 1 .. Len(binding[m].accept) /\ binding'[m].accept[j] = binding[m].accept[j]
        BY <1>2, <1>5, <2>1, <4>1, Zenon
      <4>2. QED
        BY <1>3, <4>1
    <3>3. QED
      BY <3>1, <3>2
  <2>2. CASE binding'[k].accept[i] # n
    <3>1. /\ i \in 1 .. Len(binding[k].accept) /\ j \in 1 .. Len(binding[m].accept)
          /\ binding[k].accept[i] = binding[m].accept[j]
      BY <1>3, <1>5, <2>2, Zenon
    <3>2. QED
      BY <3>1 DEF IInv, QueueInv
  <2>3. QED
    BY <2>1, <2>2
<1>6. ASSUME NEW m \in Bindings, binding'[m].state = "queued"
      PROVE  \E k \in Bindings : \E i \in 1 .. Len(binding'[k].accept) : binding'[k].accept[i] = m
  <2>1. CASE m = n
    <3>1. Len(old) + 1 \in 1 .. Len(new)
      BY <1>1
    <3>2. QED
      BY <1>1, <2>1, <3>1 DEF new
  <2>2. CASE m # n
    <3>1. PICK k \in Bindings : \E i \in 1 .. Len(binding[k].accept) : binding[k].accept[i] = m
      BY <1>6, <2>2 DEF IInv, QueueInv
    <3>2. PICK i \in 1 .. Len(binding[k].accept) : binding[k].accept[i] = m
      BY <3>1
    <3>3. i \in 1 .. Len(binding'[k].accept) /\ binding'[k].accept[i] = m
      <4>1. CASE k = l
        <5>1. i \in 1 .. Len(old) /\ old[i] = m /\ Len(old) \in Nat
          BY <1>1, <3>2, <4>1 DEF old
        <5>2. i \in 1 .. Len(new) /\ new[i] = m
          BY <1>1, <5>1
        <5>3. QED
          BY <4>1, <5>2 DEF new
      <4>2. CASE k # l
        BY <3>2, <4>2
      <4>3. QED
        BY <4>1, <4>2
    <3>4. QED
      BY <3>3
  <2>3. QED
    BY <2>1, <2>2
<1>7. QED
  BY <1>4, <1>5, <1>6 DEF QueueInv

\* The first connection leaves the queue of a listener.
LEMMA Dequeue ==
    ASSUME IInv, NEW l \in Bindings, binding[l].accept # <<>>,
           NEW n \in Bindings, n = Head(binding[l].accept), binding'[n].state # "queued",
           \A b \in Bindings : b # n => binding'[b].state = binding[b].state,
           \A b \in Bindings : b # l => binding'[b].accept = binding[b].accept,
           binding'[l].accept = Tail(binding[l].accept)
    PROVE  QueueInv'
<1> DEFINE old == binding[l].accept
           new == binding'[l].accept
<1>1. /\ old \in Seq(Bindings) /\ Len(new) = Len(old) - 1 /\ old[1] = n /\ 1 \in 1 .. Len(old)
      /\ \A i \in 1 .. Len(new) : new[i] = old[i + 1] /\ i + 1 \in 1 .. Len(old)
      /\ \A i \in 1 .. Len(old) : i # 1 => i - 1 \in 1 .. Len(new) /\ new[i - 1] = old[i]
  BY InQueue
<1>2. \A k, m \in Bindings :
         \A i \in 1 .. Len(binding[k].accept), j \in 1 .. Len(binding[m].accept) :
             binding[k].accept[i] = binding[m].accept[j] => k = m /\ i = j
  BY DEF IInv, QueueInv
<1>3. \A m \in Bindings : \A i \in 1 .. Len(binding[m].accept) :
         /\ binding[m].accept[i] \in Bindings
         /\ binding[binding[m].accept[i]].state = "queued"
  <2>1. \A m \in Bindings : \A i \in 1 .. Len(binding[m].accept) :
           binding[binding[m].accept[i]].state = "queued"
    BY DEF IInv, QueueInv
  <2>2. QED
    BY <2>1, InQueue
<1> HIDE DEF old, new
<1>4. ASSUME NEW m \in Bindings, NEW i \in 1 .. Len(binding'[m].accept)
      PROVE  \E j \in 1 .. Len(binding[m].accept) :
                /\ binding'[m].accept[i] = binding[m].accept[j]
                /\ j = IF m = l THEN i + 1 ELSE i
  <2>1. CASE m = l
    BY <1>1, <2>1, Zenon DEF old, new
  <2>2. CASE m # l
    BY <2>2
  <2>3. QED
    BY <2>1, <2>2
<1>5. ASSUME NEW m \in Bindings, NEW i \in 1 .. Len(binding'[m].accept)
      PROVE  binding'[binding'[m].accept[i]].state = "queued"
  <2>1. PICK j \in 1 .. Len(binding[m].accept) :
           /\ binding'[m].accept[i] = binding[m].accept[j]
           /\ j = IF m = l THEN i + 1 ELSE i
    BY <1>4
  <2>2. binding[m].accept[j] # n
    <3>1. CASE binding[m].accept[j] = n
      <4>1. m = l /\ j = 1
        BY <1>1, <1>2, <3>1 DEF old
      <4>2. QED
        BY <2>1, <4>1
    <3>2. QED
      BY <3>1
  <2>3. binding'[binding[m].accept[j]].state = "queued"
    BY <1>3, <2>2, Zenon
  <2>4. QED
    BY <2>1, <2>3, Zenon
<1>6. ASSUME NEW k \in Bindings, NEW m \in Bindings,
             NEW i \in 1 .. Len(binding'[k].accept), NEW j \in 1 .. Len(binding'[m].accept),
             binding'[k].accept[i] = binding'[m].accept[j]
      PROVE  k = m /\ i = j
  <2>1. PICK x \in 1 .. Len(binding[k].accept) :
           /\ binding'[k].accept[i] = binding[k].accept[x]
           /\ x = IF k = l THEN i + 1 ELSE i
    BY <1>4
  <2>2. PICK y \in 1 .. Len(binding[m].accept) :
           /\ binding'[m].accept[j] = binding[m].accept[y]
           /\ y = IF m = l THEN j + 1 ELSE j
    BY <1>4, Zenon
  <2>3. binding[k].accept[x] = binding[m].accept[y]
    BY <1>6, <2>1, <2>2, Zenon
  <2>4. k = m /\ x = y
    <3>1. \A a \in 1 .. Len(binding[k].accept), b \in 1 .. Len(binding[m].accept) :
             binding[k].accept[a] = binding[m].accept[b] => k = m /\ a = b
      BY <1>2, Zenon
    <3>2. QED
      BY <2>3, <3>1
  <2>5. QED
    BY <2>1, <2>2, <2>4
<1>7. ASSUME NEW m \in Bindings, binding'[m].state = "queued"
      PROVE  \E k \in Bindings : \E i \in 1 .. Len(binding'[k].accept) : binding'[k].accept[i] = m
  <2>1. m # n /\ binding[m].state = "queued"
    BY <1>7
  <2>2. PICK k \in Bindings : \E i \in 1 .. Len(binding[k].accept) : binding[k].accept[i] = m
    BY <2>1 DEF IInv, QueueInv
  <2>3. PICK i \in 1 .. Len(binding[k].accept) : binding[k].accept[i] = m
    BY <2>2
  <2>4. CASE k = l
    <3>1. i # 1
      BY <1>1, <2>1, <2>3, <2>4 DEF old
    <3>2. i - 1 \in 1 .. Len(new) /\ new[i - 1] = m
      BY <1>1, <2>3, <2>4, <3>1 DEF old
    <3>3. QED
      BY <3>2, Zenon DEF new
  <2>5. CASE k # l
    BY <2>3, <2>5
  <2>6. QED
    BY <2>4, <2>5
<1>8. QED
  BY <1>5, <1>6, <1>7 DEF QueueInv

-----------------------------------------------------------------------------
(* The steps that change the state of a binding.                           *)

\* A fresh binding is sound with a fresh socket.
LEMMA FreshSound ==
    ASSUME NEW p \in BindingRecords, NEW v \in SocketRecords,
           p.type # "none", p.sends = <<>>, p.recv = <<>>, p.accept = <<>>, p.got = 0,
           v.sending = {}, v.callbacks = {}, v.life \notin Lost,
           \/ p.state = "open" /\ v.state = "created"
           \/ p.state = "queued" /\ v.state = "connected"
    PROVE  Sound(p, v)
<1>1. Len(p.recv) = 0 /\ v.indicated \in Nat
  BY BoundsAssumption DEF SocketRecords
<1>2. Ordered(p) /\ UpTo(p, v.indicated) /\ Listed(p, v)
  BY <1>1 DEF Ordered, UpTo, Listed
<1>3. QED
  BY <1>2 DEF Sound, Gone, Untouched

\* What Sound says of the data depends on the sequences, and on what the provider
\* has sent and indicated.
LEMMA DataAlike ==
    ASSUME NEW r, NEW w, Sound(r, w), NEW q, NEW v,
           q.sends = r.sends, q.recv = r.recv, q.got = r.got,
           v.state = w.state, v.sending = w.sending, v.indicated = w.indicated
    PROVE  Listed(q, v) /\ Ordered(q) /\ (v.state \notin Gone => UpTo(q, v.indicated))
<1>1. Listed(q, v)
  BY DEF Sound, Listed
<1>2. Ordered(q)
  BY DEF Sound, Ordered
<1>3. v.state \notin Gone => UpTo(q, v.indicated)
  BY DEF Sound, UpTo
<1>4. QED
  BY <1>1, <1>2, <1>3

\* The first connection in a queue is queued.
LEMMA FirstQueued ==
    ASSUME IInv, NEW l \in Bindings, binding[l].accept # <<>>
    PROVE  \E n \in Bindings : n = Head(binding[l].accept) /\ binding[n].state = "queued"
<1>1. PICK s \in Seq(Bindings) : s = binding[l].accept
  BY InQueue
<1>2. 1 \in 1 .. Len(s) /\ Head(s) = s[1] /\ s[1] \in Bindings
  BY <1>1
<1>3. binding[s[1]].state = "queued"
  BY <1>1, <1>2 DEF IInv, QueueInv
<1>4. QED
  BY <1>1, <1>2, <1>3

\* A freed binding is sound with no socket, and with one that was abandoned.
LEMMA FreedSound ==
    ASSUME NEW v \in SocketRecords, v.sending = {}, v.state \in Gone => v.callbacks = {},
           v.state = "none" \/ v.life \in Lost
    PROVE  Sound(Free, v)
<1>1. Free.state = "free" /\ Free.accept = <<>> /\ Free.recv = <<>> /\ Free.got = 0
  BY DEF Free
<1>2. Len(Free.recv) = 0 /\ v.indicated \in Nat
  BY <1>1, BoundsAssumption DEF SocketRecords
<1>3. Ordered(Free) /\ Listed(Free, v) /\ UpTo(Free, v.indicated)
  BY <1>1, <1>2 DEF Ordered, Listed, UpTo
<1>4. QED
  BY <1>1, <1>3 DEF Sound

\* The first of these.
LEMMA FreeSound == Sound(Free, NoSocket)
<1>1. NoSocket.state = "none" /\ NoSocket.callbacks = {} /\ NoSocket.sending = {}
  BY DEF NoSocket
<1>2. QED
  BY <1>1, FreshRecords, FreedSound

\* Nothing is left of the state when the system stops.
LEMMA FaultStep ==
    ASSUME IInv, Fault
    PROVE  IInv'
<1>1. PICK v : v = [NoSocket EXCEPT !.life = "fault"]
  BY Zenon
<1>2. v \in SocketRecords /\ v.state = "none" /\ v.callbacks = {} /\ v.sending = {}
  <2>1. NoSocket.state = "none" /\ NoSocket.callbacks = {} /\ NoSocket.sending = {}
    BY DEF NoSocket
  <2>2. QED
    BY <1>1, <2>1, FreshRecords DEF SocketRecords
<1>3. Sound(Free, v)
  BY <1>2, FreedSound
<1>4. /\ binding' = [b \in Bindings |-> Free] /\ wsk' = [b \in Bindings |-> v]
      /\ work' = [t \in Threads |-> Rest] /\ lastError' \in {"success", "failure"}
  BY <1>1 DEF Fault, IInv, TypeOK
<1>5. TypeOK' /\ LocalInv'
  BY <1>2, <1>3, <1>4, FreshRecords, RestUsed DEF TypeOK, LocalInv
<1>6. \A b \in Bindings : binding'[b].accept = <<>> /\ binding'[b].state = "free"
  BY <1>4 DEF Free
<1>7. QueueInv'
  BY <1>6 DEF QueueInv
<1>8. ThreadInv'
  <2>1. \A t \in Threads : work'[t] = Rest
    BY <1>4
  <2>2. Rest.pc = "idle" /\ Rest.b = NoBinding
    BY DEF Rest
  <2>3. QED
    BY <1>6, <2>1, <2>2 DEF ThreadInv, Used, Alone
<1>9. QED
  BY <1>5, <1>7, <1>8 DEF IInv

\* FnSockCreate.
LEMMA CreateStep ==
    ASSUME IInv, NEW b \in Bindings, NEW type \in {"datagram", "stream"}, FnSockCreate(b, type)
    PROVE  IInv'
<1>2. CASE /\ binding' = [binding EXCEPT ![b] = InitializeBinding("open", type)]
           /\ wsk' = [wsk EXCEPT ![b] = [NoSocket EXCEPT !.state = "created"]]
           /\ UNCHANGED <<work, lastError>>
  <2>1. PICK p : p = InitializeBinding("open", type)
    OBVIOUS
  <2>2. PICK v : v = [NoSocket EXCEPT !.state = "created"]
    BY Zenon
  <2>3. /\ p \in BindingRecords /\ p.state = "open" /\ p.type # "none" /\ p.sends = <<>>
        /\ p.recv = <<>> /\ p.accept = <<>> /\ p.got = 0
    <3>1. Free.sends = <<>> /\ Free.recv = <<>> /\ Free.accept = <<>> /\ Free.got = 0
      BY DEF Free
    <3>2. QED
      BY <2>1, <3>1, FreshRecords, Zenon DEF InitializeBinding, BindingRecords
  <2>4. v \in SocketRecords /\ v.state = "created" /\ v.sending = {} /\ v.callbacks = {}
        /\ v.life \notin Lost
    <3>1. NoSocket.sending = {} /\ NoSocket.callbacks = {} /\ NoSocket.life = "kept"
      BY DEF NoSocket
    <3>2. QED
      BY <2>2, <3>1, FreshRecords DEF SocketRecords, Lost
  <2>5. binding[b].state = "free" /\ binding[b].accept = <<>>
    BY OfBinding DEF FnSockCreate, Sound
  <2>6. /\ binding' \in [Bindings -> BindingRecords] /\ wsk' \in [Bindings -> SocketRecords]
        /\ LocalInv'
    BY <1>2, <2>1, <2>2, <2>3, <2>4, FreshSound, OneBinding, Zenon
  <2>7. binding'[b] = p /\ \A c \in Bindings : c # b => binding'[c] = binding[c]
    BY <1>2, <2>1 DEF IInv, TypeOK
  <2>8. SameQueued /\ SameQueues
    BY <2>3, <2>5, <2>7 DEF SameQueued, SameQueues
  <2>9. QueueInv'
    BY <2>8, QueuesKept
  <2>10. ThreadInv'
    BY <1>2, <2>3, <2>5, <2>7, Unused, StateChanges
  <2>11. work' \in [Threads -> CallRecords] /\ lastError' \in {"success", "failure"}
    BY <1>2 DEF IInv, TypeOK
  <2>12. QED
    BY <2>6, <2>9, <2>10, <2>11 DEF IInv, TypeOK
<1>3. QED
  BY <1>2 DEF FnSockCreate

\* WSK indicates a connection on a listener.
LEMMA StreamSocketAcceptStep ==
    ASSUME IInv, NEW l \in Bindings, NEW n \in Connections, NEW isNull \in BOOLEAN,
           FnSockStreamSocketAccept(l, n, isNull)
    PROVE  IInv'
<1>1. n \in Bindings /\ binding[n].state = "free" /\ binding[n].accept = <<>>
  <2>1. n \in Bindings /\ binding[n].state = "free"
    BY DEF Bindings, FnSockStreamSocketAccept
  <2>2. QED
    BY <2>1, OfBinding DEF Sound
<1>2. /\ binding[l] \in BindingRecords /\ wsk[l] \in SocketRecords /\ Sound(binding[l], wsk[l])
  BY OfBinding
<1>3. wsk[l].callbacks # {} /\ binding[l].state \in {"open", "closing"} /\ n # l
  BY <1>1, <1>2 DEF FnSockStreamSocketAccept, Sound, Gone, Lost, Untouched, BindingRecords
<1>4. PICK p : p = [InitializeBinding("queued", "connection") EXCEPT !.isBound = TRUE]
  BY Zenon
<1>5. /\ p \in BindingRecords /\ p.state = "queued" /\ p.type # "none" /\ p.sends = <<>>
      /\ p.recv = <<>> /\ p.accept = <<>> /\ p.got = 0
  <2>1. Free.sends = <<>> /\ Free.recv = <<>> /\ Free.accept = <<>> /\ Free.got = 0
    BY DEF Free
  <2>2. QED
    BY <1>4, <2>1, FreshRecords, Zenon DEF InitializeBinding, BindingRecords
<1>6. PICK life \in {"kept", "null"} : life = IF isNull THEN "null" ELSE "kept"
  OBVIOUS
<1>24. PICK v : v = [NoSocket EXCEPT !.state = "connected", !.life = life]
  BY Zenon
<1>7. v \in SocketRecords /\ v.state = "connected" /\ v.sending = {} /\ v.callbacks = {}
      /\ v.life \notin Lost
  <2>1. NoSocket.sending = {} /\ NoSocket.callbacks = {}
    BY DEF NoSocket
  <2>2. QED
    BY <1>24, <2>1, FreshRecords DEF SocketRecords, Lost
<1>8. PICK s \in Seq(Bindings) : s = Append(binding[l].accept, n)
  BY <1>1, InQueue, AddTo, Zenon
<1>9. PICK q : q = [binding[l] EXCEPT !.accept = s, !.acceptEvent = TRUE]
  OBVIOUS
<1>10. /\ q \in BindingRecords /\ q.accept = s /\ q.state = binding[l].state
       /\ q.type = binding[l].type /\ q.sends = binding[l].sends /\ q.recv = binding[l].recv
       /\ q.got = binding[l].got
  BY <1>2, <1>9, Zenon DEF BindingRecords
<1>11. PICK w : w = [wsk[l] EXCEPT !.accepting = n]
  BY Zenon
<1>12. /\ w \in SocketRecords /\ w.state = wsk[l].state /\ w.callbacks = wsk[l].callbacks
       /\ w.indicated = wsk[l].indicated /\ w.sending = wsk[l].sending /\ w.life = wsk[l].life
  BY <1>1, <1>2, <1>11 DEF SocketRecords
<1>13. Sound(p, v)
  BY <1>5, <1>7, FreshSound
<1>14. Sound(q, w)
  <2>1. Listed(q, w) /\ Ordered(q) /\ (w.state \notin Gone => UpTo(q, w.indicated))
    BY <1>2, <1>10, <1>12, DataAlike, Zenon
  <2>2. QED
    BY <1>2, <1>3, <1>10, <1>12, <2>1, Zenon DEF Sound
<1>15. binding' = [binding EXCEPT ![n] = p, ![l] = q]
  BY <1>3, <1>4, <1>8, <1>9, Zenon DEF FnSockStreamSocketAccept, IInv, TypeOK
<1>16. wsk' = [wsk EXCEPT ![n] = v, ![l] = w]
  BY <1>3, <1>6, <1>11, <1>24, Zenon DEF FnSockStreamSocketAccept, IInv, TypeOK
<1>17. /\ binding' \in [Bindings -> BindingRecords] /\ wsk' \in [Bindings -> SocketRecords]
       /\ LocalInv' /\ binding'[n] = p /\ binding'[l] = q
       /\ \A b \in Bindings \ {n, l} : binding'[b] = binding[b]
  <2>1. Both(n, p, v, l, q, w)
    BY <1>15, <1>16, Zenon DEF Both
  <2>2. QED
    BY <1>1, <1>3, <1>5, <1>7, <1>10, <1>12, <1>13, <1>14, <2>1, TwoBindings
<1>18. \A b \in Bindings : b # n => binding'[b].state = binding[b].state
  BY <1>10, <1>17, Zenon
<1>19. \A b \in Bindings : b # l => binding'[b].accept = binding[b].accept
  BY <1>1, <1>5, <1>17
<1>20. QueueInv'
  <2>1. binding'[l].accept = Append(binding[l].accept, n) /\ binding'[n].state = "queued"
    BY <1>5, <1>8, <1>10, <1>17
  <2>2. QED
    BY <1>1, <1>3, <1>18, <1>19, <2>1, Enqueue
<1>21. work' = work /\ lastError' = lastError
  BY DEF FnSockStreamSocketAccept
<1>22. ThreadInv'
  BY <1>1, <1>5, <1>17, <1>18, <1>21, Unused, StateChanges
<1>23. QED
  BY <1>17, <1>20, <1>21, <1>22 DEF IInv, TypeOK

Kept == UNCHANGED <<wsk, lastError>>

\* A thread takes the first connection of a listener.
LEMMA AcceptFirstStep ==
    ASSUME IInv, NEW t \in Threads, work[t].pc \in {"idle", "accepted"}, NEW l \in Bindings,
           binding[l].state = "open", binding[l].accept # <<>>,
           AcceptFirst(t, l), Kept
    PROVE  IInv'
<1>1. PICK n \in Bindings : n = Head(binding[l].accept) /\ binding[n].state = "queued"
  BY FirstQueued
<1>2. /\ binding[l] \in BindingRecords /\ wsk[l] \in SocketRecords /\ Sound(binding[l], wsk[l])
      /\ binding[n] \in BindingRecords /\ wsk[n] \in SocketRecords /\ Sound(binding[n], wsk[n])
      /\ n # l
  BY <1>1, OfBinding
<1>3. PICK p : p = [binding[n] EXCEPT !.state = "held"]
  BY Zenon
<1>4. /\ p \in BindingRecords /\ p.state = "held" /\ p.accept = binding[n].accept
      /\ p.type = binding[n].type /\ p.sends = binding[n].sends /\ p.recv = binding[n].recv
      /\ p.got = binding[n].got
  BY <1>2, <1>3, Zenon DEF BindingRecords
<1>5. Sound(p, wsk[n])
  <2>1. Untouched(binding[n], wsk[n])
    BY <1>1, <1>2, Zenon DEF Sound
  <2>2. Untouched(p, wsk[n])
    BY <1>4, <2>1 DEF Untouched
  <2>3. Listed(p, wsk[n]) /\ Ordered(p) /\ (wsk[n].state \notin Gone => UpTo(p, wsk[n].indicated))
    BY <1>2, <1>4, DataAlike, Zenon
  <2>4. QED
    BY <1>1, <1>2, <1>4, <2>2, <2>3, Zenon DEF Sound
<1>6. PICK s \in Seq(Bindings) : s = Tail(binding[l].accept)
  BY InQueue, TakeFrom, Zenon
<1>7. PICK q : q = [binding[l] EXCEPT !.accept = s]
  BY Zenon
<1>8. /\ q \in BindingRecords /\ q.accept = s /\ q.state = binding[l].state
      /\ q.type = binding[l].type /\ q.sends = binding[l].sends /\ q.recv = binding[l].recv
      /\ q.got = binding[l].got
  BY <1>2, <1>7, Zenon DEF BindingRecords
<1>9. Sound(q, wsk[l])
  <2>1. Listed(q, wsk[l]) /\ Ordered(q) /\ (wsk[l].state \notin Gone => UpTo(q, wsk[l].indicated))
    BY <1>2, <1>8, DataAlike, Zenon
  <2>2. QED
    BY <1>2, <1>8, <2>1, Zenon DEF Sound
<1>10. binding' = [binding EXCEPT ![n] = p, ![l] = q]
  BY <1>1, <1>2, <1>3, <1>6, <1>7, Zenon DEF AcceptFirst, IInv, TypeOK
<1>11. PICK v \in SocketRecords, w \in SocketRecords :
          v = wsk[n] /\ w = wsk[l] /\ wsk' = [wsk EXCEPT ![n] = v, ![l] = w]
  <2>1. wsk' = [wsk EXCEPT ![n] = wsk[n], ![l] = wsk[l]]
    BY DEF Kept, IInv, TypeOK
  <2>2. QED
    BY <1>2, <2>1, Zenon
<1>12. /\ binding' \in [Bindings -> BindingRecords] /\ wsk' \in [Bindings -> SocketRecords]
       /\ LocalInv' /\ binding'[n] = p /\ binding'[l] = q
       /\ \A b \in Bindings \ {n, l} : binding'[b] = binding[b]
  <2>1. Sound(p, v) /\ Sound(q, w) /\ n # l
    BY <1>2, <1>5, <1>9, <1>11
  <2>2. p \in BindingRecords /\ q \in BindingRecords
    BY <1>4, <1>8
  <2>3. Both(n, p, v, l, q, w)
    BY <1>10, <1>11, Zenon DEF Both
  <2>4. QED
    BY <2>1, <2>2, <2>3, TwoBindings
<1>13. \A b \in Bindings : b # n => binding'[b].state = binding[b].state
  BY <1>8, <1>12, Zenon
<1>14. \A b \in Bindings : b # l => binding'[b].accept = binding[b].accept
  BY <1>4, <1>12
<1>15. QueueInv'
  <2>1. binding'[l].accept = Tail(binding[l].accept) /\ binding'[n].state # "queued"
    BY <1>4, <1>6, <1>8, <1>12
  <2>2. QED
    BY <1>1, <1>13, <1>14, <2>1, Dequeue
<1>16. PICK c : c = [Rest EXCEPT !.pc = "enabling", !.b = n]
  OBVIOUS
<1>17. c \in CallRecords /\ c.pc = "enabling" /\ c.b = n
  BY <1>16, Zenon DEF Rest, CallRecords
<1>18. Used(c)'
  BY <1>4, <1>12, <1>17, NoBindingAssumption DEF Used
<1>19. work' = [work EXCEPT ![t] = c]
  BY <1>1, <1>16 DEF AcceptFirst
<1>20. work' \in [Threads -> CallRecords] /\ ThreadInv'
  BY <1>1, <1>13, <1>17, <1>18, <1>19, Unused, OwnerChanges, Zenon DEF Alone
<1>21. QED
  BY <1>12, <1>15, <1>20 DEF Kept, IInv, TypeOK

\* FnSockAccept, and its second look at the queue.
LEMMA AcceptStep ==
    ASSUME IInv, NEW t \in Threads, NEW l \in Bindings, FnSockAccept(t, l)
    PROVE  IInv'
<1>1. work[t].pc = "idle" /\ binding[l].state = "open" /\ wsk' = wsk
  BY DEF FnSockAccept
<1>2. CASE binding[l].accept # <<>>
  BY <1>1, <1>2, AcceptFirstStep, Zenon DEF FnSockAccept, Kept
<1>3. CASE binding[l].accept = <<>>
  BY <1>1, <1>3, WaitStep DEF FnSockAccept
<1>4. QED
  BY <1>2, <1>3

\* FnSockAccept goes on after it waited, or gives up.
LEMMA AcceptRetryStep ==
    ASSUME IInv, NEW t \in Threads, AcceptRetry(t)
    PROVE  IInv'
<1>1. /\ work[t].b \in Bindings /\ work[t].pc = "accepted" /\ work[t].pc \notin Alone
      /\ binding[work[t].b].state = "open"
  BY OfThread, Zenon DEF AcceptRetry, Used, Alone
<1>2. CASE binding[work[t].b].accept # <<>>
  BY <1>1, <1>2, AcceptFirstStep, Zenon DEF AcceptRetry, Kept
<1>3. CASE binding[work[t].b].accept = <<>>
  BY <1>1, <1>3, ReturnsStep DEF AcceptRetry
<1>4. QED
  BY <1>2, <1>3

\* The only thread at a binding opens it, frees it or begins to close it.
LEMMA OwnerStep ==
    ASSUME IInv, NEW n \in Bindings, NEW t \in Threads, NEW c \in CallRecords,
           NEW p \in BindingRecords, NEW v \in SocketRecords, Sound(p, v),
           p.accept = binding[n].accept, binding[n].state # "queued",
           \A u \in Threads : u # t => work[u].b # n,
           work[t].pc \notin Alone \/ work[t].b = n,
           \/ c = Rest /\ p.state \in {"free", "open"}
           \/ c.pc = "closing" /\ c.b = n /\ p.state = "closing",
           binding' = [binding EXCEPT ![n] = p], wsk' = [wsk EXCEPT ![n] = v],
           work' = [work EXCEPT ![t] = c], lastError' \in {"success", "failure"}
    PROVE  IInv'
<1>1. /\ binding' \in [Bindings -> BindingRecords] /\ wsk' \in [Bindings -> SocketRecords]
      /\ LocalInv'
  BY OneBinding, Zenon
<1>2. binding'[n] = p /\ \A m \in Bindings : m # n => binding'[m] = binding[m]
  BY DEF IInv, TypeOK
<1>3. SameQueued /\ SameQueues
  BY <1>2 DEF SameQueued, SameQueues
<1>4. QueueInv'
  BY <1>3, QueuesKept
<1>5. Used(c)'
  <2>1. CASE c = Rest
    <3>1. c.pc = "idle" /\ c.b = NoBinding
      BY <2>1 DEF Rest
    <3>2. QED
      BY <3>1 DEF Used
  <2>2. CASE c.pc = "closing" /\ c.b = n /\ p.state = "closing"
    BY <1>2, <2>2, NoBindingAssumption DEF Used
  <2>3. QED
    BY <2>1, <2>2, Zenon
<1>6. \A m \in Bindings : m # n => binding'[m].state = binding[m].state
  BY <1>2, Zenon
<1>7. binding'[n].state \in {"held", "closing"} => c.b = n
  BY <1>2
<1>8. work' \in [Threads -> CallRecords] /\ ThreadInv'
  BY <1>5, <1>6, <1>7, OwnerChanges, Zenon
<1>9. QED
  BY <1>1, <1>4, <1>8 DEF IInv, TypeOK

\* FnSockClose.
LEMMA CloseStep ==
    ASSUME IInv, NEW t \in Threads, NEW b \in Bindings, FnSockClose(t, b)
    PROVE  IInv'
<1>1. /\ binding[b] \in BindingRecords /\ wsk[b] \in SocketRecords /\ Sound(binding[b], wsk[b])
      /\ wsk = [wsk EXCEPT ![b] = wsk[b]]
  BY OfBinding
<1>2. /\ binding[b].state = "open" /\ work[t].pc \notin Alone
      /\ \A u \in Threads : work[u].b # b
  BY DEF FnSockClose, Alone
<1>3. PICK p : p = [binding[b] EXCEPT !.state = "closing"]
  BY Zenon
<1>4. /\ p \in BindingRecords /\ p.state = "closing" /\ p.accept = binding[b].accept
      /\ p.type = binding[b].type /\ p.sends = binding[b].sends /\ p.recv = binding[b].recv
      /\ p.got = binding[b].got
  BY <1>1, <1>3, Zenon DEF BindingRecords
<1>5. PICK v \in SocketRecords : v = wsk[b]
  BY <1>1
<1>6. Sound(p, v)
  <2>1. Listed(p, v) /\ Ordered(p) /\ (v.state \notin Gone => UpTo(p, v.indicated))
    BY <1>1, <1>4, <1>5, DataAlike
  <2>2. QED
    BY <1>1, <1>2, <1>4, <1>5, <2>1 DEF Sound
<1>7. PICK c : c = [Rest EXCEPT !.pc = "closing", !.b = b]
  OBVIOUS
<1>8. c \in CallRecords /\ c.pc = "closing" /\ c.b = b
  BY <1>7, Zenon DEF Rest, CallRecords
<1>9. binding' = [binding EXCEPT ![b] = p]
  BY <1>3 DEF FnSockClose
<1>10. wsk' = [wsk EXCEPT ![b] = v]
  BY <1>1, <1>5 DEF FnSockClose
<1>11. work' = [work EXCEPT ![t] = c] /\ lastError' \in {"success", "failure"}
  BY <1>7 DEF FnSockClose, IInv, TypeOK
<1>12. QED
  BY <1>2, <1>4, <1>6, <1>8, <1>9, <1>10, <1>11, OwnerStep, Zenon

\* The callback of an accepted connection is enabled, or the connection closed.
LEMMA EnableReceiveStep ==
    ASSUME IInv, NEW t \in Threads, EnableReceive(t)
    PROVE  IInv'
<1>1. PICK n \in Bindings : n = work[t].b
  BY OfThread DEF EnableReceive
<1>2. /\ binding[n] \in BindingRecords /\ wsk[n] \in SocketRecords /\ Sound(binding[n], wsk[n])
      /\ wsk = [wsk EXCEPT ![n] = wsk[n]]
  BY OfBinding
<1>3. /\ binding[n].state = "held" /\ work[t].pc = "enabling"
      /\ work[t] \in CallRecords
  BY <1>1, OfThread DEF EnableReceive, Used
<1>4. \A u \in Threads : u # t => work[u].b # n
  BY <1>1, <1>3, UsedAlone DEF Alone
<1>5. Untouched(binding[n], wsk[n]) /\ binding[n].type # "none"
  BY <1>2, <1>3 DEF Sound
<1>6. CASE /\ wsk' = [wsk EXCEPT ![n].callbacks = {"receive"}]
           /\ binding' = [binding EXCEPT ![n].state = "open"]
           /\ Returns(t)
           /\ UNCHANGED lastError
  <2>1. PICK p : p = [binding[n] EXCEPT !.state = "open"]
    BY Zenon
  <2>2. /\ p \in BindingRecords /\ p.state = "open" /\ p.accept = binding[n].accept
        /\ p.type = binding[n].type /\ p.sends = binding[n].sends /\ p.recv = binding[n].recv
        /\ p.got = binding[n].got
    BY <1>2, <2>1 DEF BindingRecords
  <2>3. PICK v : v = [wsk[n] EXCEPT !.callbacks = {"receive"}]
    BY Zenon
  <2>4. /\ v \in SocketRecords /\ v.state = wsk[n].state
        /\ v.sending = wsk[n].sending /\ v.indicated = wsk[n].indicated /\ v.life = wsk[n].life
    BY <1>2, <2>3 DEF SocketRecords
  <2>5. v.state = "connected"
    BY <1>5, <2>4 DEF Untouched
  <2>6. Listed(p, v) /\ Ordered(p) /\ UpTo(p, v.indicated)
    BY <1>2, <2>2, <2>4, <2>5, DataAlike, Zenon DEF Gone
  <2>7. Sound(p, v)
    BY <1>2, <1>3, <1>5, <2>2, <2>4, <2>5, <2>6, Zenon DEF Sound, Gone
  <2>8. binding' = [binding EXCEPT ![n] = p] /\ wsk' = [wsk EXCEPT ![n] = v]
    BY <1>6, <2>1, <2>3
  <2>9. work' = [work EXCEPT ![t] = Rest] /\ lastError' \in {"success", "failure"}
    BY <1>6 DEF Returns, IInv, TypeOK
  <2>10. QED
    BY <1>1, <1>3, <1>4, <2>2, <2>4, <2>7, <2>8, <2>9, RestUsed, OwnerStep, Zenon
<1>7. CASE /\ lastError' = "failure"
           /\ binding' = [binding EXCEPT ![n].state = "closing"]
           /\ work' = [work EXCEPT ![t].pc = "closing"]
           /\ UNCHANGED wsk
  <2>1. PICK p : p = [binding[n] EXCEPT !.state = "closing"]
    BY Zenon
  <2>2. /\ p \in BindingRecords /\ p.state = "closing" /\ p.accept = binding[n].accept
        /\ p.type = binding[n].type /\ p.sends = binding[n].sends /\ p.recv = binding[n].recv
        /\ p.got = binding[n].got
    BY <1>2, <2>1, Zenon DEF BindingRecords
  <2>3. PICK v \in SocketRecords : v = wsk[n]
    BY <1>2
  <2>4. Sound(p, v)
    <3>1. Listed(p, v) /\ Ordered(p) /\ (v.state \notin Gone => UpTo(p, v.indicated))
      BY <1>2, <2>2, <2>3, DataAlike
    <3>2. QED
      BY <1>2, <1>3, <2>2, <2>3, <3>1 DEF Sound
  <2>5. PICK c : c = [work[t] EXCEPT !.pc = "closing"]
    BY Zenon
  <2>6. c \in CallRecords /\ c.pc = "closing" /\ c.b = n
    BY <1>1, <1>3, <2>5 DEF CallRecords
  <2>7. binding' = [binding EXCEPT ![n] = p]
    BY <1>7, <2>1
  <2>8. wsk' = [wsk EXCEPT ![n] = v]
    BY <1>2, <1>7, <2>3
  <2>9. work' = [work EXCEPT ![t] = c] /\ lastError' \in {"success", "failure"}
    BY <1>7, <2>5
  <2>10. QED
    BY <1>1, <1>3, <1>4, <2>2, <2>4, <2>6, <2>7, <2>8, <2>9, OwnerStep, Zenon
<1>8. QED
  BY <1>1, <1>6, <1>7 DEF EnableReceive

\* A closed socket's queue is empty: its binding is freed.
LEMMA CloseEndsStep ==
    ASSUME IInv, NEW t \in Threads, CloseEnds(t)
    PROVE  IInv'
<1>1. PICK b \in Bindings : b = work[t].b
  BY OfThread DEF CloseEnds
<1>2. /\ binding[b].state = "closing" /\ work[t].pc = "flushing"
      /\ binding[b].accept = <<>>
  BY <1>1, OfThread, Zenon DEF CloseEnds, Used
<1>3. \A u \in Threads : u # t => work[u].b # b
  BY <1>1, <1>2, UsedAlone DEF Alone
<1>4. PICK p \in BindingRecords, v \in SocketRecords :
         /\ p = Free /\ v = (IF wsk[b].life = "abandoned" THEN wsk[b] ELSE NoSocket)
         /\ Sound(Free, v)
  <2>1. CASE wsk[b].life = "abandoned"
    <3>1. /\ wsk[b] \in SocketRecords /\ wsk[b].sending = {} /\ wsk[b].life \in Lost
          /\ wsk[b].state \in Gone => wsk[b].callbacks = {}
      BY <2>1, OfBinding DEF Sound, Lost
    <3>2. QED
      BY <2>1, <3>1, FreedSound, FreshRecords
  <2>2. CASE wsk[b].life # "abandoned"
    BY <2>2, FreshRecords, FreeSound
  <2>3. QED
    BY <2>1, <2>2
<1>5. Sound(p, v) /\ p.state = "free" /\ p.accept = <<>>
  <2>1. Free.state = "free" /\ Free.accept = <<>>
    BY DEF Free
  <2>2. QED
    BY <1>4, <2>1
<1>6. binding' = [binding EXCEPT ![b] = p] /\ wsk' = [wsk EXCEPT ![b] = v]
  BY <1>1, <1>4 DEF CloseEnds
<1>7. work' = [work EXCEPT ![t] = Rest] /\ lastError' \in {"success", "failure"}
  BY DEF CloseEnds, Returns, IInv, TypeOK
<1>8. QED
  <2>1. p.accept = binding[b].accept /\ binding[b].state # "queued" /\ work[t].b = b
    BY <1>1, <1>2, <1>5
  <2>2. QED
    BY <1>3, <1>5, <1>6, <1>7, <2>1, RestUsed, OwnerStep, Zenon

\* FnSockClose frees a connection of the listener's queue.
LEMMA CloseAcceptedStep ==
    ASSUME IInv, NEW t \in Threads, CloseAccepted(t) \/ CloseAcceptedFails(t)
    PROVE  IInv'
<1>1. PICK l \in Bindings : l = work[t].b
  BY OfThread, Zenon DEF CloseAccepted, CloseAcceptedFails
<1>2. binding[l].state = "closing" /\ binding[l].accept # <<>>
  BY <1>1, OfThread, Zenon DEF CloseAccepted, CloseAcceptedFails, Used
<1>3. PICK n \in Bindings : n = Head(binding[l].accept) /\ binding[n].state = "queued"
  BY <1>2, FirstQueued
<1>4. /\ binding[l] \in BindingRecords /\ wsk[l] \in SocketRecords /\ Sound(binding[l], wsk[l])
      /\ n # l
  BY <1>2, <1>3, OfBinding
<1>5. binding[n].accept = <<>>
  BY <1>3, OfBinding DEF Sound, Untouched
<1>6. PICK p \in BindingRecords, v \in SocketRecords :
         p = Free /\ wsk' = [wsk EXCEPT ![n] = v] /\ Sound(Free, v)
  <2>1. CASE CloseAccepted(t)
    <3>1. wsk' = [wsk EXCEPT ![n] = NoSocket]
      BY <1>1, <1>3, <2>1 DEF CloseAccepted
    <3>2. QED
      BY <3>1, FreshRecords, FreeSound
  <2>2. CASE CloseAcceptedFails(t)
    <3>1. wsk[n] \in SocketRecords /\ Sound(binding[n], wsk[n])
      BY OfBinding
    <3>2. PICK v : v = [wsk[n] EXCEPT !.life = "abandoned"]
      BY Zenon
    <3>3. /\ v \in SocketRecords /\ v.life \in Lost /\ v.state = wsk[n].state
          /\ v.sending = wsk[n].sending /\ v.callbacks = wsk[n].callbacks
      BY <3>1, <3>2 DEF SocketRecords, Lost
    <3>4. wsk[n].sending = {} /\ wsk[n].callbacks = {}
      <4>1. binding[n].sends = <<>> /\ wsk[n].callbacks = {} /\ Listed(binding[n], wsk[n])
        BY <1>3, <3>1, Zenon DEF Sound, Untouched
      <4>2. \A i : ~ (i \in 1 .. Len(binding[n].sends))
        BY <4>1
      <4>3. QED
        BY <4>1, <4>2, Zenon DEF Listed
    <3>5. Sound(Free, v)
      BY <3>3, <3>4, FreedSound
    <3>6. wsk' = [wsk EXCEPT ![n] = v]
      BY <1>1, <1>3, <2>2, <3>2 DEF CloseAcceptedFails
    <3>7. QED
      BY <3>3, <3>5, <3>6, FreshRecords
  <2>3. QED
    BY <2>1, <2>2
<1>7. Sound(p, v) /\ p.state = "free" /\ p.accept = <<>>
  <2>1. Free.state = "free" /\ Free.accept = <<>>
    BY DEF Free
  <2>2. QED
    BY <1>6, <2>1
<1>8. PICK s \in Seq(Bindings) : s = Tail(binding[l].accept)
  BY <1>2, InQueue, TakeFrom, Zenon
<1>9. PICK q : q = [binding[l] EXCEPT !.accept = s]
  BY Zenon
<1>10. /\ q \in BindingRecords /\ q.accept = s /\ q.state = binding[l].state
       /\ q.type = binding[l].type /\ q.sends = binding[l].sends /\ q.recv = binding[l].recv
       /\ q.got = binding[l].got
  BY <1>4, <1>9, Zenon DEF BindingRecords
<1>11. PICK w \in SocketRecords : w = wsk[l]
  BY <1>4
<1>12. Sound(q, w)
  <2>1. Listed(q, w) /\ Ordered(q) /\ (w.state \notin Gone => UpTo(q, w.indicated))
    BY <1>4, <1>10, <1>11, DataAlike
  <2>2. QED
    BY <1>2, <1>4, <1>10, <1>11, <2>1, Zenon DEF Sound
<1>13. binding' = [binding EXCEPT ![n] = p, ![l] = q]
  BY <1>1, <1>3, <1>4, <1>6, <1>8, <1>9, Zenon DEF CloseAccepted, CloseAcceptedFails, IInv, TypeOK
<1>14. wsk' = [wsk EXCEPT ![n] = v, ![l] = w]
  BY <1>4, <1>6, <1>11, Zenon DEF IInv, TypeOK
<1>15. /\ binding' \in [Bindings -> BindingRecords] /\ wsk' \in [Bindings -> SocketRecords]
       /\ LocalInv' /\ binding'[n] = p /\ binding'[l] = q
       /\ \A b \in Bindings \ {n, l} : binding'[b] = binding[b]
  <2>1. n # l
    BY <1>4
  <2>2. Both(n, p, v, l, q, w)
    BY <1>13, <1>14, Zenon DEF Both
  <2>3. QED
    BY <1>7, <1>10, <1>12, <2>1, <2>2, TwoBindings
<1>16. \A b \in Bindings : b # n => binding'[b].state = binding[b].state
  BY <1>10, <1>15
<1>17. \A b \in Bindings : b # l => binding'[b].accept = binding[b].accept
  BY <1>5, <1>7, <1>15
<1>18. QueueInv'
  <2>1. binding'[l].accept = Tail(binding[l].accept) /\ binding'[n].state # "queued"
    BY <1>7, <1>8, <1>10, <1>15
  <2>2. QED
    BY <1>2, <1>3, <1>16, <1>17, <2>1, Dequeue
<1>19. work' = work /\ lastError' = lastError
  BY Zenon DEF CloseAccepted, CloseAcceptedFails
<1>20. ThreadInv'
  BY <1>3, <1>7, <1>15, <1>16, <1>19, Unused, StateChanges, Zenon
<1>21. QED
  BY <1>15, <1>18, <1>19, <1>20 DEF IInv, TypeOK

-----------------------------------------------------------------------------
(* The invariant is inductive.                                             *)

\* Nothing exists at first.
LEMMA InitInv == Init => IInv
<1> SUFFICES ASSUME Init PROVE IInv
  OBVIOUS
<1>1. TypeOK
  BY FreshRecords, RestUsed DEF Init, TypeOK
<1>2. LocalInv
  BY FreeSound DEF Init, LocalInv
<1>3. \A b \in Bindings : binding[b].accept = <<>> /\ binding[b].state = "free"
  BY DEF Init, Free
<1>4. QueueInv
  BY <1>3 DEF QueueInv
<1>5. ThreadInv
  <2>1. \A t \in Threads : work[t] = Rest
    BY DEF Init
  <2>2. QED
    BY <1>3, <2>1, RestUsed DEF ThreadInv
<1>6. QED
  BY <1>1, <1>2, <1>4, <1>5 DEF IInv

\* Every step of Next, and a stuttering step.
LEMMA NextInv ==
    ASSUME IInv, [Next]_vars
    PROVE  IInv'
<1>1. ASSUME NEW b \in Sockets, NEW type \in {"datagram", "stream"}, FnSockCreate(b, type)
      PROVE  IInv'
  BY <1>1, CreateStep DEF Bindings
<1>2. ASSUME NEW b \in Bindings, CallsOf(b) PROVE IInv'
  <2>1. CASE FnSockBind(b) \/ FnSockConnect(b)
    BY <2>1, BindConnectStep
  <2>2. CASE FnSockListen(b)
    BY <2>2, ListenStep
  <2>3. CASE FnSockSetSockOpt(b)
    BY <2>3, SetSockOptStep
  <2>4. CASE FnSockGetSockOpt(b) \/ FnSockGetSockName(b) \/ FnSockIoctl(b)
    BY <2>4, FailsStep DEF FnSockGetSockOpt, FnSockGetSockName, FnSockIoctl
  <2>5. CASE FnSockSend(b) \/ FnSockSendMsg(b)
    BY <2>5, SendCallStep
  <2>6. QED
    BY <1>2, <2>1, <2>2, <2>3, <2>4, <2>5 DEF CallsOf
<1>3. ASSUME NEW b \in Bindings, Provider(b) PROVE IInv'
  <2>1. CASE SendCompletes(b)
    BY <2>1, SendStep
  <2>2. CASE AcceptEventReturns(b)
    BY <2>2, AcceptEventReturnsStep
  <2>3. CASE FnSockDatagramSocketReceive(b) \/ FnSockStreamSocketReceive(b)
    BY <2>3, IndicatedStep DEF FnSockDatagramSocketReceive, FnSockStreamSocketReceive
  <2>4. CASE \E n \in Connections, isNull \in BOOLEAN : FnSockStreamSocketAccept(b, n, isNull)
    BY <2>4, StreamSocketAcceptStep
  <2>5. CASE AcceptsNull(b) \/ StrayCallback(b)
    BY <2>5, FaultStep DEF AcceptsNull, StrayCallback
  <2>6. QED
    BY <1>3, <2>1, <2>2, <2>3, <2>4, <2>5 DEF Provider
<1>4. ASSUME NEW t \in Threads, NEW b \in Bindings,
             FnSockRecvMsg(t, b) \/ FnSockAccept(t, b) \/ FnSockClose(t, b)
      PROVE  IInv'
  BY <1>4, RecvMsgStep, AcceptStep, CloseStep
<1>5. ASSUME NEW t \in Threads, Waits(t) PROVE IInv'
  BY <1>5, WakesStep, RecvRetryStep, AcceptRetryStep DEF Waits
<1>6. ASSUME NEW t \in Threads, Enables(t) PROVE IInv'
  BY <1>6, EnableReceiveStep, FaultStep DEF Enables, EnableNull
<1>7. ASSUME NEW t \in Threads, Closes(t) \/ CloseFails(t) PROVE IInv'
  BY <1>7, CloseSendStep, CloseSocketStep, CloseAcceptedStep, CloseEndsStep, FaultStep
     DEF Closes, CloseFails, CloseNull
<1>8. CASE UNCHANGED vars
  <2>1. /\ binding' = binding /\ wsk' = wsk /\ work' = work /\ lastError' = lastError
    BY <1>8 DEF vars
  <2>2. TypeOK' /\ LocalInv'
    BY <2>1 DEF IInv, TypeOK, LocalInv
  <2>3. QueueInv'
    BY <2>1, QueuesKept DEF SameQueued, SameQueues
  <2>4. ThreadInv'
    BY <2>1, Zenon DEF IInv, ThreadInv, Used
  <2>5. QED
    BY <2>2, <2>3, <2>4 DEF IInv
<1>9. CASE FnSockCreateFails
  BY <1>9, FailsStep DEF FnSockCreateFails
<1>10. CASE Step
  BY <1>1, <1>2, <1>3, <1>4, <1>5, <1>6, <1>7, <1>9, <1>10 DEF Step
<1>11. QED
  BY <1>8, <1>10 DEF Next

\* The inductive invariant holds of the specification.
THEOREM Invariance == Spec => []IInv
BY InitInv, NextInv, PTL DEF Spec

-----------------------------------------------------------------------------
(* What the invariant gives.                                               *)

\* Only a socket that WskCloseSocketSync failed to close loses its binding.
THEOREM ContextsAliveAlways == Spec => []ContextsAlive
<1>1. IInv => ContextsAlive
  <2> SUFFICES ASSUME IInv, NEW b \in Bindings, wsk[b].state \notin {"none", "closed"},
                      wsk[b].life \in {"kept", "null"}
               PROVE  binding[b].state # "free" /\ binding[b].type # "none"
    BY DEF ContextsAlive
  <2>1. QED
    BY OfBinding DEF Sound, Lost
<1>2. QED
  BY <1>1, Invariance, PTL

\* Nor does a send outlive the socket it was fired on.
THEOREM SendsAwaitedAlways == Spec => []SendsAwaitedAtClose
<1>1. IInv => SendsAwaitedAtClose
  BY OfBinding DEF SendsAwaitedAtClose, Sound, Gone
<1>2. QED
  BY <1>1, Invariance, PTL

\* Data are received once, in the order of their indications, by any number of
\* receivers.
THEOREM InOrderAlways == Spec => []InOrder
<1>1. IInv => InOrder
  <2> SUFFICES ASSUME IInv, NEW b \in Bindings PROVE
               LET q == <<binding[b].got>> \o binding[b].recv
               IN \A i, j \in 1 .. Len(q) : i < j => q[i] < q[j]
    BY DEF InOrder
  <2> DEFINE s == binding[b].recv
             q == <<binding[b].got>> \o s
  <2>1. binding[b] \in BindingRecords /\ Ordered(binding[b])
    BY OfBinding DEF Sound
  <2>2. s \in Seq(Nat) /\ binding[b].got \in Nat
    BY <2>1, DataAreNumbers
  <2>3. Len(q) = Len(s) + 1 /\ q[1] = binding[b].got
        /\ \A i \in 1 .. Len(q) : i # 1 => q[i] = s[i - 1]
    BY <2>2
  <2>4. ASSUME NEW i \in 1 .. Len(q), NEW j \in 1 .. Len(q), i < j PROVE q[i] < q[j]
    <3>1. Len(s) \in Nat /\ j - 1 \in 1 .. Len(s) /\ q[j] = s[j - 1]
      BY <2>2, <2>3, <2>4
    <3>2. CASE i = 1
      BY <2>1, <2>3, <3>1, <3>2 DEF Ordered
    <3>3. CASE i # 1
      <4>1. i - 1 \in 1 .. Len(s) /\ q[i] = s[i - 1] /\ i - 1 < j - 1
        BY <2>3, <2>4, <3>1, <3>3
      <4>2. QED
        BY <2>1, <3>1, <4>1 DEF Ordered
    <3>4. QED
      BY <3>2, <3>3
  <2>5. QED
    BY <2>4
<1>2. QED
  BY <1>1, Invariance, PTL

\* A connection is in one queue, once, until one thread accepts it, and a thread
\* that accepts or closes a socket is alone with it.
THEOREM ConnectionsOwnedAlways == Spec => []ConnectionsOwned
<1>1. ASSUME IInv, NEW n \in Bindings
      PROVE  LET places == UNION {{l} \X {i \in DOMAIN binding[l].accept : binding[l].accept[i] = n} :
                                     l \in Bindings}
             IN /\ Cardinality(places) = IF binding[n].state = "queued" THEN 1 ELSE 0
                /\ binding[n].state = "queued" =>
                       binding[n].sends = <<>> /\ binding[n].recv = <<>>
  <2> DEFINE At(l) == {i \in DOMAIN binding[l].accept : binding[l].accept[i] = n}
             places == UNION {{l} \X At(l) : l \in Bindings}
  <2>1. ASSUME NEW l \in Bindings PROVE DOMAIN binding[l].accept = 1 .. Len(binding[l].accept)
    BY <1>1, InQueue
  <2>2. CASE binding[n].state = "queued"
    <3>1. PICK l \in Bindings : \E i \in 1 .. Len(binding[l].accept) : binding[l].accept[i] = n
      BY <1>1, <2>2 DEF IInv, QueueInv
    <3>2. PICK i \in 1 .. Len(binding[l].accept) : binding[l].accept[i] = n
      BY <3>1
    <3>3. ASSUME NEW m \in Bindings, NEW j \in At(m) PROVE m = l /\ j = i
      <4>1. j \in 1 .. Len(binding[m].accept) /\ binding[m].accept[j] = n
        BY <2>1
      <4>2. QED
        BY <1>1, <3>2, <4>1 DEF IInv, QueueInv
    <3>4. i \in At(l)
      BY <2>1, <3>2
    <3>5. <<l, i>> \in places
      BY <3>4
    <3>6. ASSUME NEW z \in places PROVE z = <<l, i>>
      <4>1. PICK m \in Bindings : z \in {m} \X At(m)
        OBVIOUS
      <4>2. PICK j \in At(m) : z = <<m, j>>
        BY <4>1
      <4>3. QED
        BY <3>3, <4>2
    <3>7. places = {<<l, i>>}
      BY <3>5, <3>6
    <3>8. Cardinality(places) = 1
      BY <3>7, FS_Singleton, Zenon
    <3>9. Untouched(binding[n], wsk[n])
      BY <1>1, <2>2, OfBinding DEF Sound
    <3>10. QED
      BY <2>2, <3>8, <3>9 DEF Untouched
  <2>3. CASE binding[n].state # "queued"
    <3>1. \A m \in Bindings : At(m) = {}
      BY <1>1, <2>1, <2>3 DEF IInv, QueueInv
    <3>2. ASSUME NEW z \in places PROVE FALSE
      <4>1. PICK m \in Bindings : z \in {m} \X At(m)
        OBVIOUS
      <4>2. QED
        BY <3>1, <4>1
    <3>3. places = {}
      BY <3>2
    <3>4. Cardinality(places) = 0
      BY <3>3, FS_EmptySet
    <3>5. QED
      BY <2>3, <3>4
  <2>4. QED
    BY <2>2, <2>3
<1>2. ASSUME IInv, NEW n \in Bindings, binding[n].state \in {"held", "closing"}
      PROVE  Cardinality({t \in Threads : work[t].b = n}) = 1
  <2>1. PICK t \in Threads : work[t].b = n
    BY <1>2 DEF IInv, ThreadInv
  <2>2. work[t].pc \in Alone
    BY <1>2, <2>1, OfThread, NoBindingAssumption DEF Used, CallRecords, Alone
  <2>3. {u \in Threads : work[u].b = n} = {t}
    BY <1>2, <2>1, <2>2, UsedAlone
  <2>4. QED
    BY <2>3, FS_Singleton, Zenon
<1>3. IInv => ConnectionsOwned
  BY <1>1, <1>2 DEF ConnectionsOwned
<1>4. QED
  BY <1>3, Invariance, PTL

=============================================================================

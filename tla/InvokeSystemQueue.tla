------------------------- MODULE InvokeSystemQueue -------------------------
(***************************************************************************)
(* What the invoke-system relay promises to a kernel-mode client, without  *)
(* IRPs, locks, rundown references or sessions: submitted commands wait in *)
(* one first-in first-out queue, the service takes them one at a time, and *)
(* every command taken is answered at most once, with the result of that   *)
(* very command.                                                           *)
(***************************************************************************)
EXTENDS Naturals, Sequences

CONSTANT Commands    \* the commands that clients may submit, each at most once

VARIABLES
  waiting,    \* submitted commands the service has not taken yet, oldest first
  taken,      \* the commands the service is working on (at most one)
  answered    \* the commands whose result the client has received

vars == <<waiting, taken, answered>>

Submitted == {waiting[i] : i \in DOMAIN waiting} \cup taken \cup answered

Init ==
  /\ waiting = <<>>
  /\ taken = {}
  /\ answered = {}

Submit(c) ==
  /\ c \notin Submitted
  /\ waiting' = Append(waiting, c)
  /\ UNCHANGED <<taken, answered>>

Take ==
  /\ waiting # <<>>
  /\ taken = {}
  /\ taken' = {Head(waiting)}
  /\ waiting' = Tail(waiting)
  /\ UNCHANGED answered

Answer(c) ==
  /\ c \in taken
  /\ taken' = taken \ {c}
  /\ answered' = answered \cup {c}
  /\ UNCHANGED waiting

(* The relay is reloaded, which may happen only when nothing is unanswered. *)
Reload ==
  /\ waiting = <<>>
  /\ taken = {}
  /\ answered' = {}
  /\ UNCHANGED <<waiting, taken>>

Next ==
  \/ \E c \in Commands : Submit(c) \/ Answer(c)
  \/ Take
  \/ Reload

Spec == Init /\ [][Next]_vars
============================================================================

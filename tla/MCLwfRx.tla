------------------------------ MODULE MCLwfRx ------------------------------
(* Small instances of LwfRx for TLC. *)
EXTENDS LwfRx

CONSTANTS n1, n2

(* A filter that matches every frame and one that matches a single frame. *)
AllOrOne == {Nbls, {n1}}
=============================================================================

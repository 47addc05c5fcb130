----------------------------- MODULE MCMpShared -----------------------------
(* Small instances of MpShared for TLC. *)
EXTENDS MpShared

(* Every filter matches every frame; whether it captures one still varies *)
(* with its allocation failures.                                          *)
MatchAll == {Nbls}
=============================================================================

--------------------------- MODULE MCRadioService ----------------------------
(* RadioService for TLC: the names of two threads of each kind. *)
EXTENDS RadioService
==============================================================================

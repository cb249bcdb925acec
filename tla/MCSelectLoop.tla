---------------------------- MODULE MCSelectLoop ----------------------------
(***************************************************************************)
(* Model checking of SelectLoop: three clients compete for two slots and   *)
(* three descriptor numbers, so that the pool fills up, the slot below     *)
(* another is vacated and a number is reused within one walk.              *)
(***************************************************************************)
EXTENDS SelectLoop
=============================================================================

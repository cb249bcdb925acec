---------------------------- MODULE MCModuleTree ----------------------------
(***************************************************************************)
(* A root r with the children m and c; m, with the children a and b,       *)
(* passes both orders on, b has a subor of its own; c, with the child e,   *)
(* has no Relay.                                                           *)
(***************************************************************************)
EXTENDS ModuleTree

CONSTANTS r, m, a, b, c, e

MCAnimi == {r, m, a, b, c, e}
MCCompactor == [n \in MCAnimi |->
    CASE n = r -> <<m, c>> [] n = m -> <<a, b>> [] n = c -> <<e>> [] OTHER -> <<>>]
MCUniqueSub == [n \in MCAnimi |-> IF n = b THEN 1 ELSE -1]
MCRelays == {r, m}
MCPass == {m}
MCSubors == {-1, 1}
=============================================================================

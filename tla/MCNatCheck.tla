----------------------------- MODULE MCNatCheck -----------------------------
(* nat_check.c on a small instance. *)
EXTENDS NatCheck, TLC

CONSTANTS a, b   \* two public addresses

MCAddrs == {a, b}
MCSays == (1 :> {a}) @@ (2 :> {a, Runt, Reset}) @@ (3 :> {a})
            @@ (Hairpin :> {}) @@ (Callback :> {a, Runt, Reset}) @@ (Stray :> {Runt, Reset})
MCDatagrams == {<<1, a>>, <<2, a>>, <<2, b>>, <<0, Loop>>}
=============================================================================

----------------------------- MODULE MCPoolPick -----------------------------
(* Small instances of PoolPick for TLC. *)
EXTENDS PoolPick

CONSTANTS n1, n2, c1, g

NodeOrder == <<n1, n2>>

Ask(fallback, group, strategy) ==
    [fallback |-> fallback, group |-> group, strategy |-> strategy]

(* One round-robin cursor shared by the default listener and a listener    *)
(* with its own policy; ANY's traffic while a listener picks by score.     *)
MixedTraffic ==
    {[c \in Conns |-> Ask(c = c1, g, "round-robin")],
     [c \in Conns |-> IF c = c1 THEN Ask(TRUE, GroupAny, "sticky")
                                ELSE Ask(FALSE, g, "score")]}
=============================================================================

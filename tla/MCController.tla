----------------------------- MODULE MCController -----------------------------
(* Small instances of ResourceClaimController for TLC.                     *)
EXTENDS ResourceClaimController, TLC

OneTick == [c \in Claims |-> 1]
TwoTicks == [c \in Claims |-> 2]
NoLabels == [l \in Leases |-> {}]
(* l2 lacks a label that claims require.                                   *)
CONSTANT l2
TwoLabels == [l \in Leases |-> IF l = l2 THEN {"edition"} ELSE {"edition", "region"}]
BothRequired == [c \in Claims |-> {"edition", "region"}]
NoRequirement == [c \in Claims |-> {}]

AlikeLeases == Permutations(Configured)
=============================================================================

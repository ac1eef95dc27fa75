---------------------------- MODULE MCDeployment ----------------------------
(* Small instances of Deployment for TLC.                                  *)
EXTENDS Deployment, TLC

OneTick == [c \in Claims |-> 1]
NoLabels == [l \in Leases |-> {}]
NoRequirement == [c \in Claims |-> {}]

(* Both accounts are configured, and no claim tells them apart.            *)
AlikeLeases == Permutations(Leases)
=============================================================================

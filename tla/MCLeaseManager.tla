---------------------------- MODULE MCLeaseManager ----------------------------
(* Small instances of LeaseManager for TLC: claims ask for one or two ticks *)
EXTENDS LeaseManager, TLC

CONSTANTS c1, c2

MCDuration == (c1 :> 1) @@ (c2 :> 2)
MCNoLabels == [l \in Leases |-> {}]
MCNoRequirement == [c \in Claims |-> {}]
=============================================================================

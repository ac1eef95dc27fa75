-------------------------------- MODULE MCPool --------------------------------
(* Small instances of Pool for TLC.                                        *)
EXTENDS Pool

OneTick == [c \in Claims |-> 1]
NoLabels == [l \in Leases |-> {}]
NoRequirement == [c \in Claims |-> {}]
=============================================================================

------------------------------ MODULE MCOperator ------------------------------
(* Small instances of Operator for TLC.                                    *)
EXTENDS Operator, TLC

OneTick == [c \in Claims |-> 1]
NoLabels == [l \in Leases |-> {}]
NoRequirement == [c \in Claims |-> {}]

Alike == Permutations(Operators) \cup Permutations(Claims)
=============================================================================

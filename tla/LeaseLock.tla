------------------------------ MODULE LeaseLock ------------------------------
(***************************************************************************)
(* What the operator promises of the resource pool: "resource claims to    *)
(* share a limited pool ... without conflicts", with "Kubernetes Leases    *)
(* for distributed locking" (README.md:7-11).  A lease is a lock that one  *)
(* claim takes while it is free; nothing else moves it from one claim to   *)
(* another.  Leases may be left at any time, several at once: by a release *)
(* or because their time ran out.                                          *)
(***************************************************************************)
CONSTANTS Claims,   \* resource claims, by namespace/name
          Leases,   \* one lease per resource of the pool
          Nobody    \* the holder of a free lease

VARIABLE lock       \* lock[l]: the claim that holds lease l, or Nobody

LockTypeOK == lock \in [Leases -> Claims \cup {Nobody}]

Init == lock \in [Leases -> {Nobody}]

(* Claim c takes the free lease l.                                         *)
Take(c, l) ==
    /\ lock[l] = Nobody
    /\ lock' = [lock EXCEPT ![l] = c]

(* The leases of S fall free together.                                     *)
Leave(S) ==
    lock' = [l \in Leases |-> IF l \in S THEN Nobody ELSE lock[l]]

Next ==
    \/ \E c \in Claims, l \in Leases : Take(c, l)
    \/ \E S \in SUBSET Leases : Leave(S)

Spec == Init /\ [][Next]_lock
=============================================================================

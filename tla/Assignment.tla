------------------------------ MODULE Assignment ------------------------------
(***************************************************************************)
(* What the operator promises its users: teams "share a limited pool of    *)
(* Snowflake test accounts [...] without conflicts" (README.md:7).  A      *)
(* claim is bound to one account at a time, an account that suits it and   *)
(* that no other claim is bound to.  It may lose the account at any time:  *)
(* it is deleted, its time is over, or a new operator starts from a clean  *)
(* pool.  How accounts are locked, provisioned and reset is left open.     *)
(***************************************************************************)
CONSTANTS Claims,
          Accounts,
          None,      \* what a claim is bound to that has no account
          Suits      \* the claims and accounts that go together

VARIABLE boundTo     \* boundTo[c]: the account that claim c is bound to

Init == boundTo = [c \in Claims |-> None]

(* Claim c gets an account that nobody is bound to.                        *)
Bind(c, a) ==
    /\ boundTo[c] = None
    /\ <<c, a>> \in Suits
    /\ \A d \in Claims : boundTo[d] # a
    /\ boundTo' = [boundTo EXCEPT ![c] = a]

Unbind(c) == boundTo' = [boundTo EXCEPT ![c] = None]

Next ==
    \E c \in Claims : Unbind(c) \/ \E a \in Accounts : Bind(c, a)

Spec == Init /\ [][Next]_boundTo
=============================================================================

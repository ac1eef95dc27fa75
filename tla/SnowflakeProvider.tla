-------------------------- MODULE SnowflakeProvider --------------------------
(***************************************************************************)
(* internal/provider/snowflake/provider.go and client.go: what the hooks   *)
(* AcquireResource and ReleaseResource do, statement by statement, to the  *)
(* app user of an account and to the Secret of a claim, and what the       *)
(* startup does to both in CleanupAllClaims.                               *)
(*                                                                         *)
(* An account has one app user with one key: every SetPublicKey generates  *)
(* a new pair, so what matters of a key is where its private half is.  The *)
(* roles of the app user are granted and revoked along with its key.       *)
(*                                                                         *)
(* ProviderFaults: "acquireError" and "releaseError" let the statements of *)
(* the two hooks fail (Secrets, connections, SQL), "cleanupError" those of *)
(* the startup.                                                            *)
(***************************************************************************)
CONSTANTS Operators,        \* operator processes, each with one worker
          Claims,           \* claims, by namespace/name
          Leases,           \* leases, one per Snowflake account
          NoKey,            \* no public key is set
          Lost,             \* nobody has the private half of the key
          ProviderFaults

VARIABLES keyAt,      \* keyAt[l]: who has the private half of the key of
                      \* account l: a hook, the Secret of a claim, nobody
          hasSecret,  \* hasSecret[c]: the Secret sf-appuser-<c> exists
          dirty,      \* dirty[l]: account l was used since its last reset
          hook        \* hook[p]: how far the hook is that p runs

providerVars == <<keyAt, hasSecret, dirty, hook>>

HookSteps == {"start", "keySet", "found", "notFound", "lockedFound", "lockedNotFound"}

ProviderTypeOK ==
    /\ keyAt \in [Leases -> Operators \cup Claims \cup {NoKey, Lost}]
    /\ hasSecret \in [Claims -> BOOLEAN]
    /\ dirty \in [Leases -> BOOLEAN]
    /\ hook \in [Operators -> HookSteps]

ProviderInit ==
    /\ keyAt = [l \in Leases |-> NoKey]
    /\ hasSecret = [c \in Claims |-> FALSE]
    /\ dirty = [l \in Leases |-> FALSE]
    /\ hook = [p \in Operators |-> "start"]

HookAt(p, s) == hook[p] = s

Hook(p, s) == hook' = [hook EXCEPT ![p] = s]

(* The private key that x holds is overwritten or thrown away.             *)
Forget(x, k) == [l \in Leases |-> IF k[l] = x THEN Lost ELSE k[l]]

-----------------------------------------------------------------------------
(* The client: what its statements do to the app user of account l.        *)

(* SetPublicKey: slot 1 gets the key that p has just generated; slot 2 is  *)
(* never used.                                                             *)
NewKey(p, l) == [keyAt EXCEPT ![l] = p]

(* ClearPublicKeys, both slots.                                            *)
NoKeys(l) == [keyAt EXCEPT ![l] = NoKey]

(* NewClient with the key in the Secret of c connects to the account if it *)
(* is the one that is set there.                                           *)
Opens(c, l) == hasSecret[c] /\ keyAt[l] = c

(* ResetState: whatever query fails, the others are run.                   *)
Cleaned(l) == [dirty EXCEPT ![l] = FALSE]

-----------------------------------------------------------------------------
(* AcquireResource.                                                        *)

(* The app user exists, has its roles and gets a new key.                  *)
SetPublicKey(p, l) ==
    /\ HookAt(p, "start")
    /\ keyAt' = NewKey(p, l)
    /\ Hook(p, "keySet")
    /\ UNCHANGED <<hasSecret, dirty>>

(* A bug AcquireResource could have: an existing Secret is left as it is.  *)
CreateOnly(p, c, l) ==
    IF hasSecret[c] THEN Forget(p, keyAt)
    ELSE [m \in Leases |-> IF keyAt[m] = p THEN c ELSE keyAt[m]]

(* The key of p goes into the Secret of c, which loses what it had.        *)
SecretKeys(p, c, l) ==
    [m \in Leases |-> IF keyAt[m] = p THEN c
                      ELSE IF keyAt[m] = c THEN Lost ELSE keyAt[m]]

(* The Secret of the claim is created or updated: the hook succeeds.       *)
StoreSecret(p, c, l) ==
    /\ HookAt(p, "keySet")
    /\ keyAt' = SecretKeys(p, c, l)
    /\ hasSecret' = [hasSecret EXCEPT ![c] = TRUE]
    /\ Hook(p, "start")
    /\ UNCHANGED dirty

(* The admin's Secret or connection, CREATE USER, GRANT ROLE or the        *)
(* generation of the key fails: the account keeps the key it had.          *)
PrepareFails(p) ==
    /\ HookAt(p, "start")
    /\ UNCHANGED <<keyAt, hasSecret>>

(* The statement that sets the key took effect, although it failed.        *)
KeyReplyLost(p, l) ==
    /\ HookAt(p, "start")
    /\ keyAt' = [keyAt EXCEPT ![l] = Lost]
    /\ UNCHANGED hasSecret

(* The Secret is not written, or it was, although the call failed.         *)
SecretFails(p, c, l) ==
    /\ HookAt(p, "keySet")
    /\ \/ keyAt' = Forget(p, keyAt) /\ UNCHANGED hasSecret
       \/ /\ keyAt' = SecretKeys(p, c, l)
          /\ hasSecret' = [hasSecret EXCEPT ![c] = TRUE]

(* A statement fails: what was done before it stays, and so may the        *)
(* statement itself.                                                       *)
AcquireFails(p, c, l) ==
    /\ "acquireError" \in ProviderFaults
    /\ PrepareFails(p) \/ KeyReplyLost(p, l) \/ SecretFails(p, c, l)
    /\ Hook(p, "start")
    /\ UNCHANGED dirty

-----------------------------------------------------------------------------
(* ReleaseResource.                                                        *)

(* No admin credentials or no connection: an error before anything is done.*)
ReleaseFails(p) ==
    /\ "releaseError" \in ProviderFaults
    /\ HookAt(p, "start")
    /\ UNCHANGED providerVars

(* The reset queries run as the app user, if the Secret of the claim is    *)
(* found and opens the account; failures are only logged.                  *)
ResetState(p, c, l) ==
    /\ HookAt(p, "start")
    /\ \/ /\ Opens(c, l)
          /\ dirty' = Cleaned(l)
          /\ Hook(p, "found")
       \/ /\ hasSecret[c]
          /\ ~Opens(c, l) \/ "releaseError" \in ProviderFaults
          /\ UNCHANGED dirty
          /\ Hook(p, "found")
       \/ /\ ~hasSecret[c] \/ "releaseError" \in ProviderFaults
          /\ UNCHANGED dirty
          /\ Hook(p, "notFound")
    /\ UNCHANGED <<keyAt, hasSecret>>

(* Roles revoked and key slots cleared; failures are only logged.          *)
ClearPublicKeys(p, l) ==
    /\ \/ HookAt(p, "found") /\ Hook(p, "lockedFound")
       \/ HookAt(p, "notFound") /\ Hook(p, "lockedNotFound")
    /\ \/ keyAt' = NoKeys(l)
       \/ "releaseError" \in ProviderFaults /\ UNCHANGED keyAt
    /\ UNCHANGED <<hasSecret, dirty>>

(* The Secret that was found is deleted; a failure is only logged.         *)
DeleteSecret(p, c) ==
    /\ \/ /\ HookAt(p, "lockedFound")
          /\ hasSecret' = [hasSecret EXCEPT ![c] = FALSE]
          /\ keyAt' = Forget(c, keyAt)
       \/ /\ HookAt(p, "lockedFound") /\ "releaseError" \in ProviderFaults
          /\ UNCHANGED <<hasSecret, keyAt>>
       \/ /\ HookAt(p, "lockedNotFound")
          /\ UNCHANGED <<hasSecret, keyAt>>
    /\ Hook(p, "start")
    /\ UNCHANGED dirty

-----------------------------------------------------------------------------
(* CleanupAllClaims.                                                       *)

(* One turn of the loop over the accounts: roles revoked and key slots     *)
(* cleared, but no reset queries, as nobody has a key for them.            *)
CleanAccount(l) ==
    /\ keyAt' = NoKeys(l)
    /\ UNCHANGED <<hasSecret, dirty, hook>>

(* A statement of ClearPublicKeys fails, before or after it took effect:   *)
(* it is only logged.                                                      *)
ClearingFails(l) ==
    /\ "cleanupError" \in ProviderFaults
    /\ keyAt' = NoKeys(l) \/ UNCHANGED keyAt
    /\ UNCHANGED <<hasSecret, dirty, hook>>

(* One turn of the loop over the Secrets.                                  *)
CleanSecret(c) ==
    /\ hasSecret' = [hasSecret EXCEPT ![c] = FALSE]
    /\ keyAt' = Forget(c, keyAt)
    /\ UNCHANGED <<dirty, hook>>

(* The process of a hook ends, and with it what it had in memory.          *)
Abandon(p) ==
    /\ keyAt' = Forget(p, keyAt)
    /\ Hook(p, "start")
    /\ UNCHANGED <<hasSecret, dirty>>

-----------------------------------------------------------------------------
(* The app user does something in account l, logged in with the Secret of  *)
(* claim c.                                                                *)
UseAccount(c, l) ==
    /\ keyAt[l] = c
    /\ dirty' = [dirty EXCEPT ![l] = TRUE]
    /\ UNCHANGED <<keyAt, hasSecret, hook>>
=============================================================================

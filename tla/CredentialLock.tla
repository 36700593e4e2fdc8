--------------------------- MODULE CredentialLock ---------------------------
(***************************************************************************)
(* What CredentialStore.RefreshLock promises                               *)
(* (src/internal/contracts/credential_store.go:42-54): "for a given        *)
(* CredentialID, at most ONE holder exists at a time".  LockRegistry       *)
(* implements it; Refresh is built on it.                                  *)
(***************************************************************************)
CONSTANTS
    Ids,        \* credentials
    Procs,      \* goroutines
    None

VARIABLE holder     \* the goroutine that holds the lock of each credential

Holders == [Ids -> Procs \cup {None}]

Init == holder = [i \in Ids |-> None]

Lock(p, i) ==
    /\ holder[i] = None
    /\ holder' = [holder EXCEPT ![i] = p]

Unlock(p, i) ==
    /\ holder[i] = p
    /\ holder' = [holder EXCEPT ![i] = None]

Next == \E p \in Procs, i \in Ids : Lock(p, i) \/ Unlock(p, i)

Spec == Init /\ [][Next]_holder
=============================================================================

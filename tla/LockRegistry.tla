---------------------------- MODULE LockRegistry ----------------------------
(***************************************************************************)
(* The registry of per-credential locks behind RefreshLock                 *)
(* (src/internal/store/credential_store.go:307-382).  A lock is an entry   *)
(* with a channel of capacity one; entries are made on first use, counted  *)
(* by the goroutines that hold or wait for them, and dropped from the map  *)
(* when the last one leaves.  Each critical section of lockRegistry.mu and *)
(* each channel operation is a step; between them anybody may run.         *)
(***************************************************************************)
EXTENDS Integers, FiniteSets

CONSTANTS
    Ids,        \* credentials
    Procs,      \* goroutines that refresh
    Entries,    \* the *lockEntry values the heap has room for
    None

ASSUME FiniteAssumption == IsFiniteSet(Procs)
ASSUME NoneAssumption == None \notin Entries \cup Ids \cup Procs

VARIABLES
    locks,      \* lockRegistry.locks
    refs,       \* lockEntry.refs
    full,       \* whether lockEntry.sem is full
    pc,         \* where each goroutine is
    wants,      \* the credential it asked for
    entry       \* the entry that ref returned to it

vars == <<locks, refs, full, pc, wants, entry>>

TypeOK ==
    /\ locks \in [Ids -> Entries \cup {None}]
    /\ refs \in [Entries -> Nat]
    /\ full \in [Entries -> BOOLEAN]
    /\ pc \in [Procs -> {"out", "waiting", "holding", "leaving"}]
    /\ wants \in [Procs -> Ids \cup {None}]
    /\ entry \in [Procs -> Entries \cup {None}]

Init ==
    /\ locks = [i \in Ids |-> None]
    /\ refs = [e \in Entries |-> 0]
    /\ full = [e \in Entries |-> FALSE]
    /\ pc = [p \in Procs |-> "out"]
    /\ wants = [p \in Procs |-> None]
    /\ entry = [p \in Procs |-> None]

users(e) == {p \in Procs : entry[p] = e}

(* Memory that neither the map nor a goroutine points to.                  *)
free(e) == users(e) = {} /\ \A i \in Ids : locks[i] # e

(* Mutant: only the goroutine that makes the entry is counted.             *)
ref_OnlyMaker(i, e) ==
    \/ /\ locks[i] = None /\ free(e)
       /\ locks' = [locks EXCEPT ![i] = e]
       /\ refs' = [refs EXCEPT ![e] = 1]
       /\ full' = [full EXCEPT ![e] = FALSE]
    \/ /\ locks[i] = e
       /\ UNCHANGED <<locks, refs, full>>

(* ref, under the registry's mutex.                                        *)
ref(i, e) ==
    \/ /\ locks[i] = None /\ free(e)
       /\ locks' = [locks EXCEPT ![i] = e]
       /\ refs' = [refs EXCEPT ![e] = 1]
       /\ full' = [full EXCEPT ![e] = FALSE]
    \/ /\ locks[i] = e
       /\ refs' = [refs EXCEPT ![e] = @ + 1]
       /\ UNCHANGED <<locks, full>>

Ref(p, i, e) ==
    /\ pc[p] = "out"
    /\ ref(i, e)
    /\ pc' = [pc EXCEPT ![p] = "waiting"]
    /\ wants' = [wants EXCEPT ![p] = i]
    /\ entry' = [entry EXCEPT ![p] = e]

(* The send that acquires.                                                 *)
Acquire(p) ==
    /\ pc[p] = "waiting"
    /\ ~full[entry[p]]
    /\ full' = [full EXCEPT ![entry[p]] = TRUE]
    /\ pc' = [pc EXCEPT ![p] = "holding"]
    /\ UNCHANGED <<locks, refs, wants, entry>>

(* Mutant: a cancelled wait returns at once and keeps its reference.       *)
GiveUp_KeepsRef(p) ==
    /\ pc[p] = "waiting"
    /\ pc' = [pc EXCEPT ![p] = "out"]
    /\ wants' = [wants EXCEPT ![p] = None]
    /\ entry' = [entry EXCEPT ![p] = None]
    /\ UNCHANGED <<locks, refs, full>>

(* The wait is cancelled.                                                  *)
GiveUp(p) ==
    /\ pc[p] = "waiting"
    /\ pc' = [pc EXCEPT ![p] = "leaving"]
    /\ UNCHANGED <<locks, refs, full, wants, entry>>

(* Mutant: the reference is dropped and the channel stays full.            *)
Drain_Forgets(p) ==
    /\ pc[p] = "holding"
    /\ pc' = [pc EXCEPT ![p] = "leaving"]
    /\ UNCHANGED <<locks, refs, full, wants, entry>>

(* The receive of the unlock closure; a second call of it does nothing.    *)
Drain(p) ==
    /\ pc[p] = "holding"
    /\ full[entry[p]]
    /\ full' = [full EXCEPT ![entry[p]] = FALSE]
    /\ pc' = [pc EXCEPT ![p] = "leaving"]
    /\ UNCHANGED <<locks, refs, wants, entry>>

releaseRef(i, e) ==
    /\ refs' = [refs EXCEPT ![e] = @ - 1]
    /\ locks' = IF refs[e] <= 1 /\ locks[i] = e
                THEN [locks EXCEPT ![i] = None] ELSE locks

Leave(p) ==
    /\ pc[p] = "leaving"
    /\ releaseRef(wants[p], entry[p])
    /\ pc' = [pc EXCEPT ![p] = "out"]
    /\ wants' = [wants EXCEPT ![p] = None]
    /\ entry' = [entry EXCEPT ![p] = None]
    /\ UNCHANGED full

Next ==
    \E p \in Procs :
        \/ \E i \in Ids, e \in Entries : Ref(p, i, e)
        \/ Acquire(p)
        \/ GiveUp(p)
        \/ Drain(p)
        \/ Leave(p)

Spec == Init /\ [][Next]_vars

(* The runtime queues the senders of a channel, so no sender is passed     *)
(* over for ever; a holder unlocks (defer) and a leaver runs.              *)
FairSpec ==
    /\ Spec
    /\ \A p \in Procs :
         SF_vars(Acquire(p)) /\ WF_vars(Drain(p)) /\ WF_vars(Leave(p))

-----------------------------------------------------------------------------
(* The contract's lock, seen through the registry: the holder of i is the  *)
(* goroutine that asked for i and whose send has succeeded.                *)
holds(p, i) == pc[p] = "holding" /\ wants[p] = i

holder == [i \in Ids |-> IF \E p \in Procs : holds(p, i)
                         THEN CHOOSE p \in Procs : holds(p, i) ELSE None]

Contract == INSTANCE CredentialLock

(* At most one goroutine refreshes a credential, although the lock itself  *)
(* is made, dropped and made again under the feet of those who wait for it *)
(* (acquire and unlockFunc, credential_store.go:324-367).                  *)
MutualExclusion ==
    \A p, q \in Procs, i \in Ids : holds(p, i) /\ holds(q, i) => p = q

(* Every step of the registry is a step of the contract's lock or none.    *)
ImplementsContract == Contract!Spec

(* The map keeps no lock that nobody holds or waits for, so it does not    *)
(* grow with the credentials ever refreshed (releaseRef, 369-382).         *)
Reclaimed ==
    \A i \in Ids : locks[i] # None => users(locks[i]) # {}

(* Whoever waits is served or gives up (acquire, 324-339).                 *)
Served ==
    \A p \in Procs : pc[p] = "waiting" ~> pc[p] \in {"holding", "leaving"}

-----------------------------------------------------------------------------
(* The invariant that makes it work: whoever has an entry has the one the  *)
(* map has, the count is exact, and the channel is full exactly while one  *)
(* of the users is past its send.                                          *)
InUse ==
    \A p \in Procs :
        /\ pc[p] = "out" <=> entry[p] = None
        /\ entry[p] # None => wants[p] # None /\ locks[wants[p]] = entry[p]

OneKey ==
    \A i, j \in Ids : locks[i] # None /\ locks[i] = locks[j] => i = j

Counted == \A e \in Entries : refs[e] = Cardinality(users(e))

OneSend ==
    /\ \A p \in Procs : pc[p] = "holding" => full[entry[p]]
    /\ \A p, q \in Procs :
         /\ pc[p] = "holding" /\ pc[q] = "holding"
         /\ entry[p] = entry[q]
         => p = q

IInv == TypeOK /\ InUse /\ OneKey /\ Counted /\ OneSend /\ Reclaimed
=============================================================================

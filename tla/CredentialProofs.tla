-------------------------- MODULE CredentialProofs --------------------------
(***************************************************************************)
(* Proofs about what is kept for a credential while requests use it: the   *)
(* registry of its refresh lock (LockRegistry) and its quota window        *)
(* (Quota), for any credentials, goroutines, room on the heap, plan and    *)
(* number of attempts. The two share nothing.                              *)
(***************************************************************************)
EXTENDS LockRegistry, Quota, FiniteSetTheorems, TLAPS

-----------------------------------------------------------------------------
(* The registry of locks.                                                  *)

-----------------------------------------------------------------------------
(* The users of an entry are finitely many, so they can be counted.        *)
LEMMA UsersFinite ==
    ASSUME NEW e
    PROVE  /\ IsFiniteSet(users(e))
           /\ Cardinality(users(e)) \in Nat
<1>1. users(e) \in SUBSET Procs  BY DEF users
<1>2. IsFiniteSet(users(e))      BY <1>1, FiniteAssumption, FS_Subset
<1> QED BY <1>2, FS_CardinalityType

(* Whoever is in is counted: an entry with a user has a positive count,    *)
(* and with a second user the count is at least two.                       *)
LEMMA UsersCounted ==
    ASSUME NEW e, NEW p \in users(e)
    PROVE  /\ Cardinality(users(e)) >= 1
           /\ \A q \in users(e) : q # p => Cardinality(users(e)) >= 2
           /\ Cardinality(users(e)) >= 2 => \E q \in users(e) : q # p
<1> DEFINE rest == users(e) \ {p}
<1>1. /\ IsFiniteSet(rest)
      /\ Cardinality(rest) = Cardinality(users(e)) - 1
  BY UsersFinite, FS_RemoveElement
<1>2. Cardinality(rest) \in Nat  BY <1>1, FS_CardinalityType
<1>3. Cardinality(rest) = 0 <=> rest = {}  BY <1>1, FS_EmptySet
<1> HIDE DEF rest
<1>4. rest = users(e) \ {p}  BY DEF rest
<1> QED BY <1>1, <1>2, <1>3, <1>4, UsersFinite

-----------------------------------------------------------------------------
(* A goroutine that takes a reference joins the users of one entry.        *)
LEMMA Joining ==
    ASSUME TypeOK, NEW p \in Procs, NEW e \in Entries,
           entry[p] = None, entry' = [entry EXCEPT ![p] = e]
    PROVE  /\ users(e)' = users(e) \cup {p}
           /\ p \notin users(e)
           /\ \A f \in Entries : f # e => users(f)' = users(f)
  BY NoneAssumption DEF TypeOK, users

(* One that drops its reference leaves the users of its entry.             *)
LEMMA Leaving ==
    ASSUME TypeOK, NEW p \in Procs, NEW e \in Entries,
           entry[p] = e, entry' = [entry EXCEPT ![p] = None]
    PROVE  /\ users(e)' = users(e) \ {p}
           /\ p \in users(e)
           /\ \A f \in Entries : f # e => users(f)' = users(f)
  BY NoneAssumption DEF TypeOK, users

(* The initial state satisfies the invariant.                              *)
LEMMA InitIInv == Init => IInv
<1> SUFFICES ASSUME Init PROVE IInv  OBVIOUS
<1>1. TypeOK  BY DEF Init, TypeOK
<1>2. InUse /\ OneKey /\ OneSend /\ Reclaimed
  BY DEF Init, InUse, OneKey, OneSend, Reclaimed
<1>3. Counted
  <2>1. \A e \in Entries : users(e) = {}  BY NoneAssumption DEF Init, users
  <2> QED BY <2>1, FS_EmptySet DEF Init, Counted
<1> QED BY <1>1, <1>2, <1>3 DEF IInv

(* Taking a reference preserves the invariant: the entry is new and        *)
(* nobody's, or the one that the map holds (ref, 342-353).                 *)
LEMMA RefPreserves ==
    ASSUME IInv, NEW p \in Procs, NEW i \in Ids, NEW e \in Entries, Ref(p, i, e)
    PROVE  IInv'
<1> USE DEF IInv
<1>1. entry[p] = None  BY DEF Ref, InUse
<1>2. /\ users(e)' = users(e) \cup {p}
      /\ p \notin users(e)
      /\ \A f \in Entries : f # e => users(f)' = users(f)
  BY <1>1, Joining DEF Ref
<1>3. CASE locks[i] = None /\ free(e)
  <2>1. /\ locks' = [locks EXCEPT ![i] = e]
        /\ refs' = [refs EXCEPT ![e] = 1]
        /\ full' = [full EXCEPT ![e] = FALSE]
        /\ pc' = [pc EXCEPT ![p] = "waiting"]
        /\ wants' = [wants EXCEPT ![p] = i]
        /\ entry' = [entry EXCEPT ![p] = e]
        /\ pc[p] = "out"
    BY <1>3, NoneAssumption DEF Ref, ref
  <2>2. users(e) = {} /\ \A j \in Ids : locks[j] # e  BY <1>3 DEF free
  <2>3. \A q \in Procs : entry[q] # e  BY <2>2 DEF users
  <2>4. TypeOK'  BY <2>1 DEF TypeOK
  <2>5. InUse'   BY <2>1, <2>3, <1>1, <1>3, NoneAssumption DEF InUse, TypeOK
  <2>6. OneKey'  BY <2>1, <2>2 DEF OneKey, TypeOK
  <2>7. Counted'
    <3>1. Cardinality(users(e)') = 1
      <4>1. users(e)' = {p}  BY <1>2, <2>2
      <4> QED BY <4>1, FS_Singleton
    <3> QED BY <3>1, <1>2, <2>1 DEF Counted, TypeOK
  <2>8. OneSend'
    <3>1. \A q \in Procs : pc'[q] = "holding" =>
              q # p /\ pc[q] = "holding" /\ entry'[q] = entry[q] /\ entry[q] # e
      BY <2>1, <2>3 DEF TypeOK
    <3> QED BY <3>1, <2>1 DEF OneSend, TypeOK
  <2>9. Reclaimed'
    <3> SUFFICES ASSUME NEW j \in Ids, locks'[j] # None
                 PROVE  \E q \in Procs : entry'[q] = locks'[j]
      BY DEF Reclaimed, users
    <3>1. CASE j = i
      BY <3>1, <2>1 DEF TypeOK
    <3>2. CASE j # i
      <4>1. locks'[j] = locks[j] /\ locks[j] # e
        BY <3>2, <2>1, <2>2 DEF TypeOK
      <4>2. PICK q \in Procs : entry[q] = locks[j]
        BY <4>1 DEF Reclaimed, users
      <4>3. q # p  BY <4>1, <4>2, <1>1
      <4> QED BY <4>1, <4>2, <4>3, <2>1 DEF TypeOK
    <3> QED BY <3>1, <3>2
  <2> QED BY <2>4, <2>5, <2>6, <2>7, <2>8, <2>9
<1>4. CASE locks[i] = e
  <2>1. /\ UNCHANGED <<locks, full>>
        /\ refs' = [refs EXCEPT ![e] = @ + 1]
        /\ pc' = [pc EXCEPT ![p] = "waiting"]
        /\ wants' = [wants EXCEPT ![p] = i]
        /\ entry' = [entry EXCEPT ![p] = e]
        /\ pc[p] = "out"
    BY <1>4, NoneAssumption DEF Ref, ref
  <2>2. TypeOK'  BY <2>1 DEF TypeOK
  <2>3. InUse'   BY <2>1, <1>1, <1>4, NoneAssumption DEF InUse, TypeOK
  <2>4. OneKey'  BY <2>1 DEF OneKey
  <2>5. Counted'
    <3>1. Cardinality(users(e)') = Cardinality(users(e)) + 1
      BY <1>2, UsersFinite, FS_AddElement
    <3> QED BY <3>1, <1>2, <2>1 DEF Counted, TypeOK
  <2>6. OneSend'
    <3>1. \A q \in Procs : pc'[q] = "holding" =>
              q # p /\ pc[q] = "holding" /\ entry'[q] = entry[q]
      BY <2>1 DEF TypeOK
    <3> QED BY <3>1, <2>1 DEF OneSend, TypeOK
  <2>7. Reclaimed'
    <3> SUFFICES ASSUME NEW j \in Ids, locks'[j] # None
                 PROVE  \E q \in Procs : entry'[q] = locks'[j]
      BY DEF Reclaimed, users
    <3>1. locks'[j] = locks[j]  BY <2>1
    <3>2. PICK q \in Procs : entry[q] = locks[j]
      BY <3>1 DEF Reclaimed, users
    <3>3. q # p  BY <3>1, <3>2, <1>1
    <3> QED BY <3>1, <3>2, <3>3, <2>1 DEF TypeOK
  <2> QED BY <2>2, <2>3, <2>4, <2>5, <2>6, <2>7
<1> QED BY <1>3, <1>4 DEF Ref, ref

(* The send: the channel was empty, so nobody else is past it.             *)
LEMMA AcquirePreserves ==
    ASSUME IInv, NEW p \in Procs, Acquire(p)
    PROVE  IInv'
<1> USE DEF IInv
<1>1. /\ UNCHANGED <<locks, refs, wants, entry>>
      /\ full' = [full EXCEPT ![entry[p]] = TRUE]
      /\ pc' = [pc EXCEPT ![p] = "holding"]
      /\ pc[p] = "waiting" /\ ~full[entry[p]]
  BY DEF Acquire
<1>2. entry[p] \in Entries  BY <1>1 DEF InUse, TypeOK
<1>3. TypeOK'  BY <1>1 DEF TypeOK
<1>4. InUse'  BY <1>1 DEF InUse, TypeOK
<1>5. OneKey' /\ Counted' /\ Reclaimed'
  BY <1>1 DEF OneKey, Counted, Reclaimed, users
<1>6. OneSend'
  <2>1. \A q \in Procs : pc[q] = "holding" => entry[q] # entry[p]
    BY <1>1 DEF OneSend
  <2>2. \A q \in Procs : pc'[q] = "holding" => q = p \/ pc[q] = "holding"
    BY <1>1 DEF TypeOK
  <2>3. \A q \in Procs : pc[q] = "holding" => entry[q] \in Entries
    BY DEF InUse, TypeOK
  <2> QED BY <1>1, <1>2, <2>1, <2>2, <2>3 DEF OneSend, TypeOK
<1> QED BY <1>3, <1>4, <1>5, <1>6

(* A cancelled wait and the receive of an unlock leave the reference.      *)
LEMMA GiveUpPreserves ==
    ASSUME IInv, NEW p \in Procs, GiveUp(p)
    PROVE  IInv'
<1> USE DEF IInv
<1>1. /\ UNCHANGED <<locks, refs, full, wants, entry>>
      /\ pc' = [pc EXCEPT ![p] = "leaving"]
      /\ pc[p] = "waiting"
  BY DEF GiveUp
<1>2. TypeOK' /\ InUse' /\ OneSend'  BY <1>1 DEF TypeOK, InUse, OneSend
<1>3. OneKey' /\ Counted' /\ Reclaimed'
  BY <1>1 DEF OneKey, Counted, Reclaimed, users
<1> QED BY <1>2, <1>3

LEMMA DrainPreserves ==
    ASSUME IInv, NEW p \in Procs, Drain(p)
    PROVE  IInv'
<1> USE DEF IInv
<1>1. /\ UNCHANGED <<locks, refs, wants, entry>>
      /\ full' = [full EXCEPT ![entry[p]] = FALSE]
      /\ pc' = [pc EXCEPT ![p] = "leaving"]
      /\ pc[p] = "holding"
  BY DEF Drain
<1>2. TypeOK' /\ InUse'  BY <1>1 DEF TypeOK, InUse
<1>3. OneKey' /\ Counted' /\ Reclaimed'
  BY <1>1 DEF OneKey, Counted, Reclaimed, users
<1>4. OneSend'
  <2>1. \A q \in Procs : pc'[q] = "holding" => pc[q] = "holding" /\ q # p
    BY <1>1 DEF TypeOK
  <2>2. \A q \in Procs :
          pc[q] = "holding" => entry[q] \in Entries /\ (q # p => entry[q] # entry[p])
    BY <1>1 DEF InUse, OneSend, TypeOK
  <2> QED BY <1>1, <2>1, <2>2 DEF OneSend, TypeOK
<1> QED BY <1>2, <1>3, <1>4

(* The last user takes the entry out of the map; with another user left it *)
(* stays (releaseRef, 369-382).                                            *)
LEMMA LeavePreserves ==
    ASSUME IInv, NEW p \in Procs, Leave(p)
    PROVE  IInv'
<1> USE DEF IInv
<1> DEFINE e == entry[p]
           i == wants[p]
<1>1. /\ pc[p] = "leaving"
      /\ refs' = [refs EXCEPT ![e] = @ - 1]
      /\ locks' = IF refs[e] <= 1 /\ locks[i] = e
                  THEN [locks EXCEPT ![i] = None] ELSE locks
      /\ pc' = [pc EXCEPT ![p] = "out"]
      /\ wants' = [wants EXCEPT ![p] = None]
      /\ entry' = [entry EXCEPT ![p] = None]
      /\ UNCHANGED full
  BY DEF Leave, releaseRef
<1>2. e \in Entries /\ i \in Ids /\ locks[i] = e
  BY <1>1 DEF InUse, TypeOK
<1>3. PICK d \in Entries : d = e  BY <1>2
<1>4. /\ users(d)' = users(d) \ {p}
      /\ p \in users(d)
      /\ \A f \in Entries : f # d => users(f)' = users(f)
  BY <1>1, <1>3, Leaving
<1>5. refs[d] = Cardinality(users(d)) /\ refs[d] \in Nat /\ refs[d] >= 1
  BY <1>4, UsersCounted, UsersFinite DEF Counted
<1>6. \A q \in Procs : refs[d] <= 1 /\ q # p => entry[q] # d
  BY <1>4, <1>5, UsersCounted, UsersFinite DEF users
<1>7. refs[d] >= 2 => \E q \in Procs : q # p /\ entry[q] = d
  BY <1>4, <1>5, UsersCounted DEF users
<1> HIDE DEF e, i
<1>8. TypeOK'
  <2>1. refs' \in [Entries -> Nat]  BY <1>1, <1>3, <1>5 DEF TypeOK
  <2> QED BY <1>1, <2>1 DEF TypeOK
<1>9. InUse'
  <2> SUFFICES ASSUME NEW q \in Procs
               PROVE  /\ pc'[q] = "out" <=> entry'[q] = None
                      /\ entry'[q] # None =>
                           wants'[q] # None /\ locks'[wants'[q]] = entry'[q]
    BY DEF InUse
  <2>1. CASE q = p  BY <2>1, <1>1 DEF TypeOK
  <2>2. CASE q # p
    <3>1. pc'[q] = pc[q] /\ wants'[q] = wants[q] /\ entry'[q] = entry[q]
      BY <2>2, <1>1 DEF TypeOK
    <3>2. entry[q] # None /\ refs[d] <= 1 => wants[q] # i
      BY <2>2, <1>2, <1>3, <1>6 DEF InUse
    <3>3. entry[q] # None => wants[q] \in Ids  BY DEF InUse, TypeOK
    <3>4. entry[q] # None => locks'[wants[q]] = locks[wants[q]]
      BY <1>1, <1>3, <3>2, <3>3 DEF TypeOK
    <3> QED BY <3>1, <3>4 DEF InUse
  <2> QED BY <2>1, <2>2
<1>10. OneKey'
  BY <1>1, <1>2 DEF OneKey, TypeOK
<1>11. Counted'
  <2>1. Cardinality(users(d)') = Cardinality(users(d)) - 1
    BY <1>4, UsersFinite, FS_RemoveElement
  <2>2. \A f \in Entries : refs'[f] = IF f = d THEN refs[f] - 1 ELSE refs[f]
    BY <1>1, <1>3 DEF TypeOK
  <2> QED BY <2>1, <2>2, <1>4, <1>5 DEF Counted
<1>12. OneSend'
  <2>1. \A q \in Procs : pc'[q] = "holding" =>
            pc[q] = "holding" /\ entry'[q] = entry[q]
    BY <1>1 DEF TypeOK
  <2> QED BY <1>1, <2>1 DEF OneSend
<1>13. Reclaimed'
  <2> SUFFICES ASSUME NEW j \in Ids, locks'[j] # None
               PROVE  \E q \in Procs : entry'[q] = locks'[j]
    BY DEF Reclaimed, users
  <2>1. locks'[j] = locks[j]  BY <1>1, <1>2 DEF TypeOK
  <2>2. PICK q \in Procs : entry[q] = locks[j]
    BY <2>1 DEF Reclaimed, users
  <2>3. CASE locks[j] # d
    <3>1. q # p  BY <2>2, <2>3, <1>3 DEF e
    <3> QED BY <2>1, <2>2, <3>1, <1>1 DEF TypeOK
  <2>4. CASE locks[j] = d
    <3>1. refs[d] >= 2
      BY <2>1, <2>4, <1>1, <1>2, <1>3, <1>5 DEF OneKey, TypeOK
    <3>2. PICK r \in Procs : r # p /\ entry[r] = d  BY <3>1, <1>7
    <3> QED BY <2>1, <2>4, <3>2, <1>1 DEF TypeOK
  <2> QED BY <2>3, <2>4
<1> QED BY <1>8, <1>9, <1>10, <1>11, <1>12, <1>13

(* A step that changes nothing.                                            *)
LEMMA StutterPreserves == IInv /\ UNCHANGED vars => IInv'
  BY DEF vars, IInv, TypeOK, InUse, OneKey, Counted, OneSend, Reclaimed, users

(* The invariant holds of every behaviour.                                 *)
THEOREM Invariance == Spec => []IInv
<1>1. Init => IInv  BY InitIInv
<1>2. IInv /\ [Next]_vars => IInv'
  <2> SUFFICES ASSUME IInv, [Next]_vars PROVE IInv'  OBVIOUS
  <2>1. ASSUME NEW p \in Procs, NEW i \in Ids, NEW e \in Entries, Ref(p, i, e)
        PROVE  IInv'
    BY <2>1, RefPreserves
  <2>2. ASSUME NEW p \in Procs, Acquire(p) PROVE IInv'
    BY <2>2, AcquirePreserves
  <2>3. ASSUME NEW p \in Procs, GiveUp(p) PROVE IInv'
    BY <2>3, GiveUpPreserves
  <2>4. ASSUME NEW p \in Procs, Drain(p) PROVE IInv'
    BY <2>4, DrainPreserves
  <2>5. ASSUME NEW p \in Procs, Leave(p) PROVE IInv'
    BY <2>5, LeavePreserves
  <2> QED BY <2>1, <2>2, <2>3, <2>4, <2>5, StutterPreserves DEF Next
<1> QED BY <1>1, <1>2, PTL DEF Spec

(* Type correctness (credential_store.go:307-382).                         *)
THEOREM TypeCorrect == Spec => []TypeOK
  BY Invariance, PTL DEF IInv

(* The map holds only locks in use (releaseRef, 369-382).                  *)
THEOREM LocksReclaimed == Spec => []Reclaimed
  BY Invariance, PTL DEF IInv

-----------------------------------------------------------------------------
(* Two holders of one credential have the map's entry for it, and only one *)
(* user of an entry is past its send.                                      *)
LEMMA OneHolder == IInv => MutualExclusion
<1> SUFFICES ASSUME IInv, NEW p \in Procs, NEW q \in Procs, NEW i \in Ids,
                    holds(p, i), holds(q, i)
             PROVE  p = q
  BY DEF MutualExclusion
<1>1. entry[p] = locks[i] /\ entry[q] = locks[i]
  BY DEF IInv, InUse, holds
<1> QED BY <1>1 DEF IInv, OneSend, holds

(* No two goroutines ever refresh one credential together (RefreshLock,    *)
(* contracts/credential_store.go:45-46).                                   *)
THEOREM MutuallyExclusive == Spec => []MutualExclusion
  BY Invariance, OneHolder, PTL

(* The refinement mapping names the holder, if there is one.               *)
HolderNamed ==
    \A i \in Ids : /\ \A p \in Procs : holds(p, i) => holder[i] = p
                   /\ (\A p \in Procs : ~holds(p, i)) => holder[i] = None

LEMMA HolderOf == MutualExclusion => HolderNamed
<1> SUFFICES ASSUME MutualExclusion, NEW i \in Ids
             PROVE  /\ \A p \in Procs : holds(p, i) => holder[i] = p
                    /\ (\A p \in Procs : ~holds(p, i)) => holder[i] = None
  BY DEF HolderNamed
<1>1. holder[i] = IF \E p \in Procs : holds(p, i)
                  THEN CHOOSE p \in Procs : holds(p, i) ELSE None
  BY DEF holder
<1>2. ASSUME NEW p \in Procs, holds(p, i) PROVE holder[i] = p
  <2>1. holder[i] = CHOOSE q \in Procs : holds(q, i)  BY <1>1, <1>2
  <2>2. holder[i] \in Procs /\ holds(holder[i], i)  BY <1>2, <2>1
  <2> QED BY <1>2, <2>2 DEF MutualExclusion
<1> QED BY <1>1, <1>2

(* Two states with the same holds relation have the same holders.          *)
LEMMA SameHolders ==
    ASSUME HolderNamed, HolderNamed',
           \A q \in Procs, i \in Ids : holds(q, i)' <=> holds(q, i)
    PROVE  holder' = holder
<1>1. ASSUME NEW i \in Ids PROVE holder'[i] = holder[i]
  <2>1. CASE \E p \in Procs : holds(p, i)
    <3>1. PICK p \in Procs : holds(p, i)  BY <2>1
    <3>2. holds(p, i)'  BY <3>1
    <3> QED BY <3>1, <3>2 DEF HolderNamed
  <2>2. CASE \A p \in Procs : ~holds(p, i)
    BY <2>2 DEF HolderNamed
  <2> QED BY <2>1, <2>2
<1> QED BY <1>1 DEF holder

(* The send is the contract's Lock.                                        *)
LEMMA AcquireLocks ==
    ASSUME IInv, HolderNamed, HolderNamed', NEW p \in Procs, Acquire(p)
    PROVE  \E i \in Ids : Contract!Lock(p, i)
<1>1. PICK i \in Ids : i = wants[p]
  BY DEF Acquire, IInv, InUse, TypeOK
<1>2. \A q \in Procs : ~holds(q, i)
  <2> SUFFICES ASSUME NEW q \in Procs, holds(q, i) PROVE FALSE  OBVIOUS
  <2>1. entry[q] = entry[p]
    BY <1>1 DEF Acquire, holds, IInv, InUse, TypeOK
  <2> QED BY <2>1 DEF Acquire, holds, IInv, OneSend
<1>3. holder[i] = None  BY <1>2 DEF HolderNamed
<1>4. \A q \in Procs, j \in Ids :
        holds(q, j)' <=> holds(q, j) \/ (q = p /\ j = i)
  BY <1>1 DEF Acquire, holds, IInv, TypeOK
<1>5. ASSUME NEW j \in Ids
      PROVE  holder'[j] = IF j = i THEN p ELSE holder[j]
  <2>1. CASE j = i  BY <1>4, <2>1 DEF HolderNamed
  <2>2. CASE j # i /\ \E q \in Procs : holds(q, j)
    <3>1. PICK q \in Procs : holds(q, j)  BY <2>2
    <3>2. holds(q, j)'  BY <1>4, <3>1
    <3> QED BY <2>2, <3>1, <3>2 DEF HolderNamed
  <2>3. CASE j # i /\ \A q \in Procs : ~holds(q, j)
    BY <1>4, <2>3 DEF HolderNamed
  <2> QED BY <2>1, <2>2, <2>3
<1>6. holder' = [holder EXCEPT ![i] = p]  BY <1>5 DEF holder
<1> QED BY <1>3, <1>6 DEF Contract!Lock

(* The receive of the unlock is the contract's Unlock.                     *)
LEMMA DrainUnlocks ==
    ASSUME IInv, HolderNamed, HolderNamed', NEW p \in Procs, Drain(p)
    PROVE  \E i \in Ids : Contract!Unlock(p, i)
<1>1. PICK i \in Ids : i = wants[p]
  BY DEF Drain, IInv, InUse, TypeOK
<1>2. holds(p, i) /\ holder[i] = p
  BY <1>1 DEF Drain, holds, HolderNamed
<1>3. \A q \in Procs : holds(q, i) => q = p
  BY <1>2 DEF HolderNamed
<1>4. \A q \in Procs, j \in Ids : holds(q, j)' <=> holds(q, j) /\ j # i
  <2>1. \A q \in Procs, j \in Ids : holds(q, j)' <=> holds(q, j) /\ q # p
    BY DEF Drain, holds, IInv, TypeOK
  <2>2. \A j \in Ids : holds(p, j) => j = i  BY <1>1 DEF holds
  <2> QED BY <1>3, <2>1, <2>2
<1>5. ASSUME NEW j \in Ids
      PROVE  holder'[j] = IF j = i THEN None ELSE holder[j]
  <2>1. CASE j = i  BY <1>4, <2>1 DEF HolderNamed
  <2>2. CASE j # i /\ \E q \in Procs : holds(q, j)
    <3>1. PICK q \in Procs : holds(q, j)  BY <2>2
    <3>2. holds(q, j)'  BY <1>4, <2>2, <3>1
    <3> QED BY <2>2, <3>1, <3>2 DEF HolderNamed
  <2>3. CASE j # i /\ \A q \in Procs : ~holds(q, j)
    BY <1>4, <2>3 DEF HolderNamed
  <2> QED BY <2>1, <2>2, <2>3
<1>6. holder' = [holder EXCEPT ![i] = None]  BY <1>5 DEF holder
<1> QED BY <1>2, <1>6 DEF Contract!Unlock

(* Every other step leaves the holders as they are.                        *)
LEMMA OthersStutter ==
    ASSUME IInv, HolderNamed, HolderNamed',
           \/ \E p \in Procs, i \in Ids, e \in Entries : Ref(p, i, e)
           \/ \E p \in Procs : GiveUp(p) \/ Leave(p)
           \/ UNCHANGED vars
    PROVE  holder' = holder
<1>1. \A q \in Procs, j \in Ids : holds(q, j)' <=> holds(q, j)
  BY DEF Ref, GiveUp, Leave, vars, holds, IInv, TypeOK
<1> QED BY <1>1, SameHolders

(* The registry implements the contract's lock: every step maps to Lock,   *)
(* Unlock or a stutter (RefreshLock, contracts/credential_store.go:42-54). *)
THEOREM RegistryImplementsContract == Spec => ImplementsContract
<1>1. Init => Contract!Init
  BY DEF Init, Contract!Init, holder, holds
<1>2. IInv => HolderNamed
  BY OneHolder, HolderOf
<1>3. IInv /\ HolderNamed /\ HolderNamed' /\ [Next]_vars => [Contract!Next]_holder
  <2> SUFFICES ASSUME IInv, HolderNamed, HolderNamed', [Next]_vars
               PROVE  [Contract!Next]_holder
    OBVIOUS
  <2>1. ASSUME NEW p \in Procs, Acquire(p) PROVE Contract!Next
    BY <2>1, AcquireLocks DEF Contract!Next
  <2>2. ASSUME NEW p \in Procs, Drain(p) PROVE Contract!Next
    BY <2>2, DrainUnlocks DEF Contract!Next
  <2> QED BY <2>1, <2>2, OthersStutter DEF Next
<1> QED BY <1>1, <1>2, <1>3, Invariance, PTL
        DEF Spec, ImplementsContract, Contract!Spec

-----------------------------------------------------------------------------
(* The quota window.                                                       *)

(* A window is counted locally only if the operator has declared a limit.  *)
Declared == /\ state.window # Unset /\ state.window.source = "local"
                 => state.window.limit = Limit
            /\ stored # Unset /\ stored.source = "local" => stored.limit = Limit

(* A usage is that of an attempt let through in this life, which is paid   *)
(* for and counted when it is applied.                                     *)
Applied ==
    /\ applied \subseteq admitted \ past
    /\ spent.paid \subseteq applied \cup past
    /\ \A k \in Attempts : most[k] > 0 => k \in applied \cup past
    /\ \A d \in Deliverers : call[d].pc # "idle" =>
         call[d].key \in admitted \ past /\ call[d].tokens \in Quantities

(* What is not loaded is not known, and without restarts not stored.       *)
Loading ==
    /\ ~state.loaded => state.window = Unset
    /\ ~state.loaded /\ ~world.restarts => stored = Unset
    /\ admitted \ past # {} => state.loaded

(* A window stored tells no more than was reported.                        *)
StoredCounts ==
    /\ IsFiniteSet(Reported)
    /\ stored # Unset /\ stored.source # "header" /\ ~world.faults
       => stored.used <= Cardinality(Reported)

(* Over a store that works, and if nobody else tells, the row says what    *)
(* the plan has paid in this period, and until when it lasts.              *)
Tracks(w) ==
    /\ w.source = "local"
    /\ w.used = Limit \/ w.used >= spent.tokens
    /\ w.resetsIn = IF spent.resetsIn = Unset THEN 0 ELSE spent.resetsIn
Tracked ==
    ~world.faults /\ ~world.learns =>
        /\ ~state.terminal
        /\ spent.resetsIn # 0
        /\ spent.resetsIn = Unset => spent.tokens = 0
        /\ IF stored = Unset THEN spent.resetsIn = Unset /\ state.window = Unset
           ELSE Tracks(stored)
        /\ state.window # Unset =>
             state.window.remaining \in {0, Limit - state.window.used}

QuotaIInv == /\ QuotaTypeOK /\ Declared /\ Applied /\ Loading /\ StoredCounts
             /\ NeverOvercounts /\ WriteThrough /\ Tracked

-----------------------------------------------------------------------------
(* What has been reported for an attempt can be counted.                   *)

LEMMA ColumnCount ==
    ASSUME NEW k, NEW m \in Nat, NEW n \in Nat, m <= n
    PROVE  /\ IsFiniteSet({k} \X (m + 1 .. n))
           /\ Cardinality({k} \X (m + 1 .. n)) = n - m
<1>1. IsFiniteSet({k}) /\ Cardinality({k}) = 1  BY FS_Singleton
<1>2. IsFiniteSet(m + 1 .. n) /\ Cardinality(m + 1 .. n) = n - m
  <2>1. m + 1 \in Int /\ n \in Int  OBVIOUS
  <2>2. /\ IsFiniteSet(m + 1 .. n)
        /\ Cardinality(m + 1 .. n) = IF m + 1 > n THEN 0 ELSE n - (m + 1) + 1
    BY <2>1, FS_Interval
  <2> QED BY <2>2
<1> DEFINE column == {k}
           reports == m + 1 .. n
<1> HIDE DEF column, reports
<1>3. /\ IsFiniteSet(column \X reports)
      /\ Cardinality(column \X reports) = Cardinality(column) * Cardinality(reports)
  <2>1. IsFiniteSet(column) /\ IsFiniteSet(reports)
    BY <1>1, <1>2 DEF column, reports
  <2> QED BY <2>1, FS_Product, Zenon
<1>4. Cardinality(column) * Cardinality(reports) = n - m
  <2>1. Cardinality(column) = 1 /\ Cardinality(reports) = n - m
    BY <1>1, <1>2 DEF column, reports
  <2>2. n - m \in Int
    OBVIOUS
  <2> QED BY <2>1, <2>2
<1> QED BY <1>3, <1>4 DEF column, reports

(* A larger report adds what it is larger by, and a first one all of it.   *)
LEMMA ReportedMore ==
    ASSUME IsFiniteSet(Reported), most \in [Attempts -> Nat], NEW k \in Attempts,
           NEW n \in Nat, most[k] <= n, most' = [most EXCEPT ![k] = n]
    PROVE  /\ IsFiniteSet(Reported')
           /\ Cardinality(Reported) \in Nat
           /\ Cardinality(Reported') = Cardinality(Reported) + (n - most[k])
<1> DEFINE more == {k} \X (most[k] + 1 .. n)
<1>1. IsFiniteSet(more) /\ Cardinality(more) = n - most[k]  BY ColumnCount
<1>2. Reported' = Reported \cup more
  <2>1. \A x : x \in Reported <=> \E j \in Attempts : x \in {j} \X (1 .. most[j])
    BY DEF Reported
  <2>2. \A x : x \in Reported' <=> \E j \in Attempts : x \in {j} \X (1 .. most'[j])
    BY DEF Reported
  <2>3. \A x : \A j \in Attempts : j # k => (x \in {j} \X (1 .. most'[j]) <=> x \in {j} \X (1 .. most[j]))
    OBVIOUS
  <2>4. \A x : x \in {k} \X (1 .. most'[k]) <=> x \in {k} \X (1 .. most[k]) \/ x \in more
    OBVIOUS
  <2> HIDE DEF more
  <2> QED BY <2>1, <2>2, <2>3, <2>4
<1>3. Reported \cap more = {}
  BY DEF Reported
<1> HIDE DEF more
<1>4. IsFiniteSet(Reported \cap more) /\ Cardinality(Reported \cap more) = 0
  BY <1>3, FS_EmptySet
<1>5. /\ IsFiniteSet(Reported')
      /\ Cardinality(Reported') = Cardinality(Reported) + Cardinality(more)
                                  - Cardinality(Reported \cap more)
  BY <1>1, <1>2, FS_Union
<1> QED BY <1>1, <1>4, <1>5, FS_CardinalityType

(* If the first report of a new period is all there is, it is counted.     *)
LEMMA ReportedOnly ==
    ASSUME NEW k \in Attempts, NEW n \in Nat,
           most' = [j \in Attempts |-> IF j = k THEN n ELSE 0]
    PROVE  IsFiniteSet(Reported') /\ Cardinality(Reported') = n
<1>1. Reported' = {k} \X (0 + 1 .. n)
  <2>1. \A x : x \in Reported' <=> \E j \in Attempts : x \in {j} \X (1 .. most'[j])
    BY DEF Reported
  <2>2. \A x : \A j \in Attempts : j # k => x \notin {j} \X (1 .. most'[j])
    OBVIOUS
  <2> QED BY <2>1, <2>2
<1>2. 0 \in Nat /\ 0 <= n  OBVIOUS
<1>3. /\ IsFiniteSet({k} \X (0 + 1 .. n))
      /\ Cardinality({k} \X (0 + 1 .. n)) = n - 0
  BY <1>2, ColumnCount
<1> QED BY <1>1, <1>3

-----------------------------------------------------------------------------
(* The window that a call works on: read now, or in memory.                *)

Told(st) ==
    /\ st \in States /\ st.loaded /\ st.terminal = state.terminal
    /\ state.loaded => st = state
    /\ st.window # Unset /\ st.window.source = "local" => st.window.limit = Limit
    /\ st.window # Unset /\ st.window.source # "header" /\ ~(world.faults /\ world.restarts)
       => st.window.used <= Cardinality(Reported)
    /\ ~world.faults /\ stored # Unset /\ ~st.terminal
       => st.window # Unset /\ stored = Row(st.window)
    /\ ~world.faults /\ ~world.learns =>
         /\ stored = Unset => st.window = Unset
         /\ st.window # Unset => st.window.remaining \in {0, Limit - st.window.used}

LEMMA Numbers == Limit \in Nat /\ Limit > 0 /\ Cutoff \in 0 .. Limit - 1 /\ Duration \in Nat
                 /\ Duration > 0 /\ Quantities \subseteq Nat \ {0}
  BY LimitAssumption, DurationAssumption, QuantitiesAssumption

LEMMA RestoredTyped ==
    ASSUME NEW row \in Rows
    PROVE  /\ restored(row) \in Windows /\ Row(restored(row)) = row
           /\ restored(row).source = row.source /\ restored(row).limit = row.limit
           /\ restored(row).used = row.used /\ restored(row).remaining = 0
<1>1. 0 \in 0 .. Limit  BY Numbers
<1> QED BY <1>1 DEF Rows, Windows, restored, Row

LEMMA LoadedTold == ASSUME QuotaIInv, NEW st \in stateLocked  PROVE Told(st)
<1> USE DEF QuotaIInv
<1>1. CASE state.loaded
  <2>1. st = state  BY <1>1 DEF stateLocked
  <2> QED BY <1>1, <2>1
          DEF Told, QuotaTypeOK, Declared, NeverOvercounts, WriteThrough, Tracked
<1>2. CASE ~state.loaded
  <2>1. state \in States /\ stored \in Rows \cup {Unset}  BY DEF QuotaTypeOK
  <2>2. PICK w : /\ st = [state EXCEPT !.loaded = TRUE, !.window = w]
                 /\ \/ w = Unset /\ (stored = Unset \/ world.faults)
                    \/ stored # Unset /\ w = restored(stored)
    BY <1>2 DEF stateLocked
  <2>3. w = Unset \/ w \in Windows  BY <2>1, <2>2, RestoredTyped
  <2>4. st \in States /\ st.loaded /\ st.window = w /\ st.terminal = state.terminal
    BY <2>1, <2>2, <2>3 DEF States
  <2>5. CASE w = Unset
    <3>1. stored # Unset => restored(stored) # Unset  BY <2>1, RestoredTyped, UnsetAssumption
    <3>2. ~world.faults => stored = Unset  BY <2>2, <2>5, <3>1
    <3> QED BY <1>2, <2>4, <2>5, <3>2 DEF Told
  <2>6. CASE stored # Unset /\ w = restored(stored)
    <3>1. w # Unset  BY <2>1, <2>6, RestoredTyped, UnsetAssumption
    <3>2. ~(world.faults /\ world.restarts) => ~world.faults
      BY <1>2, <2>6 DEF Loading
    <3>3. w.source # "header" /\ ~world.faults => w.used <= Cardinality(Reported)
      BY <2>1, <2>6, RestoredTyped DEF StoredCounts
    <3>4. w.source = "local" => w.limit = Limit
      BY <2>1, <2>6, RestoredTyped DEF Declared
    <3>5. stored = Row(w) /\ w.remaining = 0
      BY <2>1, <2>6, RestoredTyped
    <3> QED BY <1>2, <2>4, <2>6, <3>1, <3>2, <3>3, <3>4, <3>5 DEF Told
  <2> QED BY <2>2, <2>5, <2>6
<1> QED BY <1>1, <1>2

(* The window a call leaves, and the row of it.                            *)
LEMMA Persisted ==
    ASSUME QuotaIInv, NEW st, Told(st), NEW w \in Windows,
           persistWindows([st EXCEPT !.window = w])
    PROVE  /\ state' \in States /\ state'.loaded /\ state'.window = w /\ w # Unset
           /\ state'.terminal = state.terminal
           /\ stored' \in Rows \cup {Unset}
           /\ stored' = Row(w) \/ (world.faults /\ stored' = stored)
           /\ Row(w) \in Rows /\ Row(w) # Unset
           /\ Row(w).source = w.source /\ Row(w).limit = w.limit /\ Row(w).used = w.used
           /\ Row(w).resetsIn = w.resetsIn
<1>1. state' = [st EXCEPT !.window = w]  BY DEF persistWindows
<1>2. st \in States /\ st.loaded /\ st.terminal = state.terminal  BY DEF Told
<1>3. /\ state' \in States /\ state'.loaded /\ state'.window = w
      /\ state'.terminal = state.terminal
  BY <1>1, <1>2 DEF States
<1>4. w # Unset  BY UnsetAssumption
<1>5. /\ Row(w) \in Rows
      /\ Row(w).source = w.source /\ Row(w).limit = w.limit /\ Row(w).used = w.used
      /\ Row(w).resetsIn = w.resetsIn
  BY DEF Windows, Rows, Row
<1>6. Row(w) # Unset  BY <1>5, UnsetAssumption
<1>7. stored' = Row(w) \/ (world.faults /\ stored' = stored)
  BY <1>1, <1>3, <1>4 DEF persistWindows
<1>8. stored' \in Rows \cup {Unset}  BY <1>5, <1>7 DEF QuotaIInv, QuotaTypeOK
<1> QED BY <1>3, <1>4, <1>5, <1>6, <1>7, <1>8

-----------------------------------------------------------------------------
(* The steps, one lemma for each.                                          *)

LEMMA InitQuotaIInv == QuotaInit => QuotaIInv
<1> SUFFICES ASSUME QuotaInit PROVE QuotaIInv  OBVIOUS
<1> USE DEF QuotaInit
<1>1. QuotaTypeOK
  <2>1. state \in States  BY DEF Absent, States
  <2>2. call \in [Deliverers -> Calls]  BY DEF Idle, Calls
  <2>3. spent \in Bills  BY DEF Fresh, Bills, Resets
  <2> QED BY <2>1, <2>2, <2>3 DEF QuotaTypeOK
<1>2. Declared /\ Loading /\ WriteThrough /\ NeverOvercounts
  BY DEF Declared, Loading, WriteThrough, NeverOvercounts, Absent
<1>3. Applied  BY DEF Applied, Fresh, Idle
<1>4. StoredCounts
  <2>1. \A x : x \in Reported <=> \E k \in Attempts : x \in {k} \X (1 .. most[k])
    BY DEF Reported
  <2>2. Reported = {}  BY <2>1
  <2> QED BY <2>2, FS_EmptySet DEF StoredCounts
<1>5. Tracked
  <2>1. Unset # 0  BY UnsetAssumption, Numbers
  <2> QED BY <2>1 DEF Tracked, Absent, Fresh
<1> QED BY <1>1, <1>2, <1>3, <1>4, <1>5 DEF QuotaIInv

LEMMA AdmitStep == ASSUME QuotaIInv, NEW k \in Attempts, Admit(k)  PROVE QuotaIInv'
<1>1. Told(state')  BY LoadedTold DEF Admit
<1>2. UNCHANGED <<world, past, applied, stored, rows, call, spent, most, Reported>>
      /\ admitted \subseteq admitted' /\ admitted' \subseteq admitted \cup {k}
  BY DEF Admit, Reported
<1>3. QuotaTypeOK'  BY <1>1, <1>2 DEF Told, QuotaIInv, QuotaTypeOK
<1>4. Declared' /\ NeverOvercounts' /\ WriteThrough'
  BY <1>1, <1>2 DEF Told, QuotaIInv, Declared, NeverOvercounts, WriteThrough
<1>5. Applied'
  <2>1. applied \subseteq (admitted \ past)'  BY <1>2 DEF QuotaIInv, Applied
  <2> QED BY <1>2, <2>1 DEF QuotaIInv, Applied
<1>6. Loading'  BY <1>1, <1>2 DEF Told, Loading
<1>7. StoredCounts'  BY <1>2 DEF QuotaIInv, StoredCounts
<1>8. Tracked'
  BY <1>1, <1>2 DEF Told, QuotaIInv, Tracked, Tracks
<1> QED BY <1>3, <1>4, <1>5, <1>6, <1>7, <1>8 DEF QuotaIInv

LEMMA DeliverStep ==
    ASSUME QuotaIInv, NEW d \in Deliverers, NEW k \in Attempts, NEW n \in Quantities,
           Deliver(d, k, n)
    PROVE  QuotaIInv'
<1> DEFINE c == [pc |-> "record", key |-> k, tokens |-> n]
<1>1. /\ call' = [call EXCEPT ![d] = c] /\ k \in admitted \ past
      /\ UNCHANGED <<world, past, state, applied, stored, rows, admitted, spent, most, Reported>>
  BY DEF Deliver, Reported
<1>2. c \in Calls /\ c.key = k /\ c.tokens = n  BY DEF Calls
<1> HIDE DEF c
<1>3. QuotaTypeOK'  BY <1>1, <1>2 DEF QuotaIInv, QuotaTypeOK
<1>4. Applied'  BY <1>1, <1>2 DEF QuotaIInv, QuotaTypeOK, Applied
<1>5. Declared' /\ Loading' /\ StoredCounts' /\ NeverOvercounts' /\ WriteThrough' /\ Tracked'
  BY <1>1 DEF QuotaIInv, Declared, Loading, StoredCounts, NeverOvercounts, WriteThrough,
              Tracked, Tracks
<1> QED BY <1>3, <1>4, <1>5 DEF QuotaIInv

LEMMA LogStep == ASSUME QuotaIInv, NEW d \in Deliverers, Log(d)  PROVE QuotaIInv'
<1>1. /\ call' = [call EXCEPT ![d] = Idle] /\ call[d].pc = "log"
      /\ rows' = [rows EXCEPT ![call[d].key] = call[d].tokens] \/ rows' = rows
      /\ UNCHANGED <<world, past, state, applied, stored, admitted, spent, most, Reported>>
  BY DEF Log, Reported
<1>2. Idle \in Calls /\ Idle.pc = "idle"  BY DEF Calls, Idle
<1>3. call[d].tokens \in Quantities  BY <1>1 DEF QuotaIInv, Applied
<1>4. QuotaTypeOK'  BY <1>1, <1>2, <1>3 DEF QuotaIInv, QuotaTypeOK
<1>5. Applied'  BY <1>1, <1>2 DEF QuotaIInv, QuotaTypeOK, Applied
<1>6. Declared' /\ Loading' /\ StoredCounts' /\ NeverOvercounts' /\ WriteThrough' /\ Tracked'
  BY <1>1 DEF QuotaIInv, Declared, Loading, StoredCounts, NeverOvercounts, WriteThrough,
              Tracked, Tracks
<1> QED BY <1>4, <1>5, <1>6 DEF QuotaIInv

(* Nothing but the quantity of an attempt that has been counted may grow.  *)
LEMMA ReplayStep == ASSUME QuotaIInv, NEW d \in Deliverers, Replay(d)  PROVE QuotaIInv'
<1> DEFINE k == call[d].key
           n == call[d].tokens
           m == IF most[k] = 0 THEN 0 ELSE larger(most[k], n)
<1>1. /\ call' = [call EXCEPT ![d].pc = "log"] /\ call[d].pc = "record" /\ k \in applied
      /\ most' = [most EXCEPT ![k] = m]
      /\ UNCHANGED <<world, past, state, applied, stored, rows, admitted, spent>>
  BY DEF Replay, seen
<1>2. k \in Attempts /\ n \in Quantities
  BY <1>1 DEF QuotaIInv, QuotaTypeOK, Applied
<1>3. most \in [Attempts -> Nat] /\ most[k] \in Quantities \cup {0}
      /\ most[k] \in Nat /\ n \in Nat
  <2>1. Quantities \cup {0} \subseteq Nat  BY Numbers
  <2>2. most \in [Attempts -> Quantities \cup {0}]  BY DEF QuotaIInv, QuotaTypeOK
  <2> HIDE DEF k, n
  <2> QED BY <1>2, <2>1, <2>2
<1>4. m \in Quantities \cup {0} /\ m \in Nat /\ most[k] <= m
  BY <1>2, <1>3, Numbers DEF larger
<1>5. call[d] \in Calls /\ call' \in [Deliverers -> Calls]
      /\ call'[d].key = k /\ call'[d].tokens = n
      /\ \A e \in Deliverers \ {d} : call'[e] = call[e]
  BY <1>1 DEF QuotaIInv, QuotaTypeOK, Calls
<1> HIDE DEF k, n, m
<1>6. IsFiniteSet(Reported)  BY DEF QuotaIInv, StoredCounts
<1>7. IsFiniteSet(Reported') /\ Cardinality(Reported) \in Nat
      /\ Cardinality(Reported') = Cardinality(Reported) + (m - most[k])
  BY <1>1, <1>2, <1>3, <1>4, <1>6, ReportedMore
<1>8. Cardinality(Reported') \in Nat /\ Cardinality(Reported) <= Cardinality(Reported')
  BY <1>3, <1>4, <1>7
<1>9. QuotaTypeOK'  BY <1>1, <1>2, <1>4, <1>5 DEF QuotaIInv, QuotaTypeOK
<1>10. Applied'
  <2>1. \A j \in Attempts : most'[j] > 0 => j \in applied' \cup past'
    BY <1>1, <1>2 DEF QuotaIInv, QuotaTypeOK, Applied
  <2>2. \A e \in Deliverers : call'[e].pc # "idle" =>
          call'[e].key \in admitted \ past /\ call'[e].tokens \in Quantities
    BY <1>1, <1>2, <1>5 DEF QuotaIInv, Applied, k
  <2> QED BY <1>1, <2>1, <2>2 DEF QuotaIInv, Applied
<1>11. Declared' /\ Loading' /\ WriteThrough' /\ Tracked'
  BY <1>1 DEF QuotaIInv, Declared, Loading, WriteThrough, Tracked, Tracks
<1>12. NeverOvercounts'
  <2>1. SUFFICES ASSUME state.window # Unset, state.window.source # "header",
                        ~(world.faults /\ world.restarts)
                 PROVE  state.window.used <= Cardinality(Reported')
    BY <1>1 DEF NeverOvercounts
  <2>2. state.window.used <= Cardinality(Reported)  BY <2>1 DEF QuotaIInv, NeverOvercounts
  <2>3. state.window.used \in Nat  BY <2>1, Numbers DEF QuotaIInv, QuotaTypeOK, States, Windows
  <2> QED BY <1>7, <1>8, <2>2, <2>3
<1>13. StoredCounts'
  <2>1. SUFFICES ASSUME stored # Unset, stored.source # "header", ~world.faults
                 PROVE  stored.used <= Cardinality(Reported')
    BY <1>1, <1>7 DEF StoredCounts
  <2>2. stored.used <= Cardinality(Reported)  BY <2>1 DEF QuotaIInv, StoredCounts
  <2>3. stored.used \in Nat  BY <2>1, Numbers DEF QuotaIInv, QuotaTypeOK, Rows
  <2> QED BY <1>7, <1>8, <2>2, <2>3
<1> QED BY <1>9, <1>10, <1>11, <1>12, <1>13 DEF QuotaIInv

LEMMA SetTerminalStep == ASSUME QuotaIInv, SetTerminal  PROVE QuotaIInv'
<1>1. /\ world.learns
      /\ UNCHANGED <<world, past, applied, stored, rows, admitted, call, spent, most, Reported>>
  BY DEF SetTerminal, Reported
<1>2. /\ state' \in States /\ state'.loaded /\ state'.terminal
      /\ state'.window = state.window
  BY DEF SetTerminal, QuotaIInv, QuotaTypeOK, States
<1>3. QuotaTypeOK' /\ Applied'  BY <1>1, <1>2 DEF QuotaIInv, QuotaTypeOK, Applied
<1>4. Declared' /\ Loading' /\ StoredCounts' /\ NeverOvercounts'
  BY <1>1, <1>2 DEF QuotaIInv, Declared, Loading, StoredCounts, NeverOvercounts
<1>5. WriteThrough' /\ Tracked'
  BY <1>1, <1>2 DEF WriteThrough, Tracked
<1> QED BY <1>3, <1>4, <1>5 DEF QuotaIInv

LEMMA RestartStep == ASSUME QuotaIInv, Restart  PROVE QuotaIInv'
<1>1. /\ world.restarts /\ state' = Absent /\ applied' = {} /\ past' = admitted
      /\ call' = [d \in Deliverers |-> Idle]
      /\ UNCHANGED <<world, stored, rows, admitted, spent, most, Reported>>
  BY DEF Restart, Reported
<1>2. Idle \in Calls /\ Idle.pc = "idle" /\ Absent \in States
  BY DEF Calls, Idle, States, Absent
<1>3. QuotaTypeOK'  BY <1>1, <1>2 DEF QuotaIInv, QuotaTypeOK
<1>4. Applied'
  BY <1>1, <1>2 DEF QuotaIInv, QuotaTypeOK, Applied
<1>5. Declared' /\ Loading' /\ StoredCounts' /\ NeverOvercounts' /\ WriteThrough'
  BY <1>1 DEF QuotaIInv, Declared, Loading, StoredCounts, NeverOvercounts, WriteThrough, Absent
<1>6. Tracked'
  BY <1>1 DEF QuotaIInv, Tracked, Tracks, Absent
<1> QED BY <1>3, <1>4, <1>5, <1>6 DEF QuotaIInv

(* A header, which carries what it likes, takes the place of the window.   *)
LEMMA ApplyHeaderStep == ASSUME QuotaIInv, NEW h \in Headers, ApplyHeader(h)  PROVE QuotaIInv'
<1>1. world.learns /\ UNCHANGED <<world, past, applied, rows, admitted, call, spent, most, Reported>>
  BY DEF ApplyHeader, Reported
<1>2. PICK st \in stateLocked : persistWindows([st EXCEPT !.window = h])
  BY DEF ApplyHeader
<1>3. h \in Windows /\ h.source = "header"  BY HeadersAssumption
<1>4. Told(st)  BY <1>2, LoadedTold
<1>5. /\ state' \in States /\ state'.loaded /\ state'.window = h /\ h # Unset
      /\ stored' \in Rows \cup {Unset}
      /\ stored' = Row(h) \/ (world.faults /\ stored' = stored)
      /\ Row(h).source = "header"
  BY <1>2, <1>3, <1>4, Persisted
<1>6. QuotaTypeOK' /\ Applied'  BY <1>1, <1>5 DEF QuotaIInv, QuotaTypeOK, Applied
<1>7. Declared' /\ Loading' /\ NeverOvercounts'
  BY <1>1, <1>3, <1>5 DEF QuotaIInv, Declared, Loading, NeverOvercounts
<1>8. StoredCounts' /\ WriteThrough' /\ Tracked'
  BY <1>1, <1>5 DEF QuotaIInv, StoredCounts, WriteThrough, Tracked
<1> QED BY <1>6, <1>7, <1>8 DEF QuotaIInv

(* A hint ends the window early, whatever it has counted.                  *)
LEMMA Hinted ==
    ASSUME NEW w \in Windows \cup {Unset}, NEW resets \in Hints
    PROVE  /\ hinted(w, resets) \in Windows /\ hinted(w, resets).source \in {"header", "hint"}
           /\ hinted(w, resets).used = IF w = Unset THEN 0 ELSE w.used
           /\ w # Unset /\ w.source = "header" => hinted(w, resets).source = "header"
<1>1. resets \in Resets /\ 0 \in 0 .. Limit  BY Numbers, DurationAssumption DEF Resets
<1>2. CASE w = Unset  BY <1>1, <1>2 DEF hinted, Windows, Sources
<1>3. CASE w # Unset  BY <1>1, <1>3 DEF hinted, Windows, Sources
<1> QED BY <1>2, <1>3

LEMMA ApplyRetryHintStep ==
    ASSUME QuotaIInv, NEW resets \in Hints, ApplyRetryHint(resets)  PROVE QuotaIInv'
<1>1. world.learns /\ UNCHANGED <<world, past, applied, rows, admitted, call, spent, most, Reported>>
  BY DEF ApplyRetryHint, Reported
<1>2. PICK st \in stateLocked : persistWindows([st EXCEPT !.window = hinted(@, resets)])
  BY DEF ApplyRetryHint
<1>3. Told(st)  BY <1>2, LoadedTold
<1>4. st.window \in Windows \cup {Unset}  BY <1>3 DEF Told, States
<1> DEFINE w == hinted(st.window, resets)
<1>5. /\ w \in Windows /\ w.source \in {"header", "hint"}
      /\ w.used = IF st.window = Unset THEN 0 ELSE st.window.used
      /\ st.window # Unset /\ st.window.source = "header" => w.source = "header"
  BY <1>4, Hinted
<1>6. persistWindows([st EXCEPT !.window = w])
  <2>1. [st EXCEPT !.window = hinted(@, resets)] = [st EXCEPT !.window = w]  OBVIOUS
  <2> QED BY <1>2, <2>1
<1> HIDE DEF w
<1>7. /\ state' \in States /\ state'.loaded /\ state'.window = w /\ w # Unset
      /\ stored' \in Rows \cup {Unset}
      /\ stored' = Row(w) \/ (world.faults /\ stored' = stored)
      /\ Row(w).source = w.source /\ Row(w).used = w.used
  BY <1>3, <1>5, <1>6, Persisted
<1>8. QuotaTypeOK' /\ Applied'  BY <1>1, <1>7 DEF QuotaIInv, QuotaTypeOK, Applied
<1>9. Declared' /\ Loading'
  BY <1>1, <1>5, <1>7 DEF QuotaIInv, Declared, Loading
<1>10. Cardinality(Reported) \in Nat
  BY FS_CardinalityType DEF QuotaIInv, StoredCounts
<1>11. w.source # "header" /\ ~(world.faults /\ world.restarts)
       => w.used <= Cardinality(Reported)
  BY <1>3, <1>5, <1>10 DEF Told
<1>12. NeverOvercounts'  BY <1>1, <1>7, <1>11 DEF NeverOvercounts
<1>13. StoredCounts'
  BY <1>1, <1>7, <1>11 DEF QuotaIInv, StoredCounts
<1>14. WriteThrough' /\ Tracked'  BY <1>1, <1>7 DEF WriteThrough, Tracked
<1> QED BY <1>8, <1>9, <1>12, <1>13, <1>14 DEF QuotaIInv

(* What a usage makes of the window: a period that is over begins anew,    *)
(* and a local count goes up as far as the limit.                          *)
LEMMA Counts ==
    ASSUME NEW w \in Windows \cup {Unset}, NEW n \in Quantities,
           w # Unset /\ w.source = "local" => w.limit = Limit
    PROVE  LET v == applyLocked(w, n)
               fresh == w = Unset \/ w.resetsIn = 0
               base == IF fresh THEN 0 ELSE w.used
           IN  /\ v \in Windows
               /\ v.source = IF w = Unset THEN "local" ELSE w.source
               /\ v.source = "local" =>
                    /\ v.limit = Limit /\ v.remaining = Limit - v.used
                    /\ v.used = IF base + n > Limit THEN Limit ELSE base + n
               /\ v.source # "local" => v.used = base
               /\ v.resetsIn = IF fresh THEN Duration ELSE w.resetsIn
<1> DEFINE r == rolled(IF w = Unset THEN created ELSE w)
           base == IF w = Unset \/ w.resetsIn = 0 THEN 0 ELSE w.used
<1>0. 0 \in 0 .. Limit /\ Limit \in 0 .. Limit /\ Limit # 0 /\ Duration \in Resets
      /\ Duration # 0 /\ n \in Nat /\ Limit \in Nat
  BY Numbers DEF Resets
<1>1. /\ r \in Windows
      /\ r.source = IF w = Unset THEN "local" ELSE w.source
      /\ r.source = "local" => r.limit = Limit
      /\ r.used = base /\ base \in Nat
      /\ r.resetsIn = IF w = Unset \/ w.resetsIn = 0 THEN Duration ELSE w.resetsIn
  <2>1. CASE w = Unset
    BY <1>0, <2>1 DEF rolled, created, Windows, Sources
  <2>2. CASE w # Unset /\ w.resetsIn = 0
    <3>1. r = [w EXCEPT !.used = 0, !.resetsIn = Duration]  BY <2>2 DEF rolled
    <3> HIDE DEF r
    <3> QED BY <1>0, <2>2, <3>1 DEF Windows
  <2>3. CASE w # Unset /\ w.resetsIn # 0
    <3>1. r = w  BY <2>3 DEF rolled
    <3>2. w.used \in Nat  BY <1>0, <2>3 DEF Windows
    <3> HIDE DEF r
    <3> QED BY <2>3, <3>1, <3>2 DEF Windows
  <2> QED BY <2>1, <2>2, <2>3
<1> HIDE DEF r, base
<1>2. applyLocked(w, n) = IF r.source # "local" THEN r
                          ELSE setRemaining([r EXCEPT !.used = @ + n])
  BY DEF applyLocked, r
<1>3. CASE r.source # "local"
  BY <1>1, <1>2, <1>3 DEF base
<1>4. CASE r.source = "local"
  <2> DEFINE u == IF base + n > Limit THEN Limit ELSE base + n
             s == [r EXCEPT !.used = @ + n]
  <2>1. s.limit = Limit /\ s.used = base + n /\ s.source = "local" /\ s.resetsIn = r.resetsIn
    BY <1>1, <1>4 DEF Windows
  <2> HIDE DEF s
  <2>2. setRemaining(s) = [s EXCEPT !.used = u, !.remaining = Limit - u]
    BY <1>0, <2>1 DEF setRemaining
  <2>3. u \in 0 .. Limit /\ Limit - u \in 0 .. Limit  BY <1>0, <1>1
  <2> HIDE DEF u
  <2>4. /\ setRemaining(s) \in Windows /\ setRemaining(s).source = "local"
        /\ setRemaining(s).limit = Limit /\ setRemaining(s).used = u
        /\ setRemaining(s).remaining = Limit - u /\ setRemaining(s).resetsIn = r.resetsIn
    <3>1. s \in [limit : {0, Limit}, used : Nat, remaining : 0 .. Limit,
                  resetsIn : Resets, source : Sources]
      BY <1>0, <1>1 DEF s, Windows
    <3> QED BY <2>1, <2>2, <2>3, <3>1 DEF Windows
  <2> QED BY <1>1, <1>2, <1>4, <2>4 DEF base, u, s
<1> QED BY <1>3, <1>4

(* A usage is counted: once, and in the period that the plan pays it in.   *)
LEMMA ApplyStep == ASSUME QuotaIInv, NEW d \in Deliverers, Apply(d)  PROVE QuotaIInv'
<1> DEFINE k == call[d].key
           n == call[d].tokens
<1>1. /\ call[d].pc = "record" /\ k \notin applied /\ applied' = applied \cup {k}
      /\ call' = [call EXCEPT ![d].pc = "log"] /\ spent' = pay(k, n)
      /\ UNCHANGED <<world, past, rows, admitted>>
  BY DEF Apply, seen
<1>2. k \in Attempts /\ k \in admitted \ past /\ n \in Quantities /\ n \in Nat /\ n > 0
  BY <1>1, Numbers DEF QuotaIInv, QuotaTypeOK, Applied
<1>3. state.loaded  BY <1>2 DEF QuotaIInv, Loading
<1>4. PICK st \in stateLocked :
        LET over == st.window # Unset /\ st.window.resetsIn = 0
        IN  /\ persistWindows([st EXCEPT !.window = applyLocked(@, n)])
            /\ most' = [j \in Attempts |->
                           IF j = k    THEN larger(IF over THEN 0 ELSE most[k], n)
                           ELSE IF over THEN 0 ELSE most[j]]
  BY DEF Apply
<1>5. Told(st) /\ st = state  BY <1>3, <1>4, LoadedTold DEF Told
<1>6. call[d] \in Calls /\ call' \in [Deliverers -> Calls]
      /\ call'[d].key = k /\ call'[d].tokens = n
      /\ \A e \in Deliverers \ {d} : call'[e] = call[e]
  BY <1>1 DEF QuotaIInv, QuotaTypeOK, Calls
<1> DEFINE w == state.window
           v == applyLocked(w, n)
           fresh == w = Unset \/ w.resetsIn = 0
           over == w # Unset /\ w.resetsIn = 0
<1>7. w \in Windows \cup {Unset}  BY DEF QuotaIInv, QuotaTypeOK, States
<1>8. w # Unset /\ w.source = "local" => w.limit = Limit  BY DEF QuotaIInv, Declared
<1>9. /\ v \in Windows
      /\ v.source = IF w = Unset THEN "local" ELSE w.source
      /\ v.source = "local" =>
           /\ v.limit = Limit /\ v.remaining = Limit - v.used
           /\ v.used = IF (IF fresh THEN 0 ELSE w.used) + n > Limit THEN Limit
                       ELSE (IF fresh THEN 0 ELSE w.used) + n
      /\ v.source # "local" => v.used = IF fresh THEN 0 ELSE w.used
      /\ v.resetsIn = IF fresh THEN Duration ELSE w.resetsIn
  BY <1>2, <1>7, <1>8, Counts
<1>10. persistWindows([st EXCEPT !.window = v])
  <2>1. [st EXCEPT !.window = applyLocked(@, n)] = [st EXCEPT !.window = v]
    BY <1>5
  <2> QED BY <1>4, <2>1
<1>11. /\ state' \in States /\ state'.loaded /\ state'.window = v /\ v # Unset
       /\ state'.terminal = state.terminal
       /\ stored' \in Rows \cup {Unset}
       /\ stored' = Row(v) \/ (world.faults /\ stored' = stored)
       /\ Row(v) \in Rows /\ Row(v) # Unset
       /\ Row(v).source = v.source /\ Row(v).limit = v.limit /\ Row(v).used = v.used
       /\ Row(v).resetsIn = v.resetsIn
  <2> HIDE DEF v
  <2> QED BY <1>5, <1>9, <1>10, Persisted
<1>12. most \in [Attempts -> Nat] /\ most \in [Attempts -> Quantities \cup {0}]
       /\ most[k] = 0
  <2>1. Quantities \cup {0} \subseteq Nat  BY Numbers
  <2>2. most \in [Attempts -> Quantities \cup {0}]  BY DEF QuotaIInv, QuotaTypeOK
  <2>3. ~(most[k] > 0)  BY <1>1, <1>2 DEF QuotaIInv, Applied
  <2> HIDE DEF k
  <2> QED BY <1>2, <2>1, <2>2, <2>3
<1>13. IF over THEN most' = [j \in Attempts |-> IF j = k THEN n ELSE 0]
       ELSE most' = [most EXCEPT ![k] = n]
  <2>1. larger(0, n) = n  BY <1>2 DEF larger
  <2>2. most' = [j \in Attempts |-> IF j = k THEN larger(IF over THEN 0 ELSE most[k], n)
                                    ELSE IF over THEN 0 ELSE most[j]]
    BY <1>4, <1>5
  <2> HIDE DEF k, n, over
  <2>3. most' = [j \in Attempts |-> IF j = k THEN n ELSE IF over THEN 0 ELSE most[j]]
    BY <1>12, <2>1, <2>2
  <2>4. CASE over  BY <2>3, <2>4
  <2>5. CASE ~over  BY <1>2, <1>12, <2>3, <2>5
  <2> QED BY <2>4, <2>5
<1>14. /\ IsFiniteSet(Reported') /\ Cardinality(Reported) \in Nat
       /\ Cardinality(Reported') = IF over THEN n ELSE Cardinality(Reported) + n
  <2>1. IsFiniteSet(Reported)  BY DEF QuotaIInv, StoredCounts
  <2>2. Cardinality(Reported) \in Nat  BY <2>1, FS_CardinalityType
  <2> HIDE DEF k, n, over
  <2>3. CASE over  BY <1>2, <1>13, <2>2, <2>3, ReportedOnly
  <2>4. CASE ~over
    <3>1. most' = [most EXCEPT ![k] = n] /\ most[k] <= n
      BY <1>2, <1>12, <1>13, <2>4
    <3>2. Cardinality(Reported') = Cardinality(Reported) + (n - most[k])
          /\ IsFiniteSet(Reported')
      BY <1>2, <1>12, <2>1, <3>1, ReportedMore
    <3>3. n - most[k] = n  BY <1>2, <1>12
    <3> QED BY <2>2, <2>4, <3>2, <3>3
  <2> QED BY <2>3, <2>4
<1>15. spent' = [tokens |-> spent.tokens + n,
                 resetsIn |-> IF spent.resetsIn = Unset THEN Duration ELSE spent.resetsIn,
                 paid |-> spent.paid \cup {k}]
  <2>1. k \notin spent.paid  BY <1>1, <1>2 DEF QuotaIInv, Applied
  <2> QED BY <1>1, <2>1 DEF pay
<1> HIDE DEF k, n, v, fresh, over
<1>16. QuotaTypeOK'
  <2>1. spent \in Bills /\ applied \subseteq Attempts /\ Duration \in Resets
    BY Numbers DEF QuotaIInv, QuotaTypeOK, Resets
  <2>2. spent' \in Bills  BY <1>2, <1>15, <2>1 DEF Bills
  <2>3. most' \in [Attempts -> Quantities \cup {0}]
    BY <1>2, <1>12, <1>13
  <2> QED BY <1>1, <1>2, <1>6, <1>11, <2>1, <2>2, <2>3 DEF QuotaIInv, QuotaTypeOK
<1>17. Declared'  BY <1>9, <1>11 DEF QuotaIInv, Declared
<1>18. Applied'
  <2>1. \A j \in Attempts : most'[j] > 0 => j \in applied' \cup past'
    <3>1. SUFFICES ASSUME NEW j \in Attempts, most'[j] > 0, j # k  PROVE j \in applied \cup past
      BY <1>1
    <3>2. most'[j] \in {0, most[j]}  BY <1>12, <1>13, <3>1
    <3> QED BY <3>1, <3>2 DEF QuotaIInv, Applied
  <2>2. \A e \in Deliverers : call'[e].pc # "idle" =>
          call'[e].key \in admitted \ past /\ call'[e].tokens \in Quantities
    BY <1>2, <1>6 DEF QuotaIInv, Applied
  <2>3. spent'.paid = spent.paid \cup {k}  BY <1>15
  <2> QED BY <1>1, <1>2, <2>1, <2>2, <2>3 DEF QuotaIInv, Applied
<1>19. Loading'  BY <1>11 DEF Loading
<1>20. v.source # "header" /\ ~(world.faults /\ world.restarts)
       => v.used <= Cardinality(Reported')
  <2>1. SUFFICES ASSUME v.source # "header", ~(world.faults /\ world.restarts)
                 PROVE  v.used <= Cardinality(Reported')
    OBVIOUS
  <2>2. CASE fresh
    <3>1. v.used <= n  BY <1>2, <1>9, <2>2, Numbers
    <3>2. v.used \in Nat  BY <1>9, Numbers DEF Windows
    <3> QED BY <1>2, <1>14, <3>1, <3>2
  <2>3. CASE ~fresh
    <3>1. ~over /\ w # Unset /\ w \in Windows /\ w.source = v.source
      BY <1>7, <1>9, <2>3 DEF fresh, over
    <3>2. w.used \in Nat  BY <3>1, Numbers DEF Windows
    <3>3. w.used <= Cardinality(Reported)
      BY <2>1, <3>1 DEF QuotaIInv, NeverOvercounts
    <3>4. v.used <= w.used + n  BY <1>2, <1>9, <2>3, <3>2, Numbers
    <3>5. v.used \in Nat  BY <1>9, Numbers DEF Windows
    <3> QED BY <1>2, <1>14, <3>1, <3>2, <3>3, <3>4, <3>5
  <2> QED BY <2>2, <2>3
<1>21. NeverOvercounts'  BY <1>1, <1>11, <1>20 DEF NeverOvercounts
<1>22. StoredCounts'  BY <1>1, <1>11, <1>14, <1>20 DEF StoredCounts
<1>23. WriteThrough'  BY <1>1, <1>11 DEF WriteThrough
<1>24. Tracked'
  <2>1. SUFFICES ASSUME ~world.faults, ~world.learns
                 PROVE  /\ ~state'.terminal /\ spent'.resetsIn # 0 /\ spent'.resetsIn # Unset
                        /\ v.remaining \in {0, Limit - v.used}
                        /\ v.source = "local" /\ (v.used = Limit \/ v.used >= spent'.tokens)
                        /\ v.resetsIn = spent'.resetsIn
    BY <1>1, <1>11, <1>15 DEF Tracked, Tracks
  <2>2. /\ ~state.terminal /\ spent.resetsIn # 0
        /\ spent.resetsIn = Unset => spent.tokens = 0
        /\ stored = Unset => spent.resetsIn = Unset /\ w = Unset
        /\ stored # Unset => Tracks(stored) /\ w # Unset /\ stored = Row(w)
    BY <1>3, <2>1 DEF QuotaIInv, Tracked, WriteThrough
  <2>3. Duration # Unset /\ Duration # 0 /\ Duration \in Nat
    BY Numbers, UnsetAssumption
  <2>4. w # Unset => /\ w \in Windows /\ w.source = "local"
                     /\ w.used = Limit \/ w.used >= spent.tokens
                     /\ w.resetsIn = IF spent.resetsIn = Unset THEN 0 ELSE spent.resetsIn
    <3>1. w # Unset => stored # Unset /\ w \in Windows  BY <1>7, <2>2
    <3>2. Row(w).source = w.source /\ Row(w).used = w.used /\ Row(w).resetsIn = w.resetsIn
      BY DEF Row
    <3> QED BY <2>2, <3>1, <3>2 DEF Tracks
  <2>5. w = Unset => spent.resetsIn = Unset  BY <2>2
  <2>6. v.source = "local" /\ v.remaining = Limit - v.used  BY <1>9, <2>4
  <2>7. fresh <=> spent.resetsIn = Unset  BY <2>2, <2>4, <2>5 DEF fresh
  <2>8. spent \in Bills  BY DEF QuotaIInv, QuotaTypeOK
  <2>9. spent.tokens \in Nat  BY <2>8 DEF Bills
  <2>10. spent'.resetsIn = v.resetsIn /\ v.resetsIn # 0 /\ v.resetsIn # Unset
    BY <1>9, <1>15, <2>2, <2>3, <2>4, <2>7
  <2>11. spent'.tokens = spent.tokens + n  BY <1>15
  <2>12. v.used = Limit \/ v.used >= spent'.tokens
    <3>1. CASE fresh
      BY <1>2, <1>9, <2>2, <2>6, <2>7, <2>11, <3>1, Numbers
    <3>2. CASE ~fresh
      <4>1. w # Unset /\ w.used \in 0 .. Limit  BY <2>4, <3>2 DEF fresh, Windows
      <4> QED BY <1>2, <1>9, <2>4, <2>6, <2>9, <2>11, <3>2, <4>1, Numbers
    <3> QED BY <3>1, <3>2
  <2> QED BY <1>11, <2>2, <2>6, <2>10, <2>12
<1> QED BY <1>16, <1>17, <1>18, <1>19, <1>21, <1>22, <1>23, <1>24 DEF QuotaIInv

(* Time passes for the window, the row and the plan alike.                 *)
LEMMA Sooner ==
    ASSUME NEW r \in Resets
    PROVE  sooner(r) \in Resets /\ (r \in {Unset, 0} => sooner(r) = r)
           /\ (r \notin {Unset, 0} => r \in 1 .. Duration /\ sooner(r) = r - 1)
  BY Numbers DEF sooner, Resets

LEMMA TickStep == ASSUME QuotaIInv, Tick  PROVE QuotaIInv'
<1>1. UNCHANGED <<world, past, applied, rows, admitted, call, most, Reported>>
  BY DEF Tick, Reported
<1>2. state \in States /\ stored \in Rows \cup {Unset} /\ spent \in Bills
  BY DEF QuotaIInv, QuotaTypeOK
<1>3. /\ state' \in States /\ state'.loaded = state.loaded /\ state'.terminal = state.terminal
      /\ state'.window = IF state.window = Unset THEN Unset
                         ELSE [state.window EXCEPT !.resetsIn = sooner(@)]
  <2>1. CASE state.window = Unset  BY <1>2, <2>1 DEF Tick
  <2>2. CASE state.window # Unset
    <3>1. state.window \in Windows  BY <1>2, <2>2 DEF States
    <3>2. sooner(state.window.resetsIn) \in Resets  BY <3>1, Sooner DEF Windows
    <3>3. state' = [state EXCEPT !.window.resetsIn = sooner(@)]  BY <2>2 DEF Tick
    <3> QED BY <1>2, <2>2, <3>1, <3>2, <3>3 DEF States, Windows
  <2> QED BY <2>1, <2>2
<1>4. /\ stored' \in Rows \cup {Unset}
      /\ stored = Unset <=> stored' = Unset
      /\ stored' = IF stored = Unset THEN Unset ELSE [stored EXCEPT !.resetsIn = sooner(@)]
  <2>1. CASE stored = Unset  BY <2>1 DEF Tick
  <2>2. CASE stored # Unset
    <3>1. stored \in Rows  BY <1>2, <2>2
    <3>2. sooner(stored.resetsIn) \in Resets  BY <3>1, Sooner DEF Rows
    <3>3. stored' = [stored EXCEPT !.resetsIn = sooner(@)]  BY <2>2 DEF Tick
    <3>4. stored' \in Rows  BY <3>1, <3>2, <3>3 DEF Rows
    <3> QED BY <2>2, <3>3, <3>4, UnsetAssumption
  <2> QED BY <2>1, <2>2
<1>5. state'.window # Unset =>
        /\ state.window # Unset /\ state.window \in Windows
        /\ state'.window.source = state.window.source /\ state'.window.used = state.window.used
        /\ state'.window.limit = state.window.limit
        /\ state'.window.remaining = state.window.remaining
        /\ state'.window.resetsIn = sooner(state.window.resetsIn)
  BY <1>2, <1>3 DEF States, Windows
<1>6. stored' # Unset =>
        /\ stored # Unset /\ stored \in Rows
        /\ stored'.source = stored.source /\ stored'.used = stored.used
        /\ stored'.limit = stored.limit /\ stored'.resetsIn = sooner(stored.resetsIn)
  BY <1>2, <1>4 DEF Rows
<1>7. spent.resetsIn \in Resets /\ spent.tokens \in Nat  BY <1>2 DEF Bills
<1>8. /\ spent' \in Bills /\ spent'.paid = spent.paid
      /\ spent.resetsIn = 1 => spent'.tokens = 0 /\ spent'.resetsIn = Unset
      /\ spent.resetsIn # 1 => /\ spent'.tokens = spent.tokens
                               /\ spent'.resetsIn = sooner(spent.resetsIn)
  <2>1. CASE spent.resetsIn = 1
    <3>1. spent' = [Fresh EXCEPT !.paid = spent.paid]  BY <2>1 DEF Tick
    <3> QED BY <1>2, <2>1, <3>1 DEF Fresh, Bills, Resets
  <2>2. CASE spent.resetsIn # 1
    <3>1. spent' = [spent EXCEPT !.resetsIn = sooner(@)]  BY <2>2 DEF Tick
    <3>2. sooner(spent.resetsIn) \in Resets  BY <1>7, Sooner
    <3> QED BY <1>2, <2>2, <3>1, <3>2 DEF Bills
  <2> QED BY <2>1, <2>2
<1>9. QuotaTypeOK'  BY <1>1, <1>3, <1>4, <1>8 DEF QuotaIInv, QuotaTypeOK
<1>10. Declared'  BY <1>5, <1>6 DEF QuotaIInv, Declared
<1>11. Applied'  BY <1>1, <1>8 DEF QuotaIInv, Applied
<1>12. Loading'  BY <1>1, <1>3, <1>4 DEF QuotaIInv, Loading
<1>13. StoredCounts'  BY <1>1, <1>6 DEF QuotaIInv, StoredCounts
<1>14. NeverOvercounts'  BY <1>1, <1>5 DEF QuotaIInv, NeverOvercounts
<1>15. WriteThrough'
  <2>1. SUFFICES ASSUME ~world.faults, state.loaded, stored # Unset, ~state.terminal
                 PROVE  state'.window # Unset /\ stored' = Row(state'.window)
    BY <1>1, <1>3, <1>4 DEF WriteThrough
  <2>2. state.window # Unset /\ stored = Row(state.window)
    BY <2>1 DEF QuotaIInv, WriteThrough
  <2>3. state.window \in Windows  BY <1>2, <2>2 DEF States
  <2>4. state'.window \in Windows
    <3>1. sooner(state.window.resetsIn) \in Resets  BY <2>3, Sooner DEF Windows
    <3> QED BY <1>3, <2>2, <2>3, <3>1 DEF Windows
  <2>5. state'.window # Unset  BY <2>4, UnsetAssumption
  <2>6. stored' = [stored EXCEPT !.resetsIn = sooner(@)]  BY <1>4, <2>1
  <2>7. stored' = [limit |-> state.window.limit, used |-> state.window.used,
                   resetsIn |-> sooner(state.window.resetsIn), source |-> state.window.source]
    BY <2>2, <2>6 DEF Row
  <2> QED BY <1>5, <2>5, <2>7 DEF Row
<1>16. Tracked'
  <2>1. SUFFICES ASSUME ~world.faults, ~world.learns  PROVE Tracked'
    BY <1>1 DEF Tracked
  <2>2. /\ ~state.terminal /\ spent.resetsIn # 0
        /\ spent.resetsIn = Unset => spent.tokens = 0
        /\ stored = Unset => spent.resetsIn = Unset /\ state.window = Unset
        /\ stored # Unset => Tracks(stored)
        /\ state.window # Unset => state.window.remaining \in {0, Limit - state.window.used}
    BY <2>1 DEF QuotaIInv, Tracked
  <2>3. Unset \notin 0 .. Duration /\ Duration \in Nat  BY UnsetAssumption, Numbers
  <2>4. /\ spent'.resetsIn # 0
        /\ spent'.resetsIn = Unset => spent'.tokens = 0
        /\ spent.resetsIn = Unset => spent'.resetsIn = Unset
    BY <1>7, <1>8, <2>2, <2>3, Sooner
  <2>5. stored' # Unset => (Tracks(stored))'
    <3>1. SUFFICES ASSUME stored' # Unset  PROVE (Tracks(stored))'
      OBVIOUS
    <3>2. /\ stored.source = "local"
          /\ stored.used = Limit \/ stored.used >= spent.tokens
          /\ stored.resetsIn = IF spent.resetsIn = Unset THEN 0 ELSE spent.resetsIn
          /\ stored.used \in Nat /\ stored.resetsIn \in Resets
      BY <1>6, <2>2, <3>1, Numbers DEF Tracks, Rows
    <3>3. stored'.used = Limit \/ stored'.used >= spent'.tokens
      BY <1>6, <1>8, <3>1, <3>2
    <3>4. stored'.resetsIn = IF spent'.resetsIn = Unset THEN 0 ELSE spent'.resetsIn
      BY <1>6, <1>7, <1>8, <2>2, <2>3, <3>1, <3>2, Sooner
    <3>5. stored'.source = "local"  BY <1>6, <3>1, <3>2
    <3> QED BY <3>3, <3>4, <3>5 DEF Tracks
  <2>6. stored' = Unset => spent'.resetsIn = Unset /\ state'.window = Unset
    BY <1>3, <1>4, <2>2, <2>4
  <2> QED BY <1>3, <1>5, <2>2, <2>4, <2>5, <2>6 DEF Tracked
<1> QED BY <1>9, <1>10, <1>11, <1>12, <1>13, <1>14, <1>15, <1>16 DEF QuotaIInv

LEMMA NextQuotaIInv == QuotaIInv /\ [QuotaNext]_quotaVars => QuotaIInv'
<1> SUFFICES ASSUME QuotaIInv, [QuotaNext]_quotaVars  PROVE QuotaIInv'  OBVIOUS
<1>1. CASE \E k \in Attempts : Admit(k)  BY <1>1, AdmitStep
<1>2. CASE \E d \in Deliverers : Apply(d)  BY <1>2, ApplyStep
<1>3. CASE \E d \in Deliverers : Replay(d)  BY <1>3, ReplayStep
<1>4. CASE \E d \in Deliverers : Log(d)  BY <1>4, LogStep
<1>5. CASE \E d \in Deliverers, k \in Attempts, n \in Quantities : Deliver(d, k, n)
  BY <1>5, DeliverStep
<1>6. CASE \E h \in Headers : ApplyHeader(h)  BY <1>6, ApplyHeaderStep
<1>7. CASE \E resets \in Hints : ApplyRetryHint(resets)  BY <1>7, ApplyRetryHintStep
<1>8. CASE SetTerminal  BY <1>8, SetTerminalStep
<1>9. CASE Restart  BY <1>9, RestartStep
<1>10. CASE Tick  BY <1>10, TickStep
<1>11. CASE UNCHANGED quotaVars
  <2>1. UNCHANGED <<world, state, applied, stored, rows, admitted, past, call, spent, most, Reported>>
    BY <1>11 DEF quotaVars, Reported
  <2> QED BY <2>1 DEF QuotaIInv, QuotaTypeOK, Declared, Applied, Loading, StoredCounts,
                      NeverOvercounts, WriteThrough, Tracked, Tracks
<1> QED BY <1>1, <1>2, <1>3, <1>4, <1>5, <1>6, <1>7, <1>8, <1>9, <1>10, <1>11
        DEF QuotaNext, Serve

-----------------------------------------------------------------------------
(* The invariant holds of every reachable state.                           *)
THEOREM QuotaInvariance == QuotaSpec => []QuotaIInv
  BY InitQuotaIInv, NextQuotaIInv, PTL DEF QuotaSpec

(* However usages are repeated, corrected, lost and interleaved with       *)
(* headers, hints and restarts, the window counts nothing that was not     *)
(* reported, and over a store that works the row is the window             *)
(* (Record, stateLocked, persistWindows).                                  *)
THEOREM WindowTellsTheTruth == QuotaSpec => []WindowTruthful
<1>1. QuotaIInv => WindowTruthful  BY DEF QuotaIInv, WindowTruthful
<1> QED BY <1>1, QuotaInvariance, PTL

(* For any plan and any number of attempts, usages and restarts, nothing   *)
(* is let through once the plan has no more than the cutoff left, if the   *)
(* store works and nobody else tells (Filter.check).                       *)
THEOREM PlanIsKept == QuotaSpec => NeverOverspends
<1>1. QuotaIInv /\ [QuotaNext]_quotaVars =>
        [admitted' # admitted /\ ~world.faults /\ ~world.learns
         => Limit - spent.tokens > Cutoff]_quotaVars
  <2> SUFFICES ASSUME QuotaIInv, QuotaNext, admitted' # admitted, ~world.faults, ~world.learns
               PROVE  Limit - spent.tokens > Cutoff
    OBVIOUS
  <2>1. PICK k \in Attempts : Admit(k)
    BY DEF QuotaNext, Serve, Apply, Replay, Log, Deliver, ApplyHeader, ApplyRetryHint,
           SetTerminal, Restart, Tick
  <2>2. Told(state') /\ ~blocked(state')  BY <2>1, LoadedTold DEF Admit
  <2>3. /\ ~state.terminal
        /\ spent.resetsIn = Unset => spent.tokens = 0
        /\ stored = Unset => spent.resetsIn = Unset
        /\ stored # Unset => Tracks(stored)
    BY DEF QuotaIInv, Tracked
  <2>4. CASE stored = Unset  BY <2>3, <2>4, Numbers
  <2>5. CASE stored # Unset
    <3> DEFINE w == state'.window
    <3>1. w # Unset /\ stored = Row(w) /\ w.remaining \in {0, Limit - w.used} /\ w \in Windows
      BY <2>2, <2>3, <2>5 DEF Told, States
    <3>2. w.source = "local" /\ w.used = stored.used
      BY <2>3, <2>5, <3>1 DEF Tracks, Row
    <3>3. w.limit = Limit /\ ~(w.remaining <= Cutoff)
      BY <2>2, <3>1, <3>2, Numbers DEF Told, blocked
    <3>4. stored.used = Limit \/ stored.used >= spent.tokens  BY <2>3, <2>5 DEF Tracks
    <3>5. w.used \in 0 .. Limit /\ spent.tokens \in Nat
      BY <3>1 DEF Windows, QuotaIInv, QuotaTypeOK, Bills
    <3> QED BY <3>1, <3>2, <3>3, <3>4, <3>5, Numbers
  <2> QED BY <2>4, <2>5
<1> QED BY <1>1, QuotaInvariance, PTL DEF QuotaSpec, NeverOverspends
=============================================================================

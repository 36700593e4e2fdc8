---------------------------- MODULE RefreshProofs ----------------------------
(***************************************************************************)
(* Proofs about Refresh, for any accounts and requests and any number of   *)
(* grants.                                                                 *)
(***************************************************************************)
EXTENDS Refresh, SequenceTheorems, FiniteSetTheorems, TLAPS

-----------------------------------------------------------------------------
(* The invariant. How far a renewal has come: from the choice of its       *)
(* account; under the lock; with a row in hand.                            *)
Renewing(r) == call[r].pc \in {"waiting", "locked", "exchanging", "persisting"}
Locked(r)   == call[r].pc \in {"locked", "exchanging", "persisting"}
Rowed(r)    == call[r].pc \in {"exchanging", "persisting"}

(* The bound of the grants is kept: those under way have not used theirs.  *)
Owing  == {r \in Requests : call[r].pc \in {"resolved", "waiting", "locked", "exchanging"}}
Busy   == {r \in Requests : call[r].pc # "idle"}
Budget == IsFiniteSet(Busy) /\ grants + Cardinality(Owing) <= MaxGrants

(* List shows each row there is, once.                                     *)
Listed ==
    /\ newest \in Seq(Credentials)
    /\ \A c \in Credentials : vault[c] # None <=> \E i \in DOMAIN newest : newest[i] = c
    /\ \A i, j \in DOMAIN newest : newest[i] = newest[j] => i = j

(* Every token in the vault or in the hands of a renewal has been granted. *)
Minted(row) == row \in Rows /\ row.access \in 1..grants /\ row.refresh \in (1..grants) \cup {None}
Granted ==
    /\ \A c \in Credentials : vault[c] # None => Minted(vault[c])
    /\ \A r \in Requests :
         /\ call[r].pc = "resolved" => call[r].held \in Rows
         /\ Renewing(r) => call[r].target \in Credentials /\ call[r].before \in 1..grants
         /\ Rowed(r) => Minted(call[r].row)

(* The lock is held by those between Lock and Unlock, and by nobody else.  *)
Holding == \A r \in Requests : Locked(r) => holder[call[r].target] = r

(* A token belongs to one account, in the vault and in every renewal.      *)
OwnsAccess(c, t) ==
    \/ vault[c] # None /\ vault[c].access = t
    \/ \E r \in Requests :
         /\ Renewing(r) /\ call[r].target = c
         /\ call[r].before = t \/ (Rowed(r) /\ call[r].row.access = t)
OwnsRefresh(c, t) ==
    \/ vault[c] # None /\ vault[c].refresh = t
    \/ \E r \in Requests : Rowed(r) /\ call[r].target = c /\ call[r].row.refresh = t
Apart ==
    \A c, d \in Credentials, t \in Tokens :
        /\ OwnsAccess(c, t) /\ OwnsAccess(d, t) => c = d
        /\ OwnsRefresh(c, t) /\ OwnsRefresh(d, t) => c = d

(* A token that a renewal has replaced is in no row, and nobody who has    *)
(* the lock is about to replace it again.                                  *)
Unrenewed ==
    /\ \A c \in Credentials : vault[c] # None => vault[c].access \notin renewed
    /\ \A r \in Requests :
         /\ call[r].pc = "exchanging" =>
              call[r].row.access = call[r].before /\ call[r].before \notin renewed
         /\ call[r].pc = "persisting" =>
              call[r].row.access \notin renewed /\ call[r].row.access # call[r].before

(* Only between the exchange and the Upsert may the vault's refresh token  *)
(* be a spent one; the renewal has the new one then.                       *)
Persisting(c) == holder[c] # None /\ call[holder[c]].pc = "persisting"
Honoured ==
    /\ \A c \in Credentials :
         vault[c] # None /\ vault[c].refresh # None /\ ~Persisting(c) /\ c \notin lost
         => vault[c].refresh \in live
    /\ \A r \in Requests :
         call[r].pc = "persisting" /\ call[r].row.refresh # None => call[r].row.refresh \in live

IInv == TypeOK /\ Budget /\ Granted /\ NoLockLeaks /\ Holding /\ Apart /\ Unrenewed /\ Honoured

(* A start finds nothing.                                                  *)
LEMMA InitIInv == Init => IInv
<1> SUFFICES ASSUME Init PROVE IInv  OBVIOUS
<1> USE DEF Init, Locks!Init, Idle
<1>1. TypeOK
  <2>1. vault \in [Credentials -> Rows \cup {None}] /\ newest \in Seq(Credentials)
    OBVIOUS
  <2>2. holder \in Locks!Holders /\ call \in [Requests -> Calls]
    BY DEF Locks!Holders, Calls
  <2>3. grants \in 0..MaxGrants
    BY MaxGrantsAssumption
  <2> QED BY <2>1, <2>2, <2>3 DEF TypeOK
<1>2. Budget
  <2>1. Busy = {} /\ Owing = {}  BY DEF Busy, Owing
  <2> QED BY <2>1, FS_EmptySet, MaxGrantsAssumption DEF Budget
<1>3. Granted  BY DEF Granted, Renewing, Rowed
<1>4. NoLockLeaks /\ Holding  BY DEF NoLockLeaks, Holding, Locked
<1>5. Apart  BY DEF Apart, OwnsAccess, OwnsRefresh, Renewing, Rowed
<1>6. Unrenewed /\ Honoured  BY DEF Unrenewed, Honoured
<1> QED BY <1>1, <1>2, <1>3, <1>4, <1>5, <1>6 DEF IInv

(* Whoever is still to make an exchange has a grant left for it.           *)
LEMMA OwingFinite == ASSUME IInv
                     PROVE  /\ IsFiniteSet(Busy) /\ IsFiniteSet(Owing) /\ Owing \subseteq Busy
                            /\ Cardinality(Owing) \in Nat /\ Cardinality(Busy) \in Nat
                            /\ Cardinality(Owing) <= Cardinality(Busy)
<1>1. IsFiniteSet(Busy) /\ Owing \subseteq Busy  BY DEF IInv, Budget, Owing, Busy
<1> QED BY <1>1, FS_Subset, FS_CardinalityType

LEMMA OwingHasRoom == ASSUME IInv, NEW r \in Owing  PROVE grants + 1 <= MaxGrants
<1>1. Cardinality(Owing) \in Nat /\ Cardinality(Owing) # 0  BY OwingFinite, FS_EmptySet
<1>2. grants \in Nat /\ MaxGrants \in Nat  BY MaxGrantsAssumption DEF IInv, TypeOK
<1> QED BY <1>1, <1>2 DEF IInv, Budget

(* An Upsert and a Delete keep the list of rows true.                      *)
LEMMA UpsertType == ASSUME IInv, NEW c \in Credentials, NEW row \in Rows, Upsert(c, row)
                    PROVE  vault' \in [Credentials -> Rows \cup {None}] /\ Listed'
<1> USE DEF IInv, TypeOK, Upsert, Listed
<1>0. vault' \in [Credentials -> Rows \cup {None}]  OBVIOUS
<1>1. row # None  BY NoneAssumption, MaxGrantsAssumption DEF Rows, Tokens
<1>2. CASE vault[c] # None  BY <1>0, <1>1, <1>2
<1>3. CASE vault[c] = None
  <2>1. /\ newest' \in Seq(Credentials) /\ Len(newest') = Len(newest) + 1
        /\ newest'[1] = c
        /\ \A i \in DOMAIN newest : newest'[i + 1] = newest[i]
    BY <1>3
  <2>2. \A i \in DOMAIN newest' : i # 1 => i - 1 \in DOMAIN newest /\ newest'[i] = newest[i - 1]
    BY <2>1
  <2>3. \A d \in Credentials : vault'[d] # None <=> d = c \/ vault[d] # None
    BY <1>1, <1>3
  <2>4. \A i \in DOMAIN newest : newest[i] # c
    BY <1>3
  <2>5. \A d \in Credentials : vault'[d] # None <=> \E i \in DOMAIN newest' : newest'[i] = d
    <3> TAKE d \in Credentials
    <3>1. CASE d = c  BY <3>1, <2>1, <2>3
    <3>2. CASE d # c
      <4>1. ASSUME vault'[d] # None PROVE \E i \in DOMAIN newest' : newest'[i] = d
        <5>1. PICK i \in DOMAIN newest : newest[i] = d  BY <4>1, <3>2, <2>3
        <5>2. i + 1 \in DOMAIN newest'  BY <2>1
        <5> QED BY <5>1, <5>2, <2>1
      <4>2. ASSUME NEW i \in DOMAIN newest', newest'[i] = d PROVE vault'[d] # None
        BY <4>2, <3>2, <2>1, <2>2, <2>3
      <4> QED BY <4>1, <4>2
    <3> QED BY <3>1, <3>2
  <2>6. \A i, j \in DOMAIN newest' : newest'[i] = newest'[j] => i = j
    BY <2>1, <2>2, <2>4
  <2> QED BY <1>0, <2>1, <2>5, <2>6
<1> QED BY <1>2, <1>3

LEMMA DeleteType == ASSUME IInv, NEW c \in Credentials, Delete(c)
                    PROVE  vault' \in [Credentials -> Rows \cup {None}] /\ Listed'
<1> USE DEF IInv, TypeOK, Listed
<1>1. PICK i \in DOMAIN newest :
        /\ newest[i] = c
        /\ newest' = SubSeq(newest, 1, i - 1) \o SubSeq(newest, i + 1, Len(newest))
  BY DEF Delete
<1>2. vault' = [vault EXCEPT ![c] = None]  BY DEF Delete
<1>3. /\ newest' \in Seq(Credentials) /\ Len(newest') = Len(newest) - 1
      /\ \A j \in 1..Len(newest) - 1 : newest'[j] = IF j < i THEN newest[j] ELSE newest[j + 1]
  <2> DEFINE front == SubSeq(newest, 1, i - 1)
             back  == SubSeq(newest, i + 1, Len(newest))
  <2>1. i \in 1..Len(newest) /\ Len(newest) \in Nat  BY <1>1
  <2>2. /\ front \in Seq(Credentials) /\ Len(front) = i - 1
        /\ \A j \in 1..i-1 : front[j] = newest[j]
    BY <2>1
  <2>3. /\ back \in Seq(Credentials) /\ Len(back) = Len(newest) - i
        /\ \A j \in 1..Len(newest)-i : back[j] = newest[i + j]
    BY <2>1
  <2>4. newest' = front \o back  BY <1>1
  <2> HIDE DEF front, back, IInv, TypeOK, Listed
  <2>5. newest' \in Seq(Credentials) /\ Len(newest') = Len(newest) - 1
    BY <2>1, <2>2, <2>3, <2>4
  <2>6. ASSUME NEW j \in 1..Len(newest) - 1
        PROVE  newest'[j] = IF j < i THEN newest[j] ELSE newest[j + 1]
    <3>0. /\ j \in 1 .. Len(front) + Len(back)
          /\ newest'[j] = IF j <= Len(front) THEN front[j] ELSE back[j - Len(front)]
      <4>1. j \in 1 .. Len(front) + Len(back)  BY <2>1, <2>2, <2>3
      <4> QED BY <2>2, <2>3, <2>4, <4>1, ConcatProperties
    <3>1. CASE j < i
      <4>1. j \in 1 .. i - 1 /\ j <= Len(front)  BY <3>1, <2>1, <2>2
      <4> QED BY ONLY <3>0, <3>1, <4>1, <2>2
    <3>2. CASE j >= i
      <4>1. newest'[j] = back[j - (i - 1)]
        <5>1. ~(j <= Len(front)) /\ Len(front) = i - 1  BY <3>2, <2>1, <2>2
        <5> QED BY ONLY <3>0, <5>1
      <4>2. j - (i - 1) \in 1..Len(newest) - i  BY <3>2, <2>1
      <4> QED BY <3>2, <4>1, <4>2, <2>1, <2>3
    <3> QED BY <3>1, <3>2, <2>1
  <2> QED BY <2>5, <2>6
<1>n. /\ Len(newest) \in Nat /\ i \in 1..Len(newest) /\ DOMAIN newest = 1..Len(newest)
      /\ DOMAIN newest' = 1 .. Len(newest) - 1
  BY <1>1, <1>3
<1>4. \A d \in Credentials : vault'[d] # None <=> \E j \in DOMAIN newest' : newest'[j] = d
  <2> TAKE d \in Credentials
  <2>1. ASSUME vault'[d] # None PROVE \E j \in DOMAIN newest' : newest'[j] = d
    <3>1. d # c /\ vault[d] # None  BY <2>1, <1>2
    <3>2. PICK j \in DOMAIN newest : newest[j] = d  BY <3>1
    <3>3. j # i  BY <3>1, <3>2, <1>1
    <3>4. CASE j < i  BY <3>4, <3>2, <1>3
    <3>5. CASE j > i
      <4>1. j - 1 \in DOMAIN newest' /\ newest'[j - 1] = d  BY <3>5, <3>2, <1>3
      <4> QED BY <4>1
    <3> QED BY <3>3, <3>4, <3>5
  <2>2. ASSUME NEW j \in DOMAIN newest', newest'[j] = d PROVE vault'[d] # None
    <3>1. PICK k \in DOMAIN newest : newest[k] = d /\ k # i
      <4>1. CASE j < i
        <5>1. j \in DOMAIN newest /\ j # i  BY <4>1, <2>2, <1>n
        <5>2. newest[j] = d  BY <4>1, <2>2, <1>3, <1>n
        <5> QED BY ONLY <5>1, <5>2
      <4>2. CASE j >= i
        <5>1. j + 1 \in DOMAIN newest /\ newest[j + 1] = d  BY <4>2, <2>2, <1>3
        <5>2. j \in Nat /\ i \in Nat  BY <1>1, <1>3
        <5> QED BY <5>1, <5>2, <4>2
      <4> QED BY <4>1, <4>2, <1>3
    <3>2. d # c  BY <3>1, <1>1
    <3> QED BY <3>1, <3>2, <1>2
  <2> QED BY <2>1, <2>2
<1>5. \A j, k \in DOMAIN newest' : newest'[j] = newest'[k] => j = k
  <2> TAKE j, k \in DOMAIN newest'
  <2> HAVE newest'[j] = newest'[k]
  <2> DEFINE at(n) == IF n < i THEN n ELSE n + 1
  <2>1. at(j) \in DOMAIN newest /\ at(k) \in DOMAIN newest  BY <1>3
  <2>2. newest[at(j)] = newest[at(k)]
    <3>1. newest'[j] = newest[at(j)] /\ newest'[k] = newest[at(k)]  BY ONLY <1>3, <1>n
    <3> HIDE DEF at
    <3> QED BY <3>1
  <2>3. at(j) = at(k)  BY <2>1, <2>2
  <2> QED BY <2>3, <1>3
<1> QED BY <1>2, <1>3, <1>4, <1>5

LEMMA CallUpdates ==
    ASSUME NEW q \in Calls, NEW s \in {"waiting", "locked", "exchanging", "persisting", "fetching"}
    PROVE  /\ [q EXCEPT !.pc = s] \in Calls
           /\ \A row \in Rows : [q EXCEPT !.pc = s, !.row = row] \in Calls
           /\ \A c \in Credentials, t \in Tokens :
                [q EXCEPT !.pc = s, !.target = c, !.before = t] \in Calls
<1>1. [q EXCEPT !.pc = s] \in Calls  BY DEF Calls
<1>2. \A row \in Rows : [q EXCEPT !.pc = s, !.row = row] \in Calls  BY DEF Calls
<1>3. \A c \in Credentials, t \in Tokens :
        [q EXCEPT !.pc = s, !.target = c, !.before = t] \in Calls
  BY DEF Calls
<1> QED BY <1>1, <1>2, <1>3

(* The renewals of requests keep their type, whichever moves.              *)
LEMMA CallType == ASSUME IInv, Next  PROVE call' \in [Requests -> Calls]
<1>t. /\ call \in [Requests -> Calls] /\ vault \in [Credentials -> Rows \cup {None}]
      /\ \A r \in Requests : call[r] \in Calls
  BY DEF IInv, TypeOK
<1>0. /\ Idle \in Calls
      /\ \A r \in Requests : Finish(r) => call' \in [Requests -> Calls]
      /\ \A r \in Requests, s \in {"locked", "fetching"} :
           Goto(r, s) => call' \in [Requests -> Calls]
  <2>1. Idle \in Calls  BY DEF Idle, Calls
  <2>2. ASSUME NEW r \in Requests, NEW s \in {"locked", "fetching"}
        PROVE  [call[r] EXCEPT !.pc = s] \in Calls
    BY <1>t, CallUpdates
  <2>3. ASSUME NEW r \in Requests, NEW q \in Calls
        PROVE  [call EXCEPT ![r] = q] \in [Requests -> Calls]
    BY <1>t
  <2>4. ASSUME NEW r \in Requests, NEW s \in {"locked", "fetching"}, Goto(r, s)
        PROVE  call' \in [Requests -> Calls]
    <3>1. call' = [call EXCEPT ![r] = [call[r] EXCEPT !.pc = s]]  BY <2>4 DEF Goto
    <3> QED BY <2>2, <2>3, <3>1
  <2> QED BY <2>1, <2>3, <2>4 DEF Finish
<1>1. ASSUME NEW r \in Requests, Begin(r)  PROVE call' \in [Requests -> Calls]
  <2>1. CASE Finish(r)  BY <2>1, <1>0
  <2>2. CASE ~Finish(r)
    <3>1. newest # <<>> /\ newest[1] \in Credentials
      BY <1>1, <2>2 DEF Begin, IInv, TypeOK
    <3>2. vault[newest[1]] # None  BY <3>1 DEF IInv, TypeOK
    <3>3. vault[newest[1]].access \in Tokens  BY <1>t, <3>1, <3>2 DEF Rows
    <3>4. [call[r] EXCEPT !.pc = "waiting", !.target = newest[1],
                          !.before = vault[newest[1]].access] \in Calls
      BY <1>t, <3>1, <3>3, CallUpdates
    <3>5. call' = [call EXCEPT ![r] = [call[r] EXCEPT !.pc = "waiting", !.target = newest[1],
                                                      !.before = vault[newest[1]].access]]
      BY <1>1, <2>2 DEF Begin
    <3> QED BY <1>t, <3>4, <3>5
  <2> QED BY <2>1, <2>2
<1>2. ASSUME NEW r \in Requests, Reread(r)  PROVE call' \in [Requests -> Calls]
  <2>1. CASE Finish(r) \/ Goto(r, "fetching")  BY <2>1, <1>0
  <2>2. CASE ~(Finish(r) \/ Goto(r, "fetching"))
    <3>1. vault[call[r].target] \in Rows
      BY <1>t, <1>2, <2>2 DEF Reread, IInv, Granted, Renewing
    <3>2. [call[r] EXCEPT !.pc = "exchanging", !.row = vault[call[r].target]] \in Calls
      BY <1>t, <3>1, CallUpdates
    <3>3. call' = [call EXCEPT ![r] = [call[r] EXCEPT !.pc = "exchanging",
                                                      !.row = vault[call[r].target]]]
      BY <1>2, <2>2 DEF Reread
    <3> QED BY <1>t, <3>2, <3>3
  <2> QED BY <2>1, <2>2
<1>3. ASSUME NEW r \in Requests, Exchange(r)  PROVE call' \in [Requests -> Calls]
  <2>1. PICK rotates : call' = [call EXCEPT ![r].pc = "persisting",
                                            ![r].row = received(r, rotates)]
    BY <1>3 DEF Exchange
  <2>2. r \in Owing  BY <1>3 DEF Exchange, Owing
  <2>3. grants + 1 \in Tokens  BY <2>2, OwingHasRoom, MaxGrantsAssumption DEF IInv, TypeOK, Tokens
  <2>4. call[r].row \in Rows  BY <1>3 DEF Exchange, IInv, Granted, Rowed, Minted
  <2>5. received(r, rotates) \in Rows  BY <2>3, <2>4 DEF received, Rows
  <2>6. [call[r] EXCEPT !.pc = "persisting", !.row = received(r, rotates)] \in Calls
    BY <1>t, <2>5, CallUpdates
  <2> QED BY <1>t, <2>1, <2>6
<1>4. ASSUME NEW r \in Requests, NEW c \in Credentials, Take(r, c)
      PROVE  call' \in [Requests -> Calls]
  <2>1. [Idle EXCEPT !.pc = "resolved", !.asked = c, !.held = vault[c]] \in Calls
    BY <1>t DEF Idle, Calls
  <2> QED BY <1>t, <1>4, <2>1 DEF Take
<1>5. ASSUME NEW r \in Requests,
             Skip(r) \/ Lock(r) \/ GiveUp(r) \/ Fail(r) \/ Lose(r) \/ Persist(r) \/ Fetch(r)
      PROVE  call' \in [Requests -> Calls]
  BY <1>t, <1>0, <1>5 DEF Skip, Lock, GiveUp, Fail, Lose, Persist, Fetch
<1>6. ASSUME Restart \/ \E t \in Tokens : Expire(t)  PROVE call' \in [Requests -> Calls]
  BY <1>t, <1>0, <1>6 DEF Restart, Expire
<1>7. ASSUME NEW c \in Credentials, Login(c) \/ Delete(c)  PROVE call' \in [Requests -> Calls]
  BY <1>t, <1>7 DEF Login, Delete
<1> QED BY <1>1, <1>2, <1>3, <1>4, <1>5, <1>6, <1>7 DEF Next

(* What a renewal does to the locks.                                       *)
LEMMA HolderType == ASSUME IInv, Next  PROVE holder' \in Locks!Holders
<1>t. holder \in [Credentials -> Requests \cup {None}]  BY DEF IInv, TypeOK, Locks!Holders
<1>1. ASSUME NEW r \in Requests, Lock(r)  PROVE holder' \in Locks!Holders
  BY <1>t, <1>1 DEF Lock, Locks!Lock, Locks!Holders
<1>2. ASSUME NEW r \in Requests, Unlock(r)  PROVE holder' \in Locks!Holders
  BY <1>t, <1>2 DEF Unlock, Locks!Unlock, Locks!Holders
<1>3. ASSUME NEW r \in Requests, Reread(r) \/ Fail(r) \/ Lose(r) \/ Persist(r)
      PROVE  holder' \in Locks!Holders
  BY <1>t, <1>2, <1>3 DEF Reread, Fail, Lose, Persist, Locks!Holders
<1>4. CASE UNCHANGED holder  BY <1>t, <1>4 DEF Locks!Holders
<1>5. CASE Restart  BY <1>5 DEF Restart, Locks!Holders
<1> QED BY <1>1, <1>3, <1>4, <1>5 DEF Next, Skip, Begin, GiveUp, Exchange, Fetch, Take, Login,
           Delete, Expire

(* What is granted, honoured, past its time and replaced.                  *)
TokenTypes ==
    /\ grants \in 0..MaxGrants
    /\ live \subseteq 1..grants /\ expired \subseteq 1..grants /\ renewed \subseteq 1..grants
    /\ lost \subseteq Credentials
LEMMA TokenType == ASSUME IInv, Next  PROVE TokenTypes'
<1>t. /\ TokenTypes /\ grants \in Nat /\ MaxGrants \in Nat
  BY MaxGrantsAssumption DEF IInv, TypeOK, TokenTypes
<1> USE <1>t DEF TokenTypes, history
<1>1. ASSUME NEW r \in Requests, Skip(r) \/ Begin(r) \/ Lock(r) \/ GiveUp(r) \/ Reread(r)
                                 \/ Fail(r) \/ Fetch(r)
      PROVE TokenTypes'
  BY <1>1 DEF Skip, Begin, Lock, GiveUp, Reread, Fail, Fetch
<1>2. ASSUME NEW r \in Requests, Exchange(r) \/ Lose(r)  PROVE TokenTypes'
  <2>1. r \in Owing /\ call[r].target \in Credentials
    BY <1>2 DEF Exchange, Lose, Owing, IInv, Granted, Renewing
  <2>2. grants + 1 <= MaxGrants  BY <2>1, OwingHasRoom
  <2>3. PICK rotates \in Rotates : granted(r, rotates)  BY <1>2 DEF Exchange, Lose
  <2>4. grants' = grants + 1 /\ live' \subseteq live \cup {grants + 1}  BY <2>3 DEF granted
  <2>5. UNCHANGED <<expired, renewed>> /\ lost' \subseteq lost \cup {call[r].target}
    BY <1>2 DEF Exchange, Lose
  <2> QED BY <2>1, <2>2, <2>4, <2>5
<1>3. ASSUME NEW r \in Requests, Persist(r)  PROVE TokenTypes'
  <2>1. call[r].target \in Credentials /\ call[r].before \in 1..grants
    BY <1>3 DEF Persist, IInv, Granted, Renewing
  <2> QED BY <1>3, <2>1 DEF Persist
<1>4. ASSUME NEW r \in Requests, NEW c \in Credentials, Take(r, c)  PROVE TokenTypes'
  BY <1>4 DEF Take
<1>5. ASSUME NEW c \in Credentials, Login(c)  PROVE TokenTypes'
  <2>1. grants + 1 <= MaxGrants
    <3>1. grants + Cardinality(Busy) < MaxGrants  BY <1>5 DEF Login, room, Busy
    <3> QED BY <3>1, OwingFinite
  <2> QED BY <1>5, <2>1 DEF Login
<1>6. ASSUME NEW c \in Credentials, Delete(c)  PROVE TokenTypes'
  BY <1>6 DEF Delete
<1>7. ASSUME NEW t \in Tokens, Expire(t)  PROVE TokenTypes'
  BY <1>7 DEF Expire
<1>8. CASE Restart
  BY <1>8 DEF Restart, IInv, Granted, Renewing
<1> QED BY <1>1, <1>2, <1>3, <1>4, <1>5, <1>6, <1>7, <1>8 DEF Next

LEMMA TypeStep == ASSUME IInv, Next  PROVE TypeOK'
<1>1. vault' \in [Credentials -> Rows \cup {None}] /\ Listed'
  <2>1. CASE UNCHANGED <<vault, newest>>  BY <2>1 DEF IInv, TypeOK, Listed
  <2>2. ASSUME NEW r \in Requests, Persist(r)
        PROVE  vault' \in [Credentials -> Rows \cup {None}] /\ Listed'
    <3>1. call[r].target \in Credentials /\ call[r].row \in Rows
      BY <2>2 DEF Persist, IInv, Granted, Renewing, Rowed, Minted
    <3> QED BY <2>1, <2>2, <3>1, UpsertType DEF Persist
  <2>3. ASSUME NEW c \in Credentials, Login(c)
        PROVE  vault' \in [Credentials -> Rows \cup {None}] /\ Listed'
    <3>1. PICK gives \in LoginGives :
            Upsert(c, [access  |-> grants + 1,
                       refresh |-> IF gives THEN grants + 1 ELSE None])
      BY <2>3 DEF Login
    <3>2. grants' = grants + 1 /\ grants \in Nat /\ grants' \in 0..MaxGrants
      BY <2>3, TokenType DEF Login, TokenTypes, IInv, TypeOK
    <3>3. [access |-> grants + 1, refresh |-> IF gives THEN grants + 1 ELSE None] \in Rows
      BY <3>2, MaxGrantsAssumption DEF Rows, Tokens
    <3> QED BY <3>1, <3>3, UpsertType
  <2>4. ASSUME NEW c \in Credentials, Delete(c)
        PROVE  vault' \in [Credentials -> Rows \cup {None}] /\ Listed'
    BY <2>4, DeleteType
  <2> QED BY <2>1, <2>2, <2>3, <2>4 DEF Next, Skip, Begin, Lock, GiveUp, Reread, Exchange, Fail,
             Lose, Fetch, Take, Expire, Restart
<1>2. call' \in [Requests -> Calls]  BY CallType
<1>3. holder' \in Locks!Holders  BY HolderType
<1>4. TokenTypes'  BY TokenType
<1> QED BY <1>1, <1>2, <1>3, <1>4 DEF TypeOK, Listed, TokenTypes

(* What the steps of a request do to its renewal and to nobody else's.     *)
Others(r) == \A q \in Requests : q # r => call'[q] = call[q]
LEMMA FinishMoves == ASSUME IInv, NEW r \in Requests, Finish(r)
                     PROVE  Others(r) /\ call'[r].pc = "idle"
<1>1. call \in [Requests -> Calls]  BY DEF IInv, TypeOK
<1>2. Idle.pc = "idle"  BY DEF Idle
<1> QED BY <1>1, <1>2 DEF Finish, Others

LEMMA GotoMoves == ASSUME IInv, NEW r \in Requests, NEW s, Goto(r, s)
                   PROVE  /\ Others(r) /\ call'[r].pc = s /\ call'[r].target = call[r].target
                          /\ call'[r].before = call[r].before /\ call'[r].row = call[r].row
<1>1. call \in [Requests -> Calls] /\ call[r] \in Calls  BY DEF IInv, TypeOK
<1> QED BY <1>1 DEF Goto, Others, Calls

LEMMA BeginMoves ==
    ASSUME IInv, NEW r \in Requests, Begin(r)
    PROVE  /\ Others(r) /\ call[r].pc = "resolved" /\ call'[r].pc \in {"idle", "waiting"}
           /\ call'[r].pc = "waiting" =>
                /\ call'[r].target \in Credentials /\ vault[call'[r].target] # None
                /\ call'[r].before = vault[call'[r].target].access
<1>1. call \in [Requests -> Calls] /\ call[r] \in Calls  BY DEF IInv, TypeOK
<1>2. CASE Finish(r)  BY <1>2, FinishMoves DEF Begin
<1>3. CASE ~Finish(r)
  <2>1. newest # <<>> /\ newest[1] \in Credentials  BY <1>3 DEF Begin, IInv, TypeOK
  <2>2. vault[newest[1]] # None  BY <2>1 DEF IInv, TypeOK
  <2>3. call' = [call EXCEPT ![r] = [call[r] EXCEPT !.pc = "waiting", !.target = newest[1],
                                                    !.before = vault[newest[1]].access]]
    BY <1>3 DEF Begin
  <2> QED BY <1>1, <2>1, <2>2, <2>3 DEF Others, Calls, Begin
<1> QED BY <1>2, <1>3

LEMMA RereadMoves ==
    ASSUME IInv, NEW r \in Requests, Reread(r)
    PROVE  /\ Others(r) /\ call[r].pc = "locked"
           /\ \/ call'[r].pc \in {"idle", "fetching"} /\ Unlock(r)
              \/ /\ call'[r].pc = "exchanging" /\ UNCHANGED holder
                 /\ vault[call[r].target] # None
                 /\ call'[r].target = call[r].target /\ call'[r].before = call[r].before
                 /\ call'[r].row = vault[call[r].target]
                 /\ call[r].before = vault[call[r].target].access
<1>1. call \in [Requests -> Calls] /\ call[r] \in Calls  BY DEF IInv, TypeOK
<1>2. CASE Finish(r) /\ Unlock(r)  BY <1>2, FinishMoves DEF Reread
<1>3. CASE Goto(r, "fetching") /\ Unlock(r)  BY <1>3, GotoMoves DEF Reread
<1>4. CASE ~(Finish(r) /\ Unlock(r)) /\ ~(Goto(r, "fetching") /\ Unlock(r))
  <2>1. /\ vault[call[r].target] # None /\ UNCHANGED holder
        /\ call[r].before = vault[call[r].target].access
        /\ call' = [call EXCEPT ![r] = [call[r] EXCEPT !.pc = "exchanging",
                                                       !.row = vault[call[r].target]]]
    BY <1>4 DEF Reread
  <2> QED BY <1>1, <2>1 DEF Others, Calls, Reread
<1> QED BY <1>2, <1>3, <1>4

LEMMA ExchangeMoves ==
    ASSUME IInv, NEW r \in Requests, Exchange(r)
    PROVE  /\ Others(r) /\ call[r].pc = "exchanging" /\ call'[r].pc = "persisting"
           /\ call'[r].target = call[r].target /\ call'[r].before = call[r].before
           /\ grants' = grants + 1
           /\ call'[r].row.access = grants + 1
           /\ call[r].row.refresh \in live
           /\ \/ call'[r].row.refresh = call[r].row.refresh /\ live' = live
              \/ /\ call'[r].row.refresh = grants + 1
                 /\ live' = (live \ {call[r].row.refresh}) \cup {grants + 1}
<1>1. call \in [Requests -> Calls] /\ call[r] \in Calls  BY DEF IInv, TypeOK
<1>2. PICK rotates \in Rotates :
        /\ granted(r, rotates)
        /\ call' = [call EXCEPT ![r] = [call[r] EXCEPT !.pc = "persisting",
                                                       !.row = received(r, rotates)]]
  BY DEF Exchange
<1>3. rotates \in BOOLEAN  BY RotatesAssumption
<1>4. /\ call'[r].pc = "persisting" /\ call'[r].row = received(r, rotates) /\ Others(r)
      /\ call'[r].target = call[r].target /\ call'[r].before = call[r].before
  BY <1>1, <1>2 DEF Others, Calls
<1> QED BY <1>2, <1>3, <1>4 DEF Exchange, granted, received

LEMMA TakeMoves == ASSUME IInv, NEW r \in Requests, NEW c \in Credentials, Take(r, c)
                   PROVE  Others(r) /\ call[r].pc = "idle" /\ call'[r].pc = "resolved"
                          /\ call'[r].held = vault[c]
<1>1. call \in [Requests -> Calls] /\ call[r] \in Calls  BY DEF IInv, TypeOK
<1> QED BY <1>1 DEF Take, Others, Idle

(* The grants under way fit under the bound.                               *)
LEMMA BudgetStep == ASSUME IInv, Next  PROVE Budget'
<1>t. /\ call \in [Requests -> Calls] /\ call' \in [Requests -> Calls]
      /\ grants \in Nat /\ MaxGrants \in Nat
  BY CallType, MaxGrantsAssumption DEF IInv, TypeOK
<1>b. /\ IsFiniteSet(Busy) /\ IsFiniteSet(Owing) /\ Owing \subseteq Busy
      /\ Cardinality(Owing) \in Nat /\ Cardinality(Busy) \in Nat
      /\ Cardinality(Owing) <= Cardinality(Busy)
      /\ grants + Cardinality(Owing) <= MaxGrants
  BY OwingFinite DEF IInv, Budget
<1>0. ASSUME grants' = grants, Busy' \subseteq Busy, Owing' \subseteq Owing  PROVE Budget'
  <2>1. IsFiniteSet(Busy') /\ Cardinality(Owing') <= Cardinality(Owing)
    BY <1>b, <1>0, FS_Subset
  <2>2. Cardinality(Owing') \in Nat  BY <1>b, <1>0, FS_Subset, FS_CardinalityType
  <2> QED BY <1>t, <1>b, <1>0, <2>1, <2>2 DEF Budget
<1>1. ASSUME NEW r \in Requests, Skip(r) \/ Begin(r) \/ Lock(r) \/ GiveUp(r) \/ Reread(r)
                                 \/ Fail(r) \/ Persist(r) \/ Fetch(r)
      PROVE  Budget'
  <2>1. grants' = grants
    BY <1>1 DEF Skip, Begin, Lock, GiveUp, Reread, Fail, Persist, Fetch
  <2>2. /\ \A q \in Requests \ {r} : call'[q] = call[q]
        /\ call[r].pc # "idle"
        /\ call'[r].pc \in {"waiting", "locked", "exchanging"} => r \in Owing
        /\ call'[r].pc # "resolved"
    BY <1>1, FinishMoves, GotoMoves, BeginMoves, RereadMoves
       DEF Skip, Lock, GiveUp, Fail, Persist, Fetch, Others, Owing
  <2>3. Busy' \subseteq Busy  BY <2>2 DEF Busy
  <2>4. Owing' \subseteq Owing  BY <2>2 DEF Owing
  <2> QED BY <1>0, <2>1, <2>3, <2>4
<1>2. ASSUME NEW r \in Requests, Exchange(r) \/ Lose(r)  PROVE Budget'
  <2>1. grants' = grants + 1  BY <1>2 DEF Exchange, Lose, granted
  <2>2. /\ \A q \in Requests \ {r} : call'[q] = call[q]
        /\ call[r].pc = "exchanging" /\ call'[r].pc \in {"idle", "persisting"}
    BY <1>2, FinishMoves, ExchangeMoves DEF Lose, Others
  <2>3. Owing' \subseteq Owing \ {r} /\ r \in Owing  BY <2>2 DEF Owing
  <2>4. Busy' \subseteq Busy  BY <2>2 DEF Busy
  <2>5. Cardinality(Owing') <= Cardinality(Owing) - 1 /\ Cardinality(Owing') \in Nat
    <3>1. Cardinality(Owing \ {r}) = Cardinality(Owing) - 1 /\ IsFiniteSet(Owing \ {r})
      BY <1>b, <2>3, FS_RemoveElement
    <3> QED BY <2>3, <3>1, FS_Subset, FS_CardinalityType
  <2> QED BY <1>t, <1>b, <2>1, <2>4, <2>5, FS_Subset DEF Budget
<1>3. ASSUME NEW r \in Requests, NEW c \in Credentials, Take(r, c)  PROVE Budget'
  <2>1. grants' = grants /\ grants + Cardinality(Busy) < MaxGrants
    BY <1>3 DEF Take, room, Busy
  <2>2. \A q \in Requests \ {r} : call'[q] = call[q]
    BY <1>3, TakeMoves DEF Others
  <2>3. Busy' \subseteq Busy \cup {r} /\ Owing' \subseteq Busy \cup {r}
    BY <1>b, <2>2 DEF Busy, Owing
  <2>4. /\ IsFiniteSet(Busy \cup {r}) /\ Cardinality(Busy \cup {r}) \in Nat
        /\ Cardinality(Busy \cup {r}) <= Cardinality(Busy) + 1
    <3>1. IsFiniteSet(Busy \cup {r})  BY <1>b, FS_AddElement
    <3>2. Cardinality(Busy \cup {r}) = IF r \in Busy THEN Cardinality(Busy)
                                       ELSE Cardinality(Busy) + 1
      BY <1>b, FS_AddElement
    <3> QED BY <1>b, <3>1, <3>2
  <2>5. /\ IsFiniteSet(Busy') /\ Cardinality(Owing') \in Nat
        /\ Cardinality(Owing') <= Cardinality(Busy \cup {r})
    BY <2>3, <2>4, FS_Subset, FS_CardinalityType
  <2> QED BY <1>t, <1>b, <2>1, <2>4, <2>5 DEF Budget
<1>4. ASSUME NEW c \in Credentials, Login(c)  PROVE Budget'
  <2>1. grants' = grants + 1 /\ grants + Cardinality(Busy) < MaxGrants /\ call' = call
    BY <1>4 DEF Login, room, Busy
  <2>2. Busy' = Busy /\ Owing' = Owing  BY <2>1 DEF Busy, Owing
  <2> QED BY <1>t, <1>b, <2>1, <2>2 DEF Budget
<1>5. ASSUME NEW c \in Credentials, Delete(c)  PROVE Budget'
  BY <1>0, <1>5 DEF Delete, Busy, Owing
<1>6. ASSUME NEW t \in Tokens, Expire(t)  PROVE Budget'
  BY <1>0, <1>6 DEF Expire, Busy, Owing
<1>7. CASE Restart
  <2>1. Busy' = {} /\ Owing' = {} /\ grants' = grants
    BY <1>7 DEF Restart, Busy, Owing, Idle
  <2> QED BY <1>0, <2>1
<1> QED BY <1>1, <1>2, <1>3, <1>4, <1>5, <1>6, <1>7 DEF Next

(* The lock is held by those between Lock and Unlock, and by nobody else.  *)
LEMMA LockStep == ASSUME IInv, Next  PROVE NoLockLeaks' /\ Holding'
<1>t. /\ call \in [Requests -> Calls] /\ holder \in [Credentials -> Requests \cup {None}]
      /\ \A r \in Requests : Locked(r) \/ call[r].pc = "waiting" => call[r].target \in Credentials
      /\ NoLockLeaks /\ Holding /\ None \notin Requests
  BY NoneAssumption DEF IInv, TypeOK, Granted, Renewing, Locked, Locks!Holders
<1> USE <1>t DEF NoLockLeaks, Holding, Locked
<1>1. ASSUME NEW r \in Requests, Skip(r) \/ Begin(r) \/ GiveUp(r) \/ Fetch(r)
      PROVE  NoLockLeaks' /\ Holding'
  <2>1. /\ holder' = holder /\ call[r].pc \notin {"locked", "exchanging", "persisting"}
        /\ call'[r].pc \notin {"locked", "exchanging", "persisting"}
        /\ \A q \in Requests \ {r} : call'[q] = call[q]
    <3>1. CASE Skip(r)    BY <3>1, FinishMoves DEF Skip, Others
    <3>2. CASE Begin(r)
      <4>1. holder' = holder  BY <3>2 DEF Begin
      <4> QED BY <3>2, <4>1, BeginMoves DEF Others
    <3>3. CASE GiveUp(r)  BY <3>3, FinishMoves DEF GiveUp, Others
    <3>4. CASE Fetch(r)   BY <3>4, FinishMoves DEF Fetch, Others
    <3> QED BY <1>1, <3>1, <3>2, <3>3, <3>4
  <2> QED BY <2>1
<1>2. ASSUME NEW r \in Requests, Lock(r)  PROVE NoLockLeaks' /\ Holding'
  BY <1>2, GotoMoves DEF Lock, Locks!Lock, Others
<1>3. ASSUME NEW r \in Requests, Unlock(r), Locked(r), ~Locked(r)',
             \A q \in Requests \ {r} : call'[q] = call[q]
      PROVE  NoLockLeaks' /\ Holding'
  BY <1>3 DEF Unlock, Locks!Unlock
<1>4. ASSUME NEW r \in Requests, Reread(r)  PROVE NoLockLeaks' /\ Holding'
  <2>1. CASE UNCHANGED holder /\ call'[r].pc = "exchanging"
    BY <1>4, <2>1, RereadMoves DEF Others
  <2>2. CASE Unlock(r) /\ call'[r].pc \in {"idle", "fetching"}
    BY <1>3, <1>4, <2>2, RereadMoves DEF Others
  <2> QED BY <1>4, <2>1, <2>2, RereadMoves
<1>5. ASSUME NEW r \in Requests, Exchange(r)  PROVE NoLockLeaks' /\ Holding'
  <2>1. UNCHANGED holder  BY <1>5 DEF Exchange
  <2> QED BY <1>5, <2>1, ExchangeMoves DEF Others
<1>6. ASSUME NEW r \in Requests, Fail(r) \/ Lose(r) \/ Persist(r)  PROVE NoLockLeaks' /\ Holding'
  BY <1>3, <1>6, FinishMoves, GotoMoves DEF Fail, Lose, Persist, Others
<1>7. ASSUME NEW r \in Requests, NEW c \in Credentials, Take(r, c)
      PROVE  NoLockLeaks' /\ Holding'
  <2>1. UNCHANGED holder  BY <1>7 DEF Take
  <2> QED BY <1>7, <2>1, TakeMoves DEF Others
<1>8. CASE Restart  BY <1>8 DEF Restart, Idle
<1>9. CASE UNCHANGED <<holder, call>>  BY <1>9
<1> QED BY <1>1, <1>2, <1>4, <1>5, <1>6, <1>7, <1>8, <1>9 DEF Next, Login, Delete, Expire

(* What a step does to the vault: a renewal puts in the row it has, a      *)
(* login a row of new tokens.                                              *)
LEMMA PersistMoves ==
    ASSUME IInv, NEW r \in Requests, Persist(r)
    PROVE  /\ Others(r) /\ call[r].pc = "persisting" /\ call'[r].pc \in {"idle", "fetching"}
           /\ UNCHANGED <<grants, live>> /\ Unlock(r)
           /\ \/ /\ vault' = [vault EXCEPT ![call[r].target] = call[r].row] /\ UNCHANGED lost
                 /\ renewed' = renewed \cup {call[r].before}
              \/ UNCHANGED <<vault, renewed>> /\ lost' = lost \cup {call[r].target}
  BY FinishMoves, GotoMoves DEF Persist, Upsert

LEMMA LoginMoves ==
    ASSUME IInv, NEW c \in Credentials, Login(c)
    PROVE  /\ UNCHANGED <<call, holder, renewed>> /\ lost' = lost \ {c} /\ grants' = grants + 1
           /\ \E row \in Rows :
                /\ vault' = [vault EXCEPT ![c] = row] /\ row.access = grants + 1
                /\ \/ row.refresh = None /\ live' = live
                   \/ row.refresh = grants + 1 /\ live' = live \cup {grants + 1}
<1>1. PICK gives \in LoginGives :
        /\ Upsert(c, [access |-> grants + 1, refresh |-> IF gives THEN grants + 1 ELSE None])
        /\ live' = IF gives THEN live \cup {grants + 1} ELSE live
  BY DEF Login
<1>2. grants' = grants + 1 /\ grants \in Nat /\ grants' \in 0..MaxGrants
  BY TokenType DEF Login, TokenTypes, IInv, TypeOK, Next
<1> DEFINE row == [access |-> grants + 1, refresh |-> IF gives THEN grants + 1 ELSE None]
<1>3. row \in Rows  BY <1>2, MaxGrantsAssumption DEF Rows, Tokens
<1>4. gives \in BOOLEAN  BY RotatesAssumption
<1>5. vault' = [vault EXCEPT ![c] = row]  BY <1>1 DEF Upsert
<1>6. row.access = grants + 1
  OBVIOUS
<1>7. \/ row.refresh = None /\ live' = live
      \/ row.refresh = grants + 1 /\ live' = live \cup {grants + 1}
  BY <1>1, <1>4
<1> QED BY <1>2, <1>3, <1>5, <1>6, <1>7 DEF Login, history

(* Tokens in the vault and in the hands of renewals have been granted.     *)
LEMMA GrantedStep == ASSUME IInv, Next  PROVE Granted'
<1>t. /\ grants \in Nat /\ Granted /\ vault \in [Credentials -> Rows \cup {None}]
      /\ \A row : Minted(row) /\ grants' \in {grants, grants + 1} => Minted(row)'
  BY DEF IInv, TypeOK, Minted
<1>u. vault' \in [Credentials -> Rows \cup {None}] /\ call' \in [Requests -> Calls]
  BY TypeStep DEF TypeOK
<1> USE <1>t, <1>u DEF Granted, Renewing, Rowed
<1>1. ASSUME NEW r \in Requests, Others(r), UNCHANGED <<vault, grants>>,
             call'[r].pc \in {"idle", "fetching"}
      PROVE  Granted'
  BY <1>1 DEF Others, Minted
<1>2. ASSUME NEW r \in Requests, Skip(r) \/ GiveUp(r) \/ Fetch(r) \/ Fail(r)  PROVE Granted'
  BY <1>1, <1>2, FinishMoves DEF Skip, GiveUp, Fetch, Fail
<1>3. ASSUME NEW r \in Requests, Begin(r)  PROVE Granted'
  <2>1. UNCHANGED <<vault, grants>>  BY <1>3 DEF Begin
  <2> QED BY <1>3, <2>1, BeginMoves DEF Others, Minted
<1>4. ASSUME NEW r \in Requests, Lock(r)  PROVE Granted'
  <2>1. UNCHANGED <<vault, grants>> /\ call[r].pc = "waiting" /\ Goto(r, "locked")
    BY <1>4 DEF Lock
  <2> QED BY <2>1, GotoMoves DEF Others, Minted
<1>5. ASSUME NEW r \in Requests, Reread(r)  PROVE Granted'
  <2>1. UNCHANGED <<vault, grants>>  BY <1>5 DEF Reread
  <2> QED BY <1>5, <2>1, RereadMoves DEF Others, Minted
<1>6. ASSUME NEW r \in Requests, Exchange(r)  PROVE Granted'
  <2>1. UNCHANGED vault  BY <1>6 DEF Exchange
  <2>2. Minted(call[r].row)'
    <3>1. call'[r].row \in Rows \cup {None}  BY DEF Calls
    <3>2. call'[r].row # None
      <4>1. PICK rotates : call' = [call EXCEPT ![r].pc = "persisting",
                                                ![r].row = received(r, rotates)]
        BY <1>6 DEF Exchange
      <4>2. call'[r].row = received(r, rotates)
        BY <4>1 DEF IInv, TypeOK, Calls
      <4>3. r \in Owing  BY <1>6, ExchangeMoves DEF Owing
      <4>4. grants + 1 \in Tokens  BY <4>3, OwingHasRoom, MaxGrantsAssumption DEF Tokens
      <4>5. call[r].row \in Rows  BY <1>6, ExchangeMoves DEF Minted
      <4>6. received(r, rotates) \in Rows  BY <4>4, <4>5 DEF received, Rows
      <4> QED BY <4>2, <4>6, NoneAssumption, MaxGrantsAssumption DEF Rows, Tokens
    <3> QED BY <1>6, <3>1, <3>2, ExchangeMoves DEF Minted
  <2> QED BY <1>6, <2>1, <2>2, ExchangeMoves DEF Others
<1>7. ASSUME NEW r \in Requests, Lose(r)  PROVE Granted'
  <2>1. UNCHANGED vault /\ grants' = grants + 1 /\ Finish(r)  BY <1>7 DEF Lose, granted
  <2> QED BY <2>1, FinishMoves DEF Others
<1>8. ASSUME NEW r \in Requests, Persist(r)  PROVE Granted'
  <2>1. Minted(call[r].row)  BY <1>8, PersistMoves
  <2> QED BY <1>8, <2>1, PersistMoves DEF Others, Minted
<1>9. ASSUME NEW r \in Requests, NEW c \in Credentials, Take(r, c)  PROVE Granted'
  <2>1. UNCHANGED <<vault, grants>> /\ vault[c] \in Rows  BY <1>9 DEF Take
  <2> QED BY <1>9, <2>1, TakeMoves DEF Others, Minted
<1>10. ASSUME NEW c \in Credentials, Login(c)  PROVE Granted'
  <2>1. PICK row \in Rows :
          /\ vault' = [vault EXCEPT ![c] = row] /\ row.access = grants + 1
          /\ row.refresh \in {None, grants + 1}
    BY <1>10, LoginMoves
  <2>2. grants' = grants + 1 /\ UNCHANGED call  BY <1>10, LoginMoves
  <2>3. Minted(row)'  BY <2>1, <2>2 DEF Minted
  <2> QED BY <2>1, <2>2, <2>3
<1>11. ASSUME NEW c \in Credentials, Delete(c)  PROVE Granted'
  BY <1>11 DEF Delete, Minted
<1>12. ASSUME NEW t \in Tokens, Expire(t)  PROVE Granted'
  BY <1>12 DEF Expire, Minted
<1>13. CASE Restart
  BY <1>13 DEF Restart, Idle, Minted
<1> QED BY <1>2, <1>3, <1>4, <1>5, <1>6, <1>7, <1>8, <1>9, <1>10, <1>11, <1>12, <1>13 DEF Next

(* A step hands on tokens of the account they belong to, or a new one.     *)
LEMMA ApartStep == ASSUME IInv, Next  PROVE Apart'
<1>t. /\ grants \in Nat /\ MaxGrants \in Nat /\ Granted /\ Apart
      /\ vault \in [Credentials -> Rows \cup {None}]
  BY MaxGrantsAssumption DEF IInv, TypeOK
<1>u. \A c \in Credentials, t \in Tokens :
         OwnsAccess(c, t) \/ OwnsRefresh(c, t) => t \in 1..grants
  BY <1>t, NoneAssumption DEF OwnsAccess, OwnsRefresh, Granted, Minted, Renewing, Rowed, Tokens
<1>0. ASSUME NEW d,
             \A c \in Credentials, t \in Tokens :
               /\ OwnsAccess(c, t)' => OwnsAccess(c, t) \/ (c = d /\ t = grants + 1)
               /\ OwnsRefresh(c, t)' => OwnsRefresh(c, t) \/ (c = d /\ t = grants + 1)
      PROVE  Apart'
  <2>1. \A t \in Tokens : t = grants + 1 => t \notin 1..grants  BY <1>t
  <2> QED BY <1>t, <1>u, <1>0, <2>1 DEF Apart
<1> USE DEF OwnsAccess, OwnsRefresh, Renewing, Rowed
<1>1. ASSUME NEW r \in Requests, Others(r), UNCHANGED vault,
             ~Renewing(r)'
      PROVE  Apart'
  BY <1>0, <1>1 DEF Others
<1>2. ASSUME NEW r \in Requests, Skip(r) \/ GiveUp(r) \/ Fetch(r) \/ Fail(r) \/ Lose(r)
      PROVE Apart'
  BY <1>1, <1>2, FinishMoves DEF Skip, GiveUp, Fetch, Fail, Lose
<1>3. ASSUME NEW r \in Requests, Begin(r)  PROVE Apart'
  <2>1. UNCHANGED vault  BY <1>3 DEF Begin
  <2>2. ASSUME NEW c \in Credentials, NEW t \in Tokens
        PROVE  (OwnsAccess(c, t)' => OwnsAccess(c, t)) /\ (OwnsRefresh(c, t)' => OwnsRefresh(c, t))
    BY <1>3, <2>1, BeginMoves DEF Others
  <2> QED BY <2>2, <1>0
<1>4. ASSUME NEW r \in Requests, Lock(r)  PROVE Apart'
  <2>1. UNCHANGED vault /\ call[r].pc = "waiting" /\ Goto(r, "locked")
    BY <1>4 DEF Lock
  <2>2. ASSUME NEW c \in Credentials, NEW t \in Tokens
        PROVE  (OwnsAccess(c, t)' => OwnsAccess(c, t)) /\ (OwnsRefresh(c, t)' => OwnsRefresh(c, t))
    BY <2>1, GotoMoves DEF Others
  <2> QED BY <2>2, <1>0
<1>5. ASSUME NEW r \in Requests, Reread(r)  PROVE Apart'
  <2>1. UNCHANGED vault  BY <1>5 DEF Reread
  <2>2. ASSUME NEW c \in Credentials, NEW t \in Tokens
        PROVE  (OwnsAccess(c, t)' => OwnsAccess(c, t)) /\ (OwnsRefresh(c, t)' => OwnsRefresh(c, t))
    BY <1>5, <2>1, RereadMoves DEF Others
  <2> QED BY <2>2, <1>0
<1>6. ASSUME NEW r \in Requests, Exchange(r)  PROVE Apart'
  <2>1. UNCHANGED vault  BY <1>6 DEF Exchange
  <2>2. ASSUME NEW c \in Credentials, NEW t \in Tokens
        PROVE  /\ OwnsAccess(c, t)' =>
                    OwnsAccess(c, t) \/ (c = call[r].target /\ t = grants + 1)
               /\ OwnsRefresh(c, t)' =>
                    OwnsRefresh(c, t) \/ (c = call[r].target /\ t = grants + 1)
    BY <1>6, <2>1, ExchangeMoves DEF Others
  <2> QED BY <2>2, <1>0
<1>7. ASSUME NEW r \in Requests, Persist(r)  PROVE Apart'
  <2>1. \A q \in Requests : q # r => call'[q] = call[q]  BY <1>7, PersistMoves DEF Others
  <2>2. call[r].pc = "persisting" /\ call'[r].pc \in {"idle", "fetching"}
    BY <1>7, PersistMoves
  <2>3. \A c \in Credentials : vault'[c] = vault[c]
                               \/ (c = call[r].target /\ vault'[c] = call[r].row)
    BY <1>7, <1>t, PersistMoves
  <2>4. ASSUME NEW c \in Credentials, NEW t \in Tokens
        PROVE  (OwnsAccess(c, t)' => OwnsAccess(c, t)) /\ (OwnsRefresh(c, t)' => OwnsRefresh(c, t))
    BY <2>1, <2>2, <2>3
  <2> QED BY <2>4, <1>0
<1>8. ASSUME NEW r \in Requests, NEW c \in Credentials, Take(r, c)  PROVE Apart'
  <2>1. UNCHANGED vault  BY <1>8 DEF Take
  <2> QED BY <1>1, <1>8, <2>1, TakeMoves
<1>9. ASSUME NEW c \in Credentials, Login(c)  PROVE Apart'
  <2>1. /\ UNCHANGED call
        /\ \A d \in Credentials : d # c => vault'[d] = vault[d]
        /\ vault'[c].access = grants + 1 /\ vault'[c].refresh \in {None, grants + 1}
    BY <1>9, <1>t, LoginMoves
  <2>2. ASSUME NEW d \in Credentials, NEW t \in Tokens
        PROVE  /\ OwnsAccess(d, t)' => OwnsAccess(d, t) \/ (d = c /\ t = grants + 1)
               /\ OwnsRefresh(d, t)' => OwnsRefresh(d, t) \/ (d = c /\ t = grants + 1)
    <3>1. t # None  BY NoneAssumption, <1>t DEF Tokens
    <3> QED BY <2>1, <3>1
  <2> QED BY <2>2, <1>0
<1>10. ASSUME NEW c \in Credentials, Delete(c)  PROVE Apart'
  <2>1. UNCHANGED call /\ vault' = [vault EXCEPT ![c] = None]  BY <1>10 DEF Delete
  <2> QED BY <1>0, <1>t, <2>1
<1>11. ASSUME NEW t \in Tokens, Expire(t)  PROVE Apart'
  BY <1>0, <1>11 DEF Expire
<1>12. CASE Restart
  <2>1. UNCHANGED vault /\ \A r \in Requests : call'[r].pc = "idle"
    BY <1>12 DEF Restart, Idle
  <2> QED BY <1>0, <2>1
<1> QED BY <1>2, <1>3, <1>4, <1>5, <1>6, <1>7, <1>8, <1>9, <1>10, <1>11, <1>12 DEF Next

(* What a renewal has replaced is in no row, and the lock keeps everybody  *)
(* from replacing it again.                                                *)
LEMMA UnrenewedStep == ASSUME IInv, Next  PROVE Unrenewed'
<1>t. /\ grants \in Nat /\ Granted /\ Apart /\ Holding /\ Unrenewed /\ renewed \subseteq 1..grants
      /\ vault \in [Credentials -> Rows \cup {None}] /\ MaxGrants \in Nat
  BY MaxGrantsAssumption DEF IInv, TypeOK
<1> USE DEF Unrenewed
<1>1. ASSUME NEW r \in Requests, Others(r), UNCHANGED <<vault, renewed>>,
             call'[r].pc \notin {"exchanging", "persisting"}
      PROVE  Unrenewed'
  BY <1>t, <1>1 DEF Others
<1>2. ASSUME NEW r \in Requests, Skip(r) \/ GiveUp(r) \/ Fetch(r) \/ Fail(r) \/ Lose(r) \/ Lock(r)
      PROVE  Unrenewed'
  BY <1>1, <1>2, FinishMoves, GotoMoves DEF Skip, GiveUp, Fetch, Fail, Lose, Lock, history
<1>3. ASSUME NEW r \in Requests, Begin(r)  PROVE Unrenewed'
  <2>1. UNCHANGED <<vault, renewed>>  BY <1>3 DEF Begin, history
  <2> QED BY <1>1, <1>3, <2>1, BeginMoves
<1>4. ASSUME NEW r \in Requests, Reread(r)  PROVE Unrenewed'
  <2>1. UNCHANGED <<vault, renewed>> /\ call[r].target \in Credentials
    BY <1>4, <1>t, RereadMoves DEF Reread, history, Granted, Renewing
  <2> QED BY <1>t, <1>4, <2>1, RereadMoves DEF Others
<1>5. ASSUME NEW r \in Requests, Exchange(r)  PROVE Unrenewed'
  <2>1. UNCHANGED <<vault, renewed>>  BY <1>5 DEF Exchange, history
  <2>2. call[r].before \in 1..grants  BY <1>t, <1>5, ExchangeMoves DEF Granted, Renewing
  <2> QED BY <1>t, <1>5, <2>1, <2>2, ExchangeMoves DEF Others
<1>6. ASSUME NEW r \in Requests, Persist(r)  PROVE Unrenewed'
  <2> DEFINE c == call[r].target
  <2>1. /\ c \in Credentials /\ call[r].before \in 1..grants /\ call[r].pc = "persisting"
        /\ OwnsAccess(c, call[r].before)
    BY <1>t, <1>6, PersistMoves DEF Granted, Renewing, OwnsAccess
  <2>0. call[r].before \in Tokens
    BY <2>1, <1>t DEF IInv, TypeOK, Tokens
  <2>2. CASE UNCHANGED <<vault, renewed>>  BY <1>1, <1>6, <2>2, PersistMoves
  <2>3. CASE /\ vault' = [vault EXCEPT ![c] = call[r].row]
             /\ renewed' = renewed \cup {call[r].before}
    <3>1. ASSUME NEW d \in Credentials, vault'[d] # None  PROVE vault'[d].access \notin renewed'
      <4>1. CASE d = c  BY <1>t, <2>1, <2>3, <4>1
      <4>2. CASE d # c
        <5>1. vault'[d] = vault[d]  BY <1>t, <2>1, <2>3, <4>2
        <5>2. OwnsAccess(d, vault[d].access)  BY <3>1, <5>1 DEF OwnsAccess
        <5>3. vault[d].access # call[r].before  BY <1>t, <2>0, <2>1, <4>2, <5>2 DEF Apart
        <5> QED BY <1>t, <2>3, <3>1, <5>1, <5>3
      <4> QED BY <4>1, <4>2
    <3>2. ASSUME NEW q \in Requests, q # r, call[q].pc \in {"exchanging", "persisting"}
          PROVE  call[q].before # call[r].before /\ call[q].row.access # call[r].before
      <4>1. call[q].target \in Credentials
        BY <1>t, <3>2 DEF Granted, Renewing
      <4>2. call[q].target # c
        BY <1>t, <2>1, <3>2 DEF Holding, Locked
      <4>3. /\ OwnsAccess(call[q].target, call[q].before)
            /\ OwnsAccess(call[q].target, call[q].row.access)
        BY <3>2 DEF OwnsAccess, Renewing, Rowed
      <4> QED BY <1>t, <2>0, <2>1, <4>1, <4>2, <4>3 DEF Apart
    <3>3. \A q \in Requests : q # r => call'[q] = call[q]  BY <1>6, PersistMoves DEF Others
    <3>4. call'[r].pc \in {"idle", "fetching"}  BY <1>6, PersistMoves
    <3> QED BY <1>t, <2>3, <3>1, <3>2, <3>3, <3>4
  <2> QED BY <1>6, <2>2, <2>3, PersistMoves
<1>7. ASSUME NEW r \in Requests, NEW c \in Credentials, Take(r, c)  PROVE Unrenewed'
  <2>1. UNCHANGED <<vault, renewed>>  BY <1>7 DEF Take, history
  <2> QED BY <1>1, <1>7, <2>1, TakeMoves
<1>8. ASSUME NEW c \in Credentials, Login(c)  PROVE Unrenewed'
  <2>1. /\ UNCHANGED <<call, renewed>> /\ vault'[c].access = grants + 1
        /\ \A d \in Credentials : d # c => vault'[d] = vault[d]
    BY <1>8, <1>t, LoginMoves
  <2> QED BY <1>t, <2>1
<1>9. ASSUME NEW c \in Credentials, Delete(c)  PROVE Unrenewed'
  <2>1. UNCHANGED <<call, renewed>> /\ vault' = [vault EXCEPT ![c] = None]
    BY <1>9 DEF Delete, history
  <2> QED BY <1>t, <2>1
<1>10. ASSUME NEW t \in Tokens, Expire(t)  PROVE Unrenewed'
  BY <1>t, <1>10 DEF Expire, history
<1>11. CASE Restart
  <2>1. UNCHANGED <<vault, renewed>> /\ \A r \in Requests : call'[r].pc = "idle"
    BY <1>11 DEF Restart, Idle
  <2> QED BY <1>t, <2>1
<1> QED BY <1>2, <1>3, <1>4, <1>5, <1>6, <1>7, <1>8, <1>9, <1>10, <1>11 DEF Next

(* Who persists for an account is the one who holds its lock.              *)
LEMMA PersistingHolds ==
    ASSUME IInv, NEW r \in Requests, call[r].pc = "persisting"
    PROVE  call[r].target \in Credentials /\ holder[call[r].target] = r /\ Persisting(call[r].target)
  BY NoneAssumption DEF IInv, Granted, Renewing, Holding, Locked, Persisting

(* A refresh token that is spent leaves the vault with the lock, or its    *)
(* account is known to be lost.                                            *)
LEMMA HonouredStep == ASSUME IInv, Next  PROVE Honoured'
<1>t. /\ grants \in Nat /\ MaxGrants \in Nat /\ Granted /\ Apart /\ Holding /\ NoLockLeaks
      /\ Honoured /\ live \subseteq 1..grants /\ None \notin Requests /\ None \notin Nat
      /\ vault \in [Credentials -> Rows \cup {None}]
      /\ holder \in [Credentials -> Requests \cup {None}]
      /\ 1..grants \subseteq Tokens
  BY MaxGrantsAssumption, NoneAssumption DEF IInv, TypeOK, Tokens, Locks!Holders
<1> USE DEF Honoured, Persisting
<1>1. ASSUME NEW r \in Requests, Others(r), UNCHANGED <<vault, live>>, lost \subseteq lost',
             call'[r].pc # "persisting", call[r].pc # "persisting",
             UNCHANGED holder \/ Unlock(r) \/ Locks!Lock(r, call[r].target)
      PROVE  Honoured'
  <2>1. \A q \in Requests : call'[q].pc = "persisting"
                            => call[q].pc = "persisting" /\ call'[q] = call[q]
    BY <1>1 DEF Others
  <2>2. ASSUME NEW c \in Credentials, Persisting(c)  PROVE Persisting(c)'
    <3>1. holder[c] \in Requests /\ holder[c] # r  BY <1>t, <2>2, <1>1
    <3>2. holder'[c] = holder[c]
      BY <1>t, <1>1, <2>2, <3>1 DEF Unlock, Locks!Unlock, Locks!Lock
    <3>3. call'[holder[c]] = call[holder[c]]  BY <1>1, <3>1 DEF Others
    <3> QED BY <2>2, <3>1, <3>2, <3>3
  <2> QED BY <1>t, <1>1, <2>1, <2>2
<1>2. ASSUME NEW r \in Requests, Skip(r) \/ GiveUp(r) \/ Fetch(r)  PROVE Honoured'
  BY <1>1, <1>2, FinishMoves DEF Skip, GiveUp, Fetch, history
<1>3. ASSUME NEW r \in Requests, Lock(r)  PROVE Honoured'
  BY <1>1, <1>3, GotoMoves DEF Lock, history
<1>4. ASSUME NEW r \in Requests, Begin(r)  PROVE Honoured'
  <2>1. UNCHANGED <<vault, live, lost, holder>>  BY <1>4 DEF Begin, history
  <2> QED BY <1>1, <1>4, <2>1, BeginMoves
<1>5. ASSUME NEW r \in Requests, Reread(r)  PROVE Honoured'
  <2>1. UNCHANGED <<vault, live, lost>>  BY <1>5 DEF Reread, history
  <2> QED BY <1>1, <1>5, <2>1, RereadMoves
<1>6. ASSUME NEW r \in Requests, Fail(r)  PROVE Honoured'
  <2>1. UNCHANGED <<vault, live, lost>> /\ Finish(r) /\ Unlock(r) /\ call[r].pc = "exchanging"
    BY <1>6 DEF Fail, history
  <2> QED BY <1>1, <2>1, FinishMoves
<1>7. ASSUME NEW r \in Requests, call[r].pc = "exchanging", call[r].row.refresh \in live
      PROVE  /\ call[r].target \in Credentials /\ holder[call[r].target] = r
             /\ \A c \in Credentials : c # call[r].target /\ vault[c] # None
                  => vault[c].refresh # call[r].row.refresh
             /\ \A q \in Requests : call[q].pc = "persisting"
                  => q # r /\ call[q].row.refresh # call[r].row.refresh
  <2>1. call[r].target \in Credentials /\ holder[call[r].target] = r
    BY <1>t, <1>7 DEF Granted, Renewing, Holding, Locked
  <2>2. call[r].row.refresh \in Tokens /\ OwnsRefresh(call[r].target, call[r].row.refresh)
    BY <1>t, <1>7 DEF OwnsRefresh, Rowed
  <2>3. ASSUME NEW c \in Credentials, c # call[r].target, vault[c] # None
        PROVE  vault[c].refresh # call[r].row.refresh
    BY <1>t, <2>1, <2>2, <2>3 DEF Apart, OwnsRefresh
  <2>4. ASSUME NEW q \in Requests, call[q].pc = "persisting"
        PROVE  q # r /\ call[q].row.refresh # call[r].row.refresh
    <3>1. q # r  BY <1>7, <2>4
    <3>2. call[q].target \in Credentials /\ call[q].target # call[r].target
      BY <2>1, <2>4, <3>1, PersistingHolds
    <3>3. OwnsRefresh(call[q].target, call[q].row.refresh)  BY <2>4 DEF OwnsRefresh, Rowed
    <3> QED BY <1>t, <2>1, <2>2, <3>1, <3>2, <3>3 DEF Apart
  <2> QED BY <2>1, <2>3, <2>4
<1>8. ASSUME NEW r \in Requests, Exchange(r)  PROVE Honoured'
  <2>1. UNCHANGED <<vault, lost, holder>>  BY <1>8 DEF Exchange, history
  <2>2. call[r].pc = "exchanging" /\ call[r].row.refresh \in live  BY <1>8, ExchangeMoves
  <2>3. \A t : t \in live /\ t # call[r].row.refresh => t \in live'
    BY <1>8, ExchangeMoves
  <2>4. call'[r].pc = "persisting" /\ call'[r].row.refresh \in live'
    BY <1>8, <2>2, ExchangeMoves
  <2>5. \A q \in Requests : q # r => call'[q] = call[q]  BY <1>8, ExchangeMoves DEF Others
  <2>6. Persisting(call[r].target)'  BY <1>t, <1>7, <2>1, <2>2, <2>4, <1>8, ExchangeMoves
  <2>7. ASSUME NEW c \in Credentials, ~Persisting(c)'
        PROVE  ~Persisting(c) /\ c # call[r].target
    <3>1. c # call[r].target  BY <2>6, <2>7, <1>8, ExchangeMoves
    <3>2. CASE holder[c] = None  BY <3>1, <3>2
    <3>3. CASE holder[c] # None
      <4>1. holder[c] \in Requests /\ holder[c] # r  BY <1>t, <1>7, <2>2, <3>1, <3>3 DEF NoLockLeaks
      <4> QED BY <2>1, <2>5, <2>7, <3>1, <3>3, <4>1
    <3> QED BY <3>2, <3>3
  <2> QED BY <1>t, <1>7, <2>1, <2>2, <2>3, <2>4, <2>5, <2>7
<1>9. ASSUME NEW r \in Requests, Lose(r)  PROVE Honoured'
  <2>1. /\ call[r].pc = "exchanging" /\ Finish(r) /\ Unlock(r) /\ UNCHANGED vault
        /\ lost' = lost \cup {call[r].target}
        /\ \E rotates \in Rotates : granted(r, rotates)
    BY <1>9 DEF Lose
  <2>2. call[r].row.refresh \in live /\ \A t : t \in live /\ t # call[r].row.refresh => t \in live'
    BY <2>1 DEF granted
  <2>3. call'[r].pc = "idle" /\ \A q \in Requests : q # r => call'[q] = call[q]
    BY <2>1, FinishMoves DEF Others
  <2>4. ASSUME NEW c \in Credentials, c # call[r].target, ~Persisting(c)'  PROVE ~Persisting(c)
    <3>1. holder'[c] = holder[c]  BY <2>1, <2>4, <1>t DEF Unlock, Locks!Unlock
    <3>2. CASE holder[c] = None  BY <3>2
    <3>3. CASE holder[c] # None
      <4>1. holder[c] \in Requests /\ holder[c] # r  BY <1>t, <2>1, <2>4, <3>3 DEF NoLockLeaks
      <4> QED BY <2>3, <2>4, <3>1, <3>3, <4>1
    <3> QED BY <3>2, <3>3
  <2> QED BY <1>t, <1>7, <2>1, <2>2, <2>3, <2>4
<1>10. ASSUME NEW r \in Requests, Persist(r)  PROVE Honoured'
  <2> DEFINE c == call[r].target
  <2>1. /\ c \in Credentials /\ holder[c] = r /\ UNCHANGED live
        /\ holder' = [holder EXCEPT ![c] = None] /\ call[r].pc = "persisting"
        /\ call'[r].pc \in {"idle", "fetching"}
        /\ \A q \in Requests : q # r => call'[q] = call[q]
    BY <1>10, PersistMoves, PersistingHolds DEF Unlock, Locks!Unlock, Others
  <2>2. ASSUME NEW d \in Credentials, d # c, ~Persisting(d)'  PROVE ~Persisting(d)
    <3>1. holder'[d] = holder[d]  BY <2>1, <2>2, <1>t
    <3>2. CASE holder[d] = None  BY <3>2
    <3>3. CASE holder[d] # None
      <4>1. holder[d] \in Requests /\ holder[d] # r  BY <1>t, <2>1, <2>2, <3>3 DEF NoLockLeaks
      <4> QED BY <2>1, <2>2, <3>1, <3>3, <4>1
    <3> QED BY <3>2, <3>3
  <2>3. CASE UNCHANGED vault /\ lost' = lost \cup {c}
    BY <1>t, <2>1, <2>2, <2>3
  <2>4. CASE vault' = [vault EXCEPT ![c] = call[r].row] /\ UNCHANGED lost
    BY <1>t, <2>1, <2>2, <2>4
  <2> QED BY <1>10, <2>3, <2>4, PersistMoves
<1>11. ASSUME NEW r \in Requests, NEW c \in Credentials, Take(r, c)  PROVE Honoured'
  <2>1. UNCHANGED <<vault, live, lost, holder>>  BY <1>11 DEF Take, history
  <2> QED BY <1>1, <1>11, <2>1, TakeMoves
<1>12. ASSUME NEW c \in Credentials, Login(c)  PROVE Honoured'
  <2>1. /\ UNCHANGED <<call, holder>> /\ lost' = lost \ {c} /\ live \subseteq live'
        /\ \A d \in Credentials : d # c => vault'[d] = vault[d]
        /\ vault'[c].refresh = None \/ vault'[c].refresh \in live'
    BY <1>12, <1>t, LoginMoves
  <2> QED BY <1>t, <2>1
<1>13. ASSUME NEW c \in Credentials, Delete(c)  PROVE Honoured'
  <2>1. UNCHANGED <<call, holder, live, lost>> /\ vault' = [vault EXCEPT ![c] = None]
    BY <1>13 DEF Delete, history
  <2> QED BY <1>t, <2>1
<1>14. ASSUME NEW t \in Tokens, Expire(t)  PROVE Honoured'
  BY <1>t, <1>14 DEF Expire, history
<1>15. CASE Restart
  <2>1. /\ UNCHANGED <<vault, live>> /\ \A r \in Requests : call'[r].pc = "idle"
        /\ lost' = lost \cup {call[r].target : r \in {q \in Requests : call[q].pc = "persisting"}}
    BY <1>15 DEF Restart, Idle
  <2>2. ASSUME NEW c \in Credentials, Persisting(c)  PROVE c \in lost'
    <3>1. holder[c] \in Requests /\ call[holder[c]].target = c
      BY <1>t, <2>2 DEF NoLockLeaks
    <3> QED BY <2>1, <2>2, <3>1
  <2> QED BY <1>t, <2>1, <2>2
<1> QED BY <1>2, <1>3, <1>4, <1>5, <1>6, <1>8, <1>9, <1>10, <1>11, <1>12, <1>13, <1>14, <1>15
        DEF Next

LEMMA NextIInv == IInv /\ [Next]_vars => IInv'
<1> SUFFICES ASSUME IInv, [Next]_vars PROVE IInv'  OBVIOUS
<1>1. CASE Next
  BY <1>1, TypeStep, BudgetStep, GrantedStep, LockStep, ApartStep, UnrenewedStep, HonouredStep
     DEF IInv
<1>2. CASE UNCHANGED vars
  BY <1>2 DEF vars, history, IInv, TypeOK, Budget, Busy, Owing, Granted, Minted, NoLockLeaks,
     Holding, Apart, OwnsAccess, OwnsRefresh, Unrenewed, Honoured, Persisting, Locked, Renewing,
     Rowed
<1> QED BY <1>1, <1>2

(* The invariant holds of every reachable state.                           *)
THEOREM Invariance == Spec => []IInv
  BY InitIInv, NextIInv, PTL DEF Spec

(* Whatever way a renewal ends - refused, failed, lost, cut off by a       *)
(* restart, crossed by a login or a deletion - it leaves the lock free and *)
(* a refresh token that the provider honours, for any number of accounts   *)
(* and requests (RefreshProvider, login.go:384-415).                       *)
THEOREM Usable == Spec => []RenewalsLeaveUsable
<1>1. IInv => RenewalsLeaveUsable
  BY DEF IInv, RenewalsLeaveUsable, Honoured, Persisting, VaultLive
<1> QED BY <1>1, Invariance, PTL

(* A request that found a token which somebody has renewed since makes no  *)
(* exchange of its own (Collapsed, login.go:390-403).                      *)
THEOREM OneExchange == Spec => SingleFlight
<1>1. IInv /\ [Next]_vars =>
        [\A r \in Requests :
           call[r].pc = "exchanging" /\ call'[r].pc = "persisting" =>
               call[r].before \notin renewed]_vars
  BY DEF IInv, Unrenewed
<1> QED BY <1>1, Invariance, PTL DEF Spec, SingleFlight
=============================================================================

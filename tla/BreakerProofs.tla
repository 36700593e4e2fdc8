---------------------------- MODULE BreakerProofs ----------------------------
(***************************************************************************)
(* Proofs about Breaker, for every set of callers, providers, models,      *)
(* credentials, candidates and outcomes and for every configuration.       *)
(***************************************************************************)
EXTENDS Breaker, TLAPS

-----------------------------------------------------------------------------
(* What the operators on one circuit return.                               *)

(* The lazy transition yields a circuit, keeps a consistent one            *)
(* consistent, never takes a probe slot and never lengthens a cooldown     *)
(* (transitionLocked, breaker.go:211-216).                                 *)
LEMMA TransitionLemma ==
    ASSUME NEW ks \in Circuits
    PROVE  /\ transitionLocked(ks) \in Circuits
           /\ CircuitOK(ks) => CircuitOK(transitionLocked(ks))
           /\ CircuitOK(ks) => (transitionLocked(ks).probe => ks.probe)
           /\ transitionLocked(ks).wait = ks.wait
           /\ ks.status = "Terminal" =>
                transitionLocked(ks).status = "Terminal"
<1>1. CASE ks.status = "Open" /\ ks.wait = 0
  <2>1. transitionLocked(ks) = [ks EXCEPT !.status = "HalfOpen", !.probe = FALSE]
    BY <1>1 DEF transitionLocked
  <2>2. /\ transitionLocked(ks) \in Circuits
        /\ transitionLocked(ks).status = "HalfOpen"
        /\ transitionLocked(ks).failures = ks.failures
        /\ transitionLocked(ks).wait = ks.wait
        /\ transitionLocked(ks).probe = FALSE
    BY <2>1 DEF Circuits, Statuses
  <2> QED BY <1>1, <2>2 DEF CircuitOK
<1>2. CASE ~(ks.status = "Open" /\ ks.wait = 0)
  BY <1>2 DEF transitionLocked
<1> QED BY <1>1, <1>2

(* A reservation on a circuit that admits keeps it consistent and takes    *)
(* the slot only of a half-open circuit (reserveLocked, 240-253).          *)
LEMMA ReserveLemma ==
    ASSUME NEW ks \in Circuits
    PROVE  /\ reserveLocked(ks) \in Circuits
           /\ CircuitOK(ks) => CircuitOK(reserveLocked(ks))
           /\ CircuitOK(ks) /\ reserveLocked(ks).probe => ks.status = "HalfOpen"
           /\ reserveLocked(ks).wait = ks.wait
           /\ reserveLocked(ks).status = ks.status
  BY DEF reserveLocked, Circuits, CircuitOK, Statuses

(* A release empties the slot of a consistent circuit (releaseProbe,       *)
(* 257-261).                                                               *)
LEMMA ReleaseLemma ==
    ASSUME NEW ks \in Circuits
    PROVE  /\ releaseProbe(ks) \in Circuits
           /\ CircuitOK(ks) => CircuitOK(releaseProbe(ks))
           /\ CircuitOK(ks) => ~releaseProbe(ks).probe
           /\ releaseProbe(ks).wait = ks.wait
           /\ releaseProbe(ks).status = ks.status
  BY DEF releaseProbe, Circuits, CircuitOK, Statuses

(* The counter stays in range and counts (RecordKey, 334).                 *)
LEMMA FailedLemma ==
    ASSUME NEW ks \in Circuits
    PROVE  /\ failed(ks) \in Circuits
           /\ failed(ks).failures > 0
           /\ failed(ks).status = ks.status
           /\ failed(ks).wait = ks.wait
           /\ failed(ks).probe = ks.probe
  BY ConfigAssumption DEF failed, Circuits

(* A terminal circuit is consistent and holds no slot (RecordKey, 318-324  *)
(* and 339-344).                                                           *)
LEMMA PromotedLemma ==
    ASSUME NEW ks \in Circuits
    PROVE  /\ promoted(ks) \in Circuits
           /\ CircuitOK(promoted(ks))
           /\ ~promoted(ks).probe
           /\ promoted(ks).wait = 0
<1>1. /\ promoted(ks) \in Circuits
      /\ promoted(ks).status = "Terminal"
      /\ ~promoted(ks).probe
      /\ promoted(ks).wait = 0
  BY DEF promoted, Circuits, Statuses
<1> QED BY <1>1 DEF CircuitOK

(* Every cooldown is a number of ticks (RecordKey 350-355, exponential).   *)
LEMMA CooldownLemma ==
    ASSUME NEW o \in Outcomes, NEW n \in 0 .. FailureBound,
           NEW w \in cooldowns(o, n)
    PROVE  w \in Nat
<1>1. CASE o.retryAfter > 0
  BY <1>1 DEF cooldowns, Outcomes
<1>2. CASE ~(o.retryAfter > 0)
  <2>1. w \in exponential(n)
    BY <1>2 DEF cooldowns
  <2>2. w \in 1 .. MaxCooldown
    BY <2>1 DEF exponential
  <2> QED BY <2>2, ConfigAssumption
<1> QED BY <1>1, <1>2

(* What one outcome may make of a circuit that was transitioned: a         *)
(* consistent circuit again, whose slot it never takes, whose pending      *)
(* deadline it never moves out and, if terminal, the same circuit          *)
(* (RecordKey, 292-367).                                                   *)
LEMMA SettledLemma ==
    ASSUME NEW ks \in Circuits, NEW o \in Outcomes, NEW n \in settled(ks, o)
    PROVE  /\ n \in Circuits
           /\ CircuitOK(ks) => CircuitOK(n)
           /\ n.probe => ks.probe
           /\ ks.wait > 0 /\ CircuitOK(ks) => n.wait <= ks.wait
           /\ ks.status = "Terminal" => n = ks
<1>1. CASE ks.status = "Terminal" \/ ignored(o)
  <2>1. n = ks
    BY <1>1 DEF settled
  <2> QED BY <2>1 DEF Circuits
<1>2. CASE ~(ks.status = "Terminal" \/ ignored(o)) /\ o.success
  <2>1. n = Fresh
    BY <1>2 DEF settled
  <2> QED BY <1>2, <2>1, ConfigAssumption
          DEF Fresh, Circuits, Statuses, CircuitOK
<1>3. CASE ~(ks.status = "Terminal" \/ ignored(o)) /\ ~o.success /\ o.terminal
  <2>1. n = promoted(ks)
    BY <1>3 DEF settled
  <2> QED BY <1>3, <2>1, PromotedLemma DEF Circuits
<1>4. CASE /\ ~(ks.status = "Terminal" \/ ignored(o))
           /\ ~o.success /\ ~o.terminal /\ ~o.retryable
  <2>1. n = strike(ks)
    BY <1>4 DEF settled
  <2>2. n = promoted(failed(ks)) \/ n = failed(ks)
    BY <2>1 DEF strike
  <2>3. CASE n = promoted(failed(ks))
    BY <1>4, <2>3, FailedLemma, PromotedLemma DEF Circuits
  <2>4. CASE n = failed(ks)
    BY <1>4, <2>4, FailedLemma DEF Circuits, CircuitOK
  <2> QED BY <2>2, <2>3, <2>4
<1>5. CASE /\ ~(ks.status = "Terminal" \/ ignored(o))
           /\ ~o.success /\ ~o.terminal /\ o.retryable
  <2>1. n \in reopened(ks, o)
    BY <1>5 DEF settled
  <2>2. PICK w \in IF ks.status = "Open" THEN {ks.wait}
                   ELSE cooldowns(o, failed(ks).failures) :
           n = [failed(ks) EXCEPT !.status = "Open", !.wait = w,
                                  !.probe = FALSE]
    BY <2>1 DEF reopened
  <2>3. w \in Nat /\ (ks.status = "Open" => w = ks.wait)
    <3>1. failed(ks).failures \in 0 .. FailureBound
      BY FailedLemma DEF Circuits
    <3> QED BY <2>2, <3>1, CooldownLemma DEF Circuits
  <2>4. failed(ks) \in Circuits /\ failed(ks).failures > 0
    BY FailedLemma
  <2>5. n \in Circuits /\ n.status = "Open" /\ n.wait = w /\ ~n.probe
        /\ n.failures > 0
    BY <2>2, <2>3, <2>4 DEF Circuits, Statuses
  <2> QED BY <1>5, <2>3, <2>5 DEF CircuitOK, Circuits
<1> QED BY <1>1, <1>2, <1>3, <1>4, <1>5

-----------------------------------------------------------------------------
(***************************************************************************)
(* The inductive invariant.  Consistent and AllowStrandsNothing need each  *)
(* other's help: a slot is emptied by a release or an outcome only because *)
(* it is taken in HalfOpen alone, and a denied caller leaves no slot only  *)
(* because everything it took is still on its list to release.             *)
(***************************************************************************)
Working == \A a \in Callers : pc[a] \in {"allowing", "attempting"} =>
                                 cand[a] \in Asked

Inv == TypeOK /\ Working /\ Consistent /\ AllowStrandsNothing /\ SlotsReleasable

(* The key lists of a candidate are sequences of keys.                     *)
LEMMA KeysLemma ==
    ASSUME NEW c \in Asked, NEW o \in Outcomes
    PROVE  allKeysFor(c) \in Seq(Keys) /\ keysFor(c, o) \in Seq(Keys)
<1>1. /\ c.provider \in Providers
      /\ c.model = None \/ c.model \in Models
      /\ c.credential = None \/ c.credential \in Credentials
  BY AskedAssumption DEF Candidates
<1>2. providerKey(c) \in Keys
  BY <1>1 DEF providerKey, Keys
<1>3. modelKeys(c) \in Seq(Keys)
  <2>1. CASE c.model = None
    BY <2>1 DEF modelKeys
  <2>2. CASE c.model # None
    <3>1. <<"Model", c.provider, c.model>> \in Keys
      BY <1>1, <2>2 DEF Keys
    <3> QED BY <2>2, <3>1 DEF modelKeys
  <2> QED BY <2>1, <2>2
<1>4. credentialKeys(c) \in Seq(Keys)
  <2>1. CASE c.credential = None
    BY <2>1 DEF credentialKeys
  <2>2. CASE c.credential # None
    <3>1. <<"Credential", c.provider, c.credential>> \in Keys
      BY <1>1, <2>2 DEF Keys
    <3> QED BY <2>2, <3>1 DEF credentialKeys
  <2> QED BY <2>1, <2>2
<1>5. <<providerKey(c)>> \in Seq(Keys)
  BY <1>2
<1>6. <<providerKey(c)>> \o modelKeys(c) \in Seq(Keys)
  BY <1>3, <1>5
<1>7. allKeysFor(c) \in Seq(Keys)
  BY <1>4, <1>6 DEF allKeysFor
<1> QED BY <1>4, <1>6, <1>7 DEF keysFor

LEMMA InitInv == Init => Inv
<1> SUFFICES ASSUME Init PROVE Inv
  OBVIOUS
<1>1. Fresh \in Circuits /\ CircuitOK(Fresh) /\ ~Fresh.probe
  BY ConfigAssumption DEF Fresh, Circuits, Statuses, CircuitOK
<1>2. Success \in Outcomes
  BY DEF Success, Outcomes, Scopes
<1>3. 0 \in 0 .. CredentialThreshold
  BY ConfigAssumption
<1>4. TypeOK
  BY <1>1, <1>2, <1>3 DEF Init, TypeOK
<1>5. Working /\ SlotsReleasable
  BY DEF Init, Working, SlotsReleasable
<1>6. Consistent /\ AllowStrandsNothing
  BY <1>1 DEF Init, Consistent, AllowStrandsNothing
<1> QED BY <1>4, <1>5, <1>6 DEF Inv

(* One circuit at a time: a step that replaces the circuit of k by a       *)
(* consistent one keeps every circuit typed and consistent.                *)
LEMMA UpdateLemma ==
    ASSUME circuits \in [Keys -> Circuits], Consistent,
           NEW k \in Keys, NEW n \in Circuits, CircuitOK(n),
           circuits' = [circuits EXCEPT ![k] = n]
    PROVE  /\ circuits' \in [Keys -> Circuits]
           /\ Consistent'
           /\ circuits'[k] = n
           /\ \A j \in Keys \ {k} : circuits'[j] = circuits[j]
<1>1. /\ circuits' \in [Keys -> Circuits]
      /\ circuits'[k] = n
      /\ \A j \in Keys \ {k} : circuits'[j] = circuits[j]
  OBVIOUS
<1>2. ASSUME NEW j \in Keys PROVE CircuitOK(circuits'[j])
  <2>1. CASE j = k
    BY <1>1, <2>1
  <2>2. CASE j # k
    <3>1. circuits'[j] = circuits[j]
      BY <1>1, <2>2
    <3> QED BY <3>1 DEF Consistent
  <2> QED BY <2>1, <2>2
<1>3. Consistent'
  BY <1>2 DEF Consistent
<1> QED BY <1>1, <1>3

LEMMA AllowInv == ASSUME Inv, NEW a \in Callers, NEW c \in Asked, Allow(a, c)
                  PROVE  Inv'
<1> USE DEF Allow
<1>1. allKeysFor(c) \in Seq(Keys)
  <2>1. Success \in Outcomes
    BY DEF Success, Outcomes, Scopes
  <2> QED BY <2>1, KeysLemma
<1>2. TypeOK'
  BY <1>1 DEF Inv, TypeOK
<1>3. Working'
  BY DEF Inv, TypeOK, Working
<1>4. Consistent'
  BY DEF Inv, Consistent
<1>5. AllowStrandsNothing'
  BY DEF Inv, TypeOK, AllowStrandsNothing
<1>6. SlotsReleasable'
  BY DEF Inv, TypeOK, SlotsReleasable
<1> QED BY <1>2, <1>3, <1>4, <1>5, <1>6 DEF Inv

LEMMA ReserveInv == ASSUME Inv, NEW a \in Callers, Reserve(a)
                    PROVE  Inv'
<1> DEFINE k  == Head(todo[a])
           ks == transitionLocked(circuits[k])
           n  == reserveLocked(ks)
<1>1. k \in Keys /\ Tail(todo[a]) \in Seq(Keys) /\ circuits[k] \in Circuits
  BY DEF Inv, TypeOK, Reserve
<1>2. ks \in Circuits /\ CircuitOK(ks) /\ (ks.probe => circuits[k].probe)
  BY <1>1, TransitionLemma DEF Inv, Consistent
<1>3. n \in Circuits /\ CircuitOK(n) /\ (n.probe => ks.status = "HalfOpen")
  BY <1>2, ReserveLemma
<1>4. /\ pc[a] = "allowing" /\ pc' = pc /\ cand' = cand
      /\ circuits' = [circuits EXCEPT ![k] = n]
      /\ reserved' = [reserved EXCEPT ![a] = Append(@, k)]
      /\ probing' = [probing EXCEPT
            ![a] = IF ks.status = "HalfOpen" THEN @ \cup {k} ELSE @]
      /\ stranded' = IF circuits'[k].probe THEN stranded ELSE stranded \ {k}
      /\ todo' = [todo EXCEPT ![a] = Tail(@)]
      /\ outcome' = outcome
  BY DEF Reserve
<1> HIDE DEF ks, n
<1>5. /\ circuits' \in [Keys -> Circuits] /\ Consistent' /\ circuits'[k] = n
      /\ \A j \in Keys \ {k} : circuits'[j] = circuits[j]
  BY <1>1, <1>3, <1>4, UpdateLemma DEF Inv, TypeOK
<1>6. TypeOK'
  BY <1>1, <1>4, <1>5 DEF Inv, TypeOK
<1>7. Working'
  BY <1>4 DEF Inv, Working
<1>8. AllowStrandsNothing'
  <2> SUFFICES ASSUME NEW j \in Keys, circuits'[j].probe
               PROVE  \/ j \in stranded'
                      \/ \E b \in Callers : j \in probing'[b] /\ pc'[b] # "idle"
    BY DEF AllowStrandsNothing
  <2>1. CASE j = k
    <3>1. j \in probing'[a]
      BY <1>3, <1>4, <1>5, <2>1 DEF Inv, TypeOK
    <3> QED BY <1>4, <3>1
  <2>2. CASE j # k
    <3>1. circuits[j].probe
      BY <1>5, <2>2
    <3>2. j \in stranded => j \in stranded'
      BY <1>4, <2>2
    <3>3. \A b \in Callers : j \in probing[b] => j \in probing'[b]
      BY <1>4 DEF Inv, TypeOK
    <3> QED BY <1>4, <3>1, <3>2, <3>3 DEF Inv, AllowStrandsNothing
  <2> QED BY <2>1, <2>2
<1>9. SlotsReleasable'
  <2> SUFFICES ASSUME NEW b \in Callers
               PROVE  /\ pc[b] = "idle" => probing'[b] = {}
                      /\ pc[b] = "allowing" =>
                           \A j \in probing'[b] :
                             \E i \in DOMAIN reserved'[b] : reserved'[b][i] = j
                      /\ pc[b] = "releasing" =>
                           \A j \in probing'[b] :
                             \E i \in DOMAIN todo'[b] : todo'[b][i] = j
    BY <1>4 DEF SlotsReleasable
  <2>1. CASE b = a
    <3> SUFFICES ASSUME NEW j \in probing'[a]
                 PROVE  \E i \in DOMAIN reserved'[a] : reserved'[a][i] = j
      BY <1>4, <2>1
    <3>1. reserved[a] \in Seq(Keys) /\ reserved'[a] = Append(reserved[a], k)
      BY <1>4 DEF Inv, TypeOK
    <3>2. j = k \/ j \in probing[a]
      BY <1>4 DEF Inv, TypeOK
    <3>3. CASE j = k
      <4>1. /\ Len(reserved[a]) + 1 \in DOMAIN reserved'[a]
            /\ reserved'[a][Len(reserved[a]) + 1] = j
        BY <1>1, <3>1, <3>3
      <4> QED BY <4>1
    <3>4. CASE j \in probing[a]
      <4>1. PICK i \in DOMAIN reserved[a] : reserved[a][i] = j
        BY <1>4, <3>4 DEF Inv, SlotsReleasable
      <4>2. i \in DOMAIN reserved'[a] /\ reserved'[a][i] = j
        BY <1>1, <3>1, <4>1
      <4> QED BY <4>2
    <3> QED BY <3>2, <3>3, <3>4
  <2>2. CASE b # a
    <3>1. /\ probing'[b] = probing[b] /\ reserved'[b] = reserved[b]
          /\ todo'[b] = todo[b]
      BY <1>4, <2>2 DEF Inv, TypeOK
    <3> QED BY <3>1 DEF Inv, SlotsReleasable
  <2> QED BY <2>1, <2>2
<1> QED BY <1>5, <1>6, <1>7, <1>8, <1>9 DEF Inv

LEMMA DenyInv == ASSUME Inv, NEW a \in Callers, Deny(a)
                 PROVE  Inv'
<1> DEFINE k  == Head(todo[a])
           ks == transitionLocked(circuits[k])
<1>1. k \in Keys /\ circuits[k] \in Circuits
  BY DEF Inv, TypeOK, Deny
<1>2. ks \in Circuits /\ CircuitOK(ks) /\ (ks.probe => circuits[k].probe)
  BY <1>1, TransitionLemma DEF Inv, Consistent
<1>3. /\ pc[a] = "allowing" /\ pc' = [pc EXCEPT ![a] = "releasing"]
      /\ circuits' = [circuits EXCEPT ![k] = ks]
      /\ todo' = [todo EXCEPT ![a] = reserved[a]]
      /\ UNCHANGED <<cand, reserved, outcome, probing, stranded>>
  BY DEF Deny
<1> HIDE DEF ks
<1>4. /\ circuits' \in [Keys -> Circuits] /\ Consistent' /\ circuits'[k] = ks
      /\ \A j \in Keys \ {k} : circuits'[j] = circuits[j]
  BY <1>1, <1>2, <1>3, UpdateLemma DEF Inv, TypeOK
<1>5. TypeOK'
  BY <1>3, <1>4 DEF Inv, TypeOK
<1>6. Working'
  BY <1>3 DEF Inv, TypeOK, Working
<1>7. AllowStrandsNothing'
  <2> SUFFICES ASSUME NEW j \in Keys, circuits'[j].probe
               PROVE  \/ j \in stranded
                      \/ \E b \in Callers : j \in probing[b] /\ pc'[b] # "idle"
    BY <1>3 DEF AllowStrandsNothing
  <2>1. circuits[j].probe
    BY <1>2, <1>4
  <2>2. \A b \in Callers : pc[b] # "idle" => pc'[b] # "idle"
    BY <1>3 DEF Inv, TypeOK
  <2> QED BY <2>1, <2>2 DEF Inv, AllowStrandsNothing
<1>8. SlotsReleasable'
  <2> SUFFICES ASSUME NEW b \in Callers
               PROVE  /\ pc'[b] = "idle" => probing[b] = {}
                      /\ pc'[b] = "allowing" =>
                           \A j \in probing[b] :
                             \E i \in DOMAIN reserved[b] : reserved[b][i] = j
                      /\ pc'[b] = "releasing" =>
                           \A j \in probing[b] :
                             \E i \in DOMAIN todo'[b] : todo'[b][i] = j
    BY <1>3 DEF SlotsReleasable
  <2>1. CASE b = a
    BY <1>3, <2>1 DEF Inv, TypeOK, SlotsReleasable
  <2>2. CASE b # a
    BY <1>3, <2>2 DEF Inv, TypeOK, SlotsReleasable
  <2> QED BY <2>1, <2>2
<1> QED BY <1>4, <1>5, <1>6, <1>7, <1>8 DEF Inv

LEMMA ReleaseInv == ASSUME Inv, NEW a \in Callers, Release(a)
                    PROVE  Inv'
<1> DEFINE k == Head(todo[a])
           n == releaseProbe(circuits[k])
<1>1. /\ k \in Keys /\ Tail(todo[a]) \in Seq(Keys) /\ circuits[k] \in Circuits
      /\ todo[a] # <<>> /\ todo[a] \in Seq(Keys)
  BY DEF Inv, TypeOK, Release
<1>2. n \in Circuits /\ CircuitOK(n) /\ ~n.probe
  BY <1>1, ReleaseLemma DEF Inv, Consistent
<1>3. /\ pc[a] = "releasing"
      /\ circuits' = [circuits EXCEPT ![k] = n]
      /\ probing' = [probing EXCEPT ![a] = @ \ {k}]
      /\ stranded' = IF circuits'[k].probe THEN stranded ELSE stranded \ {k}
      /\ todo' = [todo EXCEPT ![a] = Tail(@)]
      /\ UNCHANGED <<pc, cand, reserved, outcome>>
  BY DEF Release
<1> HIDE DEF n
<1>4. /\ circuits' \in [Keys -> Circuits] /\ Consistent' /\ circuits'[k] = n
      /\ \A j \in Keys \ {k} : circuits'[j] = circuits[j]
  BY <1>1, <1>2, <1>3, UpdateLemma DEF Inv, TypeOK
<1>5. TypeOK'
  BY <1>1, <1>3, <1>4 DEF Inv, TypeOK
<1>6. Working'
  BY <1>3 DEF Inv, Working
<1>7. AllowStrandsNothing'
  <2> SUFFICES ASSUME NEW j \in Keys, circuits'[j].probe
               PROVE  \/ j \in stranded'
                      \/ \E b \in Callers : j \in probing'[b] /\ pc[b] # "idle"
    BY <1>3 DEF AllowStrandsNothing
  <2>1. j # k /\ circuits[j].probe
    BY <1>2, <1>4
  <2>2. j \in stranded => j \in stranded'
    BY <1>3, <2>1
  <2>3. \A b \in Callers : j \in probing[b] => j \in probing'[b]
    BY <1>3, <2>1 DEF Inv, TypeOK
  <2> QED BY <2>1, <2>2, <2>3 DEF Inv, AllowStrandsNothing
<1>8. SlotsReleasable'
  <2> SUFFICES ASSUME NEW b \in Callers
               PROVE  /\ pc[b] = "idle" => probing'[b] = {}
                      /\ pc[b] = "allowing" =>
                           \A j \in probing'[b] :
                             \E i \in DOMAIN reserved[b] : reserved[b][i] = j
                      /\ pc[b] = "releasing" =>
                           \A j \in probing'[b] :
                             \E i \in DOMAIN todo'[b] : todo'[b][i] = j
    BY <1>3 DEF SlotsReleasable
  <2>1. CASE b = a
    <3> SUFFICES ASSUME NEW j \in probing'[a]
                 PROVE  \E i \in DOMAIN todo'[a] : todo'[a][i] = j
      BY <1>3, <2>1
    <3>1. j \in probing[a] /\ j # k /\ todo'[a] = Tail(todo[a])
      BY <1>3 DEF Inv, TypeOK
    <3>2. PICK i \in DOMAIN todo[a] : todo[a][i] = j
      BY <1>3, <3>1 DEF Inv, SlotsReleasable
    <3>3. i \in 2 .. Len(todo[a])
      BY <1>1, <3>1, <3>2
    <3>4. i - 1 \in DOMAIN todo'[a] /\ todo'[a][i - 1] = j
      BY <1>1, <3>1, <3>2, <3>3
    <3> QED BY <3>4
  <2>2. CASE b # a
    <3>1. probing'[b] = probing[b] /\ todo'[b] = todo[b]
      BY <1>3, <2>2 DEF Inv, TypeOK
    <3> QED BY <3>1 DEF Inv, SlotsReleasable
  <2> QED BY <2>1, <2>2
<1> QED BY <1>4, <1>5, <1>6, <1>7, <1>8 DEF Inv

LEMMA DeniedInv == ASSUME Inv, NEW a \in Callers, Denied(a)
                   PROVE  Inv'
<1>1. /\ pc[a] = "releasing" /\ todo[a] = <<>>
      /\ pc' = [pc EXCEPT ![a] = "idle"]
      /\ cand' = [cand EXCEPT ![a] = None]
      /\ reserved' = [reserved EXCEPT ![a] = <<>>]
      /\ UNCHANGED <<circuits, todo, outcome, probing, stranded>>
  BY DEF Denied, Return
<1>2. probing[a] = {}
  BY <1>1 DEF Inv, SlotsReleasable
<1>3. TypeOK'
  BY <1>1 DEF Inv, TypeOK
<1>4. Working'
  BY <1>1 DEF Inv, TypeOK, Working
<1>5. Consistent'
  BY <1>1 DEF Inv, Consistent
<1>6. AllowStrandsNothing'
  <2>1. \A b \in Callers : probing[b] # {} /\ pc[b] # "idle" => pc'[b] # "idle"
    BY <1>1, <1>2 DEF Inv, TypeOK
  <2> QED BY <1>1, <2>1 DEF Inv, AllowStrandsNothing
<1>7. SlotsReleasable'
  BY <1>1, <1>2 DEF Inv, TypeOK, SlotsReleasable
<1> QED BY <1>3, <1>4, <1>5, <1>6, <1>7 DEF Inv

LEMMA AllowedInv == ASSUME Inv, NEW a \in Callers, Allowed(a)
                    PROVE  Inv'
<1> USE DEF Allowed
<1>1. TypeOK'
  BY DEF Inv, TypeOK
<1>2. Working'
  BY DEF Inv, TypeOK, Working
<1>3. Consistent'
  BY DEF Inv, Consistent
<1>4. AllowStrandsNothing'
  BY DEF Inv, TypeOK, AllowStrandsNothing
<1>5. SlotsReleasable'
  BY DEF Inv, TypeOK, SlotsReleasable
<1> QED BY <1>1, <1>2, <1>3, <1>4, <1>5 DEF Inv

LEMMA RecordInv == ASSUME Inv, NEW a \in Callers, NEW o \in Results, Record(a, o)
                   PROVE  Inv'
<1> USE DEF Record
<1>1. o \in Outcomes /\ keysFor(cand[a], o) \in Seq(Keys)
  BY KeysLemma, ResultsAssumption DEF Inv, Working
<1>2. TypeOK'
  BY <1>1 DEF Inv, TypeOK
<1>3. Working'
  BY DEF Inv, TypeOK, Working
<1>4. Consistent'
  BY DEF Inv, Consistent
<1>5. AllowStrandsNothing'
  BY DEF Inv, TypeOK, AllowStrandsNothing
<1>6. SlotsReleasable'
  BY DEF Inv, TypeOK, SlotsReleasable
<1> QED BY <1>2, <1>3, <1>4, <1>5, <1>6 DEF Inv

(* What one outcome may make of a circuit, lazy transition included.       *)
LEMMA RecordKeyLemma ==
    ASSUME NEW c \in Circuits, CircuitOK(c), NEW o \in Outcomes,
           NEW n \in RecordKey(c, o)
    PROVE  /\ n \in Circuits /\ CircuitOK(n)
           /\ n.probe => c.probe
           /\ c.wait > 0 => n.wait <= c.wait
           /\ c.status = "Terminal" => n.status = "Terminal"
<1> DEFINE ks == transitionLocked(c)
<1>1. /\ ks \in Circuits /\ CircuitOK(ks) /\ (ks.probe => c.probe)
      /\ ks.wait = c.wait
      /\ c.status = "Terminal" => ks.status = "Terminal"
  BY TransitionLemma
<1>2. n \in settled(ks, o)
  BY DEF RecordKey
<1> HIDE DEF ks
<1> QED BY <1>1, <1>2, SettledLemma

LEMMA SettleInv == ASSUME Inv, NEW a \in Callers, Settle(a)
                   PROVE  Inv'
<1> DEFINE k == Head(todo[a])
<1>1. k \in Keys /\ Tail(todo[a]) \in Seq(Keys) /\ circuits[k] \in Circuits
      /\ CircuitOK(circuits[k]) /\ outcome[a] \in Outcomes
  BY DEF Inv, TypeOK, Consistent, Settle
<1>2. PICK n \in RecordKey(circuits[k], outcome[a]) :
        /\ circuits' = [circuits EXCEPT ![k] = n]
        /\ stranded' = IF ~n.probe THEN stranded \ {k}
                       ELSE IF k \in probing[a] THEN stranded \cup {k}
                       ELSE stranded
  BY DEF Settle
<1>3. /\ pc[a] = "recording"
      /\ probing' = [probing EXCEPT ![a] = @ \ {k}]
      /\ todo' = [todo EXCEPT ![a] = Tail(@)]
      /\ UNCHANGED <<pc, cand, reserved, outcome>>
  BY DEF Settle
<1>4. n \in Circuits /\ CircuitOK(n) /\ (n.probe => circuits[k].probe)
  BY <1>1, <1>2, RecordKeyLemma
<1>5. /\ circuits' \in [Keys -> Circuits] /\ Consistent' /\ circuits'[k] = n
      /\ \A j \in Keys \ {k} : circuits'[j] = circuits[j]
  BY <1>1, <1>2, <1>4, UpdateLemma DEF Inv, TypeOK
<1>7. TypeOK'
  BY <1>1, <1>2, <1>3, <1>5 DEF Inv, TypeOK
<1>8. Working'
  BY <1>3 DEF Inv, Working
<1>9. AllowStrandsNothing'
  <2> SUFFICES ASSUME NEW j \in Keys, circuits'[j].probe
               PROVE  \/ j \in stranded'
                      \/ \E b \in Callers : j \in probing'[b] /\ pc[b] # "idle"
    BY <1>3 DEF AllowStrandsNothing
  <2>1. circuits[j].probe
    BY <1>4, <1>5
  <2>2. j \in stranded => j \in stranded'
    BY <1>2, <1>5
  <2>3. CASE j \in stranded
    BY <2>2, <2>3
  <2>4. CASE j \notin stranded
    <3>1. PICK b \in Callers : j \in probing[b] /\ pc[b] # "idle"
      BY <2>1, <2>4 DEF Inv, AllowStrandsNothing
    <3>2. CASE b = a /\ j = k
      BY <1>2, <1>5, <3>1, <3>2
    <3>3. CASE ~(b = a /\ j = k)
      <4>1. j \in probing'[b]
        BY <1>3, <3>1, <3>3 DEF Inv, TypeOK
      <4> QED BY <3>1, <4>1
    <3> QED BY <3>2, <3>3
  <2> QED BY <2>3, <2>4
<1>10. SlotsReleasable'
  <2>1. ASSUME NEW b \in Callers, b # a
        PROVE  probing'[b] = probing[b] /\ todo'[b] = todo[b]
    BY <1>3, <2>1 DEF Inv, TypeOK
  <2> QED BY <1>3, <2>1 DEF Inv, SlotsReleasable
<1> QED BY <1>5, <1>7, <1>8, <1>9, <1>10 DEF Inv

LEMMA RecordedInv == ASSUME Inv, NEW a \in Callers, Recorded(a)
                     PROVE  Inv'
<1>1. /\ pc[a] = "recording"
      /\ pc' = [pc EXCEPT ![a] = "idle"]
      /\ cand' = [cand EXCEPT ![a] = None]
      /\ reserved' = [reserved EXCEPT ![a] = <<>>]
      /\ outcome' = [outcome EXCEPT ![a] = Success]
      /\ probing' = [probing EXCEPT ![a] = {}]
      /\ stranded' = stranded \cup {k \in probing[a] : circuits[k].probe}
      /\ UNCHANGED <<circuits, todo>>
  BY DEF Recorded, Return
<1>2. Success \in Outcomes
  BY DEF Success, Outcomes, Scopes
<1>3. TypeOK'
  BY <1>1, <1>2 DEF Inv, TypeOK
<1>4. Working'
  BY <1>1 DEF Inv, TypeOK, Working
<1>5. Consistent'
  BY <1>1 DEF Inv, Consistent
<1>6. AllowStrandsNothing'
  <2> SUFFICES ASSUME NEW j \in Keys, circuits[j].probe, j \notin stranded'
               PROVE  \E b \in Callers : j \in probing'[b] /\ pc'[b] # "idle"
    BY <1>1 DEF AllowStrandsNothing
  <2>1. j \notin stranded /\ j \notin probing[a]
    BY <1>1
  <2>2. PICK b \in Callers : j \in probing[b] /\ pc[b] # "idle"
    BY <2>1 DEF Inv, AllowStrandsNothing
  <2>3. b # a
    BY <2>1, <2>2
  <2>4. j \in probing'[b] /\ pc'[b] # "idle"
    BY <1>1, <2>2, <2>3 DEF Inv, TypeOK
  <2> QED BY <2>4
<1>7. SlotsReleasable'
  BY <1>1 DEF Inv, TypeOK, SlotsReleasable
<1> QED BY <1>3, <1>4, <1>5, <1>6, <1>7 DEF Inv

LEMMA ReadInv == ASSUME Inv, NEW k \in Keys, Read(k)
                 PROVE  Inv'
<1> DEFINE n == transitionLocked(circuits[k])
<1>1. circuits[k] \in Circuits /\ CircuitOK(circuits[k])
  BY DEF Inv, TypeOK, Consistent
<1>2. n \in Circuits /\ CircuitOK(n) /\ (n.probe => circuits[k].probe)
  BY <1>1, TransitionLemma
<1>3. /\ circuits' = [circuits EXCEPT ![k] = n]
      /\ UNCHANGED <<pc, cand, todo, reserved, outcome,
                     probing, stranded>>
  BY DEF Read
<1> HIDE DEF n
<1>4. /\ circuits' \in [Keys -> Circuits] /\ Consistent' /\ circuits'[k] = n
      /\ \A j \in Keys \ {k} : circuits'[j] = circuits[j]
  BY <1>2, <1>3, UpdateLemma DEF Inv, TypeOK
<1>5. TypeOK' /\ Working'
  BY <1>3, <1>4 DEF Inv, TypeOK, Working
<1>6. AllowStrandsNothing'
  <2>1. \A j \in Keys : circuits'[j].probe => circuits[j].probe
    BY <1>2, <1>4
  <2> QED BY <1>3, <2>1 DEF Inv, AllowStrandsNothing
<1>7. SlotsReleasable'
  BY <1>3 DEF Inv, SlotsReleasable
<1> QED BY <1>4, <1>5, <1>6, <1>7 DEF Inv

LEMMA ClearInv == ASSUME Inv, NEW k \in Keys, Clear(k)
                  PROVE  Inv'
<1>1. Fresh \in Circuits /\ CircuitOK(Fresh) /\ ~Fresh.probe
  BY ConfigAssumption DEF Fresh, Circuits, Statuses, CircuitOK
<1>2. /\ circuits' = [circuits EXCEPT ![k] = Fresh]
      /\ stranded' = stranded \ {k}
      /\ UNCHANGED <<pc, cand, todo, reserved, outcome, probing>>
  BY DEF Clear
<1>3. /\ circuits' \in [Keys -> Circuits] /\ Consistent' /\ circuits'[k] = Fresh
      /\ \A j \in Keys \ {k} : circuits'[j] = circuits[j]
  BY <1>1, <1>2, UpdateLemma DEF Inv, TypeOK
<1>4. TypeOK' /\ Working'
  BY <1>2, <1>3, ConfigAssumption DEF Inv, TypeOK, Working
<1>5. AllowStrandsNothing'
  <2>1. \A j \in Keys : circuits'[j].probe => circuits[j].probe /\ j # k
    BY <1>1, <1>3
  <2> QED BY <1>2, <2>1 DEF Inv, AllowStrandsNothing
<1>6. SlotsReleasable'
  BY <1>2 DEF Inv, SlotsReleasable
<1> QED BY <1>3, <1>4, <1>5, <1>6 DEF Inv

(* The clock changes deadlines only.                                       *)
LEMMA ElapsedLemma ==
    ASSUME NEW ks \in Circuits
    PROVE  /\ elapsed(ks) \in Circuits
           /\ CircuitOK(ks) => CircuitOK(elapsed(ks))
           /\ elapsed(ks).probe = ks.probe
           /\ elapsed(ks).status = ks.status
           /\ elapsed(ks).wait <= ks.wait
<1>1. /\ elapsed(ks) \in Circuits
      /\ elapsed(ks).probe = ks.probe
      /\ elapsed(ks).status = ks.status
      /\ elapsed(ks).failures = ks.failures
      /\ elapsed(ks).wait <= ks.wait
  BY DEF elapsed, Circuits
<1> QED BY <1>1 DEF CircuitOK, Circuits

LEMMA TickInv == ASSUME Inv, Tick
                 PROVE  Inv'
<1>1. /\ circuits' = [k \in Keys |-> elapsed(circuits[k])]
      /\ UNCHANGED <<pc, cand, todo, reserved, outcome,
                     probing, stranded>>
  BY DEF Tick
<1>2. \A k \in Keys : /\ circuits'[k] \in Circuits /\ CircuitOK(circuits'[k])
                      /\ circuits'[k].probe = circuits[k].probe
  BY <1>1, ElapsedLemma DEF Inv, TypeOK, Consistent
<1>3. circuits' \in [Keys -> Circuits]
  BY <1>1, <1>2
<1>4. TypeOK' /\ Working'
  BY <1>1, <1>3 DEF Inv, TypeOK, Working
<1>5. Consistent'
  BY <1>2 DEF Consistent
<1>6. AllowStrandsNothing'
  BY <1>1, <1>2 DEF Inv, AllowStrandsNothing
<1>7. SlotsReleasable'
  BY <1>1 DEF Inv, SlotsReleasable
<1> QED BY <1>4, <1>5, <1>6, <1>7 DEF Inv

LEMMA StutterInv == ASSUME Inv, UNCHANGED vars
                    PROVE  Inv'
  BY DEF Inv, vars, TypeOK, Working, Consistent, AllowStrandsNothing,
         SlotsReleasable

-----------------------------------------------------------------------------
(* The inductive invariant holds in every reachable state.                 *)
THEOREM Invariance == Spec => []Inv
<1>1. Init => Inv
  BY InitInv
<1>2. Inv /\ [Next]_vars => Inv'
  <2> SUFFICES ASSUME Inv, [Next]_vars PROVE Inv'
    OBVIOUS
  <2>1. ASSUME NEW a \in Callers, NEW c \in Asked, Allow(a, c) PROVE Inv'
    BY <2>1, AllowInv
  <2>2. ASSUME NEW a \in Callers, Reserve(a) PROVE Inv'
    BY <2>2, ReserveInv
  <2>3. ASSUME NEW a \in Callers, Deny(a) PROVE Inv'
    BY <2>3, DenyInv
  <2>4. ASSUME NEW a \in Callers, Release(a) PROVE Inv'
    BY <2>4, ReleaseInv
  <2>5. ASSUME NEW a \in Callers, Denied(a) PROVE Inv'
    BY <2>5, DeniedInv
  <2>6. ASSUME NEW a \in Callers, Allowed(a) PROVE Inv'
    BY <2>6, AllowedInv
  <2>7. ASSUME NEW a \in Callers, NEW o \in Results, Record(a, o) PROVE Inv'
    BY <2>7, RecordInv
  <2>8. ASSUME NEW a \in Callers, Settle(a) PROVE Inv'
    BY <2>8, SettleInv
  <2>9. ASSUME NEW a \in Callers, Recorded(a) PROVE Inv'
    BY <2>9, RecordedInv
  <2>10. ASSUME NEW k \in Keys, Read(k) PROVE Inv'
    BY <2>10, ReadInv
  <2>11. ASSUME NEW k \in Keys, Clear(k) PROVE Inv'
    BY <2>11, ClearInv
  <2>12. CASE Tick
    BY <2>12, TickInv
  <2>13. CASE UNCHANGED vars
    BY <2>13, StutterInv
  <2> QED BY <2>1, <2>2, <2>3, <2>4, <2>5, <2>6, <2>7, <2>8, <2>9, <2>10,
             <2>11, <2>12, <2>13 DEF Next, Call
<1> QED BY <1>1, <1>2, PTL DEF Spec

(* Every circuit, caller and history variable keeps its type.              *)
THEOREM TypeCorrect == Spec => []TypeOK
<1>1. Inv => TypeOK
  BY DEF Inv
<1> QED BY <1>1, Invariance, PTL

(* No interleaving of callers, reads, clears and time leaves a circuit     *)
(* with a slot taken outside HalfOpen, a deadline outside Open, or open    *)
(* without a failure.                                                      *)
THEOREM CircuitsConsistent == Spec => []Consistent
<1>1. Inv => Consistent
  BY DEF Inv
<1> QED BY <1>1, Invariance, PTL

(* A caller that Allow denies has given back every slot it took, whoever   *)
(* it raced with.                                                          *)
THEOREM AllowNeverStrands == Spec => [](AllowStrandsNothing /\ SlotsReleasable)
<1>1. Inv => AllowStrandsNothing /\ SlotsReleasable
  BY DEF Inv
<1> QED BY <1>1, Invariance, PTL

-----------------------------------------------------------------------------
(* What any step does to any circuit: a terminal one stays so unless it is *)
(* cleared, and a pending deadline is never moved out.                     *)
LEMMA CircuitStep ==
    ASSUME Inv, [Next]_vars, NEW k \in Keys
    PROVE  /\ circuits[k].status = "Terminal" =>
                circuits'[k].status = "Terminal" \/ Clear(k)
           /\ circuits[k].wait > 0 => circuits'[k].wait <= circuits[k].wait
<1> DEFINE Kept(n) == /\ circuits[k].status = "Terminal" => n.status = "Terminal"
                      /\ circuits[k].wait > 0 => n.wait <= circuits[k].wait
<1>1. circuits[k] \in Circuits /\ CircuitOK(circuits[k]) /\ circuits[k].wait \in Nat
  BY DEF Inv, TypeOK, Consistent, Circuits
<1>2. Kept(circuits[k])
  BY <1>1
<1>3. transitionLocked(circuits[k]) \in Circuits /\ Kept(transitionLocked(circuits[k]))
  BY <1>1, TransitionLemma
<1>4. ASSUME NEW a \in Callers, Call(a) PROVE Kept(circuits'[k])
  <2>1. CASE \/ \E c \in Asked : Allow(a, c)
             \/ Denied(a) \/ Allowed(a) \/ Recorded(a)
             \/ \E o \in Results : Record(a, o)
    <3>1. circuits' = circuits
      BY <2>1 DEF Allow, Denied, Allowed, Recorded, Record
    <3> QED BY <1>2, <3>1
  <2>2. CASE Reserve(a)
    <3>1. circuits'[k] = circuits[k]
          \/ circuits'[k] = reserveLocked(transitionLocked(circuits[k]))
      BY <2>2 DEF Reserve, Inv, TypeOK
    <3>2. Kept(reserveLocked(transitionLocked(circuits[k])))
      BY <1>3, ReserveLemma
    <3> HIDE DEF Kept
    <3> QED BY <1>2, <3>1, <3>2
  <2>3. CASE Deny(a)
    <3>1. circuits'[k] = circuits[k] \/ circuits'[k] = transitionLocked(circuits[k])
      BY <2>3 DEF Deny, Inv, TypeOK
    <3> HIDE DEF Kept
    <3> QED BY <1>2, <1>3, <3>1
  <2>4. CASE Release(a)
    <3>1. circuits'[k] = circuits[k] \/ circuits'[k] = releaseProbe(circuits[k])
      BY <2>4 DEF Release, Inv, TypeOK
    <3>2. Kept(releaseProbe(circuits[k]))
      BY <1>1, ReleaseLemma
    <3> HIDE DEF Kept
    <3> QED BY <1>2, <3>1, <3>2
  <2>5. CASE Settle(a)
    <3>1. outcome[a] \in Outcomes
      BY DEF Inv, TypeOK
    <3>2. circuits'[k] = circuits[k] \/ circuits'[k] \in RecordKey(circuits[k], outcome[a])
      BY <2>5 DEF Settle, Inv, TypeOK
    <3>3. ASSUME NEW n \in RecordKey(circuits[k], outcome[a]) PROVE Kept(n)
      BY <1>1, <3>1, RecordKeyLemma
    <3> HIDE DEF Kept
    <3> QED BY <1>2, <3>2, <3>3
  <2> QED BY <1>4, <2>1, <2>2, <2>3, <2>4, <2>5 DEF Call
<1>5. ASSUME NEW j \in Keys, Read(j) PROVE Kept(circuits'[k])
  <2>1. circuits'[k] = circuits[k] \/ circuits'[k] = transitionLocked(circuits[k])
    BY <1>5 DEF Read, Inv, TypeOK
  <2> HIDE DEF Kept
  <2> QED BY <1>2, <1>3, <2>1
<1>6. ASSUME NEW j \in Keys, Clear(j)
      PROVE  Kept(circuits'[k]) \/ (Clear(k) /\ circuits'[k].wait = 0)
  <2>1. CASE j = k
    <3>1. circuits'[k] = Fresh
      BY <1>6, <2>1 DEF Clear, Inv, TypeOK
    <3> QED BY <1>6, <2>1, <3>1 DEF Fresh
  <2>2. CASE j # k
    <3>1. circuits'[k] = circuits[k]
      BY <1>6, <2>2 DEF Clear, Inv, TypeOK
    <3> QED BY <1>2, <3>1
  <2> QED BY <2>1, <2>2
<1>7. CASE Tick
  <2>1. circuits'[k] = elapsed(circuits[k])
    BY <1>7 DEF Tick
  <2> QED BY <1>1, <2>1, ElapsedLemma
<1>8. CASE UNCHANGED vars
  BY <1>2, <1>8 DEF vars
<1> QED BY <1>1, <1>4, <1>5, <1>6, <1>7, <1>8 DEF Next

(* Terminal is absorbing for every outcome, read and delay; only Clear     *)
(* reopens it.                                                             *)
THEOREM TerminalIsAbsorbing == Spec => TerminalAbsorbs
<1>1. Inv /\ [Next]_vars =>
        [\A k \in Keys : circuits[k].status = "Terminal" =>
           circuits'[k].status = "Terminal" \/ Clear(k)]_vars
  BY CircuitStep
<1> QED BY <1>1, Invariance, PTL DEF Spec, TerminalAbsorbs

(* The deadline of an open circuit is never pushed out, however many       *)
(* failures arrive at once.                                                *)
THEOREM CooldownNotExtended == Spec => CooldownNeverExtended
<1>1. Inv /\ [Next]_vars =>
        [\A k \in Keys :
           circuits[k].wait > 0 => circuits'[k].wait <= circuits[k].wait]_vars
  BY CircuitStep
<1> QED BY <1>1, Invariance, PTL DEF Spec, CooldownNeverExtended
=============================================================================

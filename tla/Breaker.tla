------------------------------- MODULE Breaker -------------------------------
(***************************************************************************)
(* The circuit breaker (src/internal/breaker/breaker.go) under concurrent  *)
(* callers.  A caller asks Allow for a candidate, makes its attempt, and   *)
(* reports the outcome with Record.  Both methods lock ONE key at a time,  *)
(* so each key they visit is an action of its own and everything else may  *)
(* happen in between: other callers, the clock, a read, a Clear.           *)
(*                                                                         *)
(* "probing" and "stranded" are history variables: they say which caller   *)
(* took which probe slot, and which slots were left taken by an attempt    *)
(* that is over.  No action reads them.                                    *)
(***************************************************************************)
EXTENDS Candidates

CONSTANTS
    Callers,        \* concurrent requests
    Asked,          \* the candidates the callers ask for
    Results         \* the outcomes attempts may have

ASSUME AskedAssumption == Asked \subseteq Candidates
ASSUME ResultsAssumption == Results \subseteq Outcomes

VARIABLES
    circuits,   \* Breaker.keys
    pc,         \* where each caller is
    cand,       \* the candidate it asked for
    todo,       \* the keys its Allow, release or Record has still to visit
    reserved,   \* Allow's local "reserved": the keys that said yes so far
    outcome,    \* what it records
    probing,    \* history: the probe slots each caller took and still uses
    stranded    \* history: the slots still taken after their attempt ended

vars == <<circuits, pc, cand, todo, reserved, outcome,
          probing, stranded>>

TypeOK ==
    /\ circuits \in [Keys -> Circuits]
    /\ pc \in [Callers -> {"idle", "allowing", "releasing",
                           "attempting", "recording"}]
    /\ cand \in [Callers -> Asked \cup {None}]
    /\ todo \in [Callers -> Seq(Keys)]
    /\ reserved \in [Callers -> Seq(Keys)]
    /\ outcome \in [Callers -> Outcomes]
    /\ probing \in [Callers -> SUBSET Keys]
    /\ stranded \in SUBSET Keys

Init ==
    /\ circuits = [k \in Keys |-> Fresh]
    /\ pc = [a \in Callers |-> "idle"]
    /\ cand = [a \in Callers |-> None]
    /\ todo = [a \in Callers |-> <<>>]
    /\ reserved = [a \in Callers |-> <<>>]
    /\ outcome = [a \in Callers |-> Success]
    /\ probing = [a \in Callers |-> {}]
    /\ stranded = {}

-----------------------------------------------------------------------------
(* Allow: walk the keys, lock by lock.                                     *)

Allow(a, c) ==
    /\ pc[a] = "idle"
    /\ pc' = [pc EXCEPT ![a] = "allowing"]
    /\ cand' = [cand EXCEPT ![a] = c]
    /\ todo' = [todo EXCEPT ![a] = allKeysFor(c)]
    /\ reserved' = [reserved EXCEPT ![a] = <<>>]
    /\ UNCHANGED <<circuits, outcome, probing, stranded>>

Reserve(a) ==
    /\ pc[a] = "allowing"
    /\ todo[a] # <<>>
    /\ LET k  == Head(todo[a])
           ks == transitionLocked(circuits[k])
       IN  /\ admits(ks)
           /\ circuits' = [circuits EXCEPT ![k] = reserveLocked(ks)]
           /\ reserved' = [reserved EXCEPT ![a] = Append(@, k)]
           /\ probing' = [probing EXCEPT
                 ![a] = IF ks.status = "HalfOpen" THEN @ \cup {k} ELSE @]
           /\ stranded' = IF circuits'[k].probe THEN stranded
                          ELSE stranded \ {k}
    /\ todo' = [todo EXCEPT ![a] = Tail(@)]
    /\ UNCHANGED <<pc, cand, outcome>>

(* Mutant: the denial releases nothing.                                    *)
Deny_NoRelease(a) ==
    /\ pc[a] = "allowing"
    /\ todo[a] # <<>>
    /\ LET k  == Head(todo[a])
           ks == transitionLocked(circuits[k])
       IN  /\ ~admits(ks)
           /\ circuits' = [circuits EXCEPT ![k] = ks]
    /\ pc' = [pc EXCEPT ![a] = "releasing"]
    /\ todo' = [todo EXCEPT ![a] = <<>>]
    /\ UNCHANGED <<cand, reserved, outcome, probing, stranded>>

(* The first key that says no ends the walk: the earlier ones, whether or  *)
(* not they were half-open, are released.                                  *)
Deny(a) ==
    /\ pc[a] = "allowing"
    /\ todo[a] # <<>>
    /\ LET k  == Head(todo[a])
           ks == transitionLocked(circuits[k])
       IN  /\ ~admits(ks)
           /\ circuits' = [circuits EXCEPT ![k] = ks]
    /\ pc' = [pc EXCEPT ![a] = "releasing"]
    /\ todo' = [todo EXCEPT ![a] = reserved[a]]
    /\ UNCHANGED <<cand, reserved, outcome, probing, stranded>>

Release(a) ==
    /\ pc[a] = "releasing"
    /\ todo[a] # <<>>
    /\ LET k == Head(todo[a])
       IN  /\ circuits' = [circuits EXCEPT ![k] = releaseProbe(@)]
           /\ probing' = [probing EXCEPT ![a] = @ \ {k}]
           /\ stranded' = IF circuits'[k].probe THEN stranded
                          ELSE stranded \ {k}
    /\ todo' = [todo EXCEPT ![a] = Tail(@)]
    /\ UNCHANGED <<pc, cand, reserved, outcome>>

(* The method returns and its locals are gone.                             *)
Return(a) ==
    /\ pc' = [pc EXCEPT ![a] = "idle"]
    /\ cand' = [cand EXCEPT ![a] = None]
    /\ reserved' = [reserved EXCEPT ![a] = <<>>]

Denied(a) ==
    /\ pc[a] = "releasing"
    /\ todo[a] = <<>>
    /\ Return(a)
    /\ UNCHANGED <<circuits, todo, outcome, probing, stranded>>

Allowed(a) ==
    /\ pc[a] = "allowing"
    /\ todo[a] = <<>>
    /\ pc' = [pc EXCEPT ![a] = "attempting"]
    /\ reserved' = [reserved EXCEPT ![a] = <<>>]
    /\ UNCHANGED <<circuits, cand, todo, outcome,
                   probing, stranded>>

-----------------------------------------------------------------------------
(* Record: the attempt is over.                                            *)

Record(a, o) ==
    /\ pc[a] = "attempting"
    /\ pc' = [pc EXCEPT ![a] = "recording"]
    /\ outcome' = [outcome EXCEPT ![a] = o]
    /\ todo' = [todo EXCEPT ![a] = keysFor(cand[a], o)]
    /\ UNCHANGED <<circuits, cand, reserved, probing, stranded>>

Settle(a) ==
    /\ pc[a] = "recording"
    /\ todo[a] # <<>>
    /\ LET k == Head(todo[a])
       IN  \E ks \in RecordKey(circuits[k], outcome[a]) :
             /\ circuits' = [circuits EXCEPT ![k] = ks]
             /\ probing' = [probing EXCEPT ![a] = @ \ {k}]
             /\ stranded' = IF ~ks.probe              THEN stranded \ {k}
                            ELSE IF k \in probing[a]  THEN stranded \cup {k}
                            ELSE stranded
    /\ todo' = [todo EXCEPT ![a] = Tail(@)]
    /\ UNCHANGED <<pc, cand, reserved, outcome>>

Recorded(a) ==
    /\ pc[a] = "recording"
    /\ todo[a] = <<>>
    /\ Return(a)
    /\ outcome' = [outcome EXCEPT ![a] = Success]
    /\ probing' = [probing EXCEPT ![a] = {}]
    /\ stranded' = stranded \cup {k \in probing[a] : circuits[k].probe}
    /\ UNCHANGED <<circuits, todo>>

-----------------------------------------------------------------------------
(* State and RetryAfterKey transition the key they read; Clear resets it.  *)

Read(k) ==
    /\ circuits' = [circuits EXCEPT ![k] = transitionLocked(@)]
    /\ UNCHANGED <<pc, cand, todo, reserved, outcome,
                   probing, stranded>>

Clear(k) ==
    /\ circuits' = [circuits EXCEPT ![k] = Fresh]
    /\ stranded' = stranded \ {k}
    /\ UNCHANGED <<pc, cand, todo, reserved, outcome, probing>>

Tick ==
    /\ circuits' = [k \in Keys |-> elapsed(circuits[k])]
    /\ UNCHANGED <<pc, cand, todo, reserved, outcome,
                   probing, stranded>>

Call(a) ==
    \/ \E c \in Asked : Allow(a, c)
    \/ Reserve(a) \/ Deny(a) \/ Release(a) \/ Denied(a) \/ Allowed(a)
    \/ \E o \in Results : Record(a, o)
    \/ Settle(a) \/ Recorded(a)

Next ==
    \/ \E a \in Callers : Call(a)
    \/ \E k \in Keys : Read(k) \/ Clear(k)
    \/ Tick

Spec == Init /\ [][Next]_vars

-----------------------------------------------------------------------------
(* What the fields of a circuit promise each other, whichever order the    *)
(* callers' outcomes arrive in (keyState, breaker.go:123-138): the probe   *)
(* slot is taken only in HalfOpen, so no reopening inherits it; a deadline *)
(* is pending only in Open; and a circuit is open or half-open only after  *)
(* a failure that no success has answered, so backoff never starts at      *)
(* exponent -1.                                                            *)
CircuitOK(ks) ==
    /\ ks.probe => ks.status = "HalfOpen"
    /\ ks.wait > 0 => ks.status = "Open"
    /\ ks.status \in {"Open", "HalfOpen"} => ks.failures > 0

Consistent == \A k \in Keys : CircuitOK(circuits[k])

(* Allow never strands a probe slot (breaker.go:255-256 and 450-453): a    *)
(* taken slot belongs to a caller that is still at work, or to an attempt  *)
(* that ended with an outcome which did not resolve that key.              *)
AllowStrandsNothing ==
    \A k \in Keys : circuits[k].probe =>
        \/ k \in stranded
        \/ \E a \in Callers : k \in probing[a] /\ pc[a] # "idle"

(* Every slot a caller took in its Allow is among the keys Allow will      *)
(* release if a later one denies (the slice "reserved", breaker.go:456),   *)
(* so a caller that is told no leaves without a slot.                      *)
SlotsReleasable ==
    \A a \in Callers :
        /\ pc[a] = "idle" => probing[a] = {}
        /\ pc[a] = "allowing" =>
             \A k \in probing[a] : \E i \in DOMAIN reserved[a] : reserved[a][i] = k
        /\ pc[a] = "releasing" =>
             \A k \in probing[a] : \E i \in DOMAIN todo[a] : todo[a][i] = k

(* Terminal is absorbing: outcomes that arrive late, whatever they are,    *)
(* reads and the clock leave it; only Clear reopens it (ADR-0012 par. 4).  *)
TerminalAbsorbs ==
    [][\A k \in Keys : circuits[k].status = "Terminal" =>
          circuits'[k].status = "Terminal" \/ Clear(k)]_vars

(* Concurrent failures do not push the deadline of an open circuit further *)
(* out (ADR-0012 par. 3): while it is open its remaining cooldown never    *)
(* grows.                                                                  *)
CooldownNeverExtended ==
    [][\A k \in Keys :
          circuits[k].wait > 0 => circuits'[k].wait <= circuits[k].wait]_vars
=============================================================================

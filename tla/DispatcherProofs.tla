-------------------------- MODULE DispatcherProofs --------------------------
(***************************************************************************)
(* Proofs about Dispatcher and Structural, for any number of requests at   *)
(* once, any plans and shapes, providers, credentials and happenings and   *)
(* any configuration of the breaker.                                       *)
(***************************************************************************)
EXTENDS Structural, SequenceTheorems, FiniteSetTheorems, WellFoundedInduction, TLAPS

-----------------------------------------------------------------------------
(* The invariant. What it says of a request q is said of q and the world w *)
(* as values, so that it can be proved of each change of a request by      *)
(* itself.                                                                 *)
Errors == [scope : Scopes \cup {"none"}, retryable : BOOLEAN, retryAfter : Nat]
Stages == {"idle", "preflight", "next", "resolve", "build", "call", "cooldown", "done"}
Replies == {"none", "no candidate", "ok", "client error", "timeout", "max rounds",
            "exhausted", "no attempts", "no attempts: breaker", "no attempts: quota"}

Inquiries ==
    [pc : Stages, plan : [steps : Seq(Candidates), auto : BOOLEAN],
     todo : Seq(Candidates), kept : Seq(Candidates),
     ids : SUBSET Credentials, cand : Candidates \cup {None},
     attempts : Nat, skips : SUBSET {"breaker", "quota", "credential"},
     lastErr : Errors, cancelled : BOOLEAN,
     calls : Seq([cand : Candidates, end : Scopes \cup {"ok"}]),
     reply : Replies]

TypeOK ==
    /\ circuits \in [Keys -> Circuits]
    /\ world \in [services : [Providers -> Services],
                  vault    : [Credentials -> Stored], healthy : BOOLEAN]
    /\ req \in [Requests -> Inquiries]
    /\ blame \in [Keys -> 0 .. Banned]

(* What a circuit says of its key, the key is to blame for; and a          *)
(* credential has no more strikes than that, as far as the threshold.      *)
Due(k, ks, b) ==
    /\ ks.status \in {"Open", "HalfOpen"} => b > 0
    /\ ks.status = "Terminal" => k[1] = "Credential" /\ b = Banned
    /\ k[1] = "Credential" => ks.failures <= b \/ b >= CredentialThreshold

Grounded == \A k \in Keys : Due(k, circuits[k], blame[k])

(* A candidate is at hand from its choice on, with an account from the     *)
(* answer of the breaker on, and is called if an executor could be built.  *)
AtHand(w, q) ==
    /\ q.pc \in {"resolve", "build", "call"} => q.cand \in Candidates
    /\ q.pc \in {"build", "call"} => q.cand.credential \in Credentials
    /\ q.pc = "call" =>
         BuildExecutor(q.cand.provider, w.services[q.cand.provider],
                       w.vault[q.cand.credential]) = NoError

(* How a call may have ended for the loop to go on.                        *)
Curable(end) == end \notin {"ok", "Request"}

(* Until the reply every call has failed, and each is counted.             *)
Tale(q) ==
    /\ q.pc = "idle" => q = Idle
    /\ q.pc # "done" =>
         /\ \A i \in 1 .. Len(q.calls) : Curable(q.calls[i].end)
         /\ Len(q.calls) > 0 => q.lastErr # NoError
         /\ q.attempts = IF q.pc = "call" THEN Len(q.calls) + 1 ELSE Len(q.calls)
         /\ q.attempts <= MaxRounds(q)
    /\ q.pc \in {"resolve", "build"} => q.attempts < MaxRounds(q)

Outcome(q) == IF Len(q.calls) = 0 THEN "nothing" ELSE q.calls[Len(q.calls)].end

Answer(q) ==
    /\ q.reply = "ok" <=> Outcome(q) = "ok"
    /\ \A i \in 1 .. Len(q.calls) - 1 : Curable(q.calls[i].end)
    /\ q.reply = "client error" <=> Outcome(q) = "Request"
    /\ q.reply \in {"no candidate", "no attempts", "no attempts: quota",
                    "no attempts: breaker"} => Len(q.calls) = 0
    /\ q.reply = "max rounds" => Len(q.calls) = MaxRounds(q)
    /\ q.reply = "exhausted" => Len(q.calls) \in 1 .. MaxRounds(q) /\ q.lastErr # NoError
    /\ q.reply = "timeout" => q.cancelled

(* The candidates that the preflight has kept are steps of the plan, in    *)
(* its order, among the first d of them.                                   *)
Increasing(f) == \A i, j \in DOMAIN f : i < j => f[i] < f[j]

Kept(q, d) ==
    \E g \in [DOMAIN q.kept -> 1..d] :
        Increasing(g) /\ \A i \in DOMAIN q.kept : q.kept[i] = q.plan.steps[g[i]]

(* The calls made are for candidates kept, in their order, among the first *)
(* d of them.                                                              *)
Serves(w, k, p) == /\ w.vault[k].provider = p
                   /\ w.vault[k].mode \in authModes(w.services[p])
Suits(w, c, s) == /\ c.provider = s.provider /\ c.model = s.model
                  /\ IF s.credential # None THEN c.credential = s.credential
                     ELSE Serves(w, c.credential, s.provider)

Made(w, q, d) ==
    \E f \in [DOMAIN q.calls -> 1..d] :
        Increasing(f) /\ \A i \in DOMAIN q.calls : Suits(w, q.calls[i].cand, q.kept[f[i]])

(* What is still to do is the end of what there was.                       *)
EndOf(s, t) == /\ Len(s) <= Len(t)
               /\ \A i \in 1 .. Len(s) : s[i] = t[Len(t) - Len(s) + i]

Taken(q) == Len(q.kept) - Len(q.todo)

Path(w, q) ==
    /\ q.pc = "preflight" =>
         /\ EndOf(q.todo, q.plan.steps) /\ q.calls = <<>>
         /\ Kept(q, Len(q.plan.steps) - Len(q.todo))
    /\ q.pc \notin {"idle", "preflight"} =>
         EndOf(q.todo, q.kept) /\ Kept(q, Len(q.plan.steps))
    /\ q.pc \in {"next", "cooldown", "done"} => Made(w, q, Taken(q))
    /\ q.pc \in {"resolve", "build", "call"} => Taken(q) > 0 /\ Made(w, q, Taken(q) - 1)
    /\ q.pc = "resolve" =>
         /\ q.cand = q.kept[Taken(q)]
         /\ \A k \in q.ids : IF q.cand.credential # None THEN k = q.cand.credential
                             ELSE Serves(w, k, q.cand.provider)
    /\ q.pc \in {"build", "call"} => Suits(w, q.cand, q.kept[Taken(q)])

Sound(w, q) == /\ q \in Inquiries
               /\ AtHand(w, q) /\ Tale(q) /\ Path(w, q)
               /\ q.pc = "done" => Answer(q)

IInv == TypeOK /\ Grounded /\ \A r \in Requests : Sound(world, req[r])

-----------------------------------------------------------------------------
(* One circuit, and what its key is to blame for.                          *)

LEMMA DueMore ==
    ASSUME NEW k, NEW ks \in Circuits, NEW b \in 0 .. Banned,
           NEW b2 \in 0 .. Banned, b <= b2, Due(k, ks, b)
    PROVE  Due(k, ks, b2)
<1>1. /\ ks.failures \in 0 .. FailureBound /\ FailureBound \in Nat
      /\ CredentialThreshold \in Nat /\ Banned = CredentialThreshold + 1
  BY ConfigAssumption DEF Circuits, Banned
<1> QED BY <1>1 DEF Due

(* The lazy transition and a reservation blame nobody (transitionLocked,   *)
(* reserveLocked, breaker.go:205-253).                                     *)
LEMMA TransitionKeeps ==
    ASSUME NEW ks \in Circuits
    PROVE  /\ transitionLocked(ks) \in Circuits
           /\ ks.status = "Terminal" <=> transitionLocked(ks).status = "Terminal"
           /\ \A k, b : Due(k, ks, b) => Due(k, transitionLocked(ks), b)
<1>1. CASE ks.status = "Open" /\ ks.wait = 0
  <2>1. transitionLocked(ks) = [ks EXCEPT !.status = "HalfOpen", !.probe = FALSE]
    BY <1>1 DEF transitionLocked
  <2>2. /\ transitionLocked(ks) \in Circuits
        /\ transitionLocked(ks).status = "HalfOpen"
        /\ transitionLocked(ks).failures = ks.failures
    BY <2>1 DEF Circuits, Statuses
  <2> QED BY <1>1, <2>2 DEF Due
<1>2. CASE ~(ks.status = "Open" /\ ks.wait = 0)
  BY <1>2 DEF transitionLocked
<1> QED BY <1>1, <1>2

LEMMA ReserveKeeps ==
    ASSUME NEW ks \in Circuits
    PROVE  /\ reserveLocked(ks) \in Circuits
           /\ \A k, b : Due(k, ks, b) => Due(k, reserveLocked(ks), b)
<1>1. CASE ks.status = "HalfOpen"
  <2>1. /\ reserveLocked(ks) \in Circuits /\ reserveLocked(ks).status = ks.status
        /\ reserveLocked(ks).failures = ks.failures
    BY <1>1 DEF reserveLocked, Circuits
  <2> QED BY <2>1 DEF Due
<1>2. CASE ks.status # "HalfOpen"
  BY <1>2 DEF reserveLocked
<1> QED BY <1>1, <1>2

LEMMA ElapsedKeeps ==
    ASSUME NEW ks \in Circuits
    PROVE  /\ elapsed(ks) \in Circuits
           /\ \A k, b : Due(k, ks, b) => Due(k, elapsed(ks), b)
<1>1. /\ elapsed(ks) \in Circuits /\ elapsed(ks).status = ks.status
      /\ elapsed(ks).failures = ks.failures
  BY DEF elapsed, Circuits
<1> QED BY <1>1 DEF Due

(* A cooldown is a number of ticks (exponential, breaker.go:350-355).      *)
LEMMA CooldownIsNat ==
    ASSUME NEW o \in Outcomes, NEW n, NEW t \in cooldowns(o, n)
    PROVE  t \in Nat
<1>1. CASE o.retryAfter > 0
  BY <1>1 DEF cooldowns, Outcomes
<1>2. CASE ~(o.retryAfter > 0)
  <2>1. t \in 1 .. MaxCooldown
    BY <1>2 DEF cooldowns, exponential
  <2> QED BY <2>1, ConfigAssumption
<1> QED BY <1>1, <1>2

(* One more failure, counted up to the bound.                              *)
LEMMA FailedCounts ==
    ASSUME NEW ks \in Circuits
    PROVE  /\ failed(ks) \in Circuits
           /\ failed(ks).status = ks.status
           /\ failed(ks).failures = IF ks.failures < FailureBound
                                    THEN ks.failures + 1 ELSE ks.failures
  BY ConfigAssumption DEF failed, Circuits

(* What a failure makes of a circuit that is recorded on: nothing if it is *)
(* ignored or the ban holds; else a strike, or an open circuit (RecordKey, *)
(* breaker.go:292-367).                                                    *)
LEMMA FailureSettles ==
    ASSUME NEW ks \in Circuits, NEW o \in Outcomes, ~o.success, ~o.terminal,
           NEW n \in settled(ks, o)
    PROVE  \/ n = ks /\ (ks.status = "Terminal" \/ ignored(o))
           \/ /\ n \in Circuits /\ n.failures = failed(ks).failures
              /\ ks.status # "Terminal" /\ ~ignored(o)
              /\ n.status = "Terminal" =>
                   failed(ks).failures >= CredentialThreshold /\ ~o.retryable
<1>1. CASE ks.status = "Terminal" \/ ignored(o)
  BY <1>1 DEF settled
<1>2. CASE ~(ks.status = "Terminal" \/ ignored(o)) /\ ~o.retryable
  <2>1. n = strike(ks)
    BY <1>2 DEF settled
  <2>2. failed(ks) \in Circuits /\ failed(ks).status = ks.status
    BY FailedCounts
  <2>3. CASE failed(ks).failures >= CredentialThreshold
    <3>1. n = promoted(failed(ks))
      BY <2>1, <2>3 DEF strike
    <3>2. n \in Circuits /\ n.failures = failed(ks).failures
      BY <2>2, <3>1 DEF promoted, Circuits, Statuses
    <3> QED BY <1>2, <2>3, <3>2
  <2>4. CASE ~(failed(ks).failures >= CredentialThreshold)
    <3>1. n = failed(ks)
      BY <2>1, <2>4 DEF strike
    <3> QED BY <1>2, <2>2, <3>1
  <2> QED BY <2>3, <2>4
<1>3. CASE ~(ks.status = "Terminal" \/ ignored(o)) /\ o.retryable
  <2>1. n \in reopened(ks, o)
    BY <1>3 DEF settled
  <2>2. PICK t \in IF ks.status = "Open" THEN {ks.wait}
                   ELSE cooldowns(o, failed(ks).failures) :
           n = [failed(ks) EXCEPT !.status = "Open", !.wait = t, !.probe = FALSE]
    BY <2>1 DEF reopened
  <2>3. t \in Nat
    BY <2>2, CooldownIsNat DEF Circuits
  <2>4. failed(ks) \in Circuits
    BY FailedCounts
  <2>5. n \in Circuits /\ n.status = "Open" /\ n.failures = failed(ks).failures
    BY <2>2, <2>3, <2>4 DEF Circuits, Statuses
  <2> QED BY <1>3, <2>5
<1> QED BY <1>1, <1>2, <1>3

(* A failure that its key is blamed for leaves the circuit due.            *)
LEMMA FailureIsDue ==
    ASSUME NEW k, NEW ks \in Circuits, NEW b \in 0 .. Banned, Due(k, ks, b),
           NEW o \in Outcomes, ~o.success, ~o.terminal,
           o.scope = "Credential" <=> k[1] = "Credential",
           o.scope \in {"Credential", "Provider"},
           NEW b2 \in 0 .. Banned, b <= b2,
           ~ignored(o) /\ b < CredentialThreshold => b2 >= b + 1,
           o.scope = "Credential" /\ ~o.retryable /\ b + 1 >= CredentialThreshold
             => b2 = Banned,
           NEW n \in RecordKey(ks, o)
    PROVE  n \in Circuits /\ Due(k, n, b2)
<1> DEFINE was == transitionLocked(ks)
<1>1. was \in Circuits /\ Due(k, was, b)
  BY TransitionKeeps
<1>2. n \in settled(was, o)
  BY DEF RecordKey
<1> HIDE DEF was
<1>3. Due(k, was, b2)
  BY <1>1, DueMore
<1>4. CASE n = was
  BY <1>1, <1>3, <1>4
<1>5. CASE /\ n \in Circuits /\ n.failures = failed(was).failures
           /\ was.status # "Terminal" /\ ~ignored(o)
           /\ n.status = "Terminal" =>
                failed(was).failures >= CredentialThreshold /\ ~o.retryable
  <2>1. /\ b2 > 0 /\ (b >= CredentialThreshold => b2 >= CredentialThreshold)
        /\ b \in Nat /\ b2 \in Nat /\ CredentialThreshold \in Nat
    BY <1>5, ConfigAssumption DEF Banned
  <2>2. /\ failed(was).failures <= was.failures + 1
        /\ was.failures \in Nat /\ failed(was).failures \in Nat
    BY <1>1, FailedCounts, ConfigAssumption DEF Circuits
  <2>3. k[1] = "Credential" => was.failures <= b \/ b >= CredentialThreshold
    BY <1>1 DEF Due
  <2>4. k[1] = "Credential" => n.failures <= b2 \/ b2 >= CredentialThreshold
    BY <1>5, <2>1, <2>2, <2>3
  <2>5. n.status = "Terminal" => k[1] = "Credential"
    BY <1>5 DEF ignored
  <2>6. n.status = "Terminal" => b + 1 >= CredentialThreshold
    BY <1>5, <2>1, <2>2, <2>3, <2>5
  <2>7. n.status = "Terminal" => b2 = Banned
    BY <1>5, <2>5, <2>6
  <2> QED BY <1>5, <2>1, <2>4, <2>5, <2>7 DEF Due
<1> QED BY <1>1, <1>2, <1>4, <1>5, FailureSettles

(* A success closes the circuit, unless it is a ban.                       *)
LEMMA SuccessIsDue ==
    ASSUME NEW k, NEW ks \in Circuits, NEW b \in 0 .. Banned, Due(k, ks, b),
           NEW n \in RecordKey(ks, Success)
    PROVE  n \in Circuits /\ Due(k, n, IF ks.status # "Terminal" THEN 0 ELSE b)
<1> DEFINE was == transitionLocked(ks)
<1>1. /\ was \in Circuits /\ Due(k, was, b)
      /\ ks.status = "Terminal" <=> was.status = "Terminal"
  BY TransitionKeeps
<1>2. n \in settled(was, Success)
  BY DEF RecordKey
<1> HIDE DEF was
<1>3. Success.success /\ ~ignored(Success)
  BY DEF Success, ignored
<1>4. n = IF was.status = "Terminal" THEN was ELSE Fresh
  BY <1>2, <1>3 DEF settled
<1>5. Fresh \in Circuits /\ Due(k, Fresh, 0)
  BY ConfigAssumption DEF Fresh, Circuits, Statuses, Due
<1> QED BY <1>1, <1>4, <1>5

-----------------------------------------------------------------------------
(* The circuits of a candidate.                                            *)
LEMMA KeysOfBoth ==
    ASSUME NEW S, NEW s \in Seq(S), NEW t \in Seq(S)
    PROVE  s \o t \in Seq(S) /\ KeysOf(s \o t) = KeysOf(s) \cup KeysOf(t)
<1>1. /\ s \o t \in Seq(S) /\ Len(s \o t) = Len(s) + Len(t)
      /\ \A i \in 1 .. Len(s) + Len(t) :
            (s \o t)[i] = IF i <= Len(s) THEN s[i] ELSE t[i - Len(s)]
  BY ConcatProperties
<1>2. /\ DOMAIN s = 1 .. Len(s) /\ DOMAIN t = 1 .. Len(t)
      /\ DOMAIN (s \o t) = 1 .. Len(s) + Len(t) /\ Len(s) \in Nat /\ Len(t) \in Nat
  BY <1>1, LenProperties
<1>3. ASSUME NEW i \in DOMAIN (s \o t) PROVE (s \o t)[i] \in KeysOf(s) \cup KeysOf(t)
  <2>1. CASE i <= Len(s)
    BY <1>1, <1>2, <2>1 DEF KeysOf
  <2>2. CASE ~(i <= Len(s))
    <3>1. i - Len(s) \in 1 .. Len(t)
      BY <1>2, <2>2
    <3> QED BY <1>1, <1>2, <2>2, <3>1 DEF KeysOf
  <2> QED BY <2>1, <2>2
<1>4. ASSUME NEW i \in DOMAIN s PROVE s[i] \in KeysOf(s \o t)
  BY <1>1, <1>2 DEF KeysOf
<1>5. ASSUME NEW i \in DOMAIN t PROVE t[i] \in KeysOf(s \o t)
  <2>1. i + Len(s) \in 1 .. Len(s) + Len(t) /\ ~(i + Len(s) <= Len(s))
        /\ (i + Len(s)) - Len(s) = i
    BY <1>2
  <2> QED BY <1>1, <1>2, <2>1 DEF KeysOf
<1> QED BY <1>1, <1>3, <1>4, <1>5 DEF KeysOf

(* An outcome is recorded on circuits of the candidate: a failure of the   *)
(* credential on the credential's, one of the provider on the others.      *)
LEMMA ScopeOfKeys ==
    ASSUME NEW c, NEW o
    PROVE  /\ KeysOf(keysFor(c, o)) \subseteq KeysOf(allKeysFor(c))
           /\ ~o.success => \A k \in KeysOf(keysFor(c, o)) :
                /\ o.scope \in {"Credential", "Provider"}
                /\ o.scope = "Credential" <=> k[1] = "Credential"
<1> DEFINE p == <<providerKey(c)>>
           m == <<"Model", c.provider, c.model>>
           k == <<"Credential", c.provider, c.credential>>
           T == {providerKey(c), m, k}
<1>1. p \in Seq(T) /\ modelKeys(c) \in Seq(T) /\ credentialKeys(c) \in Seq(T)
  <2>1. /\ modelKeys(c) = IF c.model = None THEN <<>> ELSE <<m>>
        /\ credentialKeys(c) = IF c.credential = None THEN <<>> ELSE <<k>>
    BY DEF modelKeys, credentialKeys
  <2> HIDE DEF m, k
  <2>2. <<providerKey(c)>> \in Seq(T) /\ <<m>> \in Seq(T) /\ <<k>> \in Seq(T)
        /\ <<>> \in Seq(T)
    OBVIOUS
  <2> QED BY <2>1, <2>2
<1>2. /\ \A x \in KeysOf(p) \cup KeysOf(modelKeys(c)) : x[1] # "Credential"
      /\ \A x \in KeysOf(credentialKeys(c)) : x[1] = "Credential"
      /\ KeysOf(<<>>) = {}
  BY DEF KeysOf, providerKey, modelKeys, credentialKeys
<1>3. /\ KeysOf(p \o modelKeys(c)) = KeysOf(p) \cup KeysOf(modelKeys(c))
      /\ KeysOf(allKeysFor(c)) =
            (KeysOf(p) \cup KeysOf(modelKeys(c))) \cup KeysOf(credentialKeys(c))
  <2> HIDE DEF p, m, k, T
  <2>1. p \o modelKeys(c) \in Seq(T)
        /\ KeysOf(p \o modelKeys(c)) = KeysOf(p) \cup KeysOf(modelKeys(c))
    BY <1>1, KeysOfBoth
  <2>2. \A s \in Seq(T) : KeysOf(s \o credentialKeys(c)) =
                              KeysOf(s) \cup KeysOf(credentialKeys(c))
    BY <1>1, KeysOfBoth
  <2>3. allKeysFor(c) = (p \o modelKeys(c)) \o credentialKeys(c)
    BY DEF allKeysFor, p
  <2> QED BY <2>1, <2>2, <2>3
<1>4. keysFor(c, o) = IF o.success THEN allKeysFor(c)
                      ELSE IF o.scope = "Credential" THEN credentialKeys(c)
                      ELSE IF o.scope = "Provider" THEN p \o modelKeys(c) ELSE <<>>
  BY DEF keysFor
<1> HIDE DEF p, m, k, T
<1> QED BY <1>2, <1>3, <1>4

-----------------------------------------------------------------------------
(* The breaker's methods, over all circuits.                               *)

(* Asking the breaker blames nobody, whatever it answers (Allow,           *)
(* breaker.go:448-474).                                                    *)
LEMMA AllowKeeps ==
    ASSUME NEW cs \in [Keys -> Circuits], NEW c
    PROVE  /\ Allow(cs, c) \in [Keys -> Circuits]
           /\ \A k \in Keys : \A b : Due(k, cs[k], b) => Due(k, Allow(cs, c)[k], b)
<1>1. CASE ~allowed(cs, c)
  BY <1>1 DEF Allow
<1>2. CASE allowed(cs, c)
  <2>1. Allow(cs, c) = [k \in Keys |-> IF k \in KeysOf(allKeysFor(c))
                                       THEN reserveLocked(cs[k]) ELSE cs[k]]
    BY <1>2 DEF Allow
  <2>2. \A k \in Keys : /\ reserveLocked(cs[k]) \in Circuits
                        /\ \A b : Due(k, cs[k], b) => Due(k, reserveLocked(cs[k]), b)
    BY ReserveKeeps
  <2> QED BY <2>1, <2>2
<1> QED BY <1>1, <1>2

(* Record touches the circuits of the outcome (breaker.go:434-446).        *)
LEMMA RecordTouches ==
    ASSUME NEW cs \in [Keys -> Circuits], NEW c, NEW o, NEW to \in Record(cs, c, o)
    PROVE  /\ to = [k \in Keys |-> to[k]]
           /\ \A k \in Keys : IF k \in KeysOf(keysFor(c, o))
                              THEN to[k] \in RecordKey(cs[k], o) ELSE to[k] = cs[k]
<1> DEFINE ks == KeysOf(keysFor(c, o))
           some == UNION {RecordKey(cs[k], o) : k \in ks}
<1>1. PICK f \in {g \in [ks -> some] : \A k \in ks : g[k] \in RecordKey(cs[k], o)} :
         to = [k \in Keys |-> IF k \in ks THEN f[k] ELSE cs[k]]
  BY DEF Record
<1> QED BY <1>1

(* Who is at fault for an error, as far as it is recorded.                 *)
Blames(who, e) == /\ e.scope = "Credential" => who \cap {"Limit", "Refusal"} # {}
                  /\ e.scope = "Credential" /\ ~e.retryable => "Refusal" \in who
                  /\ e.scope = "Provider" /\ e.retryable => "Provider" \in who

LEMMA BlameCounts ==
    ASSUME blame \in [Keys -> 0 .. Banned], NEW c, NEW who
    PROVE  /\ blamed(c, who) \in [Keys -> 0 .. Banned]
           /\ \A k \in Keys :
                /\ blame[k] <= blamed(c, who)[k]
                /\ k \in KeysOf(allKeysFor(c)) =>
                     /\ atFault(k, who) /\ blame[k] < CredentialThreshold
                          => blamed(c, who)[k] >= blame[k] + 1
                     /\ refused(k, who) => blamed(c, who)[k] = Banned
<1>1. CredentialThreshold \in Nat /\ Banned = CredentialThreshold + 1
  BY ConfigAssumption DEF Banned
<1>2. ASSUME NEW k \in Keys
      PROVE  /\ blamed(c, who)[k] \in 0 .. Banned /\ blame[k] <= blamed(c, who)[k]
             /\ k \in KeysOf(allKeysFor(c)) =>
                  /\ atFault(k, who) /\ blame[k] < CredentialThreshold
                       => blamed(c, who)[k] >= blame[k] + 1
                  /\ refused(k, who) => blamed(c, who)[k] = Banned
  <2>1. blame[k] \in 0 .. Banned
    OBVIOUS
  <2>2. blamed(c, who)[k] =
          IF k \notin KeysOf(allKeysFor(c)) THEN blame[k]
          ELSE IF refused(k, who) THEN Banned
          ELSE IF atFault(k, who) /\ blame[k] < CredentialThreshold
               THEN blame[k] + 1 ELSE blame[k]
    BY DEF blamed
  <2> QED BY ONLY <1>1, <2>1, <2>2
<1>3. blamed(c, who) = [k \in Keys |-> blamed(c, who)[k]]
  BY DEF blamed
<1> QED BY <1>2, <1>3

(* A failed attempt, recorded (dispatcher.go:172-176, 192-196).            *)
LEMMA FailureKeeps ==
    ASSUME circuits \in [Keys -> Circuits], blame \in [Keys -> 0 .. Banned],
           Grounded, NEW c, NEW e \in Errors, NEW who, Blames(who, e),
           NEW to \in Record(circuits, c, breakerFrom(e))
    PROVE  /\ to \in [Keys -> Circuits]
           /\ \A k \in Keys : Due(k, to[k], blamed(c, who)[k])
<1> DEFINE o == breakerFrom(e)
           b == blamed(c, who)
<1>1. /\ o.scope = e.scope /\ o.retryable = e.retryable /\ o.retryAfter = e.retryAfter
      /\ ~o.success /\ ~o.terminal
      /\ e.scope \in Scopes => o \in Outcomes
  BY DEF breakerFrom, Errors, Outcomes
<1>2. /\ to = [k \in Keys |-> to[k]]
      /\ \A k \in Keys : IF k \in KeysOf(keysFor(c, o))
                         THEN to[k] \in RecordKey(circuits[k], o) ELSE to[k] = circuits[k]
  BY RecordTouches
<1>3. b \in [Keys -> 0 .. Banned] /\ \A k \in Keys : blame[k] <= b[k]
  BY BlameCounts
<1>4. ASSUME NEW k \in Keys PROVE to[k] \in Circuits /\ Due(k, to[k], b[k])
  <2>0. /\ circuits[k] \in Circuits /\ Due(k, circuits[k], blame[k])
        /\ blame[k] \in 0 .. Banned /\ b[k] \in 0 .. Banned
        /\ blame[k] <= b[k]
    BY <1>3 DEF Grounded
  <2>1. CASE k \notin KeysOf(keysFor(c, o))
    BY <1>2, <2>0, <2>1, DueMore
  <2>2. CASE k \in KeysOf(keysFor(c, o))
    <3>1. /\ k \in KeysOf(allKeysFor(c)) /\ o.scope \in {"Credential", "Provider"}
          /\ o.scope = "Credential" <=> k[1] = "Credential"
      BY <1>1, <2>2, ScopeOfKeys
    <3>2. o \in Outcomes
      BY <1>1, <3>1 DEF Scopes
    <3>3. ~ignored(o) /\ blame[k] < CredentialThreshold => b[k] >= blame[k] + 1
      <4> SUFFICES ASSUME ~ignored(o), blame[k] < CredentialThreshold
                   PROVE  b[k] >= blame[k] + 1
        OBVIOUS
      <4>1. atFault(k, who)
        BY <1>1, <3>1 DEF Blames, ignored, atFault
      <4> QED BY <3>1, <4>1, BlameCounts
    <3>4. o.scope = "Credential" /\ ~o.retryable /\ blame[k] + 1 >= CredentialThreshold
            => b[k] = Banned
      <4> SUFFICES ASSUME o.scope = "Credential", ~o.retryable,
                          blame[k] + 1 >= CredentialThreshold
                   PROVE  b[k] = Banned
        OBVIOUS
      <4>1. refused(k, who)
        BY <1>1, <3>1 DEF Blames, refused
      <4> QED BY <3>1, <4>1, BlameCounts
    <3>5. to[k] \in RecordKey(circuits[k], o)
      BY <1>2, <2>2
    <3> HIDE DEF o, b
    <3> QED BY <1>1, <2>0, <3>1, <3>2, <3>3, <3>4, <3>5, FailureIsDue
  <2> QED BY <2>1, <2>2
<1> QED BY <1>2, <1>4

(* A success, recorded (dispatcher.go:212).                                *)
LEMMA SuccessKeeps ==
    ASSUME circuits \in [Keys -> Circuits], blame \in [Keys -> 0 .. Banned],
           Grounded, NEW c, NEW to \in Record(circuits, c, Success)
    PROVE  /\ to \in [Keys -> Circuits] /\ forgiven(c) \in [Keys -> 0 .. Banned]
           /\ \A k \in Keys : Due(k, to[k], forgiven(c)[k])
<1>1. /\ to = [k \in Keys |-> to[k]]
      /\ \A k \in Keys : IF k \in KeysOf(keysFor(c, Success))
                         THEN to[k] \in RecordKey(circuits[k], Success)
                         ELSE to[k] = circuits[k]
  BY RecordTouches
<1>2. keysFor(c, Success) = allKeysFor(c)
  BY DEF keysFor, Success
<1>3. ASSUME NEW k \in Keys
      PROVE  /\ to[k] \in Circuits /\ Due(k, to[k], forgiven(c)[k])
             /\ forgiven(c)[k] \in 0 .. Banned
  <2>0. /\ circuits[k] \in Circuits /\ Due(k, circuits[k], blame[k])
        /\ blame[k] \in 0 .. Banned
        /\ forgiven(c)[k] = IF k \in KeysOf(allKeysFor(c)) /\ circuits[k].status # "Terminal"
                            THEN 0 ELSE blame[k]
        /\ 0 \in 0 .. Banned
    BY ConfigAssumption DEF Grounded, forgiven, Banned
  <2>1. CASE k \notin KeysOf(allKeysFor(c))
    BY <1>1, <1>2, <2>0, <2>1
  <2>2. CASE k \in KeysOf(allKeysFor(c))
    <3>1. to[k] \in RecordKey(circuits[k], Success)
      BY <1>1, <1>2, <2>2
    <3>2. to[k] \in Circuits
          /\ Due(k, to[k], IF circuits[k].status # "Terminal" THEN 0 ELSE blame[k])
      BY <2>0, <3>1, SuccessIsDue
    <3> QED BY <2>0, <2>2, <3>2
  <2> QED BY <2>1, <2>2
<1>4. forgiven(c) = [k \in Keys |-> forgiven(c)[k]]
  BY DEF forgiven
<1> QED BY <1>1, <1>3, <1>4

-----------------------------------------------------------------------------
(* What a call ends with.                                                  *)

(* Whatever happens to a call, its error blames the one at fault, as far   *)
(* as the breaker will count it (executors/executor.go:218-243,            *)
(* executors/cloudcode/errors.go:48-79).                                   *)
LEMMA ErrorsAreTyped ==
    /\ {NoError, ofRequest, ofCredential, ofProvider, anOutage} \subseteq Errors
    /\ \A n \in Nat : Error("Credential", TRUE, n) \in Errors
  BY DEF NoError, ofRequest, ofCredential, ofProvider, anOutage, Error, Errors, Scopes

LEMMA CallBlames ==
    ASSUME NEW s \in Services, s.dialect # "none", NEW cred \in Stored, NEW m,
           NEW stream \in BOOLEAN, NEW h \in Happenings
    PROVE  LET e == Call(s, cred, m, stream, h) IN
           /\ e \in Errors
           /\ e # NoError => e.scope \in Scopes
           /\ Blames(Culprits(s, cred, h), e)
<1> DEFINE early == noResponse(s, cred, h)
           Right(e) == /\ e \in Errors /\ (e # NoError => e.scope \in Scopes)
                       /\ Blames(Culprits(s, cred, h), e)
<1>1. /\ h.hint \in Nat /\ h.status \in Nat
      /\ s.dialect \in {"openai", "cloudcode"}
  BY DEF Happenings, Services
<1>2. /\ ofRequest.scope = "Request" /\ NoError.scope = "none"
      /\ ofCredential.scope = "Credential"
      /\ ofProvider.scope = "Provider" /\ ~ofProvider.retryable
      /\ anOutage.scope = "Provider" /\ anOutage.retryable
      /\ Error("Credential", TRUE, h.hint).scope = "Credential"
      /\ NoError \notin {ofRequest, ofCredential, ofProvider, anOutage}
  BY DEF NoError, ofRequest, ofCredential, ofProvider, anOutage, Error
<1>3. Right(NoError) /\ Right(ofRequest) /\ Right(ofProvider)
  BY <1>2, ErrorsAreTyped DEF Blames, Scopes
<1>4. CASE openCredential(cred) # NoError
  <2>1. early = ofCredential /\ Culprits(s, cred, h) = {"Refusal"}
    BY <1>4 DEF noResponse, openCredential, Culprits, Stored, Modes
  <2>2. Right(ofCredential)
    BY <1>2, <2>1, ErrorsAreTyped DEF Blames, Scopes
  <2> QED BY <1>1, <1>2, <2>1, <2>2 DEF Call, DoStream, Do, generate
<1>5. CASE openCredential(cred) = NoError
  <2>1. h.status = 429 /\ ~DeniedIP(s) /\ h.fault # "cancelled"
        => Right(Error("Credential", TRUE, h.hint))
    <3> DEFINE e == Error("Credential", TRUE, h.hint)
    <3>1. /\ e.scope = "Credential" /\ e.retryable = TRUE
          /\ e \in Errors /\ "Credential" \in Scopes
      BY <1>1, ErrorsAreTyped DEF Error, Scopes
    <3>2. h.status = 429 /\ ~DeniedIP(s) /\ h.fault # "cancelled"
            => "Limit" \in Culprits(s, cred, h)
      BY <1>5 DEF Culprits
    <3> HIDE DEF e
    <3>3. "Limit" \in Culprits(s, cred, h) => Right(e)
      BY <3>1 DEF Blames
    <3> QED BY <3>2, <3>3 DEF e
  <2>2. h.status \in {401, 403} /\ ~DeniedIP(s) /\ h.fault # "cancelled"
        => Right(ofCredential)
    <3>1. h.status \in {401, 403} /\ ~DeniedIP(s) /\ h.fault # "cancelled"
            => "Refusal" \in Culprits(s, cred, h)
      BY <1>5 DEF Culprits
    <3>2. "Refusal" \in Culprits(s, cred, h) => Right(ofCredential)
      BY <1>2, ErrorsAreTyped DEF Blames, Scopes
    <3> QED BY <3>1, <3>2
  <2>3. (h.fault # "none" \/ h.busy \/ h.status = 408 \/ h.status >= 500)
           /\ ~DeniedIP(s) /\ h.fault # "cancelled" => Right(anOutage)
    BY <1>1, <1>2, <1>5, ErrorsAreTyped DEF Blames, Culprits, Scopes
  <2> HIDE DEF Right
  <2>4. Right(early) /\ (early = NoError => ~DeniedIP(s) /\ h.fault # "cancelled")
    BY <1>2, <1>3, <1>5, <2>3 DEF noResponse, transportError
  <2>5. Right(transportError(s, h)) \/ h.fault = "none"
    BY <1>3, <2>3 DEF transportError
  <2>6. early = NoError => Right(upstreamError(h)) /\ Right(mapHTTPError(h))
    <3> SUFFICES ASSUME early = NoError
                 PROVE  Right(upstreamError(h)) /\ Right(mapHTTPError(h))
      OBVIOUS
    <3>1. ~DeniedIP(s) /\ h.fault # "cancelled"
      BY <2>4
    <3> HIDE DEF early
    <3>2. Right(upstreamError(h))
      <4>1. CASE h.status = 429
        <5>1. h.status \notin {401, 403} /\ ~(h.status = 408 \/ h.status >= 500)
          BY <4>1
        <5>2. upstreamError(h) = Error("Credential", TRUE, h.hint)
          BY <4>1, <5>1, ZenonT(60) DEF upstreamError
        <5> QED BY <2>1, <3>1, <4>1, <5>2
      <4>2. CASE h.status \in {401, 403}
        BY <2>2, <3>1, <4>2 DEF upstreamError
      <4>3. CASE h.status = 408 \/ h.status >= 500
        <5>1. h.status # 429 /\ h.status \notin {401, 403}
          BY <1>1, <4>3
        <5> QED BY <2>3, <3>1, <4>3, <5>1, ZenonT(60) DEF upstreamError
      <4>4. CASE ~(h.status \in {429, 401, 403, 408} \/ h.status >= 500)
        BY <1>3, <4>4, ZenonT(60) DEF upstreamError
      <4> QED BY <4>1, <4>2, <4>3, <4>4
    <3>3. Right(mapHTTPError(h))
      BY <1>3, <2>1, <2>3, <3>1, ZenonT(60) DEF mapHTTPError
    <3> QED BY <3>2, <3>3
  <2>7. Right(Call(s, cred, m, stream, h))
    <3>1. Right(DoStream(s, cred, h))
      BY <2>4, <2>6 DEF DoStream
    <3>2. Right(Do(s, cred, h))
      BY <1>3, <2>5, <3>1 DEF Do
    <3>3. Right(generate(s, cred, m, stream, h))
      BY <1>3, <2>4, <2>5, <2>6 DEF generate
    <3> QED BY <1>1, <3>1, <3>2, <3>3 DEF Call
  <2> QED BY <2>7 DEF Right
<1> QED BY <1>4, <1>5

-----------------------------------------------------------------------------
(* Sequences: what is still to do, what was kept, what was called.         *)
LEMMA TailEnds ==
    ASSUME NEW S, NEW s \in Seq(S), NEW t \in Seq(S), s # <<>>, EndOf(s, t)
    PROVE  /\ EndOf(Tail(s), t) /\ Tail(s) \in Seq(S) /\ Len(Tail(s)) = Len(s) - 1
           /\ Len(t) - Len(s) + 1 \in 1 .. Len(t)
           /\ Head(s) = t[Len(t) - Len(s) + 1] /\ Head(s) \in S
<1>1. /\ Tail(s) \in Seq(S) /\ Len(Tail(s)) = Len(s) - 1 /\ Head(s) \in S
      /\ Head(s) = s[1] /\ \A i \in 1 .. Len(s) - 1 : Tail(s)[i] = s[i + 1]
      /\ Len(s) \in Nat /\ Len(t) \in Nat /\ Len(s) > 0
  OBVIOUS
<1>2. ASSUME NEW i \in 1 .. Len(s) - 1
      PROVE  Tail(s)[i] = t[Len(t) - (Len(s) - 1) + i]
  <2>1. i + 1 \in 1 .. Len(s)
        /\ Len(t) - Len(s) + (i + 1) = Len(t) - (Len(s) - 1) + i
    BY <1>1
  <2> QED BY <1>1, <2>1 DEF EndOf
<1>3. 1 \in 1 .. Len(s) /\ Len(s) <= Len(t)
  BY <1>1 DEF EndOf
<1>4. EndOf(Tail(s), t)
  <2>1. \A i \in 1 .. Len(Tail(s)) : Tail(s)[i] = t[Len(t) - Len(Tail(s)) + i]
    BY <1>1, <1>2
  <2>2. Len(Tail(s)) <= Len(t)
    BY <1>1, <1>3
  <2> QED BY ONLY <2>1, <2>2 DEF EndOf
<1>5. s[1] = t[Len(t) - Len(s) + 1]
  BY <1>3 DEF EndOf
<1>6. Len(t) - Len(s) + 1 \in 1 .. Len(t)
  BY <1>1, <1>3
<1> QED BY ONLY <1>1, <1>4, <1>5, <1>6

LEMMA AllEnds == ASSUME NEW S, NEW t \in Seq(S) PROVE EndOf(t, t)
  BY DEF EndOf

LEMMA KeptMore ==
    ASSUME NEW q, NEW q2, NEW d \in Nat, NEW d2 \in Nat, d <= d2, Kept(q, d),
           q2.kept = q.kept, q2.plan = q.plan
    PROVE  Kept(q2, d2)
<1>1. PICK g \in [DOMAIN q.kept -> 1..d] :
        Increasing(g) /\ \A i \in DOMAIN q.kept : q.kept[i] = q.plan.steps[g[i]]
  BY DEF Kept
<1>2. g \in [DOMAIN q.kept -> 1..d2]
  OBVIOUS
<1> QED BY <1>1, <1>2 DEF Kept

LEMMA MadeMore ==
    ASSUME NEW w, NEW q, NEW q2, NEW d \in Nat, NEW d2 \in Nat, d <= d2, Made(w, q, d),
           q2.kept = q.kept, q2.calls = q.calls
    PROVE  Made(w, q2, d2)
<1>1. PICK f \in [DOMAIN q.calls -> 1..d] :
        Increasing(f) /\ \A i \in DOMAIN q.calls : Suits(w, q.calls[i].cand, q.kept[f[i]])
  BY DEF Made
<1>2. f \in [DOMAIN q.calls -> 1..d2]
  OBVIOUS
<1> QED BY <1>1, <1>2 DEF Made

(* One more, behind the others.                                            *)
LEMMA OneMore ==
    ASSUME NEW n \in Nat, NEW d \in Nat, NEW f \in [1..n -> 1..d], Increasing(f)
    PROVE  \E g : /\ g \in [1 .. n + 1 -> 1 .. d + 1] /\ Increasing(g)
                  /\ g[n + 1] = d + 1 /\ \A i \in 1..n : g[i] = f[i]
<1> DEFINE g == [i \in 1 .. n + 1 |-> IF i \in 1..n THEN f[i] ELSE d + 1]
<1>1. /\ g \in [1 .. n + 1 -> 1 .. d + 1] /\ g[n + 1] = d + 1
      /\ \A i \in 1..n : g[i] = f[i]
  OBVIOUS
<1>2. Increasing(g)
  <2> SUFFICES ASSUME NEW i \in 1 .. n + 1, NEW j \in 1 .. n + 1, i < j
               PROVE  g[i] < g[j]
    BY <1>1 DEF Increasing
  <2>1. i \in 1..n /\ f[i] \in 1..d
    OBVIOUS
  <2>2. CASE j \in 1..n
    BY <1>1, <2>1, <2>2 DEF Increasing
  <2>3. CASE j \notin 1..n
    BY <2>1, <2>3
  <2> QED BY <2>2, <2>3
<1> QED BY <1>1, <1>2

LEMMA KeepExtends ==
    ASSUME NEW q \in Inquiries, NEW q2, NEW d \in Nat, Kept(q, d), NEW c \in Candidates,
           c = q.plan.steps[d + 1], q2.kept = Append(q.kept, c), q2.plan = q.plan
    PROVE  Kept(q2, d + 1)
<1> DEFINE n == Len(q.kept)
<1>1. /\ q.kept \in Seq(Candidates) /\ n \in Nat
      /\ DOMAIN q.kept = 1..n /\ DOMAIN q2.kept = 1 .. n + 1
      /\ q2.kept[n + 1] = c /\ \A i \in 1..n : q2.kept[i] = q.kept[i]
  <2>1. q.kept \in Seq(Candidates)
    BY DEF Inquiries
  <2> QED BY <2>1, AppendProperties, LenProperties
<1> HIDE DEF n
<1>2. PICK f \in [1..n -> 1..d] :
        Increasing(f) /\ \A i \in 1..n : q.kept[i] = q.plan.steps[f[i]]
  BY <1>1 DEF Kept
<1>3. PICK g : /\ g \in [1 .. n + 1 -> 1 .. d + 1] /\ Increasing(g)
               /\ g[n + 1] = d + 1 /\ \A i \in 1..n : g[i] = f[i]
  BY <1>1, <1>2, OneMore
<1>4. ASSUME NEW i \in 1 .. n + 1 PROVE q2.kept[i] = q2.plan.steps[g[i]]
  BY <1>1, <1>2, <1>3
<1>5. DOMAIN q2.kept = 1 .. n + 1
  BY <1>1
<1> QED BY <1>3, <1>4, <1>5 DEF Kept

LEMMA CallExtends ==
    ASSUME NEW w, NEW q \in Inquiries, NEW q2, NEW d \in Nat, Made(w, q, d),
           NEW x \in [cand : Candidates, end : Scopes \cup {"ok"}],
           Suits(w, x.cand, q.kept[d + 1]),
           q2.calls = Append(q.calls, x), q2.kept = q.kept
    PROVE  Made(w, q2, d + 1)
<1> DEFINE n == Len(q.calls)
<1>1. /\ q.calls \in Seq([cand : Candidates, end : Scopes \cup {"ok"}]) /\ n \in Nat
      /\ DOMAIN q.calls = 1..n /\ DOMAIN q2.calls = 1 .. n + 1
      /\ q2.calls[n + 1] = x /\ \A i \in 1..n : q2.calls[i] = q.calls[i]
  <2>1. q.calls \in Seq([cand : Candidates, end : Scopes \cup {"ok"}])
    BY DEF Inquiries
  <2> QED BY <2>1, AppendProperties, LenProperties
<1> HIDE DEF n
<1>2. PICK f \in [1..n -> 1..d] :
        Increasing(f) /\ \A i \in 1..n : Suits(w, q.calls[i].cand, q.kept[f[i]])
  BY <1>1 DEF Made
<1>3. PICK g : /\ g \in [1 .. n + 1 -> 1 .. d + 1] /\ Increasing(g)
               /\ g[n + 1] = d + 1 /\ \A i \in 1..n : g[i] = f[i]
  BY <1>1, <1>2, OneMore
<1>4. ASSUME NEW i \in 1 .. n + 1 PROVE Suits(w, q2.calls[i].cand, q2.kept[g[i]])
  <2>1. CASE i \in 1..n
    BY <1>1, <1>2, <1>3, <2>1
  <2>2. CASE i = n + 1
    BY <1>1, <1>3, <2>2
  <2> QED BY <1>1, <2>1, <2>2
<1> QED BY <1>1, <1>3, <1>4 DEF Made

-----------------------------------------------------------------------------
(* One request, from arrival to reply.                                     *)

LEMMA IdleSound == \A w : Sound(w, Idle)
<1>1. NoError \in Errors
  BY ErrorsAreTyped
<1>2. Idle \in Inquiries
  <2>1. <<>> \in Seq(Candidates)
        /\ <<>> \in Seq([cand : Candidates, end : Scopes \cup {"ok"}])
    OBVIOUS
  <2> QED BY <1>1, <2>1 DEF Idle, Inquiries, Stages, Replies
<1>3. Idle.pc = "idle" /\ Len(Idle.calls) = 0 /\ Idle.attempts = 0 /\ 0 <= MaxRounds(Idle)
  BY DEF Idle, MaxRounds
<1> QED BY <1>2, <1>3 DEF Sound, AtHand, Tale, Path

(* The preflight (Resolve, router/resolver.go:93-176).                     *)
LEMMA StartSound ==
    ASSUME NEW w, NEW p \in [steps : Seq(Candidates), auto : BOOLEAN],
           NEW q2, q2 = [Idle EXCEPT !.pc = "preflight", !.plan = p, !.todo = p.steps]
    PROVE  Sound(w, q2)
<1>1. Idle \in Inquiries
  BY IdleSound DEF Sound
<1>2. /\ q2 \in Inquiries /\ q2.pc = "preflight" /\ q2.plan = p /\ q2.todo = p.steps
      /\ q2.kept = <<>> /\ q2.calls = <<>> /\ q2.attempts = 0
  BY <1>1 DEF Inquiries, Idle, Stages
<1>3. EndOf(q2.todo, q2.plan.steps) /\ p.steps \in Seq(Candidates)
  BY <1>2, AllEnds
<1>4. Kept(q2, 0)
  <2>1. [i \in DOMAIN q2.kept |-> 1] \in [DOMAIN q2.kept -> 1..0] /\ DOMAIN q2.kept = {}
    BY <1>2
  <2> QED BY <2>1 DEF Kept, Increasing
<1>5. Len(q2.plan.steps) - Len(q2.todo) = 0
  BY <1>2, <1>3
<1>6. AtHand(w, q2) /\ Tale(q2)
  BY <1>2 DEF AtHand, Tale, MaxRounds
<1> QED BY <1>2, <1>3, <1>4, <1>5, <1>6 DEF Sound, Path

LEMMA PreflightSound ==
    ASSUME NEW w, NEW q, Sound(w, q), q.pc = "preflight", q.todo # <<>>,
           NEW kept \in {q.kept, Append(q.kept, Head(q.todo))},
           NEW q2, q2 = [q EXCEPT !.todo = Tail(@), !.kept = kept]
    PROVE  Sound(w, q2)
<1> DEFINE steps == q.plan.steps
           d == Len(steps) - Len(q.todo)
<1>1. /\ q \in Inquiries /\ q.todo \in Seq(Candidates) /\ steps \in Seq(Candidates)
      /\ q.kept \in Seq(Candidates) /\ q.attempts \in Nat
      /\ EndOf(q.todo, steps) /\ Kept(q, d) /\ q.calls = <<>>
  BY DEF Sound, Path, Inquiries
<1> HIDE DEF steps
<1>2. /\ EndOf(Tail(q.todo), steps) /\ Tail(q.todo) \in Seq(Candidates)
      /\ Len(Tail(q.todo)) = Len(q.todo) - 1 /\ Len(steps) - Len(q.todo) + 1 \in 1 .. Len(steps)
      /\ Head(q.todo) = steps[Len(steps) - Len(q.todo) + 1] /\ Head(q.todo) \in Candidates
  BY <1>1, TailEnds
<1>3. d \in Nat /\ Len(steps) \in Nat /\ Len(q.todo) \in Nat
  BY <1>1, <1>2
<1>4. Append(q.kept, Head(q.todo)) \in Seq(Candidates)
  BY <1>1, <1>2
<1>5. /\ q2 \in Inquiries /\ q2.pc = "preflight" /\ q2.plan = q.plan
      /\ q2.todo = Tail(q.todo) /\ q2.calls = <<>> /\ q2.attempts = q.attempts
      /\ q2.kept = kept
  BY <1>1, <1>2, <1>4 DEF Inquiries
<1>6. Len(q2.plan.steps) - Len(q2.todo) = d + 1 /\ q2.plan.steps = steps
  <2>1. q2.plan.steps = steps
    BY <1>5 DEF steps
  <2>2. Len(steps) - (Len(q.todo) - 1) = d + 1
    BY <1>3
  <2> QED BY <1>2, <1>5, <2>1, <2>2
<1>7. Head(q.todo) = q.plan.steps[d + 1]
  BY <1>2 DEF steps
<1> HIDE DEF d
<1>8. Kept(q2, d + 1)
  <2>1. CASE kept = q.kept
    <3>1. /\ d + 1 \in Nat /\ d <= d + 1 /\ Kept(q, d)
          /\ q2.kept = q.kept /\ q2.plan = q.plan
      BY <1>1, <1>3, <1>5, <2>1
    <3> QED BY <1>3, <3>1, KeptMore
  <2>2. CASE kept = Append(q.kept, Head(q.todo))
    BY <1>1, <1>2, <1>3, <1>5, <1>7, <2>2, KeepExtends
  <2> QED BY <2>1, <2>2
<1>9. Path(w, q2)
  BY <1>2, <1>5, <1>6, <1>8 DEF Path
<1>10. AtHand(w, q2) /\ Tale(q2)
  <2>1. q.attempts = 0 /\ Len(q2.calls) = 0
    BY <1>1, <1>5 DEF Sound, Tale
  <2>2. 0 <= MaxRounds(q2)
    BY <1>5 DEF MaxRounds, Inquiries
  <2> QED BY <1>5, <2>1, <2>2 DEF AtHand, Tale
<1> QED BY <1>5, <1>9, <1>10 DEF Sound

LEMMA NoneMade == ASSUME NEW w, NEW q, q.calls = <<>> PROVE Made(w, q, 0)
<1>1. DOMAIN q.calls = {}
  OBVIOUS
<1>2. [i \in {} |-> 1] \in [{} -> 1..0] /\ Increasing([i \in {} |-> 1])
  BY DEF Increasing
<1> QED BY <1>1, <1>2 DEF Made

LEMMA NoCandidateSound ==
    ASSUME NEW w, NEW q, Sound(w, q), q.pc = "preflight", q.todo = <<>>, q.kept = <<>>,
           NEW q2, q2 = [q EXCEPT !.pc = "done", !.reply = "no candidate"]
    PROVE  Sound(w, q2)
<1>1. /\ q \in Inquiries /\ q.plan.steps \in Seq(Candidates) /\ q.calls = <<>>
      /\ Kept(q, Len(q.plan.steps) - Len(q.todo)) /\ Len(q.todo) = 0
  BY DEF Sound, Path, Inquiries
<1>2. /\ q2 \in Inquiries /\ q2.plan = q.plan /\ q2.kept = <<>> /\ q2.todo = <<>>
      /\ q2.calls = <<>> /\ q2.pc = "done" /\ q2.reply = "no candidate" /\ q2.kept = q.kept
  BY <1>1 DEF Inquiries, Stages, Replies
<1>3. Len(q.plan.steps) \in Nat /\ Len(q.plan.steps) - 0 = Len(q.plan.steps)
  BY <1>1
<1>4. EndOf(q2.todo, q2.kept) /\ Kept(q2, Len(q2.plan.steps)) /\ Taken(q2) = 0
  <2>1. /\ Kept(q, Len(q.plan.steps)) /\ Len(q.plan.steps) \in Nat
        /\ Len(q.plan.steps) <= Len(q.plan.steps) /\ q2.kept = q.kept /\ q2.plan = q.plan
    BY <1>1, <1>2, <1>3
  <2>2. Kept(q2, Len(q2.plan.steps))
    BY <2>1, KeptMore
  <2> QED BY <1>2, <2>2 DEF Taken, EndOf
<1>5. Path(w, q2)
  BY <1>2, <1>4, NoneMade DEF Path
<1>6. Answer(q2)
  BY <1>2 DEF Answer, Outcome
<1> QED BY <1>2, <1>5, <1>6 DEF Sound, AtHand, Tale

LEMMA ResolvedSound ==
    ASSUME NEW w, NEW q, Sound(w, q), q.pc = "preflight", q.todo = <<>>,
           NEW q2, q2 = [q EXCEPT !.pc = "next", !.todo = q.kept]
    PROVE  Sound(w, q2)
<1>1. /\ q \in Inquiries /\ q.plan.steps \in Seq(Candidates) /\ q.kept \in Seq(Candidates)
      /\ Kept(q, Len(q.plan.steps) - Len(q.todo)) /\ Len(q.todo) = 0 /\ q.calls = <<>>
  BY DEF Sound, Path, Inquiries
<1>2. q.attempts = 0
  BY <1>1 DEF Sound, Tale
<1>3. /\ q2 \in Inquiries /\ q2.plan = q.plan /\ q2.kept = q.kept /\ q2.todo = q.kept
      /\ q2.calls = <<>> /\ q2.attempts = 0 /\ q2.pc = "next"
  BY <1>1, <1>2 DEF Inquiries, Stages
<1>4. Len(q.plan.steps) \in Nat /\ Len(q.plan.steps) - 0 = Len(q.plan.steps)
  BY <1>1
<1>5. Kept(q2, Len(q2.plan.steps))
  <2>1. /\ Kept(q, Len(q.plan.steps)) /\ Len(q.plan.steps) <= Len(q.plan.steps)
    BY <1>1, <1>4
  <2>2. q2.kept = q.kept /\ q2.plan = q.plan
    BY <1>3
  <2>3. Kept(q2, Len(q.plan.steps))
    BY <1>4, <2>1, <2>2, KeptMore
  <2> QED BY <2>2, <2>3
<1>6. EndOf(q2.todo, q2.kept) /\ Taken(q2) = 0
  <2>1. EndOf(q.kept, q.kept) /\ Len(q.kept) \in Nat
    BY <1>1, AllEnds
  <2> QED BY <1>3, <2>1 DEF Taken
<1>7. Path(w, q2)
  BY <1>3, <1>5, <1>6, NoneMade DEF Path
<1>8. AtHand(w, q2) /\ Tale(q2)
  <2>1. 0 <= MaxRounds(q2) /\ Len(q2.calls) = 0
    <3>1. Len(q2.kept) \in Nat
      BY <1>1, <1>3
    <3> QED BY <1>3, <3>1 DEF MaxRounds
  <2> QED BY <1>3, <2>1 DEF AtHand, Tale
<1> QED BY <1>3, <1>7, <1>8 DEF Sound

-----------------------------------------------------------------------------
(* The attempt loop (run, dispatcher.go:150-224). What it leaves alone:    *)
LEMMA LoopFacts ==
    ASSUME NEW w, NEW q, Sound(w, q), q.pc \notin {"idle", "preflight"}
    PROVE  /\ q \in Inquiries /\ q.todo \in Seq(Candidates) /\ q.kept \in Seq(Candidates)
           /\ q.plan.steps \in Seq(Candidates) /\ q.lastErr \in Errors /\ q.attempts \in Nat
           /\ q.cancelled \in BOOLEAN /\ Len(q.calls) \in Nat
           /\ EndOf(q.todo, q.kept) /\ Kept(q, Len(q.plan.steps)) /\ Taken(q) \in Nat
<1>1. /\ q \in Inquiries /\ q.todo \in Seq(Candidates) /\ q.kept \in Seq(Candidates)
      /\ q.plan.steps \in Seq(Candidates) /\ q.lastErr \in Errors /\ q.attempts \in Nat
      /\ q.calls \in Seq([cand : Candidates, end : Scopes \cup {"ok"}])
      /\ q.cancelled \in BOOLEAN
  BY DEF Sound, Inquiries
<1>2. EndOf(q.todo, q.kept) /\ Kept(q, Len(q.plan.steps))
  BY DEF Sound, Path
<1>3. Taken(q) \in Nat
  BY <1>1, <1>2 DEF Taken, EndOf
<1>4. Len(q.calls) \in Nat
  BY <1>1
<1> QED BY <1>1, <1>2, <1>3, <1>4

(* A step that takes no candidate and makes no call.                       *)
Alike(q, q2) == /\ q2.plan = q.plan /\ q2.kept = q.kept /\ q2.todo = q.todo
                 /\ q2.calls = q.calls

LEMMA BesidePath ==
    ASSUME NEW w, NEW q, Sound(w, q), q.pc \notin {"idle", "preflight"},
           NEW q2, Alike(q, q2), q2.pc \in {"next", "cooldown", "done"}
    PROVE  Path(w, q2)
<1>1. EndOf(q2.todo, q2.kept) /\ Kept(q, Len(q.plan.steps)) /\ Len(q.plan.steps) \in Nat
      /\ Taken(q) \in Nat /\ Taken(q2) = Taken(q)
  BY LoopFacts DEF Alike, Taken
<1>2. Kept(q2, Len(q2.plan.steps))
  <2>1. /\ Len(q.plan.steps) <= Len(q.plan.steps) /\ q2.kept = q.kept /\ q2.plan = q.plan
    BY <1>1 DEF Alike
  <2>2. Kept(q2, Len(q.plan.steps))
    BY <1>1, <2>1, KeptMore
  <2> QED BY <2>1, <2>2
<1>3. Made(w, q2, Taken(q2))
  <2>1. q2.kept = q.kept /\ q2.calls = q.calls
    BY DEF Alike
  <2>2. CASE q.pc \in {"next", "cooldown", "done"}
    <3>1. Made(w, q, Taken(q)) /\ Taken(q) <= Taken(q)
      BY <1>1, <2>2 DEF Sound, Path
    <3>2. Made(w, q2, Taken(q))
      BY <1>1, <2>1, <3>1, MadeMore
    <3> QED BY <1>1, <3>2
  <2>3. CASE q.pc \in {"resolve", "build", "call"}
    <3>1. Made(w, q, Taken(q) - 1) /\ Taken(q) - 1 \in Nat /\ Taken(q) - 1 <= Taken(q)
      BY <1>1, <2>3 DEF Sound, Path
    <3>2. Made(w, q2, Taken(q))
      BY <1>1, <2>1, <3>1, MadeMore
    <3> QED BY <1>1, <3>2
  <2>4. q.pc \in Stages
    BY LoopFacts DEF Inquiries
  <2> QED BY <2>2, <2>3, <2>4 DEF Stages
<1> QED BY <1>1, <1>2, <1>3 DEF Path

(* A candidate that was chosen before is in hand.                          *)
LEMMA InHandPath ==
    ASSUME NEW w, NEW q, Sound(w, q), q.pc \notin {"idle", "preflight"},
           Taken(q) > 0, Made(w, q, Taken(q) - 1),
           NEW q2, Alike(q, q2), q2.pc \in {"build", "call"},
           Suits(w, q2.cand, q.kept[Taken(q)])
    PROVE  Path(w, q2)
<1>1. EndOf(q2.todo, q2.kept) /\ Kept(q, Len(q.plan.steps)) /\ Len(q.plan.steps) \in Nat
      /\ Taken(q) \in Nat /\ Taken(q2) = Taken(q) /\ q2.kept = q.kept /\ q2.calls = q.calls
      /\ q2.plan = q.plan
  BY LoopFacts DEF Alike, Taken
<1>2. Kept(q2, Len(q2.plan.steps))
  <2>1. Len(q.plan.steps) <= Len(q.plan.steps) /\ q2.kept = q.kept /\ q2.plan = q.plan
    BY <1>1
  <2>2. Kept(q2, Len(q.plan.steps))
    BY <1>1, <2>1, KeptMore
  <2> QED BY <2>1, <2>2
<1>3. Made(w, q2, Taken(q) - 1)
  <2>1. /\ Taken(q) - 1 \in Nat /\ Taken(q) - 1 <= Taken(q) - 1
        /\ q2.kept = q.kept /\ q2.calls = q.calls
    BY <1>1
  <2> QED BY <2>1, MadeMore
<1> QED BY <1>1, <1>2, <1>3 DEF Path

(* Before the reply every call has failed in a curable way.                *)
LEMMA Unanswered ==
    ASSUME NEW w, NEW q, Sound(w, q), q.pc # "done"
    PROVE  /\ Outcome(q) \notin {"ok", "Request"}
           /\ \A i \in 1 .. Len(q.calls) : Curable(q.calls[i].end)
           /\ Len(q.calls) \in Nat
<1>1. /\ \A i \in 1 .. Len(q.calls) : Curable(q.calls[i].end)
      /\ q.calls \in Seq([cand : Candidates, end : Scopes \cup {"ok"}])
  BY DEF Sound, Tale, Inquiries
<1>2. Len(q.calls) \in Nat
  BY <1>1
<1>3. CASE Len(q.calls) = 0
  BY <1>1, <1>3 DEF Outcome
<1>4. CASE Len(q.calls) # 0
  <2>1. Len(q.calls) \in 1 .. Len(q.calls)
    BY <1>2, <1>4
  <2> QED BY <1>1, <1>4, <2>1, <1>2 DEF Outcome, Curable
<1> QED BY <1>1, <1>2, <1>3, <1>4

(* The next candidate is taken (NextCandidate).                            *)
LEMMA ChooseSound ==
    ASSUME NEW w, NEW q, Sound(w, q), q.pc = "next", q.todo # <<>>,
           q.attempts < MaxRounds(q), NEW ids \in SUBSET Credentials,
           \A k \in ids : IF Head(q.todo).credential # None
                          THEN k = Head(q.todo).credential
                          ELSE Serves(w, k, Head(q.todo).provider),
           NEW q2, q2 = [q EXCEPT !.pc = "resolve", !.todo = Tail(@), !.cand = Head(q.todo),
                                  !.ids = ids]
    PROVE  Sound(w, q2)
<1>1. /\ q \in Inquiries /\ q.todo \in Seq(Candidates) /\ q.kept \in Seq(Candidates)
      /\ Kept(q, Len(q.plan.steps)) /\ Len(q.plan.steps) \in Nat /\ EndOf(q.todo, q.kept)
      /\ Len(q.kept) \in Nat /\ Len(q.todo) \in Nat /\ Taken(q) \in Nat
  BY LoopFacts
<1>2. /\ EndOf(Tail(q.todo), q.kept) /\ Tail(q.todo) \in Seq(Candidates)
      /\ Len(Tail(q.todo)) = Len(q.todo) - 1
      /\ Head(q.todo) = q.kept[Len(q.kept) - Len(q.todo) + 1] /\ Head(q.todo) \in Candidates
  BY <1>1, TailEnds
<1>3. /\ q2 \in Inquiries /\ q2.pc = "resolve" /\ q2.plan = q.plan /\ q2.kept = q.kept
      /\ q2.todo = Tail(q.todo) /\ q2.calls = q.calls /\ q2.cand = Head(q.todo)
      /\ q2.ids = ids /\ q2.attempts = q.attempts /\ q2.lastErr = q.lastErr
  BY <1>1, <1>2 DEF Inquiries, Stages
<1>4. Taken(q2) = Taken(q) + 1 /\ q2.cand = q2.kept[Taken(q2)]
  <2>1. Len(q.kept) - Len(q.todo) + 1 = Len(q.kept) - (Len(q.todo) - 1)
    BY <1>1
  <2> QED BY <1>2, <1>3, <2>1 DEF Taken
<1>5. Made(w, q2, Taken(q2) - 1) /\ Taken(q2) > 0
  <2>1. Made(w, q, Taken(q)) /\ Taken(q) <= Taken(q) /\ q2.kept = q.kept /\ q2.calls = q.calls
    BY <1>1, <1>3 DEF Sound, Path
  <2>2. Made(w, q2, Taken(q))
    BY <1>1, <2>1, MadeMore
  <2> QED BY <1>1, <1>4, <2>2
<1>6. Kept(q2, Len(q2.plan.steps))
  <2>1. Len(q.plan.steps) <= Len(q.plan.steps) /\ q2.kept = q.kept /\ q2.plan = q.plan
    BY <1>1, <1>3
  <2>2. Kept(q2, Len(q.plan.steps))
    BY <1>1, <2>1, KeptMore
  <2> QED BY <2>1, <2>2
<1>7. Path(w, q2)
  BY <1>2, <1>3, <1>4, <1>5, <1>6 DEF Path
<1>8. AtHand(w, q2) /\ Tale(q2)
  BY <1>2, <1>3 DEF AtHand, Sound, Tale, MaxRounds
<1> QED BY <1>3, <1>7, <1>8 DEF Sound

(* The loop ends without a winner (NoWinner).                              *)
Closing(q, what) ==
    /\ what \in {"max rounds", "exhausted", "no attempts", "no attempts: breaker",
                 "no attempts: quota"}
    /\ what = "max rounds" => q.attempts > 0 /\ q.attempts >= MaxRounds(q)
    /\ what = "exhausted"  => q.attempts > 0
    /\ what \notin {"max rounds", "exhausted"} => q.attempts = 0

LEMMA NoWinnerSound ==
    ASSUME NEW w, NEW q, Sound(w, q), q.pc = "next", NEW what, Closing(q, what),
           NEW q2, q2 = [q EXCEPT !.pc = "done", !.reply = what]
    PROVE  Sound(w, q2)
<1>1. q \in Inquiries /\ q.attempts \in Nat /\ Len(q.calls) \in Nat
  BY LoopFacts
<1>2. /\ q2 \in Inquiries /\ q2.pc = "done" /\ q2.plan = q.plan /\ q2.kept = q.kept
      /\ q2.todo = q.todo /\ q2.calls = q.calls /\ q2.reply = what /\ q2.lastErr = q.lastErr
  BY <1>1 DEF Inquiries, Stages, Replies, Closing
<1>3. Path(w, q2)
  BY <1>2, BesidePath DEF Alike
<1>4. /\ Outcome(q) \notin {"ok", "Request"}
      /\ \A i \in 1 .. Len(q.calls) : Curable(q.calls[i].end)
  BY Unanswered
<1>5. /\ q.attempts = Len(q.calls) /\ q.attempts <= MaxRounds(q)
      /\ Len(q.calls) > 0 => q.lastErr # NoError
  BY DEF Sound, Tale
<1>6. MaxRounds(q2) = MaxRounds(q) /\ Outcome(q2) = Outcome(q) /\ MaxRounds(q) \in Nat
  <2>1. Len(q.kept) \in Nat
    BY LoopFacts
  <2>2. MaxRounds(q) \in Nat
    BY <2>1 DEF MaxRounds
  <2>3. MaxRounds(q2) = MaxRounds(q)
    BY <1>2 DEF MaxRounds
  <2>4. Outcome(q2) = Outcome(q)
    BY <1>2 DEF Outcome
  <2> QED BY <2>2, <2>3, <2>4
<1>7. Answer(q2)
  <2>1. \A i \in 1 .. Len(q2.calls) - 1 : Curable(q2.calls[i].end)
    <3>1. \A i \in 1 .. Len(q.calls) - 1 : i \in 1 .. Len(q.calls)
      BY <1>1
    <3> QED BY <1>2, <1>4, <3>1
  <2>2. what = "max rounds" => Len(q.calls) = MaxRounds(q)
    <3>1. MaxRounds(q) \in Nat /\ q.attempts \in Nat /\ q.attempts <= MaxRounds(q)
      BY <1>1, <1>5, <1>6
    <3>2. q.attempts >= MaxRounds(q) => q.attempts = MaxRounds(q)
      BY <3>1
    <3> QED BY <1>5, <3>2 DEF Closing
  <2>3. what = "exhausted" => Len(q.calls) \in 1 .. MaxRounds(q) /\ q.lastErr # NoError
    BY <1>1, <1>5, <1>6 DEF Closing
  <2>4. /\ what \notin {"ok", "client error", "no candidate", "timeout"}
        /\ what \notin {"max rounds", "exhausted"} => Len(q.calls) = 0
    BY <1>5 DEF Closing
  <2> QED BY <1>2, <1>4, <1>6, <2>1, <2>2, <2>3, <2>4 DEF Answer
<1> QED BY <1>2, <1>3, <1>7 DEF Sound, AtHand, Tale

(* A credential passed and was loaded (TryCredential).                     *)
LEMMA FoundSound ==
    ASSUME NEW w, NEW q, Sound(w, q), q.pc = "resolve", NEW k \in q.ids,
           NEW c, c = [q.cand EXCEPT !.credential = k],
           NEW q2, q2 = [q EXCEPT !.pc = "build", !.cand = c, !.ids = {}]
    PROVE  Sound(w, q2)
<1>1. /\ q \in Inquiries /\ Kept(q, Len(q.plan.steps)) /\ Len(q.plan.steps) \in Nat
      /\ EndOf(q.todo, q.kept) /\ Taken(q) \in Nat
  BY LoopFacts
<1>2. /\ Taken(q) > 0 /\ Made(w, q, Taken(q) - 1) /\ q.cand = q.kept[Taken(q)]
      /\ IF q.cand.credential # None THEN k = q.cand.credential
         ELSE Serves(w, k, q.cand.provider)
      /\ q.cand \in Candidates /\ k \in Credentials
  BY <1>1 DEF Sound, Path, AtHand, Inquiries
<1>3. /\ c \in Candidates /\ c.provider = q.cand.provider /\ c.model = q.cand.model
      /\ c.credential = k
  BY <1>2 DEF Candidates
<1>4. Suits(w, c, q.kept[Taken(q)])
  BY <1>2, <1>3 DEF Suits
<1>5. /\ q2 \in Inquiries /\ q2.pc = "build" /\ Alike(q, q2) /\ q2.cand = c
      /\ q2.attempts = q.attempts /\ q2.lastErr = q.lastErr
  BY <1>1, <1>3 DEF Inquiries, Stages, Alike
<1>6. Path(w, q2)
  <2>1. /\ Sound(w, q) /\ q.pc \notin {"idle", "preflight"} /\ q2.pc \in {"build", "call"}
        /\ Suits(w, q2.cand, q.kept[Taken(q)])
    BY <1>4, <1>5
  <2> QED BY ONLY <1>2, <1>5, <2>1, InHandPath
<1>7. AtHand(w, q2) /\ Tale(q2)
  BY <1>2, <1>3, <1>5 DEF AtHand, Sound, Tale, MaxRounds, Alike
<1> QED BY <1>5, <1>6, <1>7 DEF Sound

(* It did not, and others are left.                                        *)
LEMMA AnotherSound ==
    ASSUME NEW w, NEW q, Sound(w, q), q.pc = "resolve", NEW k,
           NEW q2, q2 = [q EXCEPT !.ids = @ \ {k}]
    PROVE  Sound(w, q2)
<1>1. q \in Inquiries
  BY LoopFacts
<1>2. /\ q2 \in Inquiries /\ q2.pc = "resolve" /\ q2.plan = q.plan /\ q2.kept = q.kept
      /\ q2.todo = q.todo /\ q2.calls = q.calls /\ q2.cand = q.cand
      /\ q2.attempts = q.attempts /\ q2.lastErr = q.lastErr /\ q2.ids \subseteq q.ids
  BY <1>1 DEF Inquiries
<1>3. EndOf(q2.todo, q2.kept) /\ Taken(q2) = Taken(q) /\ Len(q.plan.steps) \in Nat
      /\ Kept(q, Len(q.plan.steps)) /\ Taken(q) \in Nat
  BY <1>2, LoopFacts DEF Taken
<1>4. Kept(q2, Len(q2.plan.steps))
  <2>1. Len(q.plan.steps) <= Len(q.plan.steps) /\ q2.kept = q.kept /\ q2.plan = q.plan
    BY <1>2, <1>3
  <2>2. Kept(q2, Len(q.plan.steps))
    BY <1>3, <2>1, KeptMore
  <2> QED BY <2>1, <2>2
<1>5. Taken(q) > 0 /\ Made(w, q2, Taken(q) - 1)
  <2> DEFINE d == Taken(q) - 1
  <2>1. Taken(q) > 0 /\ Made(w, q, d) /\ d \in Nat
    BY <1>3 DEF Sound, Path
  <2> HIDE DEF d
  <2>2. d <= d /\ q2.kept = q.kept /\ q2.calls = q.calls
    BY <1>2, <2>1
  <2>3. Made(w, q2, d)
    BY <2>1, <2>2, MadeMore
  <2> QED BY <2>1, <2>3 DEF d
<1>6. /\ q2.cand = q2.kept[Taken(q2)]
      /\ \A l \in q2.ids : IF q2.cand.credential # None THEN l = q2.cand.credential
                           ELSE Serves(w, l, q2.cand.provider)
  BY <1>2, <1>3 DEF Sound, Path
<1>7. Path(w, q2)
  BY <1>2, <1>3, <1>4, <1>5, <1>6 DEF Path
<1>8. AtHand(w, q2) /\ Tale(q2)
  BY <1>2 DEF AtHand, Sound, Tale, MaxRounds
<1> QED BY <1>2, <1>7, <1>8 DEF Sound

(* Nothing came of the candidate before a call: no account passed, or no   *)
(* executor can be built.                                                  *)
LEMMA SkippedSound ==
    ASSUME NEW w, NEW q, Sound(w, q), q.pc \in {"resolve", "build"},
           NEW ids \in SUBSET Credentials, NEW skips \in SUBSET {"breaker", "quota", "credential"},
           NEW e \in Errors, e = q.lastErr \/ e # NoError,
           NEW q2, q2 = [q EXCEPT !.pc = "next", !.cand = None, !.ids = ids, !.skips = skips,
                                  !.lastErr = e]
    PROVE  Sound(w, q2)
<1>1. q \in Inquiries /\ q.attempts \in Nat
  BY LoopFacts
<1>2. /\ q2 \in Inquiries /\ q2.pc = "next" /\ Alike(q, q2)
      /\ q2.attempts = q.attempts /\ q2.lastErr = e
  BY <1>1 DEF Inquiries, Stages, Alike
<1>3. Path(w, q2)
  BY <1>2, BesidePath
<1>4. AtHand(w, q2) /\ Tale(q2)
  BY <1>2 DEF AtHand, Sound, Tale, MaxRounds, Alike
<1> QED BY <1>2, <1>3, <1>4 DEF Sound

(* The executor is built, and the call made (Build).                       *)
LEMMA BuiltSound ==
    ASSUME NEW w, NEW q, Sound(w, q), q.pc = "build",
           BuildExecutor(q.cand.provider, w.services[q.cand.provider],
                         w.vault[q.cand.credential]) = NoError,
           NEW q2, q2 = [q EXCEPT !.pc = "call", !.attempts = @ + 1]
    PROVE  Sound(w, q2)
<1>1. q \in Inquiries /\ q.attempts \in Nat /\ Len(q.calls) \in Nat
  BY LoopFacts
<1>2. /\ q2 \in Inquiries /\ q2.pc = "call" /\ Alike(q, q2) /\ q2.cand = q.cand
      /\ q2.attempts = q.attempts + 1 /\ q2.lastErr = q.lastErr
  <2>1. q.attempts + 1 \in Nat
    BY <1>1
  <2>2. q2 \in Inquiries
    BY <1>1, <2>1 DEF Inquiries, Stages
  <2> QED BY <1>1, <2>2 DEF Inquiries, Alike
<1>3. Taken(q) > 0 /\ Made(w, q, Taken(q) - 1) /\ Suits(w, q.cand, q.kept[Taken(q)])
  BY DEF Sound, Path
<1>4. Path(w, q2)
  BY <1>2, <1>3, InHandPath
<1>5. AtHand(w, q2)
  BY <1>2 DEF AtHand, Sound
<1>6. Tale(q2)
  <2>1. /\ q.attempts = Len(q.calls) /\ q.attempts < MaxRounds(q) /\ MaxRounds(q2) = MaxRounds(q)
        /\ \A i \in 1 .. Len(q2.calls) : Curable(q2.calls[i].end)
        /\ Len(q2.calls) > 0 => q2.lastErr # NoError
    BY <1>2 DEF Sound, Tale, Alike, MaxRounds
  <2>2. MaxRounds(q) \in Nat
    <3>1. Len(q.kept) \in Nat
      BY LoopFacts
    <3> QED BY <3>1 DEF MaxRounds
  <2>3. q.attempts + 1 <= MaxRounds(q)
    BY <1>1, <2>1, <2>2
  <2> QED BY <1>2, <2>1, <2>3 DEF Tale, Alike
<1> QED BY <1>2, <1>4, <1>5, <1>6 DEF Sound

(* A client that left is told so before the next call (Build, Cooldown).   *)
LEMMA TimeoutSound ==
    ASSUME NEW w, NEW q, Sound(w, q), q.pc \in {"build", "cooldown"}, q.cancelled,
           NEW q2, q2 = [q EXCEPT !.pc = "done", !.reply = "timeout"]
    PROVE  Sound(w, q2)
<1>1. q \in Inquiries
  BY LoopFacts
<1>2. /\ q2 \in Inquiries /\ q2.pc = "done" /\ Alike(q, q2) /\ q2.reply = "timeout"
      /\ q2.cancelled
  BY <1>1 DEF Inquiries, Stages, Replies, Alike
<1>3. Path(w, q2)
  BY <1>2, BesidePath
<1>4. Answer(q2)
  <2>1. /\ Outcome(q) \notin {"ok", "Request"} /\ Len(q.calls) \in Nat
        /\ \A i \in 1 .. Len(q.calls) : Curable(q.calls[i].end)
    BY Unanswered
  <2>2. \A i \in 1 .. Len(q.calls) - 1 : i \in 1 .. Len(q.calls)
    BY <2>1
  <2> QED BY <1>2, <2>1, <2>2 DEF Answer, Alike, Outcome
<1> QED BY <1>2, <1>3, <1>4 DEF Sound, AtHand, Tale

LEMMA CooldownSound ==
    ASSUME NEW w, NEW q, Sound(w, q), q.pc = "cooldown",
           NEW q2, q2 = [q EXCEPT !.pc = "next"]
    PROVE  Sound(w, q2)
<1>1. q \in Inquiries
  BY LoopFacts
<1>2. /\ q2 \in Inquiries /\ q2.pc = "next" /\ Alike(q, q2)
      /\ q2.attempts = q.attempts /\ q2.lastErr = q.lastErr
  BY <1>1 DEF Inquiries, Stages, Alike
<1>3. Path(w, q2)
  BY <1>2, BesidePath
<1>4. AtHand(w, q2) /\ Tale(q2)
  BY <1>2 DEF AtHand, Sound, Tale, MaxRounds, Alike
<1> QED BY <1>2, <1>3, <1>4 DEF Sound

(* A call has ended, and joins the calls made (Succeed, Fail).             *)
Endings == Scopes \cup {"ok"}

CallEnded(q, q2, end) ==
    /\ q2.pc \in {"next", "cooldown", "done"}
    /\ q2.plan = q.plan /\ q2.kept = q.kept /\ q2.todo = q.todo
    /\ q2.calls = Append(q.calls, [cand |-> q.cand, end |-> end])

EndsWith(w, q, q2, end) ==
    /\ Path(w, q2)
    /\ q2.calls \in Seq([cand : Candidates, end : Scopes \cup {"ok"}])
    /\ Len(q2.calls) = Len(q.calls) + 1 /\ Len(q.calls) \in Nat
    /\ Outcome(q2) = end
    /\ \A i \in 1 .. Len(q2.calls) - 1 : Curable(q2.calls[i].end)
    /\ Curable(end) => \A i \in 1 .. Len(q2.calls) : Curable(q2.calls[i].end)

LEMMA EndedFacts ==
    ASSUME NEW w, NEW q, Sound(w, q), q.pc = "call", NEW end \in Endings,
           NEW q2, CallEnded(q, q2, end)
    PROVE  EndsWith(w, q, q2, end)
<1> DEFINE x == [cand |-> q.cand, end |-> end]
           n == Len(q.calls)
<1>1. /\ q \in Inquiries /\ Kept(q, Len(q.plan.steps)) /\ Len(q.plan.steps) \in Nat
      /\ EndOf(q.todo, q.kept) /\ Taken(q) \in Nat
  BY LoopFacts
<1>2. /\ Taken(q) > 0 /\ Made(w, q, Taken(q) - 1) /\ Suits(w, q.cand, q.kept[Taken(q)])
      /\ q.cand \in Candidates
  BY DEF Sound, Path, AtHand
<1>3. /\ q.calls \in Seq([cand : Candidates, end : Scopes \cup {"ok"}]) /\ n \in Nat
      /\ x \in [cand : Candidates, end : Scopes \cup {"ok"}] /\ x.cand = q.cand /\ x.end = end
  <2>1. q.calls \in Seq([cand : Candidates, end : Scopes \cup {"ok"}])
    BY <1>1 DEF Inquiries
  <2> QED BY <1>2, <2>1 DEF Endings
<1>4. q2.calls = Append(q.calls, x)
  BY DEF CallEnded
<1> HIDE DEF x
<1>5. /\ Append(q.calls, x) \in Seq([cand : Candidates, end : Scopes \cup {"ok"}])
      /\ Len(q2.calls) = n + 1 /\ q2.calls[n + 1] = x
      /\ \A i \in 1..n : q2.calls[i] = q.calls[i]
  BY <1>3, <1>4, AppendProperties
<1> HIDE DEF n
<1>6. Path(w, q2)
  <2> DEFINE d == Taken(q) - 1
  <2>1. d \in Nat /\ Made(w, q, d) /\ Suits(w, x.cand, q.kept[d + 1]) /\ d + 1 = Taken(q)
    BY <1>1, <1>2, <1>3
  <2> HIDE DEF d
  <2>2. q2.kept = q.kept /\ q2.plan = q.plan /\ q2.todo = q.todo
    BY DEF CallEnded
  <2>3. Made(w, q2, d + 1)
    BY <1>1, <1>3, <1>4, <2>1, <2>2, CallExtends
  <2>4. Kept(q2, Len(q2.plan.steps))
    <3>1. Len(q.plan.steps) <= Len(q.plan.steps)
      BY <1>1
    <3>2. Kept(q2, Len(q.plan.steps))
      BY <1>1, <2>2, <3>1, KeptMore
    <3> QED BY <2>2, <3>2
  <2>5. Taken(q2) = Taken(q) /\ EndOf(q2.todo, q2.kept)
    BY <1>1, <2>2 DEF Taken
  <2> QED BY <2>1, <2>3, <2>4, <2>5 DEF Path, CallEnded
<1>7. Outcome(q2) = end
  BY <1>3, <1>5 DEF Outcome
<1>8. \A i \in 1..n : Curable(q2.calls[i].end)
  BY <1>5, Unanswered DEF n
<1>9. \A i \in 1 .. Len(q2.calls) - 1 : Curable(q2.calls[i].end)
  <2>1. Len(q2.calls) - 1 = n
    BY <1>3, <1>5
  <2> QED BY <1>8, <2>1
<1>10. Curable(end) => \A i \in 1 .. Len(q2.calls) : Curable(q2.calls[i].end)
  <2>1. \A i \in 1 .. n + 1 : i \in 1..n \/ i = n + 1
    BY <1>3
  <2> QED BY <1>3, <1>5, <1>8, <2>1
<1>11. Len(q.calls) \in Nat /\ Len(q2.calls) = Len(q.calls) + 1
  BY <1>3, <1>5 DEF n
<1> QED BY <1>4, <1>5, <1>6, <1>7, <1>9, <1>10, <1>11 DEF EndsWith

(* A reply that ends with the last call.                                   *)
LEMMA LastCallSound ==
    ASSUME NEW w, NEW q, Sound(w, q), q.pc = "call", NEW end \in Endings,
           NEW what \in {"ok", "client error", "timeout"},
           what = "ok" <=> end = "ok", what = "client error" <=> end = "Request",
           what = "timeout" => q.cancelled, NEW e \in Errors,
           NEW q2, q2 = [q EXCEPT !.pc = "done", !.reply = what, !.lastErr = e,
                                  !.calls = Append(@, [cand |-> q.cand, end |-> end])]
    PROVE  Sound(w, q2)
<1>1. q \in Inquiries
  BY LoopFacts
<1>2. /\ q2.pc = "done" /\ CallEnded(q, q2, end) /\ q2.reply = what /\ q2.cancelled = q.cancelled
  BY <1>1 DEF Inquiries, CallEnded
<1>3. /\ Path(w, q2) /\ q2.calls \in Seq([cand : Candidates, end : Scopes \cup {"ok"}])
      /\ Outcome(q2) = end
      /\ \A i \in 1 .. Len(q2.calls) - 1 : Curable(q2.calls[i].end)
  <2>1. EndsWith(w, q, q2, end)
    BY <1>2, EndedFacts
  <2> QED BY <2>1 DEF EndsWith
<1>4. q2 \in Inquiries
  BY <1>1, <1>2, <1>3 DEF Inquiries, Stages, Replies, CallEnded
<1>5. Answer(q2)
  BY <1>2, <1>3 DEF Answer
<1> QED BY <1>2, <1>3, <1>4, <1>5 DEF Sound, AtHand, Tale

(* A call that failed, and another candidate may cure it.                  *)
LEMMA FailoverSound ==
    ASSUME NEW w, NEW q, Sound(w, q), q.pc = "call",
           NEW e \in Errors, e # NoError, e.scope \in Scopes, e.scope # "Request",
           NEW pc \in {"next", "cooldown"},
           NEW q2, q2 = [q EXCEPT !.pc = pc, !.cand = None, !.lastErr = e,
                                  !.calls = Append(@, [cand |-> q.cand, end |-> e.scope])]
    PROVE  Sound(w, q2)
<1>1. q \in Inquiries
  BY LoopFacts
<1>2. /\ q2.pc = pc /\ CallEnded(q, q2, e.scope) /\ q2.attempts = q.attempts /\ q2.lastErr = e
  BY <1>1 DEF Inquiries, CallEnded
<1>3. Curable(e.scope)
  BY DEF Curable, Scopes
<1>4. /\ Path(w, q2) /\ q2.calls \in Seq([cand : Candidates, end : Scopes \cup {"ok"}])
      /\ Len(q2.calls) = Len(q.calls) + 1
      /\ \A i \in 1 .. Len(q2.calls) : Curable(q2.calls[i].end)
  <2>1. e.scope \in Endings
    BY DEF Endings
  <2>2. EndsWith(w, q, q2, e.scope)
    BY <1>2, <2>1, EndedFacts
  <2> QED BY <1>3, <2>2 DEF EndsWith
<1>5. q2 \in Inquiries
  BY <1>1, <1>2, <1>4 DEF Inquiries, Stages, CallEnded
<1>6. Tale(q2)
  <2>1. q.attempts = Len(q.calls) + 1 /\ q.attempts <= MaxRounds(q)
    BY DEF Sound, Tale
  <2>2. MaxRounds(q2) = MaxRounds(q)
    BY <1>2 DEF MaxRounds, CallEnded
  <2> QED BY <1>2, <1>4, <2>1, <2>2 DEF Tale
<1>7. AtHand(w, q2)
  BY <1>2 DEF AtHand
<1> QED BY <1>2, <1>4, <1>5, <1>6, <1>7 DEF Sound

-----------------------------------------------------------------------------
(* The environment.                                                        *)
LEMMA CancelSound ==
    ASSUME NEW w, NEW q, Sound(w, q), q.pc # "idle",
           NEW q2, q2 = [q EXCEPT !.cancelled = TRUE]
    PROVE  Sound(w, q2)
<1>1. q \in Inquiries
  BY DEF Sound
<1>2. /\ q2 \in Inquiries /\ q2.pc = q.pc /\ q2.plan = q.plan /\ q2.kept = q.kept
      /\ q2.todo = q.todo /\ q2.calls = q.calls /\ q2.cand = q.cand /\ q2.ids = q.ids
      /\ q2.attempts = q.attempts /\ q2.lastErr = q.lastErr /\ q2.reply = q.reply
      /\ q2.cancelled = TRUE
  BY <1>1 DEF Inquiries
<1>3. AtHand(w, q2) /\ Tale(q2)
  BY <1>2 DEF AtHand, Sound, Tale, MaxRounds
<1>4. /\ Taken(q2) = Taken(q)
      /\ \A d : Kept(q, d) <=> Kept(q2, d)
      /\ \A d : Made(w, q, d) <=> Made(w, q2, d)
  BY <1>2 DEF Taken, Kept, Made
<1>5. Path(w, q2)
  BY <1>2, <1>4 DEF Path, Sound
<1>6. q.pc = "done" => Answer(q2)
  <2>1. Answer(q) => Answer(q2)
    BY <1>2 DEF Answer, Outcome, MaxRounds
  <2> QED BY <2>1 DEF Sound
<1> QED BY <1>2, <1>3, <1>5, <1>6 DEF Sound

LEMMA HealSound ==
    ASSUME NEW w, NEW q, Sound(w, q), NEW w2, w2.services = w.services, w2.vault = w.vault
    PROVE  Sound(w2, q)
<1>1. \A k, p : Serves(w, k, p) <=> Serves(w2, k, p)
  BY DEF Serves
<1>2. \A c, s : Suits(w, c, s) <=> Suits(w2, c, s)
  BY <1>1 DEF Suits
<1>3. \A d : Made(w, q, d) <=> Made(w2, q, d)
  BY <1>2 DEF Made
<1>4. Path(w2, q)
  BY <1>1, <1>2, <1>3 DEF Path, Sound
<1>5. AtHand(w2, q)
  BY DEF AtHand, Sound
<1> QED BY <1>4, <1>5 DEF Sound

-----------------------------------------------------------------------------
(* The steps: what they make of the circuits, and of the request.          *)
Grounding(cs, b) == /\ cs \in [Keys -> Circuits] /\ b \in [Keys -> 0 .. Banned]
                    /\ \A k \in Keys : Due(k, cs[k], b[k])

LEMMA Composes ==
    ASSUME IInv, NEW r \in Requests, NEW q2, Sound(world, q2), Set(r, q2),
           Grounding(circuits', blame'), world' = world
    PROVE  IInv'
<1>1. /\ req \in [Requests -> Inquiries] /\ \A s \in Requests : Sound(world, req[s])
      /\ req' = [req EXCEPT ![r] = q2] /\ q2 \in Inquiries
  BY DEF IInv, TypeOK, Set, Sound
<1>2. req' \in [Requests -> Inquiries] /\ \A s \in Requests : Sound(world, req'[s])
  BY <1>1
<1>3. TypeOK' /\ Grounded'
  BY <1>2 DEF IInv, TypeOK, Grounding, Grounded
<1> QED BY <1>2, <1>3 DEF IInv

LEMMA Stays == ASSUME IInv, UNCHANGED <<circuits, blame>> PROVE Grounding(circuits', blame')
  BY DEF IInv, TypeOK, Grounded, Grounding

LEMMA AllowGrounds ==
    ASSUME NEW cs, NEW b, Grounding(cs, b), NEW c
    PROVE  Grounding(Allow(cs, c), b)
<1>1. /\ Allow(cs, c) \in [Keys -> Circuits]
      /\ \A k \in Keys : Due(k, cs[k], b[k]) => Due(k, Allow(cs, c)[k], b[k])
  BY AllowKeeps DEF Grounding
<1> QED BY <1>1 DEF Grounding

LEMMA AllowStays ==
    ASSUME IInv, NEW c, circuits' = Allow(circuits, c), UNCHANGED blame
    PROVE  Grounding(circuits', blame')
<1>1. Grounding(circuits, blame)
  BY DEF IInv, TypeOK, Grounded, Grounding
<1> QED BY <1>1, AllowGrounds

LEMMA ArriveKeeps == ASSUME IInv, NEW r \in Requests, Arrive(r) PROVE IInv'
<1>1. PICK p \in Plans :
        Set(r, [req[r] EXCEPT !.pc = "preflight", !.plan = p, !.todo = p.steps])
  BY DEF Arrive
<1>2. req[r] = Idle /\ p \in [steps : Seq(Candidates), auto : BOOLEAN]
  BY PlansAssumption DEF Arrive, IInv, Sound, Tale
<1> DEFINE q2 == [Idle EXCEPT !.pc = "preflight", !.plan = p, !.todo = p.steps]
<1>3. Set(r, q2)
  BY <1>1, <1>2
<1>4. Sound(world, q2)
  BY <1>2, StartSound
<1> HIDE DEF q2
<1>5. Grounding(circuits', blame') /\ world' = world
  BY Stays DEF Arrive
<1> QED BY <1>3, <1>4, <1>5, Composes

LEMMA AllowCandidateKeeps == ASSUME IInv, NEW r \in Requests, AllowCandidate(r) PROVE IInv'
<1> DEFINE q == req[r]
           Q(kept) == [req[r] EXCEPT !.todo = Tail(@), !.kept = kept]
           Next2(q2) == Sound(world, q2) /\ Set(r, q2)
<1>1. /\ Sound(world, q) /\ q.pc = "preflight" /\ q.todo # <<>> /\ q \in Inquiries
      /\ blame' = blame /\ world' = world
  BY DEF AllowCandidate, IInv, Sound
<1>2. Sound(world, Q(q.kept)) /\ Sound(world, Q(Append(q.kept, Head(q.todo))))
  <2>1. \A kept \in {q.kept, Append(q.kept, Head(q.todo))} : Sound(world, Q(kept))
    BY <1>1, PreflightSound
  <2> QED BY <2>1
<1>3. Q(q.kept) = [req[r] EXCEPT !.todo = Tail(@)]
  BY <1>1 DEF Inquiries
<1>4. Set(r, Q(q.kept)) \/ Set(r, Q(Append(q.kept, Head(q.todo))))
  BY <1>3 DEF AllowCandidate
<1>5. circuits' = circuits \/ circuits' = Allow(circuits, Head(q.todo))
  BY DEF AllowCandidate
<1>6. Grounding(circuits', blame')
  BY <1>1, <1>5, Stays, AllowStays
<1> HIDE DEF Q, q
<1> QED BY <1>1, <1>2, <1>4, <1>6, Composes

LEMMA ResolvedKeeps == ASSUME IInv, NEW r \in Requests, Resolved(r) PROVE IInv'
<1>1. /\ Sound(world, req[r]) /\ req[r].pc = "preflight" /\ req[r].todo = <<>>
      /\ world' = world
  BY DEF Resolved, IInv
<1>2. Grounding(circuits', blame')
  BY Stays DEF Resolved
<1>3. CASE req[r].kept = <<>>
  <2> DEFINE q2 == [req[r] EXCEPT !.pc = "done", !.reply = "no candidate"]
  <2>1. Set(r, q2)
    BY <1>3 DEF Resolved, Reply
  <2>2. Sound(world, q2)
    BY <1>1, <1>3, NoCandidateSound
  <2> HIDE DEF q2
  <2> QED BY <1>1, <1>2, <2>1, <2>2, Composes
<1>4. CASE req[r].kept # <<>>
  <2> DEFINE q2 == [req[r] EXCEPT !.pc = "next", !.todo = req[r].kept]
  <2>1. Set(r, q2)
    BY <1>4 DEF Resolved
  <2>2. Sound(world, q2)
    BY <1>1, ResolvedSound
  <2> HIDE DEF q2
  <2> QED BY <1>1, <1>2, <2>1, <2>2, Composes
<1> QED BY <1>3, <1>4

LEMMA NextCandidateKeeps == ASSUME IInv, NEW r \in Requests, NextCandidate(r) PROVE IInv'
<1> DEFINE c == Head(req[r].todo)
           q2 == [req[r] EXCEPT !.pc = "resolve", !.todo = Tail(@), !.cand = c,
                                !.ids = eligible(c)]
<1>1. /\ Sound(world, req[r]) /\ req[r].pc = "next" /\ req[r].todo # <<>>
      /\ req[r].attempts < MaxRounds(req[r]) /\ world' = world /\ Set(r, q2)
  BY DEF NextCandidate, IInv
<1>2. Grounding(circuits', blame')
  BY Stays DEF NextCandidate
<1>3. c \in Candidates
  <2>1. req[r].todo \in Seq(Candidates)
    BY <1>1, LoopFacts
  <2> QED BY <1>1, <2>1
<1>4. /\ eligible(c) \in SUBSET Credentials
      /\ \A k \in eligible(c) : IF c.credential # None THEN k = c.credential
                                ELSE Serves(world, k, c.provider)
  <2>1. KeysOf(CredentialIds) \subseteq Credentials
    BY WorldsAssumption DEF KeysOf
  <2> QED BY <1>3, <2>1 DEF eligible, accounts, usable, Serves, Candidates
<1>5. Sound(world, q2)
  BY <1>1, <1>4, ChooseSound
<1> HIDE DEF q2
<1> QED BY <1>1, <1>2, <1>5, Composes

LEMMA NoWinnerKeeps == ASSUME IInv, NEW r \in Requests, NoWinner(r) PROVE IInv'
<1> DEFINE what == IF req[r].attempts > 0
                   THEN IF req[r].todo # <<>> THEN "max rounds" ELSE "exhausted"
                   ELSE IF "breaker" \in req[r].skips THEN "no attempts: breaker"
                   ELSE IF "quota" \in req[r].skips   THEN "no attempts: quota"
                   ELSE "no attempts"
           q2 == [req[r] EXCEPT !.pc = "done", !.reply = what]
<1>1. /\ Sound(world, req[r]) /\ req[r].pc = "next" /\ world' = world /\ Set(r, q2)
      /\ req[r].todo = <<>> \/ req[r].attempts >= MaxRounds(req[r])
  BY DEF NoWinner, Reply, IInv
<1>2. Grounding(circuits', blame')
  BY Stays DEF NoWinner
<1>3. Closing(req[r], what)
  <2>1. req[r].attempts \in Nat
    BY <1>1, LoopFacts
  <2>2. CASE req[r].attempts > 0 /\ req[r].todo # <<>>
    BY <1>1, <2>2 DEF Closing
  <2>3. CASE req[r].attempts > 0 /\ req[r].todo = <<>>
    BY <2>3 DEF Closing
  <2>4. CASE ~(req[r].attempts > 0)
    <3>1. req[r].attempts = 0
      BY <2>1, <2>4
    <3>2. what \in {"no attempts", "no attempts: breaker", "no attempts: quota"}
      BY <2>4
    <3> HIDE DEF what
    <3> QED BY <3>1, <3>2 DEF Closing
  <2> QED BY <2>2, <2>3, <2>4
<1> HIDE DEF what
<1>4. Sound(world, q2)
  BY <1>1, <1>3, NoWinnerSound
<1> HIDE DEF q2
<1> QED BY <1>1, <1>2, <1>4, Composes

LEMMA TryCredentialKeeps == ASSUME IInv, NEW r \in Requests, TryCredential(r) PROVE IInv'
<1> DEFINE q == req[r]
           cc(k) == [q.cand EXCEPT !.credential = k]
           found(k) == [q EXCEPT !.pc = "build", !.cand = cc(k), !.ids = {}]
           none(t) == [q EXCEPT !.pc = "next", !.cand = None, !.ids = {},
                                !.skips = @ \cup {t}]
           fewer(k) == [q EXCEPT !.ids = @ \ {k}]
<1>1. /\ Sound(world, q) /\ q.pc = "resolve" /\ q \in Inquiries
      /\ world' = world /\ blame' = blame
  BY DEF TryCredential, IInv, Sound
<1>2. PICK k \in q.ids :
        /\ \/ circuits' = Allow(circuits, cc(k))
           \/ circuits' = Allow(Allow(circuits, cc(k)), cc(k))
        /\ \/ Set(r, found(k))
           \/ \E t \in {"breaker", "credential", "quota"} : Set(r, none(t))
           \/ Set(r, fewer(k))
  BY DEF TryCredential
<1>3. Grounding(circuits', blame')
  <2>1. Grounding(circuits, blame)
    BY DEF IInv, TypeOK, Grounded, Grounding
  <2> QED BY <1>1, <1>2, <2>1, AllowGrounds
<1>4. CASE Set(r, found(k))
  <2>1. Sound(world, found(k))
    BY <1>1, FoundSound
  <2> HIDE DEF found
  <2> QED BY <1>1, <1>3, <1>4, <2>1, Composes
<1>5. CASE \E t \in {"breaker", "credential", "quota"} : Set(r, none(t))
  <2>1. PICK t \in {"breaker", "credential", "quota"} : Set(r, none(t))
    BY <1>5
  <2> DEFINE n2 == [q EXCEPT !.pc = "next", !.cand = None, !.ids = {},
                             !.skips = q.skips \cup {t}, !.lastErr = q.lastErr]
  <2>2. none(t) = n2
    BY <1>1 DEF Inquiries
  <2>3. /\ q.skips \cup {t} \in SUBSET {"breaker", "quota", "credential"}
        /\ q.lastErr \in Errors
    BY <1>1 DEF Inquiries
  <2>4. Sound(world, n2)
    BY <1>1, <2>3, SkippedSound
  <2>5. Sound(world, none(t))
    BY <2>2, <2>4
  <2> HIDE DEF none
  <2> QED BY <1>1, <1>3, <2>1, <2>5, Composes
<1>6. CASE Set(r, fewer(k))
  <2>1. Sound(world, fewer(k))
    BY <1>1, AnotherSound
  <2> HIDE DEF fewer
  <2> QED BY <1>1, <1>3, <1>6, <2>1, Composes
<1> QED BY <1>2, <1>4, <1>5, <1>6

LEMMA NoAccountKeeps == ASSUME IInv, NEW r \in Requests, NoAccount(r) PROVE IInv'
<1> DEFINE q == req[r]
           q2 == [q EXCEPT !.pc = "next", !.cand = None, !.skips = @ \cup {"credential"}]
           n2 == [q EXCEPT !.pc = "next", !.cand = None, !.ids = q.ids,
                           !.skips = q.skips \cup {"credential"}, !.lastErr = q.lastErr]
<1>1. /\ Sound(world, q) /\ q.pc = "resolve" /\ q \in Inquiries
      /\ world' = world /\ Set(r, q2)
  BY DEF NoAccount, IInv, Sound
<1>2. Grounding(circuits', blame')
  BY Stays DEF NoAccount
<1>3. q2 = n2
  BY <1>1 DEF Inquiries
<1>4. /\ q.skips \cup {"credential"} \in SUBSET {"breaker", "quota", "credential"}
      /\ q.lastErr \in Errors /\ q.ids \in SUBSET Credentials
  BY <1>1 DEF Inquiries
<1>5. Sound(world, n2)
  BY <1>1, <1>4, SkippedSound
<1>6. Sound(world, q2)
  BY <1>3, <1>5
<1> HIDE DEF q2
<1> QED BY <1>1, <1>2, <1>6, Composes

(* A failure that is recorded.                                             *)
LEMMA FailureGrounds ==
    ASSUME IInv, NEW c, NEW e \in Errors, NEW who, Blames(who, e),
           circuits' \in Record(circuits, c, breakerFrom(e)), blame' = blamed(c, who)
    PROVE  Grounding(circuits', blame')
<1>1. /\ circuits' \in [Keys -> Circuits]
      /\ \A k \in Keys : Due(k, circuits'[k], blamed(c, who)[k])
  BY FailureKeeps DEF IInv, TypeOK
<1>2. blamed(c, who) \in [Keys -> 0 .. Banned]
  BY BlameCounts DEF IInv, TypeOK
<1> QED BY <1>1, <1>2 DEF Grounding

LEMMA BuildKeeps == ASSUME IInv, NEW r \in Requests, Build(r) PROVE IInv'
<1> DEFINE q == req[r]
           c == q.cand
           e == BuildExecutor(c.provider, service(c), stored(c))
           who == IF stored(c).provider = c.provider /\ service(c).dialect # "none"
                  THEN {"Refusal"} ELSE {}
<1>1. /\ Sound(world, q) /\ q.pc = "build" /\ q \in Inquiries /\ world' = world
  BY DEF Build, IInv, Sound
<1>2. CASE q.cancelled
  <2> DEFINE q2 == [q EXCEPT !.pc = "done", !.reply = "timeout"]
  <2>1. Set(r, q2) /\ UNCHANGED <<circuits, blame>>
    BY <1>2 DEF Build, Reply
  <2>2. Sound(world, q2)
    BY <1>1, <1>2, TimeoutSound
  <2> HIDE DEF q2
  <2> QED BY <1>1, <2>1, <2>2, Stays, Composes
<1>3. CASE ~q.cancelled /\ e = NoError
  <2> DEFINE q2 == [q EXCEPT !.pc = "call", !.attempts = @ + 1]
  <2>1. Set(r, q2) /\ UNCHANGED <<circuits, blame>>
    BY <1>3 DEF Build
  <2>2. BuildExecutor(q.cand.provider, world.services[q.cand.provider],
                      world.vault[q.cand.credential]) = NoError
    BY <1>3 DEF service, stored
  <2>3. Sound(world, q2)
    BY <1>1, <2>2, BuiltSound
  <2> HIDE DEF q2
  <2> QED BY <1>1, <2>1, <2>3, Stays, Composes
<1>4. CASE ~q.cancelled /\ e # NoError
  <2> DEFINE q2 == [q EXCEPT !.pc = "next", !.cand = None, !.lastErr = e]
             n2 == [q EXCEPT !.pc = "next", !.cand = None, !.ids = q.ids, !.skips = q.skips,
                             !.lastErr = e]
  <2>1. /\ Set(r, q2) /\ circuits' \in Record(circuits, c, breakerFrom(e))
        /\ blame' = blamed(c, who)
    BY <1>4 DEF Build
  <2>2. e \in {NoError, ofRequest, ofCredential}
    BY DEF BuildExecutor
  <2>3. e \in Errors
    BY <2>2, ErrorsAreTyped
  <2>4. Blames(who, e)
    <3>1. ofRequest.scope = "Request" /\ ofCredential.scope = "Credential"
      BY DEF ofRequest, ofCredential, Error
    <3>2. CASE e = ofRequest
      BY <3>1, <3>2 DEF Blames
    <3>3. CASE e = ofCredential
      <4>1. service(c).dialect # "none" /\ stored(c).provider = c.provider
        BY <3>1, <3>3 DEF BuildExecutor
      <4>2. who = {"Refusal"}
        BY <4>1
      <4> QED BY <3>1, <3>3, <4>2 DEF Blames
    <3> QED BY <1>4, <2>2, <3>2, <3>3
  <2> HIDE DEF e, who
  <2>5. Grounding(circuits', blame')
    BY <2>1, <2>3, <2>4, FailureGrounds
  <2>6. q2 = n2 /\ q.ids \in SUBSET Credentials
        /\ q.skips \in SUBSET {"breaker", "quota", "credential"}
    BY <1>1 DEF Inquiries
  <2>7. Sound(world, n2)
    BY <1>1, <1>4, <2>3, <2>6, SkippedSound
  <2>8. Sound(world, q2)
    BY <2>6, <2>7
  <2> HIDE DEF q2
  <2> QED BY <1>1, <2>1, <2>5, <2>8, Composes
<1>5. q.cancelled \in BOOLEAN
  BY <1>1 DEF Inquiries
<1> QED BY <1>2, <1>3, <1>4, <1>5

LEMMA SucceedKeeps ==
    ASSUME IInv, NEW r \in Requests, NEW streams, Succeed(r, streams) PROVE IInv'
<1> DEFINE q == req[r]
           ended == Append(q.calls, [cand |-> q.cand, end |-> "ok"])
           q2 == [q EXCEPT !.pc = "done", !.reply = "ok", !.calls = ended]
           n2 == [q EXCEPT !.pc = "done", !.reply = "ok", !.lastErr = q.lastErr,
                           !.calls = ended]
<1>1. /\ Sound(world, q) /\ q.pc = "call" /\ q \in Inquiries /\ world' = world
      /\ Set(r, q2)
  BY DEF Succeed, Called, IInv, Sound
<1>2. Grounding(circuits', blame')
  <2>1. CASE UNCHANGED <<circuits, blame>>
    BY <2>1, Stays
  <2>2. CASE circuits' \in Record(circuits, q.cand, Success) /\ blame' = forgiven(q.cand)
    <3>1. /\ circuits \in [Keys -> Circuits] /\ blame \in [Keys -> 0 .. Banned]
          /\ Grounded
      BY DEF IInv, TypeOK
    <3>2. /\ circuits' \in [Keys -> Circuits]
          /\ forgiven(q.cand) \in [Keys -> 0 .. Banned]
          /\ \A k \in Keys : Due(k, circuits'[k], forgiven(q.cand)[k])
      BY <2>2, <3>1, SuccessKeeps
    <3> QED BY <2>2, <3>2 DEF Grounding
  <2> QED BY <2>1, <2>2 DEF Succeed
<1>3. q2 = n2 /\ q.lastErr \in Errors
  BY <1>1 DEF Inquiries
<1>4. Sound(world, n2)
  <2>1. "ok" \in Endings
    BY DEF Endings
  <2> QED BY <1>1, <1>3, <2>1, LastCallSound
<1>5. Sound(world, q2)
  BY <1>3, <1>4
<1> HIDE DEF q2
<1> QED BY <1>1, <1>2, <1>5, Composes

(* What an ending of a call tells (endings).                       *)
LEMMA EndingsAreTyped ==
    ASSUME IInv, NEW r \in Requests, req[r].pc = "call", NEW stream \in BOOLEAN,
           NEW x \in endings(r, stream)
    PROVE  /\ x.error \in Errors
           /\ x.error # NoError => x.error.scope \in Scopes
           /\ Blames(x.fault, x.error)
<1> DEFINE c == req[r].cand
           s == service(c)
           k == stored(c)
<1>1. PICK h \in happens(r) :
        x = [error |-> Call(s, k, c.model, stream, h), fault |-> Culprits(s, k, h)]
  BY DEF endings
<1>2. h \in Happenings
  <2>1. Status(200) \in Happenings
    BY DEF Status, Happenings
  <2>2. Broken("cancelled") \in Happenings
    BY <2>1 DEF Broken, Happenings
  <2> QED BY <2>1, <2>2, HappensAssumption DEF happens
<1>3. /\ c \in Candidates /\ c.credential \in Credentials
      /\ BuildExecutor(c.provider, s, k) = NoError
  BY DEF IInv, Sound, AtHand, service, stored
<1>4. /\ s \in Services /\ k \in Stored
  BY <1>3 DEF IInv, TypeOK, service, stored, Candidates
<1>5. s.dialect # "none"
  <2>1. ofRequest # NoError
    <3>1. ofRequest.scope = "Request" /\ NoError.scope = "none"
      BY DEF ofRequest, NoError, Error
    <3> QED BY <3>1
  <2> QED BY <1>3, <2>1 DEF BuildExecutor
<1> HIDE DEF s, k, c
<1>6. LET e == Call(s, k, c.model, stream, h)
      IN  /\ e \in Errors
          /\ e # NoError => e.scope \in Scopes
          /\ Blames(Culprits(s, k, h), e)
  BY <1>2, <1>4, <1>5, CallBlames
<1> QED BY <1>1, <1>6

LEMMA FailKeeps ==
    ASSUME IInv, NEW r \in Requests, NEW streams \in SUBSET BOOLEAN, Fail(r, streams)
    PROVE  IInv'
<1> DEFINE q == req[r]
<1>1. /\ Sound(world, q) /\ q.pc = "call" /\ q \in Inquiries /\ world' = world
  BY DEF Fail, IInv, Sound
<1>2. PICK x \in UNION {endings(r, stream) : stream \in streams} :
        LET e == x.error
            called == Append(q.calls, [cand |-> q.cand, end |-> e.scope])
            q0 == [q EXCEPT !.calls = called, !.lastErr = e]
        IN  /\ e # NoError
            /\ circuits' \in Record(circuits, q.cand, breakerFrom(e))
            /\ blame' = blamed(q.cand, x.fault)
            /\ \/ /\ e.scope = "Request"
                  /\ Set(r, [q0 EXCEPT !.pc = "done", !.reply = "client error"])
               \/ /\ e.scope # "Request" /\ q.cancelled
                  /\ Set(r, [q0 EXCEPT !.pc = "done", !.reply = "timeout"])
               \/ /\ e.scope # "Request" /\ ~q.cancelled
                  /\ Set(r, [q0 EXCEPT !.pc = IF e.retryAfter > 0 THEN "cooldown" ELSE "next",
                                       !.cand = None])
  BY DEF Fail, Called
<1> DEFINE e == x.error
           called == Append(q.calls, [cand |-> q.cand, end |-> e.scope])
           q0 == [q EXCEPT !.calls = called, !.lastErr = e]
           told(what) == [q EXCEPT !.pc = "done", !.reply = what, !.lastErr = e,
                                   !.calls = called]
           again(pc) == [q EXCEPT !.pc = pc, !.cand = None, !.lastErr = e, !.calls = called]
<1>3. e \in Errors /\ e.scope \in Scopes /\ Blames(x.fault, e) /\ e # NoError
  <2>1. PICK stream \in streams : x \in endings(r, stream)
    BY <1>2
  <2> QED BY <1>1, <1>2, <2>1, EndingsAreTyped
<1>4. Grounding(circuits', blame')
  BY <1>2, <1>3, FailureGrounds
<1>5. e.scope \in Endings /\ e.scope # "ok"
  BY <1>3 DEF Endings, Scopes
<1>6. CASE e.scope = "Request" /\ Set(r, [q0 EXCEPT !.pc = "done", !.reply = "client error"])
  <2>1. told("client error") = [q0 EXCEPT !.pc = "done", !.reply = "client error"]
    BY <1>1 DEF Inquiries
  <2>2. Sound(world, told("client error"))
    BY <1>1, <1>3, <1>5, <1>6, LastCallSound
  <2> HIDE DEF told
  <2> QED BY <1>1, <1>4, <1>6, <2>1, <2>2, Composes
<1>7. CASE /\ e.scope # "Request" /\ q.cancelled
           /\ Set(r, [q0 EXCEPT !.pc = "done", !.reply = "timeout"])
  <2>1. told("timeout") = [q0 EXCEPT !.pc = "done", !.reply = "timeout"]
    BY <1>1 DEF Inquiries
  <2>2. Sound(world, told("timeout"))
    BY <1>1, <1>3, <1>5, <1>7, LastCallSound
  <2> HIDE DEF told
  <2> QED BY <1>1, <1>4, <1>7, <2>1, <2>2, Composes
<1>8. CASE /\ e.scope # "Request"
           /\ Set(r, [q0 EXCEPT !.pc = IF e.retryAfter > 0 THEN "cooldown" ELSE "next",
                                !.cand = None])
  <2> DEFINE pc == IF e.retryAfter > 0 THEN "cooldown" ELSE "next"
  <2>1. pc \in {"next", "cooldown"}
    OBVIOUS
  <2>2. Set(r, [q0 EXCEPT !.pc = pc, !.cand = None])
    BY <1>8
  <2> HIDE DEF pc
  <2>3. again(pc) = [q0 EXCEPT !.pc = pc, !.cand = None]
    BY <1>1 DEF Inquiries
  <2>4. Sound(world, again(pc))
    BY <1>1, <1>3, <1>8, <2>1, FailoverSound
  <2> HIDE DEF again
  <2> QED BY <1>1, <1>4, <2>2, <2>3, <2>4, Composes
<1> QED BY <1>2, <1>6, <1>7, <1>8

LEMMA CooldownKeeps == ASSUME IInv, NEW r \in Requests, Cooldown(r) PROVE IInv'
<1> DEFINE q == req[r]
           on == [q EXCEPT !.pc = "next"]
           off == [q EXCEPT !.pc = "done", !.reply = "timeout"]
<1>1. /\ Sound(world, q) /\ q.pc = "cooldown" /\ world' = world
      /\ Set(r, on) \/ (q.cancelled /\ Set(r, off))
  BY DEF Cooldown, Reply, IInv
<1>2. Grounding(circuits', blame')
  BY Stays DEF Cooldown
<1>3. Sound(world, on) /\ (q.cancelled => Sound(world, off))
  BY <1>1, CooldownSound, TimeoutSound
<1> HIDE DEF on, off
<1> QED BY <1>1, <1>2, <1>3, Composes

LEMMA AnsweredKeeps == ASSUME IInv, NEW r \in Requests, Answered(r) PROVE IInv'
<1>1. Set(r, Idle) /\ world' = world /\ Sound(world, Idle)
  BY IdleSound DEF Answered
<1>2. Grounding(circuits', blame')
  BY Stays DEF Answered
<1> QED BY <1>1, <1>2, Composes

LEMMA CancelKeeps == ASSUME IInv, NEW r \in Requests, Cancel(r) PROVE IInv'
<1> DEFINE q2 == [req[r] EXCEPT !.cancelled = TRUE]
<1>1. /\ Sound(world, req[r]) /\ req[r].pc \notin {"idle", "done"} /\ world' = world
      /\ Set(r, q2)
  BY DEF Cancel, IInv
<1>2. Grounding(circuits', blame')
  BY Stays DEF Cancel
<1>3. Sound(world, q2)
  BY <1>1, CancelSound
<1> HIDE DEF q2
<1> QED BY <1>1, <1>2, <1>3, Composes

LEMMA HealKeeps == ASSUME IInv, Heal PROVE IInv'
<1>1. /\ world' = [world EXCEPT !.healthy = TRUE] /\ UNCHANGED <<circuits, req, blame>>
      /\ world \in [services : [Providers -> Services],
                    vault    : [Credentials -> Stored], healthy : BOOLEAN]
  BY DEF Heal, IInv, TypeOK
<1>2. /\ world' \in [services : [Providers -> Services],
                     vault    : [Credentials -> Stored], healthy : BOOLEAN]
      /\ world'.services = world.services /\ world'.vault = world.vault
  BY <1>1
<1>3. \A r \in Requests : Sound(world', req[r])
  BY <1>2, HealSound DEF IInv
<1> QED BY <1>1, <1>2, <1>3 DEF IInv, TypeOK, Grounded

LEMMA TickKeeps == ASSUME IInv, Tick PROVE IInv'
<1>1. /\ circuits' = [k \in Keys |-> transitionLocked(elapsed(circuits[k]))]
      /\ UNCHANGED <<world, req, blame>>
  BY DEF Tick
<1>2. ASSUME NEW k \in Keys
      PROVE  /\ transitionLocked(elapsed(circuits[k])) \in Circuits
             /\ Due(k, transitionLocked(elapsed(circuits[k])), blame[k])
  <2>1. circuits[k] \in Circuits /\ Due(k, circuits[k], blame[k])
    BY DEF IInv, TypeOK, Grounded
  <2>2. elapsed(circuits[k]) \in Circuits /\ Due(k, elapsed(circuits[k]), blame[k])
    BY <2>1, ElapsedKeeps
  <2> QED BY <2>2, TransitionKeeps
<1> QED BY <1>1, <1>2 DEF IInv, TypeOK, Grounded

-----------------------------------------------------------------------------
(* Whatever requests run side by side, whatever happens to their calls and *)
(* whenever clients leave, no circuit says more than its key is to blame   *)
(* for, and each request has failed over along its plan (run,              *)
(* dispatcher.go:150-224).                                                 *)
LEMMA InitInv == Init => IInv
<1> SUFFICES ASSUME Init PROVE IInv
  OBVIOUS
<1>1. circuits \in [Keys -> Circuits] /\ Grounded /\ blame \in [Keys -> 0 .. Banned]
  BY ConfigAssumption DEF Init, Fresh, Circuits, Statuses, Grounded, Due, Banned
<1>2. world \in [services : [Providers -> Services],
                 vault    : [Credentials -> Stored], healthy : BOOLEAN]
  BY WorldsAssumption DEF Init
<1>3. /\ req = [r \in Requests |-> Idle] /\ Idle \in Inquiries /\ Sound(world, Idle)
  BY IdleSound DEF Init, Sound
<1> QED BY <1>1, <1>2, <1>3 DEF IInv, TypeOK

LEMMA NextInv == IInv /\ [Next]_vars => IInv'
<1> SUFFICES ASSUME IInv, [Next]_vars PROVE IInv'
  OBVIOUS
<1>1. CASE UNCHANGED vars
  BY <1>1 DEF vars, IInv, TypeOK, Grounded
<1>2. CASE Heal
  BY <1>2, HealKeeps
<1>3. CASE Tick
  BY <1>3, TickKeeps
<1>4. ASSUME NEW r \in Requests, Arrive(r) \/ Serve(r) \/ Cancel(r) PROVE IInv'
  <2>1. Streams \in SUBSET BOOLEAN
    BY SwitchAssumption
  <2>2. CASE Attempt(r, Streams)
    BY <2>1, <2>2, NextCandidateKeeps, NoWinnerKeeps, TryCredentialKeeps, NoAccountKeeps,
       BuildKeeps, SucceedKeeps, FailKeeps, CooldownKeeps DEF Attempt
  <2>3. CASE Arrive(r) \/ AllowCandidate(r) \/ Resolved(r) \/ Answered(r) \/ Cancel(r)
    BY <2>3, ArriveKeeps, AllowCandidateKeeps, ResolvedKeeps, AnsweredKeeps, CancelKeeps
  <2> QED BY <1>4, <2>2, <2>3 DEF Serve
<1> QED BY <1>1, <1>2, <1>3, <1>4 DEF Next

THEOREM Invariance == Spec => []IInv
<1> QED BY InitInv, NextInv, PTL DEF Spec

(* No circuit opens for a failure that was not its own, and a credential   *)
(* is banned only by a refusal, the threshold'th at least of its failures  *)
(* in a row, limits counted, however the failures of concurrent requests   *)
(* interleave with successes, probes and time (ADR-0012;                   *)
(* breaker.go:292-367).                                                    *)
THEOREM BlamedForItself == Spec => []OpenForCause
<1>1. IInv => OpenForCause
  BY DEF IInv, Grounded, Due, OpenForCause
<1> QED BY <1>1, Invariance, PTL

(* Every reply is true of the calls made for it, and these follow the plan *)
(* (run and resolve, dispatcher.go:150-276).                               *)
LEMMA RepliesFromAnswers == IInv => ReplyHonest
<1> SUFFICES ASSUME IInv, NEW r \in Requests, req[r].pc = "done"
             PROVE  LET q     == req[r]
                        n     == Len(q.calls)
                        ended == IF n = 0 THEN "nothing" ELSE q.calls[n].end
                    IN  /\ q.reply = "ok" <=> ended = "ok"
                        /\ \A i \in 1 .. n - 1 : q.calls[i].end \notin {"ok", "Request"}
                        /\ q.reply = "client error" <=> ended = "Request"
                        /\ q.reply \in {"no candidate", "no attempts", "no attempts: quota",
                                        "no attempts: breaker"} => n = 0
                        /\ q.reply = "max rounds" => n = MaxRounds(q)
                        /\ q.reply = "exhausted" => n \in 1 .. MaxRounds(q)
                                                    /\ q.lastErr # NoError
                        /\ q.reply = "timeout" => q.cancelled
  BY DEF ReplyHonest
<1>1. Answer(req[r])
  BY DEF IInv, Sound
<1> QED BY <1>1 DEF Answer, Outcome, Curable

LEMMA CallsFollow ==
    ASSUME NEW w, NEW q, q \in Inquiries, NEW d \in Nat, NEW n \in Nat, Made(w, q, d), Kept(q, n),
           d <= Len(q.kept), n <= Len(q.plan.steps)
    PROVE  \E f \in [DOMAIN q.calls -> DOMAIN q.plan.steps] :
             /\ Increasing(f)
             /\ \A i \in DOMAIN q.calls : Suits(w, q.calls[i].cand, q.plan.steps[f[i]])
<1>1. PICK f \in [DOMAIN q.calls -> 1..d] :
        Increasing(f) /\ \A i \in DOMAIN q.calls : Suits(w, q.calls[i].cand, q.kept[f[i]])
  BY DEF Made
<1>2. PICK g \in [DOMAIN q.kept -> 1..n] :
        Increasing(g) /\ \A i \in DOMAIN q.kept : q.kept[i] = q.plan.steps[g[i]]
  BY DEF Kept
<1>3. /\ q.kept \in Seq(Candidates) /\ q.plan.steps \in Seq(Candidates)
      /\ q.calls \in Seq([cand : Candidates, end : Scopes \cup {"ok"}])
  BY DEF Inquiries
<1>4. /\ DOMAIN q.kept = 1 .. Len(q.kept) /\ Len(q.kept) \in Nat
      /\ DOMAIN q.plan.steps = 1 .. Len(q.plan.steps) /\ Len(q.plan.steps) \in Nat
      /\ DOMAIN q.calls = 1 .. Len(q.calls) /\ Len(q.calls) \in Nat
  BY <1>3
<1> DEFINE h == [i \in DOMAIN q.calls |-> g[f[i]]]
<1>5. ASSUME NEW i \in DOMAIN q.calls
      PROVE  /\ f[i] \in DOMAIN q.kept /\ h[i] \in DOMAIN q.plan.steps /\ h[i] = g[f[i]]
             /\ Suits(w, q.calls[i].cand, q.plan.steps[h[i]])
  <2>1. f[i] \in 1..d
    OBVIOUS
  <2>2. f[i] \in DOMAIN q.kept
    BY <1>4, <2>1
  <2>3. g[f[i]] \in 1..n
    BY <2>2
  <2>4. g[f[i]] \in DOMAIN q.plan.steps
    BY <1>4, <2>3
  <2> QED BY <1>1, <1>2, <2>2, <2>4
<1>6. Increasing(h)
  <2> SUFFICES ASSUME NEW i \in DOMAIN q.calls, NEW j \in DOMAIN q.calls, i < j
               PROVE  h[i] < h[j]
    BY DEF Increasing
  <2>1. f[i] < f[j]
    BY <1>1 DEF Increasing
  <2>2. f[i] \in DOMAIN q.kept /\ f[j] \in DOMAIN q.kept
    BY <1>5
  <2>3. g[f[i]] < g[f[j]]
    BY <1>2, <2>1, <2>2 DEF Increasing
  <2> QED BY <2>3
<1>7. h \in [DOMAIN q.calls -> DOMAIN q.plan.steps]
  BY <1>5
<1> HIDE DEF h
<1> QED BY <1>5, <1>6, <1>7

LEMMA PlansFromPaths == IInv => FollowsPlan
<1> SUFFICES ASSUME IInv, NEW r \in Requests, req[r].calls # <<>>
             PROVE  LET q == req[r]
                    IN  \E f \in [DOMAIN q.calls -> DOMAIN q.plan.steps] :
                          /\ \A i, j \in DOMAIN q.calls : i < j => f[i] < f[j]
                          /\ \A i \in DOMAIN q.calls : Fits(q.calls[i].cand, q.plan.steps[f[i]])
  BY DEF FollowsPlan
<1> DEFINE q == req[r]
<1>1. Sound(world, q) /\ q \in Inquiries /\ q.calls # <<>>
  BY DEF IInv, Sound
<1> HIDE DEF q
<1>2. q.pc \notin {"idle", "preflight"}
  <2>1. q.pc = "idle" => q.calls = <<>>
    <3>1. Idle.calls = <<>>
      BY DEF Idle
    <3> QED BY <1>1, <3>1 DEF Sound, Tale
  <2>2. q.pc = "preflight" => q.calls = <<>>
    BY <1>1 DEF Sound, Path
  <2> QED BY <1>1, <2>1, <2>2
<1>3. /\ Kept(q, Len(q.plan.steps)) /\ Len(q.plan.steps) \in Nat
      /\ EndOf(q.todo, q.kept) /\ Taken(q) \in Nat /\ Len(q.kept) \in Nat /\ Len(q.todo) \in Nat
  BY <1>1, <1>2, LoopFacts
<1>4. PICK d \in Nat : Made(world, q, d) /\ d <= Len(q.kept)
  <2>1. Taken(q) <= Len(q.kept)
    <3>1. \A m, n \in Nat : m - n <= m
      OBVIOUS
    <3> QED BY <1>3, <3>1 DEF Taken
  <2>2. CASE q.pc \in {"next", "cooldown", "done"}
    BY <1>1, <1>3, <2>1, <2>2 DEF Sound, Path
  <2>3. CASE q.pc \in {"resolve", "build", "call"}
    <3>1. Made(world, q, Taken(q) - 1) /\ Taken(q) - 1 \in Nat /\ Taken(q) - 1 <= Len(q.kept)
      BY <1>1, <1>3, <2>1, <2>3 DEF Sound, Path
    <3> QED BY <3>1
  <2> QED BY <1>1, <1>2, <2>2, <2>3 DEF Inquiries, Stages
<1>5. Len(q.plan.steps) <= Len(q.plan.steps)
  BY <1>3
<1>6. PICK f \in [DOMAIN q.calls -> DOMAIN q.plan.steps] :
             /\ Increasing(f)
             /\ \A i \in DOMAIN q.calls : Suits(world, q.calls[i].cand, q.plan.steps[f[i]])
  BY <1>1, <1>3, <1>4, <1>5, CallsFollow
<1>7. \A i, j \in DOMAIN q.calls : i < j => f[i] < f[j]
  BY <1>6 DEF Increasing
<1>8. \A i \in DOMAIN q.calls : Fits(q.calls[i].cand, q.plan.steps[f[i]])
  BY <1>6 DEF Suits, Fits, Serves, usable
<1> QED BY <1>7, <1>8 DEF q

THEOREM FailsOverHonestly == Spec => []FailoverHonest
<1>1. IInv => FailoverHonest
  BY RepliesFromAnswers, PlansFromPaths DEF FailoverHonest
<1> QED BY <1>1, Invariance, PTL

-----------------------------------------------------------------------------
(* Numbers and sequences. A set of numbers has a least one, which is what  *)
(* an induction over numbers rests on here.                                *)
LEMMA Least == ASSUME NEW T \in SUBSET Nat, T # {} PROVE \E n \in T : \A m \in T : n <= m
<1> DEFINE Under(n) == {m \in Nat : m < n}
           unders == {Under(n) : n \in T}
<1>1. \A n \in T : Under(n) \in SUBSET Nat /\ IsFiniteSet(Under(n))
  <2> SUFFICES ASSUME NEW n \in T PROVE IsFiniteSet(Under(n))
    OBVIOUS
  <2>1. n \in Nat /\ \A m \in Under(n) : m <= n
    OBVIOUS
  <2>2. Under(n) \in SUBSET Nat
    OBVIOUS
  <2> HIDE DEF Under
  <2> QED BY <2>1, <2>2, FS_BoundedSetOfNaturals
<1>2. unders \subseteq FiniteSubsetsOf(Nat) /\ unders # {}
  BY <1>1 DEF FiniteSubsetsOf
<1>3. IsWellFoundedOn(StrictSubsetOrdering(Nat), FiniteSubsetsOf(Nat))
  BY FS_StrictSubsetOrderingWellFounded
<1> HIDE DEF unders
<1>4. \E A \in unders : \A B \in unders : ~(<<B, A>> \in StrictSubsetOrdering(Nat))
  BY <1>2, <1>3, WFMin
<1>5. PICK n \in T : \A m \in T : ~(<<Under(m), Under(n)>> \in StrictSubsetOrdering(Nat))
  BY <1>4 DEF unders
<1>6. ASSUME NEW m \in T, m < n PROVE FALSE
  <2>1. Under(m) \subseteq Under(n) /\ m \in Under(n) /\ m \notin Under(m)
    BY <1>6
  <2>2. <<Under(m), Under(n)>> \in (SUBSET Nat) \X (SUBSET Nat)
    BY <1>1
  <2> HIDE DEF Under
  <2> QED BY <1>5, <2>1, <2>2 DEF StrictSubsetOrdering
<1>7. \A m \in T : n <= m
  BY <1>6
<1> QED BY <1>7

LEMMA MinIsLeast ==
    ASSUME NEW T \in SUBSET Nat, T # {}
    PROVE  Seqs!Min(T) \in T /\ \A m \in T : Seqs!Min(T) <= m
<1>1. \E n \in T : \A m \in T : n <= m
  BY Least
<1> QED BY <1>1 DEF Seqs!Min

(* A first part of the function by which FlattenSeq concatenates.          *)
Flattens(f, ss, n) ==
    f = [i \in 1..n |-> IF i = 1 THEN ss[i] ELSE f[i - 1] \o ss[i]]

LEMMA FlattenIs ==
    ASSUME NEW ss
    PROVE  Seqs!FlattenSeq(ss) =
             IF Len(ss) = 0 THEN ss ELSE (CHOOSE f : Flattens(f, ss, Len(ss)))[Len(ss)]
  BY DEF Seqs!FlattenSeq, Flattens

LEMMA FlattensMore ==
    ASSUME NEW ss, NEW n \in Nat, NEW f, Flattens(f, ss, n)
    PROVE  \E g : Flattens(g, ss, n + 1)
<1> DEFINE g == [i \in 1 .. n + 1 |-> IF i = n + 1
                                      THEN IF i = 1 THEN ss[i] ELSE f[n] \o ss[i]
                                      ELSE f[i]]
           h == [i \in 1 .. n + 1 |-> IF i = 1 THEN ss[i] ELSE g[i - 1] \o ss[i]]
<1>1. ASSUME NEW i \in 1 .. n + 1 PROVE g[i] = h[i]
  <2>1. CASE i = n + 1 /\ i = 1
    BY <2>1
  <2>2. CASE i = n + 1 /\ i # 1
    <3>1. n \in 1 .. n + 1 /\ n # n + 1 /\ i - 1 = n
      BY <2>2
    <3> QED BY <2>2, <3>1
  <2>3. CASE i # n + 1
    <3>1. i \in 1..n
      BY <2>3
    <3>2. f[i] = IF i = 1 THEN ss[i] ELSE f[i - 1] \o ss[i]
      BY <3>1 DEF Flattens
    <3>3. i # 1 => i - 1 \in 1 .. n + 1 /\ i - 1 # n + 1
      BY <3>1
    <3> QED BY <2>3, <3>2, <3>3
  <2> QED BY <2>1, <2>2, <2>3
<1>2. g = h
  BY <1>1
<1>3. Flattens(g, ss, n + 1)
  BY <1>2 DEF Flattens
<1> QED BY <1>3

LEMMA FlattensExists == ASSUME NEW ss, NEW n \in Nat PROVE \E f : Flattens(f, ss, n)
<1> DEFINE Missing == {m \in Nat : ~\E f : Flattens(f, ss, m)}
<1>1. CASE Missing = {}
  BY <1>1
<1>2. CASE Missing # {}
  <2>1. PICK m \in Missing : \A l \in Missing : m <= l
    BY <1>2, Least
  <2>2. m # 0
    <3> DEFINE f == [i \in 1..0 |-> IF i = 1 THEN ss[i] ELSE ss[i]]
    <3>1. f = [i \in 1..0 |-> IF i = 1 THEN ss[i] ELSE f[i - 1] \o ss[i]]
      OBVIOUS
    <3>2. Flattens(f, ss, 0)
      BY <3>1 DEF Flattens
    <3> QED BY <3>2
  <2>3. m - 1 \in Nat /\ m - 1 < m /\ m - 1 + 1 = m
    BY <2>2
  <2>4. PICK f : Flattens(f, ss, m - 1)
    BY <2>1, <2>3
  <2>5. \E g : Flattens(g, ss, m)
    BY <2>3, <2>4, FlattensMore
  <2> QED BY <2>5
<1> QED BY <1>1, <1>2

(* Sequences of something, concatenated, are a sequence of it.             *)
LEMMA FlattenTyped ==
    ASSUME NEW S, NEW ss \in Seq(Seq(S))
    PROVE  Seqs!FlattenSeq(ss) \in Seq(S)
<1> DEFINE n == Len(ss)
           f == CHOOSE g : Flattens(g, ss, n)
<1>1. n \in Nat /\ \A i \in 1..n : ss[i] \in Seq(S)
  OBVIOUS
<1>2. Flattens(f, ss, n)
  BY <1>1, FlattensExists
<1>3. Seqs!FlattenSeq(ss) = IF n = 0 THEN ss ELSE f[n]
  BY FlattenIs
<1> HIDE DEF n, f
<1>4. \A i \in 1..n : f[i] = IF i = 1 THEN ss[i] ELSE f[i - 1] \o ss[i]
  BY <1>2 DEF Flattens
<1> DEFINE Odd == {i \in 1..n : f[i] \notin Seq(S)}
<1>5. Odd = {}
  <2>1. SUFFICES ASSUME Odd # {} PROVE FALSE
    OBVIOUS
  <2>2. PICK m \in Odd : \A l \in Odd : m <= l
    <3>1. Odd \in SUBSET Nat
      OBVIOUS
    <3> QED BY <2>1, <3>1, Least
  <2>3. m # 1
    BY <1>1, <1>4
  <2>4. m - 1 \in 1..n /\ m - 1 < m /\ m \in 1..n
    BY <1>1, <2>3
  <2>5. f[m - 1] \in Seq(S) /\ ss[m] \in Seq(S)
    BY <1>1, <2>2, <2>4
  <2>6. f[m] = f[m - 1] \o ss[m]
    BY <1>4, <2>3, <2>4
  <2>7. f[m - 1] \o ss[m] \in Seq(S)
    BY <2>5, ConcatProperties
  <2> QED BY <2>6, <2>7
<1>6. n = 0 => ss = <<>>
  BY DEF n
<1>7. <<>> \in Seq(S)
  OBVIOUS
<1> QED BY <1>1, <1>3, <1>5, <1>6, <1>7

-----------------------------------------------------------------------------
(* Plans with a shape. The invariant of a job j, whose loops are requests  *)
(* of R: which loops rest, wait for their turn, or have begun.             *)
At(R, i) == R[Loops[i]]

Jobs == [stage : {"idle", "preflight", "running", "done"},
         kind  : {"none", "fusion", "pipeline"},
         parts : SUBSET DOMAIN Loops, turn : Nat,
         reply : Replies \cup {"all failed"}, winner : Nat]

Resting(j, R) == \A i \in DOMAIN Loops \ j.parts : At(R, i).pc = "idle"

(* The parts of a pipeline before the one whose turn it is have succeeded, *)
(* those after it have not begun.                                          *)
InTurn(j, R) ==
    /\ j.turn \in j.parts /\ Begun(At(R, j.turn))
    /\ \A i \in j.parts : i < j.turn => At(R, i).pc = "done" /\ At(R, i).reply = "ok"
    /\ \A i \in j.parts : i > j.turn => At(R, i).pc = "preflight" /\ At(R, i).todo = <<>>

(* What an answer rests on.                                                *)
FusionTold(j, R) ==
    /\ \A i \in j.parts : At(R, i).pc = "done"
    /\ j.winner > 0 => j.winner \in j.parts /\ At(R, j.winner).reply = "ok"
    /\ \A i \in j.parts : At(R, i).reply = "ok" => j.winner > 0 /\ j.winner <= i
PipelineTold(j, R) ==
    /\ j.parts # {} => At(R, j.turn).pc = "done"
    /\ j.winner > 0 => /\ j.winner = j.turn /\ j.turn \in j.parts
                       /\ At(R, j.turn).reply = "ok"
                       /\ \A i \in j.parts : i <= j.turn

JobSound(j, R) ==
    /\ j \in Jobs /\ Resting(j, R)
    /\ j.stage = "idle" => j.parts = {}
    /\ j.stage # "idle" => j.kind \in {"fusion", "pipeline"}
    /\ j.stage # "done" => j.winner = 0
    /\ j.stage = "preflight" => \A i \in j.parts : At(R, i).pc = "preflight"
    /\ j.stage \in {"running", "done"} =>
         IF j.kind = "fusion" THEN \A i \in j.parts : Begun(At(R, i))
         ELSE InTurn(j, R) \/ (j.stage = "done" /\ j.parts = {})
    /\ j.stage = "done" => IF j.kind = "fusion" THEN FusionTold(j, R) ELSE PipelineTold(j, R)

JobInv == IInv /\ JobSound(job, req)

LEMMA PartOfLoop ==
    ASSUME NEW i \in DOMAIN Loops
    PROVE  /\ PartOf(Loops[i]) = i /\ Loops[i] \in Requests
           /\ \A j \in DOMAIN Loops : Loops[j] = Loops[i] => j = i
<1>1. \A j \in DOMAIN Loops : Loops[j] = Loops[i] => j = i
  BY ShapesAssumption
<1>2. Loops[i] \in Requests
  BY ShapesAssumption
<1>3. PartOf(Loops[i]) \in DOMAIN Loops /\ Loops[PartOf(Loops[i])] = Loops[i]
  BY DEF PartOf
<1> QED BY <1>1, <1>2, <1>3

LEMMA LoopsAreNumbers ==
    /\ DOMAIN Loops \in SUBSET Nat /\ \A i \in DOMAIN Loops : i > 0
    /\ DOMAIN Loops = 1 .. Len(Loops) /\ Len(Loops) \in Nat
<1>1. DOMAIN Loops = 1 .. Len(Loops) /\ Len(Loops) \in Nat
  BY ShapesAssumption
<1> QED BY <1>1

(* What is said of a job looks at no more of its loops than this.          *)
LEMMA JobsSee ==
    ASSUME NEW j, NEW R, JobSound(j, R), NEW R2,
           \A i \in DOMAIN Loops : /\ At(R2, i).pc = At(R, i).pc
                                   /\ At(R2, i).todo = At(R, i).todo
                                   /\ At(R2, i).reply = At(R, i).reply
    PROVE  JobSound(j, R2)
<1>1. /\ j \in Jobs /\ j.parts \subseteq DOMAIN Loops
      /\ \A i \in j.parts : /\ At(R2, i).pc = At(R, i).pc
                            /\ At(R2, i).todo = At(R, i).todo
                            /\ At(R2, i).reply = At(R, i).reply
  BY DEF JobSound, Jobs
<1>2. Resting(j, R2)
  BY DEF JobSound, Resting
<1>3. \A i \in j.parts : Begun(At(R2, i)) <=> Begun(At(R, i))
  BY <1>1 DEF Begun
<1>4. InTurn(j, R) => InTurn(j, R2)
  BY <1>1, <1>3 DEF InTurn
<1>5. FusionTold(j, R) => FusionTold(j, R2)
  BY <1>1 DEF FusionTold
<1>6. InTurn(j, R) /\ PipelineTold(j, R) => PipelineTold(j, R2)
  BY <1>1 DEF InTurn, PipelineTold
<1>7. j.parts = {} /\ PipelineTold(j, R) => PipelineTold(j, R2)
  BY DEF PipelineTold
<1> QED BY <1>1, <1>2, <1>3, <1>4, <1>5, <1>6, <1>7 DEF JobSound

(* A loop that runs goes on, or ends: the others see nothing of it.        *)
LEMMA PartMoves ==
    ASSUME NEW j, NEW R, JobSound(j, R), j.stage = "running", NEW i \in j.parts,
           Begun(At(R, i)), At(R, i).pc # "done", NEW R2, Begun(At(R2, i)),
           \A l \in DOMAIN Loops \ {i} : At(R2, l) = At(R, l)
    PROVE  JobSound(j, R2)
<1>1. j \in Jobs /\ j.parts \subseteq DOMAIN Loops
  BY DEF JobSound, Jobs
<1>2. Resting(j, R2)
  BY <1>1 DEF JobSound, Resting
<1>3. CASE j.kind = "fusion"
  BY <1>1, <1>2, <1>3 DEF JobSound
<1>4. CASE j.kind # "fusion"
  <2>1. InTurn(j, R)
    BY <1>4 DEF JobSound
  <2>2. j.turn \in Nat /\ i \in Nat
    BY <1>1, LoopsAreNumbers DEF Jobs
  <2>3. i = j.turn
    <3>1. ~(i < j.turn)
      BY <2>1 DEF InTurn
    <3>2. ~(i > j.turn)
      BY <2>1 DEF InTurn, Begun
    <3> QED BY <2>2, <3>1, <3>2
  <2>4. InTurn(j, R2)
    BY <1>1, <2>1, <2>2, <2>3 DEF InTurn
  <2> QED BY <1>1, <1>2, <1>4, <2>4 DEF JobSound
<1> QED BY <1>3, <1>4

(* Requests may change all at once, if no circuit does.                    *)
LEMMA ManyCompose ==
    ASSUME IInv, UNCHANGED <<circuits, world, blame>>, NEW F, req' = F, DOMAIN F = Requests,
           F = [r \in Requests |-> F[r]], \A r \in Requests : Sound(world, F[r])
    PROVE  IInv'
<1>1. req' \in [Requests -> Inquiries]
  BY DEF Sound
<1>2. TypeOK' /\ Grounded'
  BY <1>1 DEF IInv, TypeOK, Grounded
<1> QED BY <1>2 DEF IInv

(* A step of the attempt loop is a step of a request that has begun and    *)
(* not ended.                                                              *)
LEMMA AttemptKeeps ==
    ASSUME IInv, NEW r \in Requests, NEW streams \in SUBSET BOOLEAN, Attempt(r, streams)
    PROVE  IInv'
  BY NextCandidateKeeps, NoWinnerKeeps, TryCredentialKeeps, NoAccountKeeps,
     BuildKeeps, SucceedKeeps, FailKeeps, CooldownKeeps DEF Attempt

Moves(r) == /\ Begun(req[r]) /\ req[r].pc # "done" /\ Begun(req'[r])
            /\ \A s \in Requests \ {r} : req'[s] = req[s]

LEMMA SetsTo ==
    ASSUME IInv, NEW r \in Requests, NEW q, Set(r, q)
    PROVE  Set(r, req'[r]) /\ req'[r] = q
  BY DEF IInv, TypeOK, Set

LEMMA MovesTo ==
    ASSUME IInv, NEW r \in Requests, req[r].pc \notin {"idle", "preflight", "done"},
           Set(r, req'[r]), req'[r].pc \notin {"idle", "preflight"}
    PROVE  Moves(r)
  BY DEF IInv, TypeOK, Moves, Set, Begun

LEMMA AttemptMoves ==
    ASSUME IInv, NEW r \in Requests, NEW streams, Attempt(r, streams)
    PROVE  Moves(r)
<1> DEFINE q == req[r]
<1>1. req \in [Requests -> Inquiries] /\ req[r] \in Inquiries
  BY DEF IInv, TypeOK
<1>2. CASE NextCandidate(r)
  <2>1. Set(r, req'[r]) /\ req'[r].pc = "resolve"
    BY <1>1, <1>2 DEF Set, NextCandidate, Inquiries
  <2> QED BY <1>2, <2>1, MovesTo DEF NextCandidate
<1>3. CASE NoWinner(r)
  <2>1. Set(r, req'[r]) /\ req'[r].pc = "done"
    BY <1>1, <1>3 DEF Set, NoWinner, Reply, Inquiries
  <2> QED BY <1>3, <2>1, MovesTo DEF NoWinner
<1>4. CASE TryCredential(r)
  <2>1. PICK k, cc, tt :
          \/ Set(r, [q EXCEPT !.pc = "build", !.cand = cc, !.ids = {}])
          \/ Set(r, [q EXCEPT !.pc = "next", !.cand = None, !.ids = {}, !.skips = @ \cup {tt}])
          \/ Set(r, [q EXCEPT !.ids = @ \ {k}])
    BY <1>4 DEF TryCredential
  <2>2. q.pc = "resolve"
    BY <1>4 DEF TryCredential
  <2>3. /\ Set(r, req'[r])
        /\ \/ req'[r] = [q EXCEPT !.pc = "build", !.cand = cc, !.ids = {}]
           \/ req'[r] = [q EXCEPT !.pc = "next", !.cand = None, !.ids = {}, !.skips = @ \cup {tt}]
           \/ req'[r] = [q EXCEPT !.ids = @ \ {k}]
    BY <2>1, SetsTo
  <2>4. req'[r].pc \in {"resolve", "next", "build"}
    BY <1>1, <2>2, <2>3 DEF Inquiries
  <2> QED BY <2>2, <2>3, <2>4, MovesTo
<1>5. CASE NoAccount(r)
  <2>1. Set(r, req'[r]) /\ req'[r].pc = "next"
    BY <1>1, <1>5 DEF Set, NoAccount, Inquiries
  <2> QED BY <1>5, <2>1, MovesTo DEF NoAccount
<1>6. CASE Build(r)
  <2>1. PICK e :
          \/ Set(r, [q EXCEPT !.pc = "done", !.reply = "timeout"])
          \/ Set(r, [q EXCEPT !.pc = "call", !.attempts = @ + 1])
          \/ Set(r, [q EXCEPT !.pc = "next", !.cand = None, !.lastErr = e])
    BY <1>6 DEF Build, Reply
  <2>2. /\ Set(r, req'[r])
        /\ \/ req'[r] = [q EXCEPT !.pc = "done", !.reply = "timeout"]
           \/ req'[r] = [q EXCEPT !.pc = "call", !.attempts = @ + 1]
           \/ req'[r] = [q EXCEPT !.pc = "next", !.cand = None, !.lastErr = e]
    BY <2>1, SetsTo
  <2>3. req'[r].pc \in {"done", "call", "next"}
    BY <1>1, <2>2 DEF Inquiries
  <2> QED BY <1>6, <2>2, <2>3, MovesTo DEF Build
<1>7. CASE Succeed(r, streams)
  <2>1. Set(r, req'[r]) /\ req'[r].pc = "done"
    BY <1>1, <1>7 DEF Set, Succeed, Inquiries
  <2> QED BY <1>7, <2>1, MovesTo DEF Succeed
<1>8. CASE Fail(r, streams)
  <2>1. PICK e, calls :
          \/ Set(r, [[q EXCEPT !.calls = calls, !.lastErr = e]
                       EXCEPT !.pc = "done", !.reply = "client error"])
          \/ Set(r, [[q EXCEPT !.calls = calls, !.lastErr = e]
                       EXCEPT !.pc = "done", !.reply = "timeout"])
          \/ Set(r, [[q EXCEPT !.calls = calls, !.lastErr = e]
                       EXCEPT !.pc = IF e.retryAfter > 0 THEN "cooldown" ELSE "next",
                              !.cand = None])
    BY <1>8 DEF Fail
  <2> DEFINE q0 == [q EXCEPT !.calls = calls, !.lastErr = e]
             on == IF e.retryAfter > 0 THEN "cooldown" ELSE "next"
  <2>2. /\ Set(r, req'[r])
        /\ \/ req'[r] = [q0 EXCEPT !.pc = "done", !.reply = "client error"]
           \/ req'[r] = [q0 EXCEPT !.pc = "done", !.reply = "timeout"]
           \/ req'[r] = [q0 EXCEPT !.pc = on, !.cand = None]
    BY <2>1, SetsTo
  <2>3. on \in {"cooldown", "next"}
    OBVIOUS
  <2> HIDE DEF on
  <2>4. req'[r].pc \in {"done", "cooldown", "next"}
    BY <1>1, <2>2, <2>3 DEF Inquiries
  <2> QED BY <1>8, <2>2, <2>4, MovesTo DEF Fail
<1>9. CASE Cooldown(r)
  <2>1. \/ Set(r, [q EXCEPT !.pc = "next"])
        \/ Set(r, [q EXCEPT !.pc = "done", !.reply = "timeout"])
    BY <1>9 DEF Cooldown, Reply
  <2>2. /\ Set(r, req'[r])
        /\ \/ req'[r] = [q EXCEPT !.pc = "next"]
           \/ req'[r] = [q EXCEPT !.pc = "done", !.reply = "timeout"]
    BY <2>1, SetsTo
  <2>3. req'[r].pc \in {"done", "next"}
    BY <1>1, <2>2 DEF Inquiries
  <2> QED BY <1>9, <2>2, <2>3, MovesTo DEF Cooldown
<1> QED BY <1>2, <1>3, <1>4, <1>5, <1>6, <1>7, <1>8, <1>9 DEF Attempt

-----------------------------------------------------------------------------
(* The steps of a job.                                                     *)
LEMMA NoJobSound ==
    ASSUME NEW R, \A i \in DOMAIN Loops : At(R, i).pc = "idle"
    PROVE  JobSound(NoJob, R)
<1>1. NoJob \in Jobs /\ Resting(NoJob, R)
  BY DEF NoJob, Jobs, Replies, Resting
<1>2. NoJob.stage = "idle" /\ NoJob.parts = {} /\ NoJob.winner = 0
  BY DEF NoJob
<1> QED BY <1>1, <1>2 DEF JobSound

LEMMA JobInit == StructuralInit => JobInv
<1> SUFFICES ASSUME StructuralInit PROVE JobInv
  OBVIOUS
<1>1. IInv
  BY InitInv DEF StructuralInit
<1>2. \A i \in DOMAIN Loops : At(req, i).pc = "idle"
  BY PartOfLoop DEF StructuralInit, Init, Idle, At
<1>3. job = NoJob
  BY DEF StructuralInit
<1> QED BY <1>1, <1>2, <1>3, NoJobSound DEF JobInv

(* A shape has a loop for each of its steps.                               *)
LEMMA ShapesFit ==
    ASSUME NEW s \in Shapes
    PROVE  /\ s.kind \in {"fusion", "pipeline"} /\ DOMAIN s.steps \subseteq DOMAIN Loops
           /\ \A i \in DOMAIN s.steps : s.steps[i] \in Seq(Candidates)
<1>1. /\ s.kind \in {"fusion", "pipeline"} /\ s.steps \in Seq(Seq(Candidates))
      /\ Len(s.steps) \in 1 .. Len(Loops)
  BY ShapesAssumption
<1>2. DOMAIN s.steps = 1 .. Len(s.steps)
  BY <1>1
<1>3. DOMAIN s.steps \subseteq DOMAIN Loops
  BY <1>1, <1>2, LoopsAreNumbers
<1> QED BY <1>1, <1>3

LEMMA WaitingSound ==
    ASSUME NEW w, NEW step \in Seq(Candidates)
    PROVE  Sound(w, Waiting(step)) /\ Waiting(step).pc = "preflight"
<1> DEFINE p == [steps |-> step, auto |-> FALSE]
<1>1. p \in [steps : Seq(Candidates), auto : BOOLEAN] /\ p.steps = step
  OBVIOUS
<1>2. Waiting(step) = [Idle EXCEPT !.pc = "preflight", !.plan = p, !.todo = p.steps]
  BY DEF Waiting, Idle
<1>3. Waiting(step).pc = "preflight"
  BY DEF Waiting, Idle
<1> HIDE DEF p
<1> QED BY <1>1, <1>2, <1>3, StartSound

LEMMA ArriveJobKeeps == ASSUME JobInv, ArriveJob PROVE JobInv'
<1>1. PICK s \in Shapes :
        /\ job' = [NoJob EXCEPT !.stage = "preflight", !.kind = s.kind,
                                !.parts = DOMAIN s.steps]
        /\ req' = [r \in Requests |-> IF \E i \in DOMAIN s.steps : Loops[i] = r
                                      THEN Waiting(s.steps[PartOf(r)]) ELSE req[r]]
  BY DEF ArriveJob
<1>2. /\ s.kind \in {"fusion", "pipeline"} /\ DOMAIN s.steps \subseteq DOMAIN Loops
      /\ \A i \in DOMAIN s.steps : s.steps[i] \in Seq(Candidates)
  BY ShapesFit
<1>3. /\ IInv /\ UNCHANGED <<circuits, world, blame>>
      /\ \A i \in DOMAIN Loops : Loop(i).pc = "idle"
  BY DEF JobInv, ArriveJob
<1> DEFINE F == [r \in Requests |-> IF \E i \in DOMAIN s.steps : Loops[i] = r
                                    THEN Waiting(s.steps[PartOf(r)]) ELSE req[r]]
<1>4. ASSUME NEW r \in Requests PROVE Sound(world, F[r])
  <2>1. CASE \E i \in DOMAIN s.steps : Loops[i] = r
    <3>1. PICK i \in DOMAIN s.steps : Loops[i] = r
      BY <2>1
    <3>2. PartOf(r) = i
      BY <1>2, <3>1, PartOfLoop
    <3>3. F[r] = Waiting(s.steps[i])
      BY <2>1, <3>2
    <3> QED BY <1>2, <3>3, WaitingSound
  <2>2. CASE ~\E i \in DOMAIN s.steps : Loops[i] = r
    BY <1>3, <2>2 DEF IInv
  <2> QED BY <2>1, <2>2
<1>5. ASSUME NEW i \in DOMAIN Loops
      PROVE  At(F, i).pc = IF i \in DOMAIN s.steps THEN "preflight" ELSE "idle"
  <2>1. /\ Loops[i] \in Requests /\ PartOf(Loops[i]) = i
        /\ \A j \in DOMAIN Loops : Loops[j] = Loops[i] => j = i
    BY PartOfLoop
  <2>2. CASE i \in DOMAIN s.steps
    <3>1. F[Loops[i]] = Waiting(s.steps[i])
      BY <2>1, <2>2
    <3> QED BY <1>2, <2>2, <3>1, WaitingSound DEF At
  <2>3. CASE i \notin DOMAIN s.steps
    <3>1. F[Loops[i]] = req[Loops[i]]
      BY <1>2, <2>1, <2>3
    <3> QED BY <1>3, <2>3, <3>1 DEF At, Loop
  <2> QED BY <2>2, <2>3
<1>6. req' = F /\ DOMAIN F = Requests /\ F = [r \in Requests |-> F[r]]
  BY <1>1
<1> HIDE DEF F
<1>7. IInv'
  BY <1>3, <1>4, <1>6, ManyCompose
<1>8. /\ job' \in Jobs /\ job'.stage = "preflight" /\ job'.parts = DOMAIN s.steps
      /\ job'.kind = s.kind /\ job'.winner = 0
  BY <1>1, <1>2 DEF NoJob, Jobs, Replies
<1>9. JobSound(job', F)
  BY <1>2, <1>5, <1>8 DEF JobSound, Resting
<1> QED BY <1>6, <1>7, <1>9 DEF JobInv

LEMMA PreflightJobKeeps == ASSUME JobInv, PreflightJob PROVE JobInv'
<1>1. PICK i \in job.parts : AllowCandidate(Loops[i])
  BY DEF PreflightJob
<1>2. /\ IInv /\ JobSound(job, req) /\ job' = job /\ job.stage = "preflight"
      /\ job.parts \subseteq DOMAIN Loops
  BY DEF JobInv, PreflightJob, JobSound, Jobs
<1> DEFINE r == Loops[i]
<1>3. /\ r \in Requests /\ \A j \in DOMAIN Loops \ {i} : Loops[j] # r /\ Loops[j] \in Requests
  BY <1>2, PartOfLoop
<1>4. IInv'
  BY <1>1, <1>2, <1>3, AllowCandidateKeeps
<1>5. \E kept : Set(r, [req[r] EXCEPT !.todo = Tail(@), !.kept = kept])
  <2>1. \/ Set(r, [req[r] EXCEPT !.todo = Tail(@), !.kept = Append(@, Head(req[r].todo))])
        \/ Set(r, [req[r] EXCEPT !.todo = Tail(@)])
    BY <1>1 DEF AllowCandidate
  <2>2. [req[r] EXCEPT !.todo = Tail(@)]
          = [req[r] EXCEPT !.todo = Tail(@), !.kept = req[r].kept]
    BY <1>2, <1>3 DEF IInv, TypeOK, Inquiries
  <2> QED BY <2>1, <2>2
<1>6. PICK kept : Set(r, [req[r] EXCEPT !.todo = Tail(@), !.kept = kept])
  BY <1>5
<1>7. req[r] \in Inquiries /\ req \in [Requests -> Inquiries] /\ req[r].pc = "preflight"
  BY <1>1, <1>2, <1>3 DEF IInv, TypeOK, AllowCandidate
<1>8. req'[r].pc = "preflight" /\ \A j \in DOMAIN Loops \ {i} : At(req', j) = At(req, j)
  BY <1>3, <1>6, <1>7 DEF Set, Inquiries, At
<1>9. \A j \in job.parts : At(req', j).pc = "preflight"
  BY <1>2, <1>8 DEF At, JobSound
<1>10. Resting(job, req')
  BY <1>2, <1>8 DEF Resting, JobSound
<1>11. JobSound(job, req')
  BY <1>2, <1>9, <1>10 DEF JobSound
<1> QED BY <1>2, <1>4, <1>11 DEF JobInv

(* What is left of a step is a sequence of candidates.                     *)
LEMMA GroupTyped == ASSUME IInv, NEW i PROVE Group(i) \in Seq(Candidates)
<1> DEFINE own(c) == /\ c \in KeysOf(Loop(i).kept)
                     /\ \A j \in job.parts : j > i => c \notin KeysOf(Loop(j).kept)
           share(s) == [n \in DOMAIN s |-> IF own(s[n]) THEN <<s[n]>> ELSE <<>>]
           shares == [j \in DOMAIN Loops |-> Seqs!FlattenSeq(share(Loop(j).kept))]
<1>1. ASSUME NEW s \in Seq(Candidates) PROVE Seqs!FlattenSeq(share(s)) \in Seq(Candidates)
  <2>1. /\ DOMAIN s = 1 .. Len(s) /\ Len(s) \in Nat
        /\ \A n \in DOMAIN s : s[n] \in Candidates
    OBVIOUS
  <2>2. \A n \in DOMAIN s : (IF own(s[n]) THEN <<s[n]>> ELSE <<>>) \in Seq(Candidates)
    BY <2>1
  <2> HIDE DEF own
  <2>3. share(s) \in [1 .. Len(s) -> Seq(Candidates)]
    BY <2>1, <2>2
  <2>4. share(s) \in Seq(Seq(Candidates))
    BY <2>1, <2>3
  <2> HIDE DEF share
  <2> QED BY <2>4, FlattenTyped
<1> HIDE DEF share
<1>2. \A j \in DOMAIN Loops : Loop(j).kept \in Seq(Candidates)
  BY PartOfLoop DEF IInv, TypeOK, Inquiries, Loop
<1>3. shares \in [1 .. Len(Loops) -> Seq(Candidates)]
  BY <1>1, <1>2, LoopsAreNumbers
<1>4. shares \in Seq(Seq(Candidates))
  BY <1>3, LoopsAreNumbers
<1>5. Group(i) = Seqs!FlattenSeq(shares)
  BY DEF Group, share
<1> HIDE DEF shares
<1> QED BY <1>4, <1>5, FlattenTyped

LEMMA PlannedSound ==
    ASSUME NEW w, NEW q, Sound(w, q), q.pc = "preflight", q.todo = <<>>,
           NEW g \in Seq(Candidates)
    PROVE  /\ Sound(w, Planned(q, g)) /\ Sound(w, Start(Planned(q, g)))
           /\ Planned(q, g).pc = "preflight" /\ Planned(q, g).todo = <<>>
           /\ Start(Planned(q, g)).pc = "next"
<1> DEFINE q2 == Planned(q, g)
<1>1. /\ q \in Inquiries /\ q.calls = <<>> /\ q.attempts = 0
      /\ q.plan \in [steps : Seq(Candidates), auto : BOOLEAN]
  BY DEF Sound, Path, Inquiries, Tale
<1>2. [q.plan EXCEPT !.steps = g] \in [steps : Seq(Candidates), auto : BOOLEAN]
      /\ [q.plan EXCEPT !.steps = g].steps = g
  BY <1>1
<1>3. /\ q2 \in Inquiries /\ q2.pc = "preflight" /\ q2.todo = <<>> /\ q2.calls = <<>>
      /\ q2.plan = [q.plan EXCEPT !.steps = g] /\ q2.kept = g /\ q2.attempts = 0
  BY <1>1, <1>2 DEF Planned, Inquiries
<1>4. q2.plan.steps = g /\ Len(g) \in Nat /\ DOMAIN g = 1 .. Len(g)
  BY <1>2, <1>3
<1> HIDE DEF q2
<1>5. EndOf(q2.todo, q2.plan.steps) /\ Len(q2.plan.steps) - Len(q2.todo) = Len(g)
  BY <1>3, <1>4 DEF EndOf
<1>6. Kept(q2, Len(g))
  <2> DEFINE f == [i \in DOMAIN g |-> i]
  <2>1. f \in [DOMAIN q2.kept -> 1 .. Len(g)] /\ Increasing(f)
    BY <1>3, <1>4 DEF Increasing
  <2>2. \A i \in DOMAIN q2.kept : q2.kept[i] = q2.plan.steps[f[i]]
    BY <1>3, <1>4
  <2> HIDE DEF f
  <2> QED BY <2>1, <2>2 DEF Kept
<1>7. Path(w, q2)
  BY <1>3, <1>5, <1>6 DEF Path
<1>8. AtHand(w, q2) /\ Tale(q2)
  <2>1. MaxRounds(q2) >= 0 /\ Len(q2.calls) = 0
    BY <1>3, <1>4 DEF MaxRounds
  <2> QED BY <1>3, <2>1 DEF AtHand, Tale
<1>9. Sound(w, q2)
  BY <1>3, <1>7, <1>8 DEF Sound
<1>10. Start(q2) = [q2 EXCEPT !.pc = "next", !.todo = q2.kept] /\ Start(q2).pc = "next"
  BY <1>3 DEF Start, Inquiries
<1>11. Sound(w, Start(q2))
  BY <1>3, <1>9, <1>10, ResolvedSound
<1> QED BY <1>3, <1>9, <1>10, <1>11 DEF q2

LEMMA PlanJobKeeps == ASSUME JobInv, PlanJob PROVE JobInv'
<1> DEFINE left == {i \in job.parts : Group(i) # <<>>}
           first == Seqs!Min(left)
           F == [r \in Requests |->
                  IF r \notin Working THEN req[r]
                  ELSE LET i == PartOf(r)
                           q == Planned(req[r], Group(i))
                       IN  IF i \notin left THEN Idle
                           ELSE IF job.kind = "fusion" \/ i = first THEN Start(q) ELSE q]
<1>1. /\ IInv /\ JobSound(job, req) /\ UNCHANGED <<circuits, world, blame>>
      /\ job.stage = "preflight" /\ job.parts \subseteq DOMAIN Loops /\ job \in Jobs
      /\ job.kind \in {"fusion", "pipeline"} /\ job.winner = 0
      /\ \A i \in job.parts : Loop(i).pc = "preflight" /\ Loop(i).todo = <<>>
      /\ \A i \in DOMAIN Loops \ job.parts : Loop(i).pc = "idle"
  BY DEF JobInv, PlanJob, JobSound, Jobs, Resting, At, Loop
<1>2. /\ job' = IF left = {}
                THEN [job EXCEPT !.parts = {}, !.stage = "done", !.reply = "no candidate"]
                ELSE [job EXCEPT !.parts = left, !.stage = "running", !.turn = first]
      /\ req' = F
  BY DEF PlanJob
<1>3. /\ left \subseteq job.parts /\ left \subseteq DOMAIN Loops
      /\ left # {} => first \in left /\ \A i \in left : first <= i
  <2>1. left \subseteq job.parts /\ left \subseteq DOMAIN Loops
    BY <1>1
  <2> HIDE DEF left
  <2>2. left \in SUBSET Nat
    BY <2>1, LoopsAreNumbers
  <2> QED BY <2>1, <2>2, MinIsLeast
<1> HIDE DEF left, first
<1>4. ASSUME NEW i \in job.parts
      PROVE  /\ Loops[i] \in Requests /\ Loops[i] \in Working /\ PartOf(Loops[i]) = i
             /\ LET q == Planned(Loop(i), Group(i)) IN
                /\ Sound(world, q) /\ Sound(world, Start(q))
                /\ q.pc = "preflight" /\ q.todo = <<>> /\ Start(q).pc = "next"
  <2>1. Loops[i] \in Requests /\ Loops[i] \in Working /\ PartOf(Loops[i]) = i
    BY <1>1, PartOfLoop DEF Working
  <2>2. Sound(world, Loop(i)) /\ Group(i) \in Seq(Candidates)
    BY <1>1, <2>1, GroupTyped DEF IInv, Loop
  <2> QED BY <1>1, <2>1, <2>2, PlannedSound
<1>5. ASSUME NEW i \in job.parts
      PROVE  At(F, i) = LET q == Planned(Loop(i), Group(i))
                        IN  IF i \notin left THEN Idle
                            ELSE IF job.kind = "fusion" \/ i = first THEN Start(q) ELSE q
  BY <1>4 DEF At, Loop
<1>6. ASSUME NEW i \in DOMAIN Loops \ job.parts PROVE At(F, i) = req[Loops[i]]
  <2>1. Loops[i] \in Requests /\ Loops[i] \notin Working
    BY <1>1, PartOfLoop DEF Working
  <2> QED BY <2>1 DEF At
<1>7. ASSUME NEW r \in Requests PROVE Sound(world, F[r])
  <2>1. CASE r \in Working
    <3>1. PICK i \in job.parts : Loops[i] = r
      BY <2>1 DEF Working
    <3>2. F[r] = At(F, i)
      BY <3>1 DEF At
    <3> HIDE DEF F
    <3> QED BY <1>4, <1>5, <3>1, <3>2, IdleSound
  <2>2. CASE r \notin Working
    BY <1>1, <2>2 DEF IInv
  <2> QED BY <2>1, <2>2
<1>8. DOMAIN F = Requests /\ F = [r \in Requests |-> F[r]]
  OBVIOUS
<1> HIDE DEF F
<1>9. IInv'
  BY <1>1, <1>2, <1>7, <1>8, ManyCompose
<1>10. \A i \in DOMAIN Loops \ left : At(F, i).pc = "idle"
  <2>1. Idle.pc = "idle"
    BY DEF Idle
  <2> QED BY <1>1, <1>5, <1>6, <2>1 DEF Loop
<1>11. CASE left = {}
  <2>1. /\ job' \in Jobs /\ job'.parts = {} /\ job'.stage = "done" /\ job'.winner = 0
        /\ job'.kind = job.kind
    BY <1>1, <1>2, <1>11 DEF Jobs, Replies
  <2>2. Resting(job', F)
    BY <1>10, <1>11, <2>1 DEF Resting
  <2>3. FusionTold(job', F) /\ PipelineTold(job', F)
    BY <2>1 DEF FusionTold, PipelineTold
  <2>4. JobSound(job', F)
    BY <1>1, <2>1, <2>2, <2>3 DEF JobSound
  <2> QED BY <1>2, <1>9, <2>4 DEF JobInv
<1>12. CASE left # {}
  <2>1. first \in Nat
    BY <1>3, <1>12, LoopsAreNumbers
  <2>2. /\ job' \in Jobs /\ job'.parts = left /\ job'.stage = "running" /\ job'.winner = 0
        /\ job'.kind = job.kind /\ job'.turn = first
    BY <1>1, <1>2, <1>3, <1>12, <2>1 DEF Jobs
  <2>3. Resting(job', F)
    BY <1>10, <2>2 DEF Resting
  <2>4. CASE job.kind = "fusion"
    <3>1. \A i \in left : At(F, i).pc = "next"
      BY <1>3, <1>4, <1>5, <2>4
    <3>2. \A i \in left : Begun(At(F, i))
      BY <3>1 DEF Begun
    <3> QED BY <1>2, <1>9, <2>2, <2>3, <2>4, <3>2 DEF JobInv, JobSound
  <2>5. CASE job.kind = "pipeline"
    <3>1. At(F, first).pc = "next"
      BY <1>3, <1>4, <1>5, <1>12
    <3>2. \A i \in left : i > first => At(F, i).pc = "preflight" /\ At(F, i).todo = <<>>
      <4>1. \A i \in left : i > first => i # first
        BY <2>1
      <4> QED BY <1>3, <1>4, <1>5, <2>5, <4>1
    <3>3. \A i \in left : ~(i < first)
      BY <1>3, <1>12, <2>1, LoopsAreNumbers
    <3>4. InTurn(job', F)
      BY <1>3, <1>12, <2>2, <3>1, <3>2, <3>3 DEF InTurn, Begun
    <3>5. JobSound(job', F)
      BY <2>2, <2>3, <2>5, <3>4 DEF JobSound
    <3> QED BY <1>2, <1>9, <3>5 DEF JobInv
  <2> QED BY <1>1, <2>4, <2>5
<1> QED BY <1>11, <1>12

LEMMA RunPartKeeps == ASSUME JobInv, NEW r \in Requests, RunPart(r) PROVE JobInv'
<1>1. PICK i \in job.parts : Loops[i] = r /\ Attempt(r, Streaming(i))
  BY DEF RunPart
<1>2. /\ IInv /\ JobSound(job, req) /\ job' = job /\ job.stage = "running"
      /\ job.parts \subseteq DOMAIN Loops
  BY DEF JobInv, RunPart, JobSound, Jobs
<1>3. Streaming(i) \in SUBSET BOOLEAN
  BY SwitchAssumption DEF Streaming
<1>4. IInv'
  BY <1>1, <1>2, <1>3, AttemptKeeps
<1>5. Moves(r)
  BY <1>1, <1>2, AttemptMoves
<1>6. /\ Begun(At(req, i)) /\ At(req, i).pc # "done" /\ Begun(At(req', i))
      /\ \A l \in DOMAIN Loops \ {i} : At(req', l) = At(req, l)
  BY <1>1, <1>2, <1>5, PartOfLoop DEF Moves, At
<1>7. JobSound(job, req')
  BY <1>2, <1>6, PartMoves
<1> QED BY <1>2, <1>4, <1>7 DEF JobInv

LEMMA FuseKeeps == ASSUME JobInv, Fuse PROVE JobInv'
<1>1. /\ IInv /\ JobSound(job, req) /\ UNCHANGED vars /\ job \in Jobs
      /\ job.stage = "running" /\ job.kind = "fusion" /\ job.parts \subseteq DOMAIN Loops
      /\ job' = Fused /\ job.winner = 0
      /\ \A i \in job.parts : At(req, i).pc = "done"
  BY DEF JobInv, Fuse, JobSound, Jobs, At, Loop, Ended
<1>2. IInv' /\ req' = req
  BY <1>1 DEF vars, IInv, TypeOK, Grounded
<1> DEFINE won == {i \in job.parts : At(req, i).reply = "ok"}
<1>3. Succeeded = won
  BY DEF Succeeded, At, Loop
<1>4. \A i \in job.parts : Begun(At(req, i))
  BY <1>1 DEF Begun
<1>5. Resting(job, req)
  BY <1>1 DEF JobSound
<1>6. CASE won = {}
  <2>1. /\ job' \in Jobs /\ job'.stage = "done" /\ job'.winner = 0
        /\ job'.parts = job.parts /\ job'.kind = "fusion"
    BY <1>1, <1>3, <1>6 DEF Fused, Jobs
  <2>2. Resting(job', req)
    BY <1>5, <2>1 DEF Resting
  <2>3. FusionTold(job', req)
    BY <1>1, <1>6, <2>1 DEF FusionTold
  <2>4. JobSound(job', req)
    BY <1>4, <2>1, <2>2, <2>3 DEF JobSound
  <2> QED BY <1>2, <2>4 DEF JobInv
<1>7. CASE won # {}
  <2> DEFINE winner == Seqs!Min(won)
  <2>1. won \in SUBSET Nat
    BY <1>1, LoopsAreNumbers
  <2>2. winner \in won /\ (\A i \in won : winner <= i) /\ winner \in Nat
    BY <1>7, <2>1, MinIsLeast
  <2>3. job' = [job EXCEPT !.stage = "done", !.reply = "ok", !.winner = winner]
    BY <1>1, <1>3, <1>7 DEF Fused
  <2> HIDE DEF winner
  <2>4. /\ job' \in Jobs /\ job'.stage = "done" /\ job'.winner = winner
        /\ job'.parts = job.parts /\ job'.kind = "fusion"
    BY <1>1, <2>2, <2>3 DEF Jobs, Replies
  <2>5. Resting(job', req)
    BY <1>5, <2>4 DEF Resting
  <2>6. winner > 0
    BY <1>1, <2>2, LoopsAreNumbers
  <2>7. FusionTold(job', req)
    BY <1>1, <2>2, <2>4, <2>6 DEF FusionTold
  <2>8. JobSound(job', req)
    BY <1>4, <2>4, <2>5, <2>7 DEF JobSound
  <2> QED BY <1>2, <2>8 DEF JobInv
<1> QED BY <1>6, <1>7

LEMMA ChainKeeps == ASSUME JobInv, Chain PROVE JobInv'
<1> DEFINE turn == job.turn
           later == {i \in job.parts : i > turn}
           next == Seqs!Min(later)
           ok == Loop(turn).reply = "ok"
<1>1. /\ IInv /\ JobSound(job, req) /\ UNCHANGED <<circuits, world, blame>> /\ job \in Jobs
      /\ job.stage = "running" /\ job.kind = "pipeline" /\ job.parts \subseteq DOMAIN Loops
      /\ At(req, turn).pc = "done" /\ job.winner = 0 /\ Resting(job, req)
  BY DEF JobInv, Chain, JobSound, Jobs, At, Loop, Ended
<1>2. InTurn(job, req)
  BY <1>1 DEF JobSound
<1>3. turn \in job.parts /\ turn \in Nat /\ turn > 0
  BY <1>1, <1>2, LoopsAreNumbers DEF InTurn
<1>4. later \in SUBSET Nat
  BY <1>1, LoopsAreNumbers
<1>5. CASE ok /\ later # {}
  <2>1. /\ next \in job.parts /\ next > turn /\ next \in Nat
        /\ \A i \in later : next <= i
    BY <1>4, <1>5, MinIsLeast
  <2>2. /\ job' = [job EXCEPT !.turn = next]
        /\ req' = [req EXCEPT ![Loops[next]] = Start(@)]
    BY <1>5 DEF Chain
  <2> HIDE DEF next
  <2> DEFINE r == Loops[next]
             q2 == Start(req[r])
  <2>3. /\ r \in Requests /\ \A i \in DOMAIN Loops \ {next} : Loops[i] # r /\ Loops[i] \in Requests
    BY <1>1, <2>1, PartOfLoop
  <2>4. req[r].pc = "preflight" /\ req[r].todo = <<>>
    BY <1>2, <2>1 DEF InTurn, At
  <2>5. Sound(world, req[r]) /\ req[r] \in Inquiries /\ req \in [Requests -> Inquiries]
    BY <1>1, <2>3 DEF IInv, TypeOK
  <2>6. q2 = [req[r] EXCEPT !.pc = "next", !.todo = req[r].kept] /\ q2.pc = "next"
    BY <2>5 DEF Start, Inquiries
  <2>7. Sound(world, q2) /\ Set(r, q2)
    BY <2>2, <2>4, <2>5, <2>6, ResolvedSound DEF Set
  <2> HIDE DEF q2
  <2>8. IInv'
    BY <1>1, <2>3, <2>7, Stays, Composes
  <2>9. /\ At(req', next).pc = "next"
        /\ \A i \in DOMAIN Loops \ {next} : At(req', i) = At(req, i)
    BY <2>3, <2>5, <2>6, <2>7 DEF Set, At
  <2>10. /\ job' \in Jobs /\ job'.stage = "running" /\ job'.kind = "pipeline"
         /\ job'.parts = job.parts /\ job'.turn = next /\ job'.winner = 0
    BY <1>1, <2>1, <2>2 DEF Jobs
  <2>11. Resting(job', req')
    BY <1>1, <2>1, <2>9, <2>10 DEF Resting
  <2>12. \A i \in job.parts : i \in Nat
    BY <1>1, LoopsAreNumbers
  <2>13. ASSUME NEW i \in job.parts, i < next
         PROVE  At(req', i).pc = "done" /\ At(req', i).reply = "ok"
    <3>1. i # next /\ At(req', i) = At(req, i)
      BY <1>1, <2>1, <2>9, <2>12, <2>13
    <3>2. ~(i > turn)
      BY <2>1, <2>12, <2>13
    <3>3. CASE i = turn
      BY <1>1, <1>5, <3>1, <3>3 DEF At, Loop
    <3>4. CASE i < turn
      BY <1>2, <3>1, <3>4 DEF InTurn
    <3> QED BY <1>3, <2>12, <3>2, <3>3, <3>4
  <2>14. ASSUME NEW i \in job.parts, i > next
         PROVE  At(req', i).pc = "preflight" /\ At(req', i).todo = <<>>
    <3>1. i # next /\ i > turn
      BY <1>3, <2>1, <2>12, <2>14
    <3> QED BY <1>1, <1>2, <2>9, <3>1 DEF InTurn
  <2>15. InTurn(job', req')
    BY <2>1, <2>9, <2>10, <2>13, <2>14 DEF InTurn, Begun
  <2>16. JobSound(job', req')
    BY <2>10, <2>11, <2>15 DEF JobSound
  <2> QED BY <2>8, <2>16 DEF JobInv
<1>6. CASE ~(ok /\ later # {})
  <2> DEFINE winner == IF ok THEN turn ELSE 0
  <2>1. /\ job' = [job EXCEPT !.stage = "done", !.reply = Loop(turn).reply, !.winner = winner]
        /\ req' = req
    BY <1>6 DEF Chain
  <2>2. IInv'
    BY <1>1, <2>1 DEF IInv, TypeOK, Grounded
  <2>3. Loop(turn).reply \in Replies
    BY <1>1, <1>3, PartOfLoop DEF IInv, TypeOK, Inquiries, Loop
  <2>4. winner \in Nat /\ (winner > 0 => winner = turn /\ ok)
    BY <1>3
  <2> HIDE DEF winner
  <2>5. /\ job' \in Jobs /\ job'.stage = "done" /\ job'.kind = "pipeline"
        /\ job'.parts = job.parts /\ job'.turn = turn /\ job'.winner = winner
    BY <1>1, <2>1, <2>3, <2>4 DEF Jobs
  <2>6. Resting(job', req) /\ InTurn(job', req)
    BY <1>1, <1>2, <2>5 DEF Resting, InTurn
  <2>7. winner > 0 => \A i \in job.parts : i <= turn
    <3>1. \A i \in job.parts : i \in Nat
      BY <1>1, LoopsAreNumbers
    <3> QED BY <1>3, <1>6, <2>4, <3>1
  <2>8. PipelineTold(job', req)
    BY <1>1, <1>3, <2>4, <2>5, <2>7 DEF PipelineTold, At, Loop
  <2>9. JobSound(job', req')
    BY <2>1, <2>5, <2>6, <2>8 DEF JobSound
  <2> QED BY <2>2, <2>9 DEF JobInv
<1> QED BY <1>5, <1>6

LEMMA CancelJobKeeps == ASSUME JobInv, CancelJob PROVE JobInv'
<1> DEFINE left(q) == [q EXCEPT !.cancelled = TRUE]
           F == [r \in Requests |-> IF r \in Working THEN left(req[r]) ELSE req[r]]
<1>1. /\ IInv /\ JobSound(job, req) /\ UNCHANGED <<circuits, world, blame>> /\ job' = job
      /\ job.stage \in {"preflight", "running"} /\ req' = F /\ job.parts \subseteq DOMAIN Loops
      /\ job.kind \in {"fusion", "pipeline"}
  BY DEF JobInv, CancelJob, JobSound, Jobs
<1>2. ASSUME NEW i \in job.parts PROVE At(req, i).pc # "idle"
  <2>1. CASE job.stage = "preflight"
    BY <1>1, <2>1 DEF JobSound
  <2>2. CASE job.stage = "running" /\ job.kind = "fusion"
    BY <1>1, <2>2 DEF JobSound, Begun
  <2>3. CASE job.stage = "running" /\ job.kind = "pipeline"
    <3>1. InTurn(job, req)
      BY <1>1, <2>3 DEF JobSound
    <3>2. i \in Nat /\ job.turn \in Nat
      BY <1>1, <3>1, LoopsAreNumbers DEF InTurn
    <3>3. i < job.turn \/ i = job.turn \/ i > job.turn
      BY <3>2
    <3> QED BY <3>1, <3>3 DEF InTurn, Begun
  <2> QED BY <1>1, <2>1, <2>2, <2>3
<1>3. ASSUME NEW r \in Requests
      PROVE  /\ Sound(world, F[r])
             /\ F[r].pc = req[r].pc /\ F[r].todo = req[r].todo /\ F[r].reply = req[r].reply
  <2>1. Sound(world, req[r]) /\ req[r] \in Inquiries
    BY <1>1 DEF IInv, TypeOK
  <2>2. CASE r \in Working
    <3>1. req[r].pc # "idle"
      BY <1>2, <2>2 DEF Working, At
    <3>2. F[r] = left(req[r])
      BY <2>2
    <3>3. Sound(world, left(req[r]))
      BY <2>1, <3>1, CancelSound
    <3> QED BY <2>1, <3>2, <3>3 DEF Inquiries
  <2>3. CASE r \notin Working
    BY <2>1, <2>3
  <2> QED BY <2>2, <2>3
<1>4. DOMAIN F = Requests /\ F = [r \in Requests |-> F[r]]
  OBVIOUS
<1> HIDE DEF F
<1>5. IInv'
  BY <1>1, <1>3, <1>4, ManyCompose
<1>6. \A i \in DOMAIN Loops : /\ At(F, i).pc = At(req, i).pc
                              /\ At(F, i).todo = At(req, i).todo
                              /\ At(F, i).reply = At(req, i).reply
  BY <1>3, PartOfLoop DEF At
<1>7. JobSound(job, F)
  BY <1>1, <1>6, JobsSee
<1> QED BY <1>1, <1>5, <1>7 DEF JobInv

LEMMA AnsweredJobKeeps == ASSUME JobInv, AnsweredJob PROVE JobInv'
<1> DEFINE F == [r \in Requests |-> IF r \in KeysOf(Loops) THEN Idle ELSE req[r]]
<1>1. IInv /\ UNCHANGED <<circuits, world, blame>> /\ job' = NoJob /\ req' = F
  BY DEF JobInv, AnsweredJob
<1>2. \A r \in Requests : Sound(world, F[r])
  BY <1>1, IdleSound DEF IInv
<1>3. DOMAIN F = Requests /\ F = [r \in Requests |-> F[r]]
  OBVIOUS
<1>4. \A i \in DOMAIN Loops : At(F, i).pc = "idle"
  BY PartOfLoop DEF At, KeysOf, Idle
<1> HIDE DEF F
<1>5. IInv'
  BY <1>1, <1>2, <1>3, ManyCompose
<1> QED BY <1>1, <1>4, <1>5, NoJobSound DEF JobInv

(* The clients beside it have requests of their own.                       *)
LEMMA OneChanges ==
    ASSUME IInv, NEW r \in Requests, Arrive(r) \/ Serve(r) \/ Cancel(r)
    PROVE  \A s \in Requests \ {r} : req'[s] = req[s]
<1>1. ASSUME NEW q, Set(r, q) PROVE \A s \in Requests \ {r} : req'[s] = req[s]
  BY <1>1 DEF Set, IInv, TypeOK
<1>2. CASE Attempt(r, Streams)
  BY <1>2, AttemptMoves DEF Moves
<1>3. CASE Arrive(r)
  BY <1>1, <1>3 DEF Arrive
<1>4. CASE AllowCandidate(r)
  BY <1>1, <1>4 DEF AllowCandidate
<1>5. CASE Resolved(r) \/ Answered(r) \/ Cancel(r)
  BY <1>1, <1>5 DEF Resolved, Reply, Answered, Cancel
<1> QED BY <1>2, <1>3, <1>4, <1>5 DEF Serve

LEMMA BesideKeeps ==
    ASSUME JobInv, UNCHANGED job,
           \/ Tick \/ Heal
           \/ \E r \in Linear : Arrive(r) \/ Serve(r) \/ Cancel(r)
    PROVE  JobInv'
<1>1. IInv /\ JobSound(job, req)
  BY DEF JobInv
<1>2. CASE Tick \/ Heal
  <2>1. IInv' /\ req' = req
    BY <1>1, <1>2, TickKeeps, HealKeeps DEF Tick, Heal
  <2> QED BY <1>1, <2>1 DEF JobInv
<1>3. CASE \E r \in Linear : Arrive(r) \/ Serve(r) \/ Cancel(r)
  <2>1. PICK r \in Linear : Arrive(r) \/ Serve(r) \/ Cancel(r)
    BY <1>3
  <2>2. r \in Requests /\ r \notin KeysOf(Loops)
    BY ShapesAssumption
  <2>3. [Next]_vars
    BY <2>1, <2>2 DEF Next
  <2>4. IInv'
    BY <1>1, <2>3, NextInv
  <2>5. \A s \in Requests \ {r} : req'[s] = req[s]
    BY <1>1, <2>1, <2>2, OneChanges
  <2>6. \A i \in DOMAIN Loops : At(req', i) = At(req, i)
    <3>1. \A i \in DOMAIN Loops : Loops[i] \in Requests /\ Loops[i] # r
      BY <2>2, PartOfLoop DEF KeysOf
    <3> QED BY <2>5, <3>1 DEF At
  <2>7. JobSound(job, req')
    BY <1>1, <2>6, JobsSee
  <2> QED BY <2>4, <2>7 DEF JobInv
<1> QED BY <1>2, <1>3

LEMMA JobNext == JobInv /\ [StructuralNext]_shaped => JobInv'
<1> SUFFICES ASSUME JobInv, [StructuralNext]_shaped PROVE JobInv'
  OBVIOUS
<1>1. CASE UNCHANGED shaped
  <2>1. job' = job /\ UNCHANGED vars
    BY <1>1 DEF shaped
  <2>2. IInv' /\ req' = req
    BY <2>1, NextInv DEF JobInv, vars
  <2> QED BY <2>1, <2>2 DEF JobInv
<1>2. CASE ArriveJob \/ Lead \/ CancelJob
  BY <1>2, ArriveJobKeeps, PreflightJobKeeps, PlanJobKeeps, FuseKeeps, ChainKeeps,
     AnsweredJobKeeps, CancelJobKeeps DEF Lead
<1>3. CASE \E r \in Requests : RunPart(r)
  BY <1>3, RunPartKeeps
<1>4. CASE \/ Beside(Tick) \/ Beside(Heal)
           \/ \E r \in Linear : Beside(Arrive(r)) \/ Beside(Serve(r)) \/ Beside(Cancel(r))
  BY <1>4, BesideKeeps DEF Beside
<1> QED BY <1>1, <1>2, <1>3, <1>4 DEF StructuralNext

(* Plans with a shape, beside requests without: the invariant of requests  *)
(* holds of each loop of a fusion and of a pipeline too (structural.go).   *)
THEOREM StructuralInvariance == StructuralSpec => []JobInv
<1> QED BY JobInit, JobNext, PTL DEF StructuralSpec

(* No circuit opens for a failure that was not its own, and no credential  *)
(* is banned by limits alone, whichever panels run at once over it         *)
(* (ADR-0012; runPanels, structural.go:118-144).                           *)
THEOREM PartsBlamedForThemselves == StructuralSpec => []OpenForCause
<1>1. JobInv => OpenForCause
  BY DEF JobInv, IInv, Grounded, Due, OpenForCause
<1> QED BY <1>1, StructuralInvariance, PTL

(* The loop of each part fails over along what the Router has grouped for  *)
(* it, and its reply is true (run, dispatcher.go:150-224).                 *)
THEOREM PartsFailOverHonestly == StructuralSpec => []FailoverHonest
<1>1. JobInv => FailoverHonest
  BY RepliesFromAnswers, PlansFromPaths DEF JobInv, FailoverHonest
<1> QED BY <1>1, StructuralInvariance, PTL

(* The last call of a part that has ended is what its reply says.          *)
LEMMA LastCallTells ==
    ASSUME IInv, NEW i \in DOMAIN Loops
    PROVE  /\ At(req, i).pc = "done" => (LastCall(i) = "ok" <=> At(req, i).reply = "ok")
           /\ At(req, i).pc = "preflight" => LastCall(i) = "none"
<1> DEFINE q == At(req, i)
<1>1. /\ Sound(world, q) /\ q.calls \in Seq([cand : Candidates, end : Scopes \cup {"ok"}])
      /\ q = Loop(i)
  BY PartOfLoop DEF IInv, TypeOK, Inquiries, At, Loop
<1> HIDE DEF q
<1>2. q.pc = "preflight" => LastCall(i) = "none"
  BY <1>1 DEF Sound, Path, LastCall
<1>3. ASSUME q.pc = "done" PROVE LastCall(i) = "ok" <=> q.reply = "ok"
  <2>1. q.reply = "ok" <=> Outcome(q) = "ok"
    BY <1>1, <1>3 DEF Sound, Answer
  <2>2. q.calls = <<>> <=> Len(q.calls) = 0
    BY <1>1
  <2>3. LastCall(i) = IF q.calls = <<>> THEN "none" ELSE q.calls[Len(q.calls)].end
    BY <1>1 DEF LastCall
  <2> QED BY <2>1, <2>2, <2>3 DEF Outcome
<1> QED BY <1>2, <1>3 DEF q

(* An answer is given when all panels have ended, and is the first that    *)
(* succeeded in the plan's order; a step of a pipeline calls only when     *)
(* those before it have succeeded (structural.go:45-103, 201-228).         *)
THEOREM ShapesAnswerHonestly == StructuralSpec => []ShapeHonest
<1>1. ASSUME JobInv PROVE ShapeHonest
  <2>1. /\ IInv /\ JobSound(job, req) /\ job \in Jobs /\ job.parts \subseteq DOMAIN Loops
    BY <1>1 DEF JobInv, JobSound, Jobs
  <2>2. /\ \A i \in job.parts : i \in Nat /\ i > 0
        /\ job.turn \in Nat /\ job.winner \in Nat
    BY <2>1, LoopsAreNumbers DEF Jobs
  <2>3. \A i \in job.parts :
          /\ At(req, i).pc = "done" => (LastCall(i) = "ok" <=> At(req, i).reply = "ok")
          /\ At(req, i).pc = "preflight" => LastCall(i) = "none"
    BY <2>1, LastCallTells
  <2>4. ASSUME InTurn(job, req), NEW i \in job.parts, NEW j \in job.parts, j < i,
               Begun(At(req, i))
        PROVE  LastCall(j) = "ok"
    <3>1. ~(i > job.turn)
      BY <2>4 DEF InTurn, Begun
    <3>2. j < job.turn
      BY <2>2, <2>4, <3>1
    <3> QED BY <2>3, <2>4, <3>2 DEF InTurn
  <2>5. job.kind = "pipeline" =>
          \A i, j \in job.parts : j < i /\ Begun(Loop(i)) => LastCall(j) = "ok"
    <3> SUFFICES ASSUME job.kind = "pipeline", NEW i \in job.parts, NEW j \in job.parts, j < i,
                        Begun(At(req, i))
                 PROVE  LastCall(j) = "ok"
      BY DEF At, Loop
    <3>1. job.stage # "idle"
      BY <2>1 DEF JobSound
    <3>2. job.stage # "preflight"
      BY <2>1 DEF JobSound, Begun
    <3>3. job.stage \in {"running", "done"} /\ job.kind # "fusion" /\ job.parts # {}
      BY <2>1, <3>1, <3>2 DEF Jobs
    <3>4. InTurn(job, req)
      BY <2>1, <3>3 DEF JobSound
    <3> QED BY <2>4, <3>4
  <2>6. ASSUME job.stage = "done"
        PROVE  /\ \A r \in Working : Begun(req[r]) => req[r].pc = "done"
               /\ job.winner > 0 => LastCall(job.winner) = "ok"
               /\ \A i \in job.parts : LET ok == LastCall(i) = "ok" IN
                    IF job.kind = "fusion"
                    THEN IF job.winner > 0 THEN i < job.winner => ~ok ELSE ~ok
                    ELSE job.winner > 0 => ok
    <3>1. CASE job.kind = "fusion"
      <4>1. FusionTold(job, req)
        BY <2>1, <2>6, <3>1 DEF JobSound
      <4>2. \A r \in Working : req[r].pc = "done"
        BY <4>1 DEF FusionTold, Working, At
      <4>3. job.winner > 0 => LastCall(job.winner) = "ok"
        BY <2>3, <4>1 DEF FusionTold
      <4>4. ASSUME NEW i \in job.parts, LastCall(i) = "ok"
            PROVE  job.winner > 0 /\ job.winner <= i
        BY <2>3, <4>1, <4>4 DEF FusionTold
      <4> QED BY <2>2, <3>1, <4>2, <4>3, <4>4
    <3>2. CASE job.kind # "fusion" /\ job.parts = {}
      <4>1. job.winner = 0
        BY <2>1, <2>2, <2>6, <3>2 DEF JobSound, PipelineTold
      <4> QED BY <3>2, <4>1 DEF Working
    <3>3. CASE job.kind # "fusion" /\ job.parts # {}
      <4>1. InTurn(job, req) /\ PipelineTold(job, req)
        BY <2>1, <2>6, <3>3 DEF JobSound
      <4>2. ASSUME NEW i \in job.parts, Begun(At(req, i)) PROVE At(req, i).pc = "done"
        <5>1. i < job.turn \/ i = job.turn \/ i > job.turn
          BY <2>2
        <5> QED BY <3>3, <4>1, <4>2, <5>1 DEF InTurn, PipelineTold, Begun
      <4>3. \A r \in Working : Begun(req[r]) => req[r].pc = "done"
        BY <4>2 DEF Working, At
      <4>4. ASSUME job.winner > 0, NEW i \in job.parts PROVE LastCall(i) = "ok"
        <5>1. /\ i <= job.turn /\ At(req, job.turn).reply = "ok"
              /\ At(req, job.turn).pc = "done"
          BY <4>1, <4>4 DEF PipelineTold
        <5>2. i < job.turn \/ i = job.turn
          BY <2>2, <5>1
        <5> QED BY <2>3, <4>1, <5>1, <5>2 DEF InTurn
      <4>5. job.winner > 0 => LastCall(job.winner) = "ok"
        BY <4>1, <4>4 DEF PipelineTold
      <4> QED BY <3>3, <4>3, <4>4, <4>5
    <3> QED BY <3>1, <3>2, <3>3
  <2> QED BY <2>5, <2>6 DEF ShapeHonest
<1> QED BY <1>1, StructuralInvariance, PTL
=============================================================================

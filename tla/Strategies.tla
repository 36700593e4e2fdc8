----------------------------- MODULE Strategies -----------------------------
(***************************************************************************)
(* The orderings of src/internal/router: what each strategy makes of the   *)
(* entries of a combo, the demotion after it, and the stages of fusion and *)
(* pipeline.  No state: the cursor is passed in and handed back.           *)
(*                                                                         *)
(* The operators are the strategies as app.go wires the Router: it gets a  *)
(* preflight and no randomness, credentials, prices, signals or judge, so  *)
(* that cost, p2c and auto have nothing to compare but names.              *)
(***************************************************************************)
EXTENDS Combos

(* A candidate with credential 0 has none of its own.                      *)
Candidate(e) == [provider |-> e.provider, model |-> e.model, credential |-> 0]

lessStable(a, b) ==
    \/ a.provider < b.provider
    \/ a.provider = b.provider /\ a.model < b.model

byStep(a, b) == \/ a.step < b.step
                \/ a.step = b.step /\ lessStable(a, b)

byWeight(a, b) == \/ a.weight > b.weight
                  \/ a.weight = b.weight /\ lessStable(a, b)

less(by, a, b) ==
    CASE by = "name"   -> lessStable(a, b)
      [] by = "step"   -> byStep(a, b)
      [] by = "weight" -> byWeight(a, b)

(* A stable sort: each element is at the place that is the number of those *)
(* that come no later.                                                     *)
earlier(s, by, i, j) == \/ less(by, s[i], s[j])
                        \/ ~less(by, s[j], s[i]) /\ i < j

Sorted(s, by) ==
    LET place == [i \in DOMAIN s |->
                     Cardinality({j \in DOMAIN s : j = i \/ earlier(s, by, j, i)})]
    IN  [k \in DOMAIN s |-> s[CHOOSE i \in DOMAIN s : place[i] = k]]

AsCandidates(entries) == [i \in DOMAIN entries |-> Candidate(entries[i])]

(* The cursor keeps positions by key, 0 where none was kept: a map for     *)
(* round-robin and one for fill-first.  next returns a position below n,   *)
(* advance moves past it.                                                  *)
NewCursor == [roundRobin |-> <<>>, fillFirst |-> <<>>]

next(kept, key, n) ==
    IF key \in DOMAIN kept /\ kept[key] < n THEN kept[key] ELSE 0

advance_Sticks(kept, key, n) ==     \* Mutant: only a cursor at the end wraps around.
    [k \in DOMAIN kept \cup {key} |->
        IF k = key
        THEN IF next(kept, key, n) + 1 < n THEN next(kept, key, n) + 1
             ELSE n - 1
        ELSE kept[k]]
advance(kept, key, n) ==
    [k \in DOMAIN kept \cup {key} |->
        IF k = key THEN (next(kept, key, n) + 1) % n ELSE kept[k]]

Steps(entries)   == {e.step : e \in ToSet(entries)}
ofStep(entries, i) == {k \in DOMAIN entries : entries[k].step = i}
size(entries, i) == Cardinality(ofStep(entries, i))
tier(entries, i) == Sorted(Selected(entries, ofStep(entries, i)), "name")

Rotated(s, start) == [k \in DOMAIN s |-> s[1 + ((start + k - 1) % Len(s))]]

(* round-robin: within each step, from the cursor on.                      *)
turned(name, entries, kept) ==
    LET keys == {<<name, i>> : i \in Steps(entries)}
    IN  [k \in DOMAIN kept \cup keys |->
            IF k \in keys THEN advance(kept, k, size(entries, k[2]))[k] ELSE kept[k]]

roundRobin(name, entries, cursor) ==
    LET tiers == Ordered(Steps(entries))
        start(i) == next(cursor.roundRobin, <<name, i>>, size(entries, i))
    IN  [order |-> FlattenSeq([t \in DOMAIN tiers |->
                      AsCandidates(Rotated(tier(entries, tiers[t]), start(tiers[t])))]),
         cursor |-> [cursor EXCEPT !.roundRobin = turned(name, entries, @)]]

(* fill-first: a step's own list of credentials, one position further for  *)
(* every candidate; the key is the same in every combo.                    *)
fillFirst(entries, cursor) ==
    LET s      == Sorted(entries, "step")
        key(k) == <<s[k].provider, s[k].step>>
        n(k)   == Len(s[k].allowed)
        kept[k \in 0 .. Len(s)] ==     \* the positions after k candidates
            IF k = 0 THEN cursor.fillFirst
            ELSE IF n(k) = 0 THEN kept[k - 1]
            ELSE advance(kept[k - 1], key(k), n(k))
        filled(k) ==
            IF n(k) = 0 THEN Candidate(s[k])
            ELSE [Candidate(s[k]) EXCEPT !.credential =
                     s[k].allowed[1 + next(kept[k - 1], key(k), n(k))]]
    IN  [order  |-> [k \in DOMAIN s |-> filled(k)],
         cursor |-> [cursor EXCEPT !.fillFirst = kept[Len(s)]]]

(* The daemon gives the Resolver no RNG and no prices (app.go:1313-1315):  *)
(* weighted draws nothing and puts the heaviest step first; cost, p2c and  *)
(* auto are left with the names.                                           *)
Arrange(kind, name, entries, cursor) ==
    CASE kind = "round-robin" -> roundRobin(name, entries, cursor)
      [] kind = "fill-first"  -> fillFirst(entries, cursor)
      [] kind = "weighted"    -> [order  |-> AsCandidates(Sorted(entries, "weight")),
                                  cursor |-> cursor]
      [] kind \in {"cost", "p2c", "auto"} ->
                                 [order  |-> AsCandidates(Sorted(entries, "name")),
                                  cursor |-> cursor]
      [] OTHER                -> [order  |-> AsCandidates(Sorted(entries, "step")),
                                  cursor |-> cursor]

(* demote puts the incompatible candidates last.  The gateway asks for no  *)
(* capability, so every entry is compatible; but a candidate that was      *)
(* given a credential is not found under its entry's key and counts as     *)
(* incompatible.                                                           *)
demote(order) == Selected(order, {k \in DOMAIN order : order[k].credential = 0})
                 \o Selected(order, {k \in DOMAIN order : order[k].credential # 0})

(* groupByStep: the step of a candidate is looked up by its key, where the *)
(* last entry with that key wins.                                          *)
groupByStep(order, entries) ==
    LET stepOf(c) == Max({e.step : e \in {x \in ToSet(entries) :
                                            Candidate(x) = c}})
        steps == Ordered({stepOf(c) : c \in ToSet(order)})
    IN  [i \in DOMAIN steps |->
            Selected(order, {k \in DOMAIN order : stepOf(order[k]) = steps[i]})]

maxRounds(kind, c, n) ==
    CASE kind = "fusion"   -> 2
      [] kind = "pipeline" -> Len(c.steps)
      [] OTHER             -> n
=============================================================================

------------------------------- MODULE Combos -------------------------------
(***************************************************************************)
(* Combos, the named routes an operator stores (src/internal/combos):      *)
(* their steps, what the validation on saving accepts, and how the Router  *)
(* expands one into candidates (src/internal/router/expand.go).  No state: *)
(* a table maps the names of the stored combos to the combos.              *)
(*                                                                         *)
(* Providers, models and credentials are numbers in the order of their     *)
(* names.  A step's prompt and its quota-only switch are left out: routing *)
(* carries them and uses neither.                                          *)
(***************************************************************************)
EXTENDS Integers, Sequences, FiniteSets, SequencesExt

CONSTANTS
    Names,      \* names for combos
    Providers,  \* the registered provider families
    Models,     \* names of models
    Catalog,    \* the pairs <<provider, model>> that a family declares
    MaxDepth,   \* the longest chain of references from a combo (8)
    MaxFanout   \* the most branches of a fusion (8)

ASSUME CatalogAssumption ==
    /\ Providers \cup Models \subseteq Nat
    /\ IsFiniteSet(Providers) /\ IsFiniteSet(Models) /\ IsFiniteSet(Names)
    /\ Catalog \subseteq Providers \X Models
    /\ MaxDepth \in Nat
    /\ MaxFanout \in Nat \ {0}

StrategyKinds == {"priority", "fallback", "round-robin", "weighted",
                  "fill-first", "cost", "p2c", "fusion", "pipeline", "auto"}

StepKinds == {"model", "combo-ref", "provider-wildcard"}

(* The shape of a combo that Validate accepts.                             *)
IsStep(s) == /\ s.kind \in StepKinds
             /\ s.weight \in Nat \ {0}
             /\ s.allowed \in Seq(Nat)

IsCombo(c) == /\ c.strategy \in StrategyKinds
              /\ c.steps \in Seq(ToSet(c.steps)) /\ c.steps # <<>>
              /\ \A s \in ToSet(c.steps) : IsStep(s)

References(c) == {s.ref : s \in {x \in ToSet(c.steps) : x.kind = "combo-ref"}}

Declares(p, m) == <<p, m>> \in Catalog

(* Every concrete target is known.                                         *)
Allowlisted(c) ==
    \A s \in ToSet(c.steps) :
        /\ s.kind = "provider-wildcard" => s.ref \in Providers
        /\ s.kind = "model" => \E p \in Providers : Declares(p, s.ref)

Refused == -1

(* Mutant: a combo met again on a path is passed over.                     *)
DepthBelow_PassesOver(graph, path, below) ==
    LET id   == Last(path)
        refs == References(graph[id]) \ ToSet(path)
    IN  IF \E r \in refs : r \notin DOMAIN graph \/ below[r] = Refused
        THEN Refused
        ELSE Max({0} \cup {below[r] + 1 : r \in refs})

(* The depth of the combo at the end of a path, from what the combos it    *)
(* refers to come to (below); a combo met twice on one path closes a cycle.*)
DepthBelow(graph, path, below) ==
    LET id   == Last(path)
        refs == References(graph[id])
    IN  IF \/ id \in ToSet(Front(path))
           \/ \E r \in refs : r \notin DOMAIN graph \/ below[r] = Refused
        THEN Refused
        ELSE Max({0} \cup {below[r] + 1 : r \in refs})

(* depthOf walks the references from a combo of the graph.                 *)
Depth(graph, name) ==
    LET depthOf[path \in Seq(Names)] ==
          DepthBelow(graph, path, [n \in DOMAIN graph |-> depthOf[Append(path, n)]])
    IN  depthOf[<<name>>]

(* The caps on depth and on fan-out.                                       *)
WithinCaps(c, depth) ==
    /\ c.strategy = "fusion" => Len(c.steps) <= MaxFanout
    /\ depth <= MaxDepth

(* ValidateGraph: the depth of the combo to save, or Refused.              *)
ValidateGraph(name, c, table) ==
    LET graph == [n \in DOMAIN table \cup {name} |->
                      IF n = name THEN c ELSE table[n]]
        depth == Depth(graph, name)
    IN  IF /\ IsCombo(c)
           /\ Allowlisted(c)
           /\ References(c) \subseteq DOMAIN table \ {name}
           /\ WithinCaps(c, depth)
        THEN depth ELSE Refused

-----------------------------------------------------------------------------
(* The Router's own view of a step: one entry for each candidate, with the *)
(* step of the requested combo that it comes from.                         *)

Entry(i, s, p, m) == [provider |-> p, model |-> m, step |-> i,
                      weight |-> s.weight, allowed |-> s.allowed]

(* A set of numbers in ascending order.                                    *)
Ordered(S) ==
    [k \in 1..Cardinality(S) |-> CHOOSE x \in S : Cardinality({y \in S : y <= x}) = k]

(* What a sequence has at some of its positions.                           *)
Selected(s, positions) ==
    LET at == Ordered(positions) IN [k \in DOMAIN at |-> s[at[k]]]

SpreadModel(i, s) ==
    LET ps == Ordered({p \in Providers : Declares(p, s.ref)})
    IN  [k \in DOMAIN ps |-> Entry(i, s, ps[k], s.ref)]

SpreadProvider(i, s) ==
    LET ms == Ordered({m \in Models : Declares(s.ref, m)})
    IN  [k \in DOMAIN ms |-> Entry(i, s, s.ref, ms[k])]

(* Mutant: the cap itself is refused.                                      *)
TooDeep_AtCap(chain) == Len(chain) - 1 >= MaxDepth

(* The chain has more references than the cap.                             *)
TooDeep(chain) == Len(chain) - 1 > MaxDepth

(* expand: the entries of a combo in the order of its steps, and whether a *)
(* guard refused it.  The guards look at the chain of references again:    *)
(* the stored graph is not trusted.  For the combo at the end of a chain   *)
(* it rests on what the combos referred to (below) come to.                *)
ExpandChain(table, chain, below) ==
    LET steps    == table[Last(chain)].steps
        fails(s) == \/ s.kind = "provider-wildcard" /\ s.ref \notin Providers
                    \/ s.kind = "combo-ref"
                       /\ (s.ref \notin DOMAIN table \/ below[s.ref].refused)
        nested(i, s) == [k \in DOMAIN below[s.ref].entries |->
                            [below[s.ref].entries[k] EXCEPT !.step = i, !.weight = s.weight]]
        of(i) ==
            CASE steps[i].kind = "model"             -> SpreadModel(i, steps[i])
              [] steps[i].kind = "provider-wildcard" -> SpreadProvider(i, steps[i])
              [] steps[i].kind = "combo-ref"         -> nested(i, steps[i])
    IN  IF \/ TooDeep(chain)
           \/ Last(chain) \in ToSet(Front(chain))
           \/ \E s \in ToSet(steps) : fails(s)
        THEN [refused |-> TRUE, entries |-> <<>>]
        ELSE [refused |-> FALSE, entries |-> FlattenSeq([i \in DOMAIN steps |-> of(i)])]

Expand(table, name) ==
    LET expand[chain \in Seq(Names)] ==
          ExpandChain(table, chain, [n \in DOMAIN table |-> expand[Append(chain, n)]])
    IN  expand[<<name>>]
=============================================================================

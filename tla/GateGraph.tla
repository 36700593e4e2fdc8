----------------------------- MODULE GateGraph ------------------------------
(***************************************************************************)
(* Which gates a configuration enables (wireGates in app/app.go), what     *)
(* they declare, and the order the registry derives from that: in each     *)
(* stage a gate comes after those that write what it reads, and where      *)
(* nothing orders two of them the name does (gates/registry.go).           *)
(***************************************************************************)
EXTENDS Settings, FiniteSets

(* The gates of the daemon by name, which is also the tie-break.           *)
GateNames == <<"credential-masker", "injection-guard", "logger", "memory-retriever",
               "memory-writer", "pii-masker", "rate-limit", "ssrf-guard", "token">>

GateStages == {"pre", "chunk", "post"}

(* Declare() of each gate, and its failure policy. A gate that only flags  *)
(* injections writes nothing and fails open.                               *)
Declared(c, g) ==
    LET flags == Value(c, Plain("features.gates.security.injection_policy")) = "flag"
        pre(r, w, open) == [stages |-> {"pre"}, reads |-> r, writes |-> w,
                            after |-> {}, failOpen |-> open]
    IN  CASE g = "credential-masker" -> pre({}, {"prompt_text"}, FALSE)
          [] g = "injection-guard"   -> pre({"context", "prompt_text"},
                                            IF flags THEN {} ELSE {"injection_flag"}, flags)
          [] g = "logger"            -> [pre({}, {}, TRUE) EXCEPT
                                            !.stages = GateStages]
          [] g = "memory-retriever"  -> pre({"cache_lookup"}, {"context"}, TRUE)
          [] g = "memory-writer"     -> [pre({}, {}, TRUE) EXCEPT !.stages = {"post"}]
          [] g = "pii-masker"        -> pre({"prompt_text"}, {"pii"}, FALSE)
          [] g = "rate-limit"        -> pre({}, {}, TRUE)
          [] g = "ssrf-guard"        -> pre({}, {}, FALSE)
          [] g = "token"             -> pre({"context", "cache_lookup"},
                                            {"prompt_text", "prefix_range"}, TRUE)

(* wireGates: what each switch governs. The masker of personal data may be *)
(* turned off by its policy too, the limiter needs a rate to be built.     *)
On(c, g) ==
    LET memory   == IsOn(c, Plain("features.gates.memory"))
        security == IsOn(c, Plain("features.gates.security"))
    IN  CASE g = "logger" -> GateEnabled(c, g, TRUE)
          [] g = "token"  -> GateEnabled(c, g, IsOn(c, Plain("features.gates.token")))
          [] g \in {"memory-retriever", "memory-writer"} -> GateEnabled(c, g, memory)
          [] g = "pii-masker" ->
               /\ GateEnabled(c, g, security)
               /\ Value(c, Plain("features.gates.security.pii_policy")) # "off"
          [] g = "rate-limit" ->
               /\ GateEnabled(c, g, security)
               /\ Value(c, Plain("features.gates.security.rate_limit.rate")) # "0"
          [] OTHER -> GateEnabled(c, g, security)
Enabled(c) == {GateNames[i] : i \in {j \in DOMAIN GateNames : On(c, GateNames[j])}}

(* RegisterGate refuses a gate without a stage, one that guards a security *)
(* field and fails open, and one that acts after the response and fails    *)
(* closed.                                                                 *)
Registers(d) ==
    /\ d.stages # {}
    /\ d.failOpen => d.writes \cap {"pii", "injection_flag"} = {}
    /\ d.stages = {"post"} => d.failOpen

(* The edges of one stage: from the writers of a field to its readers, and *)
(* the explicit ones whose gate acts in this stage.                        *)
Acting(c, stage) == {g \in Enabled(c) : stage \in Declared(c, g).stages}
Before(c, acting, g) ==
    {w \in acting \ {g} :
        \/ Declared(c, w).writes \cap Declared(c, g).reads # {}
        \/ w \in Declared(c, g).after}

(* kahn: of the gates whose predecessors are all placed, the first by name.*)
orderStage_ByName(c, stage) ==       \* Mutant: the edges are forgotten.
    SelectSeq(GateNames, LAMBDA g : g \in Acting(c, stage))
PlaceNext(c, acting, sofar) ==
    LET done  == {sofar[i] : i \in DOMAIN sofar}
        ready == {i \in DOMAIN GateNames : /\ GateNames[i] \in acting \ done
                                           /\ Before(c, acting, GateNames[i]) \subseteq done}
    IN  IF ready = {} THEN sofar
        ELSE Append(sofar, GateNames[CHOOSE i \in ready : \A j \in ready : i <= j])
orderStage(c, stage) ==
    LET acting == Acting(c, stage)
        placed[n \in 0..Cardinality(acting)] ==
          IF n = 0 THEN <<>> ELSE PlaceNext(c, acting, placed[n-1])
    IN  placed[Cardinality(acting)]

(* Build: a cycle, or an `after` that names no gate, refuses the boot.     *)
GatesBuild(c) ==
    /\ \A g \in Enabled(c) : Registers(Declared(c, g)) /\ Declared(c, g).after \subseteq Enabled(c)
    /\ \A stage \in GateStages :
         Len(orderStage(c, stage)) = Cardinality(Acting(c, stage))

(* `gate list`: the gates of the stages in turn, each where it is first    *)
(* seen.                                                                   *)
ListNext(all, n, sofar) ==
    IF \E i \in 1..(n-1) : all[i] = all[n] THEN sofar ELSE Append(sofar, all[n])
GateInfos(c) ==
    LET all == orderStage(c, "pre") \o orderStage(c, "chunk") \o orderStage(c, "post")
        out[n \in 0..Len(all)] == IF n = 0 THEN <<>> ELSE ListNext(all, n, out[n-1])
    IN  out[Len(all)]
=============================================================================

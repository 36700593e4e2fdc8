---------------------------- MODULE MCStructural ----------------------------
(* Small instances of Structural: a fusion and a pipeline of two parts     *)
(* that share their circuits, and plans of no shape.                       *)
EXTENDS Structural

CONSTANTS p1, p2, m1, m2, k1, k2, r1, r2, r3

of(p, m, k) == [provider |-> p, model |-> m, credential |-> k]
plan(s, a)  == [steps |-> s, auto |-> a]

(* Providers and accounts: a keyed provider with two accounts; the same    *)
(* with the secret of the first lost; CloudCode with one account, and a    *)
(* key stored for it that it has no use for; a server on a loopback        *)
(* address without the opt-in.  The second provider is not registered, or  *)
(* nothing is stored for it.  CloudCode makes images with m2.              *)
speaks(d)    == [dialect |-> d, address |-> "public", allowLoopback |-> FALSE,
                 images |-> IF d = "cloudcode" THEN {m2} ELSE {}]
holds(m, s)  == [provider |-> p1, mode |-> m, secret |-> s]
setup(d1, d2, c1, c2) ==
    [services |-> [p \in Providers |-> speaks(IF p = p1 THEN d1 ELSE d2)],
     vault    |-> [k \in Credentials |-> IF k = k1 THEN c1 ELSE c2]]

keyed == setup("openai", "none", holds("api_key", "sealed"), holds("api_key", "sealed"))
FourWorlds ==
    {keyed,
     setup("openai", "none", holds("api_key", "lost"), holds("api_key", "sealed")),
     setup("cloudcode", "openai", holds("oauth", "sealed"), holds("api_key", "sealed")),
     [keyed EXCEPT !.services[p1].address = "loopback"]}
TwoWorlds == {keyed, setup("openai", "none", holds("api_key", "lost"), holds("api_key", "sealed"))}
TwoIds == <<k1, k2>>
OneId  == <<k1>>

(* A limit with and without a hint, a refusal, an outage, a bad request,   *)
(* a bad request of a busy server; no connection; a body that is broken.   *)
Mixed  == {Status(200), [Status(429) EXCEPT !.hint = 2], Status(401), Status(503),
           Status(400), [Status(400) EXCEPT !.busy = TRUE], Broken("stalled"),
           Broken("cut off"), Broken("garbled"), Broken("too large")}
Shaky  == {Status(200), [Status(429) EXCEPT !.hint = 1], Status(401), Status(503)}

(* A combo whose second step is pinned, an automatic route, and steps of   *)
(* the second provider, one pinned to an account of the first.             *)
MixedPlans == {plan(<<of(p1, m1, None), of(p1, m2, k2)>>, FALSE),
               plan(<<of(p1, m2, None), of(p1, m1, None)>>, TRUE),
               plan(<<of(p2, m1, None), of(p2, m1, k1)>>, FALSE)}
TwoSteps   == {plan(<<of(p1, m1, None), of(p1, m2, None)>>, FALSE)}

Shaped(kinds, steps) == [kind : kinds, steps : {steps}]

(* Two models of a provider; a model, and then again among all models.     *)
TwoModels  == Shaped({"fusion", "pipeline"}, << <<of(p1, m1, None)>>, <<of(p1, m2, None)>> >>)
OneTwice   == Shaped({"pipeline"}, << <<of(p1, m1, None)>>, <<of(p1, m1, None), of(p1, m2, None)>> >>)
Combos     == TwoModels \cup OneTwice
TwoLoops    == <<r2, r3>>

(* Bounds: one client at a time, while the attempts of its plan run at     *)
(* once; a plan of no shape begins with at most three circuits to blame; a *)
(* plan with a shape begins before a credential is blamed and after at     *)
(* most one outage, of the first model. That the upstreams heal is left to *)
(* the run that needs it.                                                  *)
ArriveLinear == \E r \in Linear : req[r].pc = "idle" /\ req'[r].pc # "idle"
Bounds ==
    /\ world' = world
    /\ ArriveLinear => Cardinality({k \in Keys : blame[k] > 0}) <= 3
    /\ job'.stage # "idle" => \A r \in Linear : req'[r].pc = "idle"
    /\ ArriveJob => \A k \in Keys : blame[k] <= IF k[1] = "Provider" \/ k[3] = m1 THEN 1 ELSE 0

(* Bound of the run about answers: a plan begins alone, of no shape or a   *)
(* fusion whose panels run at once.                                        *)
Alone == ArriveJob \/ ArriveLinear =>
    job.stage = "idle" /\ \A r \in Requests : req[r].pc = "idle"
=============================================================================

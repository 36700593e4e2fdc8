---------------------------- MODULE MCDispatcher ----------------------------
(* A small instance of Dispatcher: one account, one model, one plan.       *)
EXTENDS Dispatcher

CONSTANTS p1, p2, m1, m2, k1, k2, r1, r2

(* A keyed provider that answers or is out.                                *)
OneWorld == {[services |-> [p \in Providers |->
                             [dialect |-> "openai", address |-> "public",
                              allowLoopback |-> FALSE, images |-> {}]],
              vault    |-> [k \in Credentials |->
                             [provider |-> p1, mode |-> "api_key", secret |-> "sealed"]]]}
OneId  == <<k1>>
Outage == {Status(503)}
OnePlan    == {[steps |-> <<[provider |-> p1, model |-> m1, credential |-> None]>>,
                auto  |-> FALSE]}
=============================================================================

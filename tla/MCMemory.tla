------------------------------ MODULE MCMemory ------------------------------
(* Small instances of Memory: a client that says the same thing several    *)
(* times; one whose words contain a secret; two that say the same.         *)
EXTENDS Memory

CONSTANTS h1, h2, h3, a1, a2

Says3(c1, t1, c2, t2, c3, t3) ==
    [h \in Handlers |-> CASE h = h1 -> [client |-> c1, text |-> t1]
                         [] h = h2 -> [client |-> c2, text |-> t2]
                         [] h = h3 -> [client |-> c3, text |-> t3]]
Plain  == {"fact"}
Secret == {"fact", "key"}
Talks  == {Says3(a1, Plain, a1, Plain, a1, Plain), Says3(a1, Secret, a1, Plain, a1, Plain),
           Says3(a1, Plain, a2, Plain, None, Plain)}
=============================================================================

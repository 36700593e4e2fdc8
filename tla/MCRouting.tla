----------------------------- MODULE MCRouting ------------------------------
(* Small instances of Routing: three names, two providers that share a     *)
(* model, and chains of at most one reference.                             *)
EXTENDS Routing

CONSTANTS A, B, C

model(m, w)   == [kind |-> "model", ref |-> m, weight |-> w, allowed |-> <<>>]
pinned(m, ks) == [kind |-> "model", ref |-> m, weight |-> 1, allowed |-> ks]
wildcard(p)   == [kind |-> "provider-wildcard", ref |-> p, weight |-> 1,
                  allowed |-> <<>>]
ref(n)        == [kind |-> "combo-ref", ref |-> n, weight |-> 2, allowed |-> <<>>]
combo(k, s)   == [strategy |-> k, steps |-> s]
edits(n, cs)  == [name : {n}, combo : cs]
row(x)        == [combo |-> x, current |-> TRUE,
                  depth |-> IF References(x) = {} THEN 0 ELSE 1]

SharedModel == {<<1, 1>>, <<2, 1>>, <<1, 2>>}

OldRow == [row(combo("auto", <<model(1, 1)>>)) EXCEPT !.current = FALSE]

(* Concurrent edits that can form chains, cycles, dangling ends and too    *)
(* deep or too wide combos, beside a row of an older schema version too.   *)
Editing(t, x, y, z) ==
    [rows |-> t, targets |-> {},
     edits |-> edits(A, x) \cup edits(B, y) \cup edits(C, z)]

Edited == {
    Editing(<<>>, {combo("auto", <<model(1, 1)>>), combo("fallback", <<ref(B)>>)},
                  {combo("weighted", <<wildcard(1)>>), combo("cost", <<ref(A)>>),
                   combo("pipeline", <<ref(C), model(2, 1)>>)},
                  {combo("priority", <<wildcard(1)>>)}),
    Editing(B :> OldRow,
                  {combo("round-robin", <<model(1, 1), ref(B)>>)},
                  {combo("weighted", <<model(2, 1), wildcard(1)>>)},
                  {combo("fusion", <<model(1, 1), model(2, 1), model(1, 1)>>),
                   combo("auto", <<model(1, 1), wildcard(9)>>)})}

(* Requests over combos of every kind of ordering; in one world the combo  *)
(* is edited between them.                                                 *)
Traffic(x, es) ==
    [rows |-> (A :> row(x)) @@ (B :> row(combo("fallback", <<model(1, 1)>>))),
     edits |-> edits(A, es), targets |-> {A, 1}]

Routed == {
    [Traffic(combo("round-robin", <<model(1, 1)>>),
             {combo("round-robin", <<wildcard(2)>>)})
     EXCEPT !.targets = {A}],
    Traffic(combo("round-robin", <<model(1, 1), wildcard(1)>>), {}),
    Traffic(combo("pipeline", <<model(1, 1), model(2, 1), model(1, 1)>>), {}),
    Traffic(combo("fusion", <<model(1, 1), ref(B)>>), {}),
    Traffic(combo("fill-first", <<pinned(1, <<1, 2>>), wildcard(1)>>), {}),
    Traffic(combo("weighted", <<model(2, 1), ref(B), wildcard(1)>>), {})}

Kinds == Edited \cup Routed

Symmetries == Permutations(Editors) \cup Permutations(Requests)
=============================================================================

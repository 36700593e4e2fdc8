------------------------------ MODULE MCGrants ------------------------------
(* Small instances of Grants: two logins of an account each, or a device   *)
(* grant whose provider asks for more patience than the limit.             *)
EXTENDS Grants

CONSTANTS s1, s2, a1, a2, q1, q2

Google  == Descriptor(TRUE, {"oauth"}, TRUE, FALSE)
Generic == Descriptor(TRUE, {"oauth"}, FALSE, FALSE)
Offer(desc, secret, pasted) == [desc |-> desc, hasSecret |-> secret, hasKEK |-> TRUE,
                                pasted |-> pasted]

Refusals == {Offer(Descriptor(FALSE, {}, FALSE, FALSE), FALSE, FALSE),
             Offer(Descriptor(TRUE, {"api_key"}, FALSE, FALSE), FALSE, FALSE),
             Offer(Descriptor(TRUE, {"oauth"}, FALSE, TRUE), FALSE, FALSE),
             Offer(Google, FALSE, FALSE),
             Offer([Google EXCEPT !.pending = TRUE], TRUE, FALSE),
             [Offer(Google, TRUE, FALSE) EXCEPT !.hasKEK = FALSE]}
(* One login is always the ordinary one; the other is what varies.         *)
Others     == {Offer(Google, TRUE, FALSE), Offer(Google, TRUE, TRUE), Offer(Generic, FALSE, FALSE)}
Beside(o)  == [s \in Sessions |-> IF s = s1 THEN Offer(Google, TRUE, FALSE) ELSE o]
AllCalls   == {Beside(o) : o \in Others \cup Refusals}
=============================================================================

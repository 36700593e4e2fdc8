------------------------------ MODULE MCBreaker ------------------------------
(* Small instances of Breaker.                                             *)
EXTENDS Breaker, TLC

CONSTANTS p1, m1, k1, a1, a2, a3

(* A candidate the Dispatcher has given a credential, and the same route   *)
(* while its credential is still to be picked.                             *)
pinned   == [provider |-> p1, model |-> m1, credential |-> k1]
unpinned == [pinned EXCEPT !.credential = None]

Mixed == {pinned, unpinned}

failure(s, r, ra) == [success |-> FALSE, scope |-> s, retryable |-> r,
                      retryAfter |-> ra, terminal |-> FALSE]

(* What breakerFrom makes of the three scopes of a DomainError.            *)
DispatcherResults ==
    {Success,
     failure("Request", FALSE, 0),
     failure("Credential", FALSE, 0),
     failure("Credential", TRUE, 3),
     failure("Provider", TRUE, 0),
     failure("Provider", FALSE, 0)}

SymmetricCallers == Permutations(Callers)
=============================================================================

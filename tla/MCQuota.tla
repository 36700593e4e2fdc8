------------------------------ MODULE MCQuota ------------------------------
(* Small instances of Quota.                                               *)
EXTENDS Quota, TLC

(* What a header may say: the plan exhausted until a reset, or half used,  *)
(* with no reset.                                                          *)
HeaderViews ==
    {[limit |-> Limit, used |-> Limit, remaining |-> 0,
      resetsIn |-> Duration, source |-> "header"],
     [limit |-> Limit, used |-> 1, remaining |-> Limit - 1,
      resetsIn |-> Unset, source |-> "header"]}

(* One process life in which the store may fail, and lives that restart    *)
(* over a store that works, with and without headers and hints.            *)
Disturbed == [faults |-> TRUE, learns |-> TRUE, restarts |-> FALSE, load |-> 2]
Restarted == [faults |-> FALSE, learns |-> FALSE, restarts |-> TRUE, load |-> 3]
Informed  == [faults |-> FALSE, learns |-> TRUE, restarts |-> TRUE, load |-> 2]
AllWorlds == {Disturbed, Informed, Restarted}
SymmetricAttempts == Permutations(Attempts) \cup Permutations(Deliverers)
=============================================================================

----------------------------- MODULE MCRefresh -----------------------------
(* Small instances of Refresh.                                             *)
EXTENDS Refresh, TLC

Symmetric == Permutations(Requests) \cup Permutations(Credentials)
=============================================================================

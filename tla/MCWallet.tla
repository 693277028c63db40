------------------------------- MODULE MCWallet -------------------------------
(***************************************************************************)
(* Model-checking instance of Wallet: calls, submissions, saves, networks  *)
(* and net_version calls are interchangeable.                              *)
(***************************************************************************)
EXTENDS Wallet, TLC

Interchangeable ==
    Permutations(Call) \union Permutations(Submission) \union Permutations(Persist)
    \union Permutations(Lookup) \union Permutations(Chain)
=============================================================================

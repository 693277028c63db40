------------------------------ MODULE MCBlocks ------------------------------
(***************************************************************************)
(* Model-checking instance of Blocks: its calls, loops, transactions and   *)
(* networks are interchangeable.                                           *)
(***************************************************************************)
EXTENDS Blocks, TLC

Interchangeable ==
    Permutations(Handler) \union Permutations(Loop)
    \union Permutations(Chain) \union Permutations(Tx)
=============================================================================

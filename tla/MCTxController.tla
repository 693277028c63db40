--------------------------- MODULE MCTxController ---------------------------
(***************************************************************************)
(* Model-checking instances of TxController.  The .cfg files give every    *)
(* constant a value; here is the symmetry between windows, between block   *)
(* handlers and between networks, and a state constraint that bounds the   *)
(* run disturbed.                                                          *)
(***************************************************************************)
EXTENDS TxLife, TLC

Interchangeable ==
    Permutations(Window) \union Permutations(Handler) \union Permutations(Chain)

\* Bound: an account nonce has moved, or the page has been saved or crashed;
\* what was saved matters to a crash only, and SentAsAnswered is about none.
MiningOrSaving ==
    (\A a \in Account : nodeNonce[a] = 0) \/ (crashes = 0 /\ disk.held = {})
=============================================================================

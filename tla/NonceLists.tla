----------------------------- MODULE NonceLists -----------------------------
(***************************************************************************)
(* The lists nonceTracker computes a sender's next nonce from, as the      *)
(* transaction store and the node change them between two computations:    *)
(* NextNonce is what the next approval would get.                          *)
(***************************************************************************)
EXTENDS NonceTracker

CONSTANT MaxNonce   \* bound: no nonce above it is submitted or mined

ASSUME MaxNonceAssumption == MaxNonce \in Nat

VARIABLES network,      \* the account nonce the node reports
          confirmed,    \* nonces of confirmed transactions in the store
          pending       \* nonces of submitted transactions in the store

vars == <<network, confirmed, pending>>

\* _getHighestContinuousFrom as the code writes it:
\* let highest = startPoint; while (nonces.includes(highest)) highest++
Loop(nonces, startPoint) ==
    LET highest[n \in Nat] == IF n \in nonces THEN highest[n + 1] ELSE n
    IN  highest[startPoint]

Next0 == NextNonce(network, confirmed, pending)

Init == network = 0 /\ confirmed = {} /\ pending = {}

\* An approval ends: with the nonce of the tracker, with one the user typed,
\* or on an object that lost its nonce (a second window's copy).
Submit(n) == /\ n \in {NoNonce} \union {m \in 0..MaxNonce : m >= network}
             /\ pending' = pending \union {n}
             /\ UNCHANGED <<network, confirmed>>

\* A pending check sees the receipt of a pending transaction.
Confirm(n) == /\ n \in pending
              /\ confirmed' = confirmed \union {n}
              /\ pending' = pending \ {n}
              /\ UNCHANGED network

\* A pending transaction fails or is dropped.
Settle(n) == /\ n \in pending
             /\ pending' = pending \ {n}
             /\ UNCHANGED <<network, confirmed>>

\* The history limit or an account reset removes confirmed transactions.
Forget(n) == /\ n \in confirmed
             /\ confirmed' = confirmed \ {n}
             /\ UNCHANGED <<network, pending>>

\* The node reports a later nonce, or (a lagging node) an earlier one.
Report(n) == network' = n /\ UNCHANGED <<confirmed, pending>>

Next == \/ \E n \in 0..MaxNonce \union {NoNonce} :
              Submit(n) \/ Confirm(n) \/ Settle(n) \/ Forget(n)
        \/ \E n \in 0..MaxNonce : Report(n)

Spec == Init /\ [][Next]_vars

(***************************************************************************)
(* The next nonce is not one a transaction is waiting for, is not behind   *)
(* the node, and is not one this wallet knows to be used (unless a         *)
(* confirmed transaction without a nonce hides the others).                *)
(***************************************************************************)
NextNonceIsFree ==
    /\ Next0 \notin pending
    /\ network <= Next0
    /\ NoNonce \notin confirmed => \A n \in confirmed : n < Next0

(***************************************************************************)
(* The next nonce leaves no gap the wallet knows of: every nonce between   *)
(* the node's and it belongs to a pending transaction or is not above a    *)
(* locally confirmed one.  (A transaction above a gap is never mined.)     *)
(***************************************************************************)
NextNonceLeavesNoGap ==
    \A m \in network..(Next0 - 1) :
        m \in pending \/ m < HighestLocallyConfirmed(confirmed)

(***************************************************************************)
(* The declarative HighestContinuousFrom of NonceTracker, which the proofs *)
(* use, and the loop of _getHighestContinuousFrom end at the same nonce    *)
(* from every starting point.                                              *)
(***************************************************************************)
ContinuousIsTheLoop ==
    \A start \in 0..MaxNonce :
        HighestContinuousFrom(pending, start) = Loop(pending, start)

\* The inductive invariant of the proofs in NonceListsProofs.
ListsOK ==
    /\ network \in Nat
    /\ confirmed \in SUBSET (Nat \union {NoNonce}) /\ IsFiniteSet(confirmed)
    /\ IsFiniteSet(pending)
=============================================================================

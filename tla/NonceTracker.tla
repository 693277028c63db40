---------------------------- MODULE NonceTracker ----------------------------
(***************************************************************************)
(* The nonce arithmetic of app/scripts/bohr-nonce-tracker/index.js.  The   *)
(* arguments are sets of recorded nonces (a txMeta without one contributes *)
(* NoNonce: parseInt(undefined) is NaN).  The mutexes are in TxController. *)
(***************************************************************************)
EXTENDS Integers, FiniteSets

CONSTANT NoNonce    \* the nonce field of a txMeta that has none

ASSUME NonceAssumption == NoNonce \notin Nat

(***************************************************************************)
(* _getHighestLocallyConfirmed: one more than the largest confirmed nonce. *)
(* Math.max over no nonces is -Infinity and over a NaN is NaN; neither is  *)
(* an integer, and both give 0.                                            *)
(***************************************************************************)
HighestLocallyConfirmed(confirmed) ==
    IF confirmed = {} \/ NoNonce \in confirmed
    THEN 0
    ELSE 1 + CHOOSE n \in confirmed : \A m \in confirmed : m <= n

\* Mutations of HighestContinuousFrom: pending nonces are not looked at; the
\* first one is skipped without a look (a do-while loop).
IgnoresPending(pending, start) == start
SkipsFirst(pending, start) ==
    CHOOSE n \in (start + 1)..(start + 1 + Cardinality(pending)) :
        /\ n \notin pending
        /\ \A m \in (start + 1)..(n - 1) : m \in pending

(***************************************************************************)
(* _getHighestContinuousFrom: the loop steps over pending nonces upwards   *)
(* from start and stops at the first one that is free.  It cannot take     *)
(* more steps than there are pending nonces.                               *)
(***************************************************************************)
HighestContinuousFrom(pending, start) ==
    CHOOSE n \in start..(start + Cardinality(pending)) :
        /\ n \notin pending
        /\ \A m \in start..(n - 1) : m \in pending

Larger(m, n) == IF m < n THEN n ELSE m

\* Mutation of NextNonce: counts the pending transactions.
CountsPending(network, confirmed, pending) ==
    Larger(network, HighestLocallyConfirmed(confirmed)) + Cardinality(pending)

\* getNonceLock, lines 57-73: the nonce given to the next transaction.
NextNonce(network, confirmed, pending) ==
    LET highestSuggested == Larger(network, HighestLocallyConfirmed(confirmed))
        local == HighestContinuousFrom(pending, highestSuggested)
    IN  Larger(network, local)
=============================================================================

-------------------------- MODULE NonceListsProofs --------------------------
(***************************************************************************)
(* The next nonce is free and leaves no gap, for every number of           *)
(* transactions and every value of the nonces.                             *)
(***************************************************************************)
EXTENDS NonceLists, NonceTrackerProofs

(***************************************************************************)
(* ListsOK is inductive: the lists stay finite, and nothing but an absent  *)
(* nonce is ever recorded besides numbers.                                 *)
(***************************************************************************)
THEOREM ListsAlwaysOK == Spec => []ListsOK
<1>1. Init => ListsOK
    BY FS_EmptySet DEF Init, ListsOK
<1>2. ListsOK /\ [Next]_vars => ListsOK'
    <2> SUFFICES ASSUME ListsOK, [Next]_vars PROVE ListsOK'
        OBVIOUS
    <2> USE DEF ListsOK
    <2>1. ASSUME NEW n \in 0..MaxNonce \union {NoNonce}, Submit(n)
          PROVE  ListsOK'
        BY <2>1, FS_AddElement DEF Submit
    <2>2. ASSUME NEW n \in 0..MaxNonce \union {NoNonce}, Confirm(n)
          PROVE  ListsOK'
        <3>1. n \in Nat \union {NoNonce}
            BY MaxNonceAssumption
        <3> QED BY <2>2, <3>1, FS_AddElement, FS_RemoveElement DEF Confirm
    <2>3. ASSUME NEW n \in 0..MaxNonce \union {NoNonce}, Settle(n)
          PROVE  ListsOK'
        BY <2>3, FS_RemoveElement DEF Settle
    <2>4. ASSUME NEW n \in 0..MaxNonce \union {NoNonce}, Forget(n)
          PROVE  ListsOK'
        BY <2>4, FS_RemoveElement DEF Forget
    <2>5. ASSUME NEW n \in 0..MaxNonce, Report(n)
          PROVE  ListsOK'
        BY <2>5, MaxNonceAssumption DEF Report
    <2>6. CASE UNCHANGED vars
        BY <2>6 DEF vars
    <2> QED BY <2>1, <2>2, <2>3, <2>4, <2>5, <2>6 DEF Next
<1> QED BY <1>1, <1>2, PTL DEF Spec

\* The parts of the next nonce, named for the two theorems below.
LEMMA NextNonceParts ==
    ASSUME ListsOK
    PROVE  \E suggested, local \in Nat :
             /\ suggested = Larger(network, HighestLocallyConfirmed(confirmed))
             /\ local = HighestContinuousFrom(pending, suggested)
             /\ suggested <= local /\ local \notin pending
             /\ \A m \in suggested..(local - 1) : m \in pending
             /\ Next0 = local
<1> DEFINE suggested == Larger(network, HighestLocallyConfirmed(confirmed))
           local == HighestContinuousFrom(pending, suggested)
<1>1. suggested \in Nat /\ network <= suggested
    BY HighestLocallyConfirmedIsLarger DEF ListsOK, Larger
<1>2. /\ local \in Nat /\ suggested <= local /\ local \notin pending
      /\ \A m \in suggested..(local - 1) : m \in pending
    <2> HIDE DEF suggested
    <2> QED BY <1>1, ContinuousIsFirstFree DEF ListsOK
<1>3. Next0 = Larger(network, local)
    BY DEF Next0, NextNonce
<1>4. Larger(network, local) = local
    <2> HIDE DEF suggested, local
    <2> QED BY <1>1, <1>2 DEF Larger, ListsOK
<1> QED BY <1>1, <1>2, <1>3, <1>4

\* No two pending transactions and no known used nonce: the next nonce is new.
THEOREM NextNonceAlwaysFree == Spec => []NextNonceIsFree
<1>1. ListsOK => NextNonceIsFree
    <2> SUFFICES ASSUME ListsOK PROVE NextNonceIsFree
        OBVIOUS
    <2>1. PICK suggested \in Nat, local \in Nat :
             /\ suggested = Larger(network, HighestLocallyConfirmed(confirmed))
             /\ suggested <= local /\ local \notin pending
             /\ Next0 = local
        BY NextNonceParts
    <2>2. /\ HighestLocallyConfirmed(confirmed) \in Nat
          /\ NoNonce \notin confirmed =>
                \A n \in confirmed : n < HighestLocallyConfirmed(confirmed)
        BY HighestLocallyConfirmedIsLarger DEF ListsOK
    <2>3. network <= suggested /\ HighestLocallyConfirmed(confirmed) <= suggested
        BY <2>1, <2>2 DEF Larger, ListsOK
    <2>4. \A n \in confirmed : NoNonce \notin confirmed => n < Next0
        BY <2>1, <2>2, <2>3 DEF ListsOK
    <2> QED BY <2>1, <2>3, <2>4 DEF NextNonceIsFree, ListsOK
<1> QED BY <1>1, ListsAlwaysOK, PTL

\* A transaction that gets the next nonce can be mined when those before it are.
THEOREM NextNonceNeverLeavesGap == Spec => []NextNonceLeavesNoGap
<1>1. ListsOK => NextNonceLeavesNoGap
    <2> SUFFICES ASSUME ListsOK, NEW m \in network..(Next0 - 1)
                 PROVE  m \in pending \/ m < HighestLocallyConfirmed(confirmed)
        BY DEF NextNonceLeavesNoGap
    <2>1. PICK suggested \in Nat, local \in Nat :
             /\ suggested = Larger(network, HighestLocallyConfirmed(confirmed))
             /\ \A k \in suggested..(local - 1) : k \in pending
             /\ Next0 = local
        BY NextNonceParts
    <2>2. HighestLocallyConfirmed(confirmed) \in Nat
        BY HighestLocallyConfirmedIsLarger DEF ListsOK
    <2>3. CASE m >= suggested
        BY <2>1, <2>3 DEF ListsOK
    <2>4. CASE m < suggested
        BY <2>1, <2>2, <2>4 DEF Larger, ListsOK
    <2> QED BY <2>1, <2>3, <2>4 DEF ListsOK
<1> QED BY <1>1, ListsAlwaysOK, PTL
-----------------------------------------------------------------------------
\* The least free number from start onwards is where the search ends.
LEMMA FirstFreeIsContinuous ==
    ASSUME NEW nonces, IsFiniteSet(nonces), NEW start \in Nat, NEW n \in Nat,
           start <= n, n \notin nonces, \A m \in start..(n - 1) : m \in nonces
    PROVE  HighestContinuousFrom(nonces, start) = n
<1> DEFINE c == HighestContinuousFrom(nonces, start)
<1>1. /\ c \in Nat /\ start <= c /\ c \notin nonces
      /\ \A m \in start..(c - 1) : m \in nonces
    BY ContinuousIsFirstFree
<1> HIDE DEF c
<1>2. ~ (c < n) /\ ~ (n < c)
    BY <1>1
<1> QED BY <1>1, <1>2 DEF c

\* The loop's equation has a solution, the declarative definition, so the
\* recursive function is one.
LEMMA LoopEquation ==
    ASSUME NEW nonces, IsFiniteSet(nonces)
    PROVE  \E f : /\ f = [n \in Nat |-> IF n \in nonces THEN f[n + 1] ELSE n]
                  /\ \A start : Loop(nonces, start) = f[start]
<1> DEFINE solves(f) ==
        f = [n \in Nat |-> IF n \in nonces THEN f[n + 1] ELSE n]
           H == [n \in Nat |-> HighestContinuousFrom(nonces, n)]
<1>1. ASSUME NEW n \in Nat, n \notin nonces
      PROVE  HighestContinuousFrom(nonces, n) = n
    BY <1>1, FirstFreeIsContinuous
<1>2. ASSUME NEW n \in Nat, n \in nonces
      PROVE  HighestContinuousFrom(nonces, n) = HighestContinuousFrom(nonces, n + 1)
    <2> DEFINE c == HighestContinuousFrom(nonces, n + 1)
    <2>1. /\ c \in Nat /\ n + 1 <= c /\ c \notin nonces
          /\ \A m \in (n + 1)..(c - 1) : m \in nonces
        BY ContinuousIsFirstFree
    <2> HIDE DEF c
    <2>2. \A m \in n..(c - 1) : m \in nonces
        BY <1>2, <2>1
    <2>3. HighestContinuousFrom(nonces, n) = c
        BY <2>1, <2>2, FirstFreeIsContinuous
    <2> QED BY <2>3 DEF c
<1>3. solves(H)
    BY <1>1, <1>2
<1> DEFINE g == CHOOSE f : solves(f)
<1>4. solves(g)
    <2> HIDE DEF solves
    <2> QED BY <1>3
<1>5. \A start : Loop(nonces, start) = g[start]
    BY DEF Loop
<1> HIDE DEF g
<1> QED BY <1>4, <1>5

(***************************************************************************)
(* On every list the code can compute, the loop of                         *)
(* _getHighestContinuousFrom and the definition the other theorems use     *)
(* give the same nonce: by the least number of rounds after which they     *)
(* would not.                                                              *)
(***************************************************************************)
THEOREM ContinuousIsAlwaysTheLoop == Spec => []ContinuousIsTheLoop
<1>1. ListsOK => ContinuousIsTheLoop
    <2> SUFFICES ASSUME ListsOK, NEW start \in 0..MaxNonce
                 PROVE  HighestContinuousFrom(pending, start) = Loop(pending, start)
        BY DEF ContinuousIsTheLoop
    <2> DEFINE c == HighestContinuousFrom(pending, start)
    <2>1. start \in Nat /\ IsFiniteSet(pending)
        BY MaxNonceAssumption DEF ListsOK
    <2>2. /\ c \in Nat /\ start <= c /\ c \notin pending
          /\ \A m \in start..(c - 1) : m \in pending
        BY <2>1, ContinuousIsFirstFree
    <2> HIDE DEF c
    <2>3. PICK f : /\ f = [n \in Nat |-> IF n \in pending THEN f[n + 1] ELSE n]
                   /\ Loop(pending, start) = f[start]
        BY <2>1, LoopEquation
    <2>4. \A n \in Nat : f[n] = IF n \in pending THEN f[n + 1] ELSE n
        BY <2>3
    <2> DEFINE bad == {d \in 0..(c - start) : f[c - d] # c}
    <2>5. bad = {}
        <3> SUFFICES ASSUME bad # {} PROVE FALSE
            OBVIOUS
        <3>0. bad \in SUBSET Nat
            BY <2>1, <2>2
        <3>1. PICK d \in bad : \A e \in bad : d <= e
            <4> HIDE DEF bad
            <4> QED BY <3>0, LeastNatural
        <3>2. d \in Nat /\ d <= c - start /\ f[c - d] # c
            BY <2>1, <2>2, <3>1
        <3>3. d # 0
            BY <2>2, <2>4, <3>2
        <3>4. d - 1 \in 0..(c - start) /\ d - 1 \notin bad
            BY <2>1, <2>2, <3>1, <3>2, <3>3
        <3>5. f[c - (d - 1)] = c
            BY <3>4
        <3>6. c - d \in start..(c - 1) /\ (c - d) + 1 = c - (d - 1)
            BY <2>1, <2>2, <3>2, <3>3
        <3>7. c - d \in Nat /\ c - d \in pending
            BY <2>1, <2>2, <3>6
        <3> QED BY <2>4, <3>2, <3>5, <3>6, <3>7
    <2>6. c - start \in 0..(c - start) /\ c - (c - start) = start
        BY <2>1, <2>2
    <2> QED BY <2>3, <2>5, <2>6 DEF c
<1> QED BY <1>1, ListsAlwaysOK, PTL
=============================================================================

------------------------ MODULE NonceTrackerProofs --------------------------
(***************************************************************************)
(* What the nonce arithmetic guarantees for all lists of nonces, whatever  *)
(* their length: TLC checks the same facts on short lists in               *)
(* NonceLists.                                                             *)
(***************************************************************************)
EXTENDS NonceTracker, TLAPS, FiniteSetTheorems, WellFoundedInduction

\* Every non-empty set of naturals has a least element.
LEMMA LeastNatural ==
    ASSUME NEW S \in SUBSET Nat, S # {}
    PROVE  \E x \in S : \A y \in S : x <= y
<1> DEFINE less == {p \in Nat \X Nat : p[1] < p[2]}
<1>1. less = OpToRel(<, Nat)
    BY DEF OpToRel
<1>2. IsWellFoundedOn(less, Nat)
    BY <1>1, NatLessThanWellFounded, Zenon
<1>3. \E x \in S : \A y \in S : <<y, x>> \notin less
    <2> HIDE DEF less
    <2> QED BY <1>2, WFMin
<1>4. PICK x \in S : \A y \in S : <<y, x>> \notin less
    BY <1>3, Zenon
<1>5. ASSUME NEW y \in S PROVE x <= y
    <2>1. <<y, x>> \notin less
        BY <1>4, Zenon
    <2>2. x \in Nat /\ y \in Nat
        OBVIOUS
    <2> QED BY <2>1, <2>2
<1> QED BY <1>5

\* A non-empty finite set of naturals has a greatest element: otherwise take
\* a smallest set without one, and remove an element.
LEMMA GreatestNatural ==
    ASSUME NEW S \in SUBSET Nat, S # {}, IsFiniteSet(S)
    PROVE  \E x \in S : \A y \in S : y <= x
<1> DEFINE HasGreatest(U) == \E x \in U : \A y \in U : y <= x
           Bad == {U \in SUBSET S : U # {} /\ ~ HasGreatest(U)}
           sizes == {Cardinality(U) : U \in Bad}
<1>1. \A U \in SUBSET S : IsFiniteSet(U) /\ Cardinality(U) \in Nat
    BY FS_Subset, FS_CardinalityType
<1> SUFFICES ASSUME Bad # {} PROVE FALSE
    OBVIOUS
<1>2. sizes \in SUBSET Nat /\ sizes # {}
    BY <1>1
<1>3. PICK U \in Bad : \A V \in Bad : Cardinality(U) <= Cardinality(V)
    <2> HIDE DEF Bad
    <2>1. PICK c \in sizes : \A d \in sizes : c <= d
        <3> HIDE DEF sizes
        <3> QED BY <1>2, LeastNatural
    <2> QED BY <2>1
<1>4. PICK x : x \in U
    BY <1>3
<1> DEFINE V == U \ {x}
<1>5. Cardinality(V) = Cardinality(U) - 1 /\ V \in SUBSET S
    BY <1>1, <1>3, <1>4, FS_RemoveElement
<1>6. V \notin Bad
    <2> SUFFICES ASSUME V \in Bad PROVE FALSE
        OBVIOUS
    <2>1. Cardinality(U) <= Cardinality(U) - 1
        <3> HIDE DEF V, Bad
        <3> QED BY <1>3, <1>5
    <2> QED BY <1>1, <1>3, <2>1
<1>7. CASE V = {}
    BY <1>3, <1>4, <1>7
<1>8. CASE V # {}
    <2>1. PICK g \in V : \A y \in V : y <= g
        BY <1>5, <1>6, <1>8
    <2>2. HasGreatest(U)
        <3>1. CASE x <= g
            BY <1>4, <2>1, <3>1
        <3>2. CASE ~ (x <= g)
            BY <1>3, <1>4, <2>1, <3>2
        <3> QED BY <3>1, <3>2
    <2> QED BY <1>3, <2>2
<1> QED BY <1>7, <1>8

(***************************************************************************)
(* The loop of _getHighestContinuousFrom ends within as many steps as      *)
(* there are pending nonces: there is a free nonce with none free below it.*)
(***************************************************************************)
LEMMA FreeNonceExists ==
    ASSUME NEW pending, IsFiniteSet(pending), NEW start \in Nat
    PROVE  \E n \in start..(start + Cardinality(pending)) :
               n \notin pending /\ \A m \in start..(n - 1) : m \in pending
<1> DEFINE k == Cardinality(pending)
           free == (start..(start + k)) \ pending
<1>1. k \in Nat
    BY FS_CardinalityType
<1>2. Cardinality(start..(start + k)) = k + 1
    BY <1>1, FS_Interval
<1>3. ~ (start..(start + k) \subseteq pending)
    <2> SUFFICES ASSUME start..(start + k) \in SUBSET pending PROVE FALSE
        OBVIOUS
    <2>1. Cardinality(start..(start + k)) <= k
        BY FS_Subset
    <2> HIDE DEF k
    <2> QED BY <1>1, <1>2, <2>1
<1> HIDE DEF k
<1>4. free \subseteq Nat /\ free # {}
    BY <1>1, <1>3
<1>5. PICK n \in free : \A m \in free : n <= m
    BY <1>4, LeastNatural
<1>6. \A m \in start..(n - 1) : m \in pending
    BY <1>1, <1>4, <1>5
<1> QED BY <1>5, <1>6 DEF k

\* One more than the largest confirmed nonce is a nonce, above all of them.
LEMMA HighestLocallyConfirmedIsLarger ==
    ASSUME NEW nonces \in SUBSET (Nat \union {NoNonce}), IsFiniteSet(nonces)
    PROVE  /\ HighestLocallyConfirmed(nonces) \in Nat
           /\ NoNonce \notin nonces =>
                 \A n \in nonces : n < HighestLocallyConfirmed(nonces)
<1>1. CASE nonces = {} \/ NoNonce \in nonces
    BY <1>1 DEF HighestLocallyConfirmed
<1>2. CASE nonces # {} /\ NoNonce \notin nonces
    <2> DEFINE greatest == CHOOSE n \in nonces : \A m \in nonces : m <= n
    <2>1. nonces \in SUBSET Nat
        BY <1>2
    <2>2. \E n \in nonces : \A m \in nonces : m <= n
        BY <1>2, <2>1, GreatestNatural
    <2>3. greatest \in nonces /\ \A m \in nonces : m <= greatest
        BY <2>2
    <2>4. HighestLocallyConfirmed(nonces) = 1 + greatest
        BY <1>2 DEF HighestLocallyConfirmed
    <2> HIDE DEF greatest
    <2> QED BY <2>1, <2>3, <2>4
<1> QED BY <1>1, <1>2

\* What the loop of _getHighestContinuousFrom stops at.
LEMMA ContinuousIsFirstFree ==
    ASSUME NEW nonces, IsFiniteSet(nonces), NEW start \in Nat
    PROVE  LET n == HighestContinuousFrom(nonces, start) IN
           /\ n \in Nat /\ start <= n /\ n \notin nonces
           /\ \A m \in start..(n - 1) : m \in nonces
<1> DEFINE last == start + Cardinality(nonces)
           Free(n) == n \notin nonces /\ \A m \in start..(n - 1) : m \in nonces
           first == CHOOSE n \in start..last : Free(n)
<1>1. last \in Nat
    BY FS_CardinalityType
<1>2. \E n \in start..last : Free(n)
    BY FreeNonceExists
<1>3. first \in start..last /\ Free(first)
    <2> HIDE DEF Free, last
    <2> QED BY <1>2
<1>4. HighestContinuousFrom(nonces, start) = first
    BY DEF HighestContinuousFrom
<1> HIDE DEF first, last
<1> QED BY <1>1, <1>3, <1>4

\* The nonce an approval gets: free, not behind the node nor the confirmed
\* nonces, and next to one of them or to a waiting one.
LEMMA NextNonceIsFirstFree ==
    ASSUME NEW node \in Nat,
           NEW used \in SUBSET (Nat \union {NoNonce}), IsFiniteSet(used),
           NEW waiting, IsFiniteSet(waiting)
    PROVE  LET n == NextNonce(node, used, waiting) IN
           /\ n \in Nat /\ n \notin waiting /\ node <= n
           /\ NoNonce \notin used => \A m \in used : m < n
           /\ \/ n = 0 \/ n = node \/ n - 1 \in waiting
              \/ n - 1 \in used
<1> DEFINE highest == HighestLocallyConfirmed(used)
           suggested == Larger(node, highest)
           local == HighestContinuousFrom(waiting, suggested)
<1>1. highest \in Nat /\ (NoNonce \notin used => \A m \in used : m < highest)
    BY HighestLocallyConfirmedIsLarger
<1>2. highest = 0 \/ highest - 1 \in used
    <2>1. CASE used = {} \/ NoNonce \in used
        BY <2>1 DEF HighestLocallyConfirmed
    <2>2. CASE used # {} /\ NoNonce \notin used
        <3> DEFINE greatest == CHOOSE n \in used : \A m \in used : m <= n
        <3>1. \E n \in used : \A m \in used : m <= n
            BY <2>2, GreatestNatural
        <3>2. greatest \in used /\ highest = 1 + greatest
            BY <2>2, <3>1 DEF HighestLocallyConfirmed
        <3> HIDE DEF greatest, highest
        <3>3. greatest \in Nat
            BY <2>2, <3>2
        <3> QED BY <3>2, <3>3
    <2> QED BY <2>1, <2>2
<1> HIDE DEF highest
<1>3. /\ suggested \in Nat /\ node <= suggested /\ highest <= suggested
      /\ suggested = node \/ suggested = highest
    BY <1>1 DEF Larger
<1> HIDE DEF suggested
<1>4. /\ local \in Nat /\ suggested <= local /\ local \notin waiting
      /\ \A m \in suggested..(local - 1) : m \in waiting
    BY <1>3, ContinuousIsFirstFree
<1> HIDE DEF local
<1>5. NextNonce(node, used, waiting) = local
    <2>1. NextNonce(node, used, waiting) = Larger(node, local)
        BY DEF NextNonce, local, suggested, highest
    <2> QED BY <1>3, <1>4, <2>1 DEF Larger
<1>6. NoNonce \notin used => \A m \in used : m < local
    BY <1>1, <1>3, <1>4
<1>7. local = 0 \/ local = node \/ local - 1 \in waiting \/ local - 1 \in used
    <2>1. CASE local = suggested
        BY <1>2, <1>3, <2>1
    <2>2. CASE local # suggested
        <3>1. local - 1 \in suggested..(local - 1)
            BY <1>3, <1>4, <2>2
        <3> QED BY <1>4, <3>1
    <2> QED BY <2>1, <2>2
<1> QED BY <1>3, <1>4, <1>5, <1>6, <1>7

\* It is a number, whatever the lists hold.
LEMMA NextNonceIsNat ==
    ASSUME NEW node \in Nat,
           NEW used \in SUBSET (Nat \union {NoNonce}), IsFiniteSet(used),
           NEW waiting, IsFiniteSet(waiting)
    PROVE  NextNonce(node, used, waiting) \in Nat
BY NextNonceIsFirstFree
=============================================================================

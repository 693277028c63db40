--------------------------- MODULE TxLedgerProofs ---------------------------
(***************************************************************************)
(* While the tracker chooses every nonce: a final status is final, and     *)
(* TxController implements NonceLedger and TxFlow.  Proved from the        *)
(* effects of TxLifeProofs, for any number of transactions, senders,       *)
(* windows and block handlers.                                             *)
(***************************************************************************)
EXTENDS TxLifeProofs

\* Who is dropped is neither waiting for its nonce nor confirmed, and nobody
\* is approving it.
LEMMA DroppedIsIdle ==
    ASSUME LockInv, LifeInv, Plain, PlainInv, NEW t \in Tx, Dropped(t)
    PROVE  /\ pc[t] = "idle" /\ Object(t).status \notin {"submitted", "confirmed"}
           /\ \A h \in Handler : asked[h][t] = NoTx
<1>1. PICK u \in Tx : u # t /\ Ousts(u, t)
    BY DEF Dropped, Twin
<1>3. \A h \in Handler : asked[h][u] # NoTx => InUse(u)
    BY DEF PlainInv, AskedIsSubmitted, InUse
<1>4. ~ InUse(t)
    BY <1>1, <1>3 DEF Ousts, PlainInv, LiveNoncesDiffer, StoredConfirmed, InUse
<1>5. Object(t).status # "confirmed"
    <2> SUFFICES ASSUME Object(t).status = "confirmed" PROVE FALSE
        OBVIOUS
    <2>1. StoredConfirmed(t)
        BY DEF Dropped, StoredConfirmed
    <2>2. InUse(u)
        BY <1>1, <1>3 DEF Ousts
    <2> QED BY <1>1, <2>1, <2>2 DEF Ousts, PlainInv, LiveNoncesDiffer
<1>6. pc[t] \notin {"global", "address"}
    <2>1. Object(t).nonce # NoNonce /\ ~ Object(t).lastGasPrice
        BY NonceAssumption DEF Dropped, Plain, OfTracker
    <2> QED BY <2>1 DEF LifeInv, NonceOnce
<1>7. pc[t] \in {"idle"} \union InProcess
    BY DEF LockInv, TypeOK, FlowTypeOK
<1> QED BY <1>4, <1>5, <1>6, <1>7
    DEF InUse, InProcess, PlainInv, AskedIsSubmitted

\* Whom a pending check finds confirmed is submitted.
LEMMA ConfirmedWasSubmitted ==
    ASSUME PlainInv, NEW t \in Tx, Confirmed(t)
    PROVE  Object(t).status = "submitted"
BY DEF Confirmed, PlainInv, AskedIsSubmitted

-----------------------------------------------------------------------------
LEMMA AskedSubmittedStep ==
    ASSUME LockInv, LifeInv, Plain, PlainInv, \A t \in Tx : Effect(t)
    PROVE  AskedIsSubmitted'
<1> SUFFICES ASSUME NEW h \in Handler, NEW t \in Tx, asked'[h][t] # NoTx
             PROVE  Later(t).status = "submitted"
    BY DEF AskedIsSubmitted, Later, Object
<1>1. asked[h][t] # NoTx =>
         /\ Object(t).status = "submitted" /\ Object(t).hash
         /\ pc[t] = "idle" /\ Handled(t)
    BY UnhandledFacts DEF LifeInv, AskedIsPending, PlainInv, AskedIsSubmitted
<1>2. CASE Rested(t)
    BY <1>1, <1>2 DEF Rested, SameMeta
<1>3. CASE Added(t) \/ Begun(t) \/ Refused(t)
    BY <1>1, <1>3, EarlyFacts DEF Added, Begun, Refused, AskedKept
<1>4. CASE Moved(t) \/ Took(t) \/ Ended(t)
    BY <1>1, <1>4 DEF Moved, Took, Ended, AskedKept, Holding
<1>5. CASE Dropped(t)
    BY <1>5, DroppedIsIdle DEF Dropped, AskedKept
<1>6. CASE Lost(t)
    BY <1>1, <1>6 DEF Lost, AskedKept
<1>7. CASE Confirmed(t)
    BY <1>7 DEF Confirmed
<1> QED BY <1>2, <1>3, <1>4, <1>5, <1>6, <1>7 DEF Effect

LEMMA SigningStep ==
    ASSUME LockInv, LifeInv, Plain, PlainInv, \A t \in Tx : Effect(t)
    PROVE  SigningIsNotFinal'
<1> SUFFICES ASSUME NEW t \in Tx, pc'[t] \in InProcess
             PROVE  Later(t).status \in {"approved", "signed"}
    BY DEF SigningIsNotFinal, Later, Object
<1>1. pc[t] \in InProcess => Object(t).status \in {"approved", "signed"}
    BY DEF PlainInv, SigningIsNotFinal
<1>2. pc'[t] # "idle"
    BY DEF InProcess, Holding
<1>3. CASE Rested(t)
    BY <1>1, <1>3 DEF Rested, SameFlow, SameMeta
<1>4. CASE Added(t) \/ Refused(t)
    BY <1>2, <1>4, UnhandledFacts, EarlyFacts DEF Added, Refused, SameFlow
<1>5. CASE Begun(t)
    BY <1>5 DEF Begun
<1>6. CASE Moved(t) \/ Took(t)
    BY <1>1, <1>6 DEF Moved, Took, InProcess, Holding
<1>7. CASE Ended(t)
    BY <1>2, <1>7 DEF Ended
<1>8. CASE Dropped(t)
    BY <1>2, <1>8, DroppedIsIdle DEF Dropped, SameFlow
<1>9. CASE Lost(t) \/ Confirmed(t)
    <2>1. Object(t).status = "submitted" /\ pc'[t] = pc[t]
        BY <1>9, ConfirmedWasSubmitted DEF Lost, Confirmed, SameFlow
    <2> QED BY <1>2, <2>1 DEF LifeInv, NonceOnce
<1> QED BY <1>3, <1>4, <1>5, <1>6, <1>7, <1>8, <1>9 DEF Effect

\* Who is a stored confirmed transaction after a step was so before it, or was
\* submitted, with the same nonce.
LEMMA ConfirmedStep ==
    ASSUME LockInv, LifeInv, Plain, PlainInv, NEW t \in Tx, Effect(t),
           StoredConfirmed(t)'
    PROVE  /\ from'[t] = from[t] /\ Later(t).nonce = Object(t).nonce
           /\ InUse(t) \/ StoredConfirmed(t)
<1>0. store'[t] # NoTx /\ Later(t).status = "confirmed"
    BY DEF StoredConfirmed, Later, Object
<1>1. Object(t).status \in {"submitted", "confirmed"} =>
         Handled(t) /\ ~ Unused(t) /\ pc[t] = "idle"
    BY HandledFacts DEF LifeInv, NonceOnce
<1>2. CASE Rested(t)
    <2>1. Object(t).status = "confirmed" /\ Later(t).nonce = Object(t).nonce
        BY <1>0, <1>2 DEF Rested, SameMeta, SameRest
    <2>2. store[t] # NoTx
        BY <1>0, <1>2, <2>1 DEF Rested, PlainInv, AskedIsSubmitted
    <2> QED BY <1>1, <1>2, <2>1, <2>2 DEF Rested, Frame, StoredConfirmed
<1>3. CASE Added(t) \/ Begun(t)
    BY <1>0, <1>3 DEF Added, Begun, FreshMeta
<1>4. CASE Refused(t)
    BY <1>0, <1>4 DEF Refused
<1>5. CASE Moved(t) \/ Took(t)
    BY <1>0, <1>1, <1>5 DEF Moved, Took, Holding
<1>6. CASE Ended(t)
    BY <1>0, <1>1, <1>6 DEF Ended, SameMeta, Holding
<1>7. CASE Dropped(t) \/ Lost(t)
    BY <1>0, <1>7 DEF Dropped, Lost
<1>8. CASE Confirmed(t)
    <2>1. Object(t).status = "submitted"
        BY <1>8, ConfirmedWasSubmitted
    <2> QED BY <1>1, <1>8, <2>1 DEF Confirmed, Frame, SameRest, InUse
<1> QED BY <1>2, <1>3, <1>4, <1>5, <1>6, <1>7, <1>8 DEF Effect

\* What an approval takes is above every stored confirmed nonce of its sender.
LEMMA TakenIsNew ==
    ASSUME LockInv, LifeInv, NEW t \in Tx, TakeNonce(t), OfTracker(t),
           NEW u \in Tx, from[u] = from[t], StoredConfirmed(u)
    PROVE  Later(t).nonce # Object(u).nonce
<1> DEFINE used == NoncesOf(from[t], {"confirmed"})
           waiting == NoncesOf(from[t], {"submitted"})
<1>1. TypeOK
    BY DEF LockInv
<1>2. /\ used \in SUBSET (Nat \union {NoNonce}) /\ IsFiniteSet(used)
      /\ IsFiniteSet(waiting)
    BY <1>1, NoncesType
<1>3. /\ nodeNonce[from[t]] \in Nat
      /\ Later(t).nonce = NextNonce(nodeNonce[from[t]], used, waiting)
    BY TakenIsNext
<1>4. Object(u).nonce \in used
    <2>1. store[u] = ref[u] /\ u \in Stored(store) /\ chainOf[u] = chain
        BY DEF LifeInv, OneObject, OneNetwork, StoredConfirmed, Stored
    <2> QED BY <2>1 DEF NoncesOf, Here, OnChain, WithStatus, StoredConfirmed, Object
<1>5. NoNonce \notin used
    <2> DEFINE listed == {v \in Here(WithStatus(store, heap, {"confirmed"})) :
                             from[v] = from[t]}
    <2>1. \A v \in listed : heap[v][store[v]].nonce # NoNonce
        <3> SUFFICES ASSUME NEW v \in listed
                     PROVE  heap[v][store[v]].nonce # NoNonce
            OBVIOUS
        <3>1. v \in Tx /\ store[v] # NoTx /\ heap[v][store[v]].status = "confirmed"
            BY DEF Here, OnChain, WithStatus, Stored
        <3>2. Object(v).status = "confirmed" => Object(v).nonce \in Nat
            BY <3>1 DEF LifeInv, NonceOnce
        <3> QED BY <3>1, <3>2, StoredObject, NonceAssumption
    <2>2. used = {heap[v][store[v]].nonce : v \in listed}
        BY DEF NoncesOf
    <2> HIDE DEF listed, used
    <2> QED BY <2>1, <2>2
<1> HIDE DEF used, waiting
<1>6. NoNonce \notin used =>
         \A m \in used : m < NextNonce(nodeNonce[from[t]], used, waiting)
    BY <1>2, <1>3, NextNonceIsFirstFree
<1>7. Object(u).nonce \in Nat
    BY <1>2, <1>4, <1>5
<1> QED BY <1>3, <1>4, <1>5, <1>6, <1>7

LEMMA LiveNoncesStep ==
    ASSUME LockInv, LockInv', LifeInv, Plain, PlainInv, [Next]_vars,
           \A t \in Tx : Effect(t)
    PROVE  LiveNoncesDiffer'
<1> SUFFICES ASSUME NEW t \in Tx, NEW u \in Tx, t # u, from'[t] = from'[u],
                    InUse(t)', InUse(u)' \/ StoredConfirmed(u)',
                    Later(t).nonce = Later(u).nonce
             PROVE  FALSE
    BY DEF LiveNoncesDiffer, Later, Object
<1>0. OfTracker(t) /\ OfTracker(u)
    BY DEF Plain
<1>1. /\ from'[t] = from[t]
      /\ Took(t) \/ (InUse(t) /\ Later(t).nonce = Object(t).nonce)
    BY InUseStep
<1>2. /\ from'[u] = from[u]
      /\ \/ Took(u)
         \/ (InUse(u) \/ StoredConfirmed(u)) /\ Later(u).nonce = Object(u).nonce
    BY InUseStep, ConfirmedStep
<1>3. \A v, w \in Tx : v # w /\ from'[v] = from'[w] /\ pc'[v] \in Holding
                       => pc'[w] \notin Holding
    BY DEF LockInv, NonceLockDiscipline, HasNonceLock, HoldsMutex
<1>4. ASSUME NEW v \in Tx, NEW w \in Tx, v # w, from'[v] = from'[w], Took(v)
      PROVE  /\ TakeNonce(v) /\ pc'[w] \notin Holding
             /\ Later(w) = Object(w) /\ store'[w] = store[w]
    <2>1. TakeNonce(v) /\ pc'[v] \in Holding
        BY <1>4, TookIsTakeNonce DEF Took, Holding
    <2>2. pc'[w] \notin Holding
        BY <1>3, <1>4, <2>1
    <2>3. heap'[w] = heap[w] /\ ref' = ref /\ store'[w] = store[w]
        BY <1>4, <2>1, ObjectType DEF TakeNonce, Put, Heaps, Stores
    <2> QED BY <2>1, <2>2, <2>3 DEF Later, Object
<1>5. CASE Took(t)
    <2>1. /\ TakeNonce(t) /\ pc'[u] \notin Holding
          /\ Later(u) = Object(u) /\ store'[u] = store[u]
        BY <1>4, <1>5
    <2>2. Object(u).status = "submitted" \/ StoredConfirmed(u)
        BY <2>1 DEF InUse, StoredConfirmed, Later, Object
    <2> QED BY <1>0, <1>1, <1>2, <2>1, <2>2, TakenIsFree, TakenIsNew
<1>6. CASE Took(u)
    <2>1. TakeNonce(u) /\ pc'[t] \notin Holding /\ Later(t) = Object(t)
        BY <1>4, <1>6
    <2>2. Object(t).status = "submitted"
        BY <2>1 DEF InUse, Later, Object
    <2> QED BY <1>0, <1>1, <1>2, <2>1, <2>2, TakenIsFree
<1>7. CASE ~ Took(t) /\ ~ Took(u)
    BY <1>1, <1>2, <1>7 DEF PlainInv, LiveNoncesDiffer
<1> QED BY <1>5, <1>6, <1>7

-----------------------------------------------------------------------------
\* While the tracker chooses, a nonce is recorded once.
LEMMA NonceKept ==
    ASSUME LockInv, LifeInv, Plain, Plain', NEW t \in Tx, Effect(t)
    PROVE  \/ Later(t).nonce = Object(t).nonce
           \/ Took(t) /\ Object(t).nonce = NoNonce /\ Later(t).nonce \in Nat
<1>1. ~ Handled(t) => Object(t).nonce = NoNonce
    BY UnhandledFacts
<1>2. ~ Object(t).lastGasPrice /\ ~ Later(t).lastGasPrice
    BY DEF Plain, OfTracker, Object, Later
<1>3. CASE Rested(t) \/ Refused(t) \/ Moved(t) \/ Dropped(t) \/ Lost(t) \/ Confirmed(t)
    BY <1>3 DEF Rested, Refused, Moved, Dropped, Lost, Confirmed, SameMeta, SameRest
<1>4. CASE Added(t)
    BY <1>1, <1>4, EarlyFacts DEF Added, FreshMeta
<1>5. CASE Begun(t)
    BY <1>1, <1>2, <1>5 DEF Begun
<1>6. CASE Took(t)
    BY <1>2, <1>6 DEF Took, LifeInv, NonceOnce
<1>7. CASE Ended(t)
    BY <1>7 DEF Ended
<1> QED BY <1>3, <1>4, <1>5, <1>6, <1>7 DEF Effect

\* The node's nonces do not pass the bound.
LEMMA NodeBoundStep ==
    ASSUME LockInv, [Next]_vars, \A a \in Account : nodeNonce[a] <= MaxNonce
    PROVE  \A a \in Account : nodeNonce'[a] <= MaxNonce
<1> DEFINE Kept == nodeNonce' = nodeNonce
<1> USE DEF nodeVars
<1>1. ASSUME NEW t \in Tx, RequestStep(t) PROVE Kept
    BY <1>1 DEF RequestStep, RequestDenied, AddUnapproved, GasDefaults, BootGas
<1>2. ASSUME NEW t \in Tx, NEW a \in Account, Request(t, a) PROVE Kept
    BY <1>2 DEF Request
<1>3. ASSUME UserStep PROVE Kept
    BY <1>3 DEF UserStep, Refresh, Approve, Reject, Replace
<1>4. ASSUME NEW t \in Tx, ApprovalStep(t) PROVE Kept
    BY <1>4 DEF ApprovalStep, GlobalFree, TakeNonce, AccountAnswer, Sign,
                SwapBalance, AwaitRejects, BroadcastAnswer
<1>5. ASSUME NEW h \in Handler, NewBlock(h) \/ CheckStep(h) PROVE Kept
    BY <1>5 DEF NewBlock, CheckStep, CheckPending, CheckDone, ResultMined,
                ResultPending, ResultError
<1>6. ASSUME NetStep \/ Save \/ Crash PROVE Kept
    BY <1>6 DEF NetStep, NetworkUp, SwitchNetwork, ResetAccount, SwitchTo, Save,
                Crash
<1>7. ASSUME UNCHANGED vars PROVE Kept
    BY <1>7 DEF vars
<1>8. ASSUME NEW a \in Account, nodeNonce[a] < MaxNonce,
             nodeNonce' = [nodeNonce EXCEPT ![a] = @ + 1]
      PROVE  \A b \in Account : nodeNonce'[b] <= MaxNonce
    BY <1>8, MaxNonceAssumption DEF LockInv, TypeOK, NodeTypeOK
<1>9. ASSUME NodeStep
      PROVE  \/ Kept
             \/ \E a \in Account : /\ nodeNonce[a] < MaxNonce
                                  /\ nodeNonce' = [nodeNonce EXCEPT ![a] = @ + 1]
    <2>1. \A t \in Tx : from[t] # NoAccount => from[t] \in Account
        BY DEF LockInv, TypeOK, RequestTypeOK
    <2> QED BY <1>9, <2>1 DEF NodeStep, NodeAccepts, Mine, ForeignTransaction
<1> HIDE DEF Kept
<1>10. Kept \/ NodeStep
    BY <1>1, <1>2, <1>3, <1>4, <1>5, <1>6, <1>7 DEF Next
<1> QED BY <1>8, <1>9, <1>10 DEF Kept

\* A nonce the tracker hands out is zero, the node's, or the next one after a
\* recorded one.
LEMMA TakenFollows ==
    ASSUME LockInv, LifeInv, NEW t \in Tx, TakeNonce(t), OfTracker(t)
    PROVE  /\ Later(t).nonce \in Nat
           /\ \/ Later(t).nonce = 0 \/ Later(t).nonce = nodeNonce[from[t]]
              \/ \E u \in Numbered : Object(u).nonce = Later(t).nonce - 1
<1> DEFINE used == NoncesOf(from[t], {"confirmed"})
           waiting == NoncesOf(from[t], {"submitted"})
<1>1. TypeOK
    BY DEF LockInv
<1>2. /\ used \in SUBSET (Nat \union {NoNonce}) /\ IsFiniteSet(used)
      /\ waiting \in SUBSET (Nat \union {NoNonce}) /\ IsFiniteSet(waiting)
    BY <1>1, NoncesType
<1>3. /\ nodeNonce[from[t]] \in Nat
      /\ Later(t).nonce = NextNonce(nodeNonce[from[t]], used, waiting)
    BY TakenIsNext
<1>4. ASSUME NEW statuses, NEW n \in NoncesOf(from[t], statuses), n \in Nat
      PROVE  \E u \in Numbered : Object(u).nonce = n
    <2>1. PICK u \in Here(WithStatus(store, heap, statuses)) :
             n = heap[u][store[u]].nonce
        BY <1>4 DEF NoncesOf
    <2>2. u \in Tx /\ store[u] # NoTx
        BY <2>1 DEF Here, OnChain, WithStatus, Stored
    <2> QED BY <1>4, <2>1, <2>2, StoredObject DEF Numbered
<1> DEFINE n == Later(t).nonce
<1>5. /\ n \in Nat
      /\ n = 0 \/ n = nodeNonce[from[t]] \/ n - 1 \in waiting \/ n - 1 \in used
    <2> HIDE DEF used, waiting
    <2> QED BY <1>2, <1>3, NextNonceIsFirstFree
<1>6. CASE n # 0 /\ (n - 1 \in waiting \/ n - 1 \in used)
    <2>1. n - 1 \in Nat
        <3> HIDE DEF n
        <3> QED BY <1>5, <1>6
    <2> QED BY <1>4, <1>5, <1>6, <2>1
<1> QED BY <1>5, <1>6

LEMMA BoundStep ==
    ASSUME LockInv, LifeInv, Plain, Plain', PlainInv, [Next]_vars,
           \A t \in Tx : Effect(t)
    PROVE  NoncesAreBounded'
<1> DEFINE k == Cardinality(Numbered)
           l == Cardinality(Numbered')
<1>1. /\ \A a \in Account : nodeNonce[a] <= MaxNonce
      /\ \A t \in Numbered : Object(t).nonce < MaxNonce + k
    BY DEF PlainInv, NoncesAreBounded
<1>2. \A a \in Account : nodeNonce'[a] <= MaxNonce
    BY <1>1, NodeBoundStep
<1>3. IsFiniteSet(Numbered) /\ k \in Nat
    <2>1. IsFiniteSet(Tx) /\ Numbered \in SUBSET Tx
        BY FS_Interval, NumTxAssumption DEF Tx, Numbered
    <2> QED BY <2>1, FS_Subset, FS_CardinalityType
<1>4. Numbered' = {t \in Tx : Later(t).nonce \in Nat}
    BY DEF Numbered, Later, Object
<1> SUFFICES \A t \in Numbered' : Later(t).nonce < MaxNonce + l
    BY <1>2 DEF NoncesAreBounded, Later, Object
<1>5. CASE \A t \in Tx : ~ Took(t)
    <2>1. \A t \in Tx : Later(t).nonce = Object(t).nonce
        BY <1>5, NonceKept
    <2>2. Numbered' = Numbered
        BY <1>4, <2>1 DEF Numbered
    <2> QED BY <1>1, <2>1, <2>2 DEF Numbered
<1>6. ASSUME NEW t \in Tx, Took(t)
      PROVE  \A u \in Numbered' : Later(u).nonce < MaxNonce + l
    <2>1. TakeNonce(t) /\ OfTracker(t)
        BY <1>6, TookIsTakeNonce DEF Plain
    <2>2. \A u \in Tx \ {t} : Later(u) = Object(u)
        BY <2>1, ObjectType DEF TakeNonce, Heaps, Later, Object
    <2>3. Later(t).nonce \in Nat /\ Object(t).nonce = NoNonce
        BY <1>6, <2>1 DEF Took, OfTracker, LifeInv, NonceOnce
    <2>4. Numbered' = Numbered \union {t} /\ t \notin Numbered
        BY <1>4, <2>2, <2>3, NonceAssumption DEF Numbered
    <2>5. l = k + 1
        BY <1>3, <2>4, FS_AddElement
    <2> HIDE DEF k, l
    <2>6. ASSUME NEW u \in Numbered PROVE Later(u).nonce < MaxNonce + l
        <3>1. u # t /\ u \in Tx /\ Object(u).nonce \in Nat
            BY <2>4 DEF Numbered
        <3>2. Object(u).nonce < MaxNonce + k /\ Later(u).nonce = Object(u).nonce
            BY <1>1, <2>2, <3>1
        <3> QED BY <1>3, <2>5, <3>1, <3>2, MaxNonceAssumption
    <2>7. Later(t).nonce < MaxNonce + l
        <3>1. /\ from[t] \in Account /\ nodeNonce[from[t]] \in Nat
              /\ nodeNonce[from[t]] <= MaxNonce
            BY <1>1, <2>1, TakenIsNext
        <3>2. CASE Later(t).nonce = 0 \/ Later(t).nonce = nodeNonce[from[t]]
            BY <1>3, <2>5, <3>1, <3>2, MaxNonceAssumption
        <3>3. CASE \E u \in Numbered : Object(u).nonce = Later(t).nonce - 1
            BY <1>1, <1>3, <2>3, <2>5, <3>3, MaxNonceAssumption
        <3> QED BY <2>1, <3>2, <3>3, TakenFollows
    <2> QED BY <2>4, <2>6, <2>7
<1> QED BY <1>5, <1>6

\* The invariant holds at first.
LEMMA PlainInit == Init => PlainInv
<1> SUFFICES ASSUME Init PROVE PlainInv
    OBVIOUS
<1>1. \A t \in Tx : /\ Object(t) = FreshMeta /\ pc[t] = "idle"
                    /\ \A h \in Handler : asked[h][t] = NoTx
    BY DEF Init, Meta0, Object, Version
<1>2. \A t \in Tx : Object(t).nonce \notin Nat
    BY <1>1, NonceAssumption DEF FreshMeta
<1>3. \A a \in Account : nodeNonce[a] <= MaxNonce
    BY MaxNonceAssumption DEF Init
<1>4. LiveNoncesDiffer /\ AskedIsSubmitted /\ SigningIsNotFinal
    BY <1>1 DEF LiveNoncesDiffer, AskedIsSubmitted, SigningIsNotFinal, InUse,
                Holding, InProcess, FreshMeta
<1> QED BY <1>2, <1>3, <1>4 DEF PlainInv, NoncesAreBounded, Numbered

(***************************************************************************)
(* While the tracker chooses every nonce, it is never one that another     *)
(* transaction of the sender has or that this store knows to be used, so   *)
(* the pending check finds no one to drop that a user is waiting for, and  *)
(* the nonces run ahead of the node by one per transaction at most.        *)
(***************************************************************************)
THEOREM PlainInvariant == Spec /\ []Plain => []PlainInv
<1>1. LockInv /\ LockInv' /\ (Undisturbed => LifeInv) /\ Plain /\ Plain' /\ PlainInv
      /\ [Next]_vars => PlainInv'
    <2> SUFFICES ASSUME LockInv, LockInv', Undisturbed => LifeInv, Plain, Plain',
                        PlainInv, [Next]_vars
                 PROVE  PlainInv'
        OBVIOUS
    <2>1. LifeInv /\ Undisturbed'
        BY DEF Plain
    <2>2. \A t \in Tx : Effect(t)
        BY <2>1, StepEffect
    <2>3. LiveNoncesDiffer' /\ AskedIsSubmitted' /\ SigningIsNotFinal'
        BY <2>1, <2>2, LiveNoncesStep, AskedSubmittedStep, SigningStep
    <2>4. NoncesAreBounded'
        BY <2>1, <2>2, BoundStep
    <2> QED BY <2>3, <2>4 DEF PlainInv
<1> QED BY <1>1, PlainInit, LockInvariant, LifeInvariant, PTL DEF Spec

-----------------------------------------------------------------------------
\* What a step does to a transaction with a final status.
LEMMA FinalStep ==
    ASSUME LockInv, LifeInv, Plain, PlainInv, NEW t \in Tx, Effect(t), store[t] # NoTx,
           Object(t).status \in FinalStates
    PROVE  /\ Later(t).status \in FinalStates
           /\ Object(t).status = "confirmed" => Later(t).status = "confirmed"
<1>1. pc[t] \notin InProcess /\ Object(t).status \notin {"submitted", "unapproved"}
    BY DEF PlainInv, SigningIsNotFinal, FinalStates
<1>2. CASE Rested(t)
    BY <1>2 DEF Rested, SameMeta
<1>3. CASE Added(t)
    BY <1>3, EarlyFacts DEF Added
<1>4. CASE Begun(t) \/ Refused(t)
    BY <1>1, <1>4, UnhandledFacts DEF Begun, Refused
<1>5. CASE Moved(t) \/ Took(t) \/ Ended(t)
    BY <1>1, <1>5 DEF Moved, Took, Ended, InProcess, Holding
<1>6. CASE Dropped(t)
    BY <1>6, DroppedIsIdle DEF Dropped, FinalStates
<1>7. CASE Lost(t)
    BY <1>1, <1>7 DEF Lost
<1>8. CASE Confirmed(t)
    BY <1>8 DEF Confirmed, FinalStates
<1> QED BY <1>2, <1>3, <1>4, <1>5, <1>6, <1>7, <1>8 DEF Effect

(***************************************************************************)
(* "states that can be considered final states" (lib/util.js): no setter   *)
(* of the pending check or of an approval that is still under way turns a  *)
(* final status into another kind, nor a confirmed one into a dropped one, *)
(* as long as the tracker chooses every nonce.                             *)
(***************************************************************************)
THEOREM FinalStaysFinal == Spec /\ []Plain => FinalStatusIsFinal
<1>1. ASSUME LockInv, LockInv', Undisturbed => LifeInv, (Undisturbed => LifeInv)',
             Plain, Plain', PlainInv, [Next]_vars,
             NEW t \in Tx, store'[t] # NoTx
      PROVE  /\ t \in WithStatus(store, heap, FinalStates) =>
                    t \in WithStatus(store, heap, FinalStates)'
             /\ t \in WithStatus(store, heap, {"confirmed"}) =>
                    t \in WithStatus(store, heap, {"confirmed"})'
    <2>1. LifeInv /\ LifeInv' /\ Undisturbed'
        BY <1>1 DEF Plain
    <2>2. Effect(t)
        BY <1>1, <2>1, StepEffect
    <2>3. heap'[t][store'[t]] = Later(t)
        BY <1>1, <2>1 DEF LifeInv, OneObject, Later
    <2>4. \A S : t \in WithStatus(store, heap, S) =>
                    store[t] # NoTx /\ Object(t).status \in S
        BY <2>1, StoredObject DEF WithStatus, Stored
    <2>5. \A S : Later(t).status \in S => t \in WithStatus(store', heap', S)
        BY <1>1, <2>3 DEF WithStatus, Stored
    <2>6. "confirmed" \in FinalStates
        BY DEF FinalStates
    <2> QED BY <1>1, <2>1, <2>2, <2>4, <2>5, <2>6, FinalStep
<1>2. LockInv /\ LockInv' /\ (Undisturbed => LifeInv) /\ (Undisturbed => LifeInv)'
      /\ Plain /\ Plain' /\ PlainInv /\ [Next]_vars
      => \A t \in Tx : store'[t] # NoTx =>
            /\ t \in WithStatus(store, heap, FinalStates) =>
                  t \in WithStatus(store, heap, FinalStates)'
            /\ t \in WithStatus(store, heap, {"confirmed"}) =>
                  t \in WithStatus(store, heap, {"confirmed"})'
    BY <1>1
<1> QED BY <1>2, PlainInvariant, LockInvariant, LifeInvariant, PTL
        DEF Spec, FinalStatusIsFinal

-----------------------------------------------------------------------------
\* The refinement mapping in terms of the objects.
TakenMeans ==
    \A a \in Account :
        /\ \A t \in Tx : from[t] = a /\ pc[t] \in Holding
                         => takenNonces[a] = Object(t).nonce
        /\ (\A t \in Tx : ~ (from[t] = a /\ pc[t] \in Holding))
           => takenNonces[a] = NoNonce

Waiting(a) == {u \in Tx : from[u] = a /\ Object(u).status = "submitted"}

PendingMeans ==
    pendingNonces = [a \in Account |-> {Object(u).nonce : u \in Waiting(a)}]

LEMMA TakenMeaning == LockInv => TakenMeans
<1> SUFFICES ASSUME LockInv, NEW a \in Account
             PROVE  /\ \A t \in Tx : from[t] = a /\ pc[t] \in Holding
                                     => takenNonces[a] = Object(t).nonce
                    /\ (\A t \in Tx : ~ (from[t] = a /\ pc[t] \in Holding))
                       => takenNonces[a] = NoNonce
    BY DEF TakenMeans
<1> DEFINE holders == {t \in Tx : from[t] = a /\ pc[t] \in Holding}
           chosen  == CHOOSE u \in holders : TRUE
<1>1. takenNonces[a] = IF holders = {} THEN NoNonce ELSE heap[chosen][ref[chosen]].nonce
    BY DEF takenNonces, TakenNonce
<1>2. \A t, u \in holders : t = u
    BY DEF LockInv, NonceLockDiscipline, HasNonceLock, HoldsMutex
<1>3. ASSUME NEW t \in holders PROVE chosen = t
    <2>1. chosen \in holders
        BY <1>3
    <2> QED BY <1>2, <2>1
<1>4. ASSUME NEW t \in Tx, from[t] = a, pc[t] \in Holding
      PROVE  takenNonces[a] = Object(t).nonce
    <2>1. t \in holders
        BY <1>4
    <2> HIDE DEF holders, chosen
    <2> QED BY <1>1, <1>3, <2>1 DEF Object
<1> QED BY <1>1, <1>4

LEMMA PendingMeaning == LifeInv => PendingMeans
<1> SUFFICES ASSUME LifeInv, NEW a \in Account
             PROVE  NoncesOf(a, {"submitted"}) = {Object(u).nonce : u \in Waiting(a)}
    BY DEF PendingMeans, pendingNonces
<1> DEFINE listed == {u \in Here(WithStatus(store, heap, {"submitted"})) : from[u] = a}
<1>1. \A u \in Tx : /\ store[u] # NoTx => heap[u][store[u]] = Object(u)
                    /\ Object(u).status = "submitted" => store[u] # NoTx
                    /\ chainOf[u] = chain
    BY StoredObject DEF LifeInv, OneObject, OneNetwork
<1>2. listed = Waiting(a)
    BY <1>1 DEF Waiting, Here, OnChain, WithStatus, Stored
<1>3. \A u \in Waiting(a) : heap[u][store[u]].nonce = Object(u).nonce
    BY <1>1 DEF Waiting
<1>4. NoncesOf(a, {"submitted"}) = {heap[u][store[u]].nonce : u \in listed}
    BY DEF NoncesOf
<1> HIDE DEF listed
<1> QED BY <1>2, <1>3, <1>4

LEMMA MeaningAfter ==
    ASSUME LockInv', LifeInv'
    PROVE  TakenMeans' /\ PendingMeans'
<1>1. LockInv' => TakenMeans'
    BY TakenMeaning, PTL
<1>2. LifeInv' => PendingMeans'
    BY PendingMeaning, PTL
<1> QED BY <1>1, <1>2

\* The end of an approval with the nonce lock is about nobody else.
LEMMA EndIsItsOwn ==
    ASSUME LockInv, LifeInv, Undisturbed', [Next]_vars, NEW t \in Tx,
           pc[t] \in Holding, pc'[t] \notin Holding
    PROVE  /\ from' = from
           /\ \A u \in Tx \ {t} : SameFlow(u) /\ SameMeta(u)
<1>0. /\ FlowTypeOK /\ heap \in Heaps /\ store \in Stores /\ ref \in [Tx -> Version]
      /\ pc[t] # "idle"
    BY ObjectType DEF LockInv, TypeOK, Holding
<1>1. LockAction /\ Next
    BY <1>0, LockFrame DEF vars, flowVars
<1>2. ASSUME NEW s \in Tx, GlobalFree(s) \/ TakeNonce(s) \/ AccountAnswer(s)
                              \/ Sign(s) \/ SwapBalance(s)
      PROVE  FALSE
    BY <1>0, <1>2 DEF GlobalFree, TakeNonce, AccountAnswer, Sign, SwapBalance,
                      Holding, FlowTypeOK
<1>3. ASSUME NEW st, NEW hp, NEW s \in Tx, BeginApproval(st, hp, s) PROVE FALSE
    BY <1>0, <1>3 DEF BeginApproval, FlowTypeOK, flowVars, InProcess
<1>4. ASSUME \/ \E s \in Tx, a \in Account : Request(s, a)
             \/ \E h \in Handler : NewBlock(h) \/ CheckPending(h) \/ CheckDone(h)
      PROVE  FALSE
    BY <1>0, <1>4 DEF Request, NewBlock, CheckPending, CheckDone, flowVars
<1>5. ASSUME \/ \E w \in Window, s \in Tx, custom \in CustomNonces \union {NoNonce} :
                   Approve(w, s, custom)
             \/ \E o, s \in Tx : Replace(o, s)
      PROVE  FALSE
    BY <1>3, <1>5 DEF Approve, Replace
<1>6. ~ Crash
    BY <1>1, StepIsUndisturbed
<1>7. PICK s \in Tx :
         AwaitRejects(s) \/ \E withHash \in BOOLEAN : BroadcastAnswer(s, withHash)
    BY <1>1, <1>2, <1>4, <1>5, <1>6 DEF LockAction
<1>8. pc' = [pc EXCEPT ![s] = "idle"] /\ ref' = ref /\ from' = from
    BY <1>7 DEF AwaitRejects, BroadcastAnswer, FailApproval, EndApproval
<1>9. s = t
    BY <1>0, <1>8 DEF FlowTypeOK
<1>10. ASSUME NEW u \in Tx \ {t} PROVE SameFlow(u) /\ SameMeta(u)
    <2>1. SameFlow(u)
        BY <1>0, <1>8, <1>9 DEF SameFlow, FlowTypeOK
    <2>2. CASE heap' = SetStatus(store, heap, {s}, "failed")
        <3>1. ref[u] \in Version
            BY <1>0
        <3> QED BY <1>0, <1>9, <2>1, <2>2, <3>1, StatusChange DEF SameMeta
    <2>3. CASE \E withHash \in BOOLEAN : heap' = Submitted(s, withHash)
        <3>1. heap'[u] = heap[u]
            BY <1>0, <1>9, <2>3 DEF Submitted, Heaps
        <3> QED BY <2>1, <3>1, SameObject
    <2> QED BY <1>7, <2>2, <2>3 DEF AwaitRejects, BroadcastAnswer, FailApproval
<1> QED BY <1>8, <1>10

\* Nonces fit into the ledger's.
NoncesFit ==
    \A t \in Tx : Object(t).nonce \in Nat => Object(t).nonce \in 0..(MaxNonce + NumTx)

LEMMA BoundedFit == NoncesAreBounded => NoncesFit
<1> SUFFICES ASSUME NoncesAreBounded, NEW t \in Tx, Object(t).nonce \in Nat
             PROVE  Object(t).nonce \in 0..(MaxNonce + NumTx)
    BY DEF NoncesFit
<1>1. Numbered \in SUBSET Tx /\ t \in Numbered
    BY DEF Numbered
<1>2. Cardinality(Numbered) <= NumTx /\ Cardinality(Numbered) \in Nat
    <2>1. NumTx \in Nat \ {0}
        BY NumTxAssumption
    <2>2. IsFiniteSet(Tx)
        BY <2>1, FS_Interval DEF Tx
    <2>3. Cardinality(Tx) = NumTx
        BY <2>1, FS_Interval DEF Tx
    <2> QED BY <1>1, <2>2, <2>3, FS_Subset, FS_CardinalityType
<1>3. Object(t).nonce < MaxNonce + Cardinality(Numbered)
    BY <1>1 DEF NoncesAreBounded
<1> QED BY <1>2, <1>3, MaxNonceAssumption, NumTxAssumption

\* The senders' lists hold nonces of the ledger, before and after a step.
PendingFit == pendingNonces \in [Account -> SUBSET (0..(MaxNonce + NumTx))]

LEMMA PendingFits == LifeInv /\ NoncesAreBounded => PendingFit
<1> SUFFICES ASSUME LifeInv, NoncesAreBounded PROVE PendingFit
    OBVIOUS
<1>1. \A t \in Tx : Object(t).status = "submitted" =>
                     Object(t).nonce \in 0..(MaxNonce + NumTx)
    BY BoundedFit DEF NoncesFit, LifeInv, NonceOnce
<1> QED BY <1>1, PendingMeaning DEF PendingMeans, Waiting, PendingFit

LEMMA FitAfter ==
    ASSUME LifeInv', NoncesAreBounded'
    PROVE  NoncesFit' /\ PendingFit'
<1>1. NoncesAreBounded' => NoncesFit'
    BY BoundedFit, PTL
<1>2. LifeInv' /\ NoncesAreBounded' => PendingFit'
    BY PendingFits, PTL
<1> QED BY <1>1, <1>2

-----------------------------------------------------------------------------
\* What the ledger sees of a step, one lemma per action of it.

LEMMA TakeStep ==
    ASSUME LockInv, LockInv', LifeInv, LifeInv', Plain, NoncesAreBounded',
           [Next]_vars, NEW t \in Tx, Took(t)
    PROVE  Ledger!Take(from[t], Later(t).nonce) /\ from[t] \in Account
           /\ Later(t).nonce \in 0..(MaxNonce + NumTx)
<1>1. TakeNonce(t) /\ OfTracker(t)
    BY TookIsTakeNonce DEF Plain
<1> DEFINE a == from[t]
<1>2. a \in Account
    BY <1>1, TakenIsNext
<1>3. /\ from' = from /\ ref' = ref
      /\ pc' = [pc EXCEPT ![t] = "account"] /\ pc[t] = "address" /\ HasNonceLock(t)
    BY <1>1 DEF TakeNonce, requestVars
<1>4. \A u \in Tx : /\ pc'[u] = IF u = t THEN "account" ELSE pc[u]
                    /\ u # t => Later(u) = Object(u)
    BY <1>1, <1>3, ObjectType DEF LockInv, TypeOK, FlowTypeOK, TakeNonce, Heaps,
                                  Later, Object
<1>5. \A u \in Tx : from[u] = a => pc[u] \notin Holding
    BY <1>3 DEF LockInv, NonceLockDiscipline, HasNonceLock, HoldsMutex, Holding
<1>6. takenNonces[a] = NoNonce
    BY <1>2, <1>5, TakenMeaning DEF TakenMeans
<1>7. takenNonces'[a] = Later(t).nonce
    <2>1. TakenMeans'
        BY MeaningAfter
    <2>2. from'[t] = a /\ pc'[t] \in Holding
        BY <1>3, <1>4 DEF Holding
    <2> QED BY <1>2, <2>1, <2>2 DEF TakenMeans, Later, Object
<1>8. ASSUME NEW b \in Account, b # a PROVE takenNonces'[b] = takenNonces[b]
    <2>1. TakenMeans /\ TakenMeans'
        BY TakenMeaning, MeaningAfter
    <2>2. CASE \E u \in Tx : from[u] = b /\ pc[u] \in Holding
        BY <1>3, <1>4, <1>8, <2>1, <2>2 DEF TakenMeans, Later, Object
    <2>3. CASE \A u \in Tx : ~ (from[u] = b /\ pc[u] \in Holding)
        BY <1>3, <1>4, <1>8, <2>1, <2>3 DEF TakenMeans
    <2> QED BY <2>2, <2>3
<1>9. takenNonces' = [takenNonces EXCEPT ![a] = Later(t).nonce]
    <2>1. /\ takenNonces = [b \in Account |-> takenNonces[b]]
          /\ takenNonces' = [b \in Account |-> takenNonces'[b]]
        BY DEF takenNonces
    <2> QED BY <1>2, <1>7, <1>8, <2>1
<1>10. pendingNonces' = pendingNonces
    <2>1. PendingMeans /\ PendingMeans'
        BY PendingMeaning, MeaningAfter
    <2>2. Later(t).status # "submitted" /\ Object(t).status # "submitted"
        BY <1>3 DEF Took, LifeInv, NonceOnce
    <2>3. ASSUME NEW b \in Account
          PROVE  {Later(u).nonce : u \in Waiting(b)'} = {Object(u).nonce : u \in Waiting(b)}
        <3>1. Waiting(b)' = Waiting(b) /\ t \notin Waiting(b)
            BY <1>3, <1>4, <2>2 DEF Waiting, Later, Object
        <3>2. \A u \in Waiting(b) : Later(u).nonce = Object(u).nonce
            BY <1>4, <3>1 DEF Waiting
        <3> QED BY <3>1, <3>2
    <2> QED BY <2>1, <2>3 DEF PendingMeans, Later, Object
<1>11. Later(t).nonce \notin pendingNonces[a]
    <2>1. \A u \in Waiting(a) : Later(t).nonce # Object(u).nonce
        BY <1>1, TakenIsFree DEF Waiting
    <2>2. PendingMeans
        BY PendingMeaning
    <2> QED BY <1>2, <2>1, <2>2 DEF PendingMeans
<1>12. Later(t).nonce \in 0..(MaxNonce + NumTx)
    BY FitAfter DEF NoncesFit, Took, Later, Object
<1> QED BY <1>2, <1>6, <1>9, <1>10, <1>11, <1>12 DEF Ledger!Take

LEMMA EndStep ==
    ASSUME LockInv, LockInv', LifeInv, LifeInv', Undisturbed', [Next]_vars,
           \A u \in Tx : Effect(u), NEW t \in Tx,
           pc[t] \in Holding, pc'[t] \notin Holding
    PROVE  /\ from[t] \in Account
           /\ Ledger!Commit(from[t]) \/ Ledger!GiveBack(from[t])
<1> DEFINE a == from[t]
<1>1. /\ from' = from
      /\ \A u \in Tx \ {t} : SameFlow(u) /\ SameMeta(u)
    BY EndIsItsOwn
<1>2. a \in Account
    BY ApprovingHasSender DEF LockInv, Holding
<1>3. Ended(t)
    <2>1. pc[t] # "idle"
        BY DEF Holding
    <2>2. Handled(t)
        BY <2>1, UnhandledFacts
    <2>3. ~ Confirmed(t)
        BY <2>1 DEF Confirmed, LifeInv, AskedIsPending
    <2> QED BY <2>2, <2>3, HandledEffect
            DEF Rested, SameFlow, Moved, Took, Dropped, Lost, Holding
<1>4. Object(t).status # "submitted" /\ pc[t] # "idle"
    BY DEF LifeInv, NonceOnce, Holding
<1>5. /\ TakenMeans /\ TakenMeans' /\ PendingMeans /\ PendingMeans'
    BY TakenMeaning, PendingMeaning, MeaningAfter
<1>6. takenNonces[a] = Object(t).nonce /\ takenNonces[a] # NoNonce
    <2>1. takenNonces[a] = Object(t).nonce
        BY <1>2, <1>5 DEF TakenMeans
    <2> QED BY <2>1, NonceAssumption DEF LifeInv, NonceOnce
<1>7. \A u \in Tx : from[u] = a => pc'[u] \notin Holding
    <2>1. \A u \in Tx : u # t /\ from[u] = a => pc[u] \notin Holding
        BY DEF LockInv, NonceLockDiscipline, HasNonceLock, HoldsMutex
    <2> QED BY <1>1, <2>1 DEF SameFlow
<1>8. takenNonces' = [takenNonces EXCEPT ![a] = NoNonce]
    <2>1. takenNonces'[a] = NoNonce
        BY <1>1, <1>2, <1>5, <1>7 DEF TakenMeans
    <2>2. ASSUME NEW b \in Account, b # a PROVE takenNonces'[b] = takenNonces[b]
        <3>1. \A u \in Tx : from[u] = b => /\ u # t /\ pc'[u] = pc[u]
                                          /\ Later(u).nonce = Object(u).nonce
            BY <1>1, <2>2 DEF SameFlow, SameMeta, SameRest
        <3>2. CASE \E u \in Tx : from[u] = b /\ pc[u] \in Holding
            BY <1>1, <1>5, <2>2, <3>1, <3>2 DEF TakenMeans, Later, Object
        <3>3. CASE \A u \in Tx : ~ (from[u] = b /\ pc[u] \in Holding)
            BY <1>1, <1>5, <2>2, <3>1, <3>3 DEF TakenMeans
        <3> QED BY <3>2, <3>3
    <2>3. /\ takenNonces = [b \in Account |-> takenNonces[b]]
          /\ takenNonces' = [b \in Account |-> takenNonces'[b]]
        BY DEF takenNonces
    <2> QED BY <1>2, <2>1, <2>2, <2>3
<1>9. ASSUME NEW b \in Account
      PROVE  /\ pendingNonces[b] = {Object(u).nonce : u \in Waiting(b)}
             /\ pendingNonces'[b] = {Later(u).nonce : u \in Waiting(b)'}
    BY <1>5 DEF PendingMeans, Later, Object
<1>10. /\ pendingNonces = [b \in Account |-> pendingNonces[b]]
       /\ pendingNonces' = [b \in Account |-> pendingNonces'[b]]
    BY DEF pendingNonces
<1>11. ASSUME NEW b \in Account
       PROVE  pendingNonces[b] = {Later(u).nonce : u \in Waiting(b)}
    <2>1. \A u \in Waiting(b) : Later(u).nonce = Object(u).nonce
        BY <1>1, <1>4 DEF Waiting, SameMeta, SameRest
    <2>2. {Object(u).nonce : u \in Waiting(b)} = {Later(u).nonce : u \in Waiting(b)}
        BY <2>1
    <2> QED BY <1>9, <2>2
<1>12. CASE Later(t).status = "submitted"
    <2>1. ASSUME NEW b \in Account, b # a PROVE Waiting(b)' = Waiting(b)
        BY <1>1, <1>4, <2>1 DEF Waiting, SameMeta, Later, Object
    <2>2. ASSUME NEW b \in Account, b = a PROVE Waiting(b)' = Waiting(b) \union {t}
        BY <1>1, <1>12, <2>2 DEF Waiting, SameMeta, Later, Object
    <2>3. ASSUME NEW b \in Account, b = a
          PROVE  pendingNonces'[b] = pendingNonces[b] \union {takenNonces[b]}
        <3>1. Later(t).nonce = takenNonces[b]
            BY <1>3, <1>6, <2>3 DEF Ended
        <3>2. /\ pendingNonces[b] = {Later(u).nonce : u \in Waiting(b)}
              /\ pendingNonces'[b] = {Later(u).nonce : u \in Waiting(b) \union {t}}
            BY <1>9, <1>11, <2>2, <2>3
        <3> QED BY <3>1, <3>2
    <2>4. ASSUME NEW b \in Account, b # a PROVE pendingNonces'[b] = pendingNonces[b]
        BY <1>9, <1>11, <2>1, <2>4
    <2>5. pendingNonces' = [pendingNonces EXCEPT ![a] = @ \union {takenNonces[a]}]
        BY <1>2, <1>10, <2>3, <2>4
    <2>6. Ledger!Commit(a)
        BY <1>6, <1>8, <2>5 DEF Ledger!Commit
    <2> QED BY <1>2, <2>6
<1>13. CASE Later(t).status # "submitted"
    <2>1. ASSUME NEW b \in Account PROVE pendingNonces'[b] = pendingNonces[b]
        <3>1. Waiting(b)' = Waiting(b)
            BY <1>1, <1>4, <1>13 DEF Waiting, SameMeta, Later, Object
        <3> QED BY <1>9, <1>11, <3>1
    <2>2. pendingNonces' = pendingNonces
        BY <1>10, <2>1
    <2>3. Ledger!GiveBack(a)
        BY <1>6, <1>8, <2>2 DEF Ledger!GiveBack
    <2> QED BY <1>2, <2>3
<1> QED BY <1>12, <1>13

\* Who holds the nonce lock held it before, or has just taken its nonce.
LEMMA HolderStep ==
    ASSUME LockInv, LifeInv, NEW t \in Tx, Effect(t), ~ Took(t), pc'[t] \in Holding
    PROVE  /\ pc[t] \in Holding /\ from'[t] = from[t]
           /\ Later(t).nonce = Object(t).nonce
<1>1. from'[t] = from[t] /\ InUse(t) /\ Later(t).nonce = Object(t).nonce
    BY InUseStep DEF InUse
<1>2. Handled(t)
    BY <1>1, UnhandledFacts DEF InUse, Holding
<1>3. pc[t] \in Holding
    BY <1>2, HandledEffect DEF Rested, Moved, Ended, Dropped, Lost, Confirmed,
                               SameFlow, Holding
<1> QED BY <1>1, <1>3

\* Who is submitted after a step that ends no approval was so before it.
LEMMA WaiterStep ==
    ASSUME LockInv, LifeInv, LifeInv', NEW t \in Tx, Effect(t), ~ Took(t),
           pc[t] \in Holding => pc'[t] \in Holding, Later(t).status = "submitted"
    PROVE  /\ from'[t] = from[t] /\ Object(t).status = "submitted"
           /\ Later(t).nonce = Object(t).nonce
<1>1. /\ from'[t] = from[t] /\ Later(t).nonce = Object(t).nonce
      /\ pc[t] \in Holding \/ Object(t).status = "submitted"
    BY InUseStep DEF InUse, Later, Object
<1>2. pc'[t] = "idle"
    BY DEF LifeInv, NonceOnce, Later, Object
<1> QED BY <1>1, <1>2 DEF Holding

LEMMA SettleStep ==
    ASSUME LockInv, LockInv', LifeInv, LifeInv', NoncesAreBounded',
           \A u \in Tx : Effect(u), \A u \in Tx : ~ Took(u),
           \A u \in Tx : pc[u] \in Holding => pc'[u] \in Holding
    PROVE  Ledger!Settle
<1>1. /\ TakenMeans /\ TakenMeans' /\ PendingMeans /\ PendingMeans'
    BY TakenMeaning, PendingMeaning, MeaningAfter
<1>2. \A t \in Tx : \/ pc'[t] \notin Holding /\ pc[t] \notin Holding
                    \/ /\ pc[t] \in Holding /\ pc'[t] \in Holding
                       /\ from'[t] = from[t] /\ Later(t).nonce = Object(t).nonce
    BY HolderStep
<1>3. ASSUME NEW a \in Account PROVE takenNonces'[a] = takenNonces[a]
    <2>1. CASE \E t \in Tx : from[t] = a /\ pc[t] \in Holding
        BY <1>1, <1>2, <2>1 DEF TakenMeans, Later, Object
    <2>2. CASE \A t \in Tx : ~ (from[t] = a /\ pc[t] \in Holding)
        BY <1>1, <1>2, <2>2 DEF TakenMeans
    <2> QED BY <2>1, <2>2
<1>4. takenNonces' = takenNonces
    <2>1. /\ takenNonces = [a \in Account |-> takenNonces[a]]
          /\ takenNonces' = [a \in Account |-> takenNonces'[a]]
        BY DEF takenNonces
    <2> QED BY <1>3, <2>1
<1>5. ASSUME NEW a \in Account PROVE pendingNonces'[a] \subseteq pendingNonces[a]
    <2>1. /\ pendingNonces[a] = {Object(u).nonce : u \in Waiting(a)}
          /\ pendingNonces'[a] = {Later(u).nonce : u \in Waiting(a)'}
        BY <1>1 DEF PendingMeans, Later, Object
    <2>2. \A u \in Waiting(a)' : u \in Waiting(a) /\ Later(u).nonce = Object(u).nonce
        <3>1. Waiting(a)' = {u \in Tx : from'[u] = a /\ Later(u).status = "submitted"}
            BY DEF Waiting, Later, Object
        <3> QED BY <3>1, WaiterStep DEF Waiting
    <2> QED BY <2>1, <2>2
<1>6. pendingNonces' \in [Account -> SUBSET (0..(MaxNonce + NumTx))]
    BY FitAfter DEF PendingFit
<1> QED BY <1>4, <1>5, <1>6 DEF Ledger!Settle

\* Whatever the pipeline does is a step of the ledger.
LEMMA LedgerStep ==
    ASSUME LockInv, LockInv', LifeInv, LifeInv', Plain, Plain', PlainInv',
           [Next]_vars
    PROVE  Ledger!Next
<1>1. Undisturbed' /\ NoncesAreBounded'
    BY DEF Plain, PlainInv
<1>2. \A u \in Tx : Effect(u)
    BY <1>1, StepEffect
<1>3. CASE \E t \in Tx : Took(t)
    BY <1>1, <1>3, TakeStep DEF Ledger!Next
<1>4. CASE \E t \in Tx : pc[t] \in Holding /\ pc'[t] \notin Holding
    BY <1>1, <1>2, <1>4, EndStep DEF Ledger!Next
<1>5. CASE \A t \in Tx : ~ Took(t) /\ (pc[t] \in Holding => pc'[t] \in Holding)
    BY <1>1, <1>2, <1>5, SettleStep DEF Ledger!Next
<1> QED BY <1>3, <1>4, <1>5

LEMMA LedgerInit == Init => Ledger!Init
<1> SUFFICES ASSUME Init PROVE Ledger!Init
    OBVIOUS
<1>1. LockInv /\ LifeInv
    BY LockInit, LifeInit
<1>2. \A t \in Tx : pc[t] = "idle" /\ Object(t).status = "unapproved"
    BY DEF Init, Meta0, Object, Version, FreshMeta
<1>3. TakenMeans /\ PendingMeans
    BY <1>1, TakenMeaning, PendingMeaning
<1>4. \A a \in Account : takenNonces[a] = NoNonce
    BY <1>2, <1>3 DEF TakenMeans, Holding
<1>5. takenNonces = [a \in Account |-> takenNonces[a]]
    BY DEF takenNonces
<1>6. \A a \in Account : Waiting(a) = {}
    BY <1>2 DEF Waiting
<1> QED BY <1>3, <1>4, <1>5, <1>6 DEF PendingMeans, Ledger!Init

(***************************************************************************)
(* TxController, with its mutex queues, its store and its lists,           *)
(* implements the ledger while the tracker chooses every nonce: per        *)
(* sender nonces are handed out one at a time, never one that a            *)
(* transaction waits for, and each is submitted or given back before the   *)
(* next.                                                                   *)
(***************************************************************************)
THEOREM NoncesAreSerial == Spec /\ []Plain => SerialNonces
<1>1. LockInv /\ LockInv' /\ (Undisturbed => LifeInv) /\ (Undisturbed => LifeInv)'
      /\ Plain /\ Plain' /\ PlainInv' /\ [Next]_vars
      => [Ledger!Next]_<<takenNonces, pendingNonces>>
    BY LedgerStep DEF Plain
<1> QED BY <1>1, LedgerInit, PlainInvariant, LockInvariant, LifeInvariant, PTL
        DEF Spec, SerialNonces, Ledger!Spec

-----------------------------------------------------------------------------
\* The flow of a transaction.

\* What each effect does to the order of an approval.
LEMMA InOrderStep ==
    ASSUME LockInv, LifeInv, LifeInv', Plain, Plain', PlainInv, NEW t \in Tx,
           Effect(t), InOrder(t)
    PROVE  InOrder(t)'
<1> DEFINE Progress == /\ pc'[t] \in {"global", "address", "account", "sign"} =>
                             Later(t).status = "approved"
                       /\ pc'[t] \in {"balance", "broadcast"} =>
                             Later(t).status = "signed"
                       /\ Later(t).status \in {"approved", "signed"} =>
                             pc'[t] \in InProcess
                       /\ pc'[t] \in InProcess => store'[t] # NoTx
           NoNumber == Later(t).status \in {"unapproved", "rejected"} =>
                           Later(t).nonce = NoNonce
           Offered == \A w \in Window : ~ Handled(t)' /\ view'[w][t] = "shown" =>
                           store'[t] # NoTx
           Unanswered == stage'[t] # "done" => answer'[t] \in {"none", "pending"}
<1>1. Progress
    <2>1. CASE Rested(t)
        <3>1. pc'[t] = pc[t] /\ Later(t).status = Object(t).status
            BY <2>1 DEF Rested, SameFlow, SameMeta
        <3>2. pc[t] \in InProcess => store'[t] # NoTx
            BY <2>1 DEF Rested, InOrder, PlainInv, SigningIsNotFinal, FinalStates
        <3> QED BY <3>1, <3>2 DEF InOrder
    <2>2. CASE Added(t) \/ Refused(t)
        BY <2>2, UnhandledFacts, EarlyFacts
        DEF Added, Refused, SameFlow, FreshMeta, InProcess, Holding
    <2>3. CASE Begun(t)
        BY <2>3, ObjectAssumption DEF Begun, InProcess, Holding
    <2>4. CASE Moved(t)
        BY <2>4, HandledFacts DEF Moved, InOrder, InProcess, Holding
    <2>5. CASE Took(t)
        BY <2>5, HandledFacts DEF Took, InOrder, InProcess, Holding
    <2>6. CASE Ended(t)
        BY <2>6 DEF Ended, InOrder, InProcess, Holding
    <2>7. CASE Dropped(t)
        BY <2>7, DroppedIsIdle DEF Dropped, SameFlow, InProcess, Holding
    <2>8. CASE Lost(t) \/ Confirmed(t)
        <3>1. Object(t).status = "submitted" /\ pc'[t] = pc[t]
            BY <2>8, ConfirmedWasSubmitted DEF Lost, Confirmed, SameFlow
        <3>2. pc[t] = "idle"
            BY <3>1 DEF LifeInv, NonceOnce
        <3> QED BY <2>8, <3>1, <3>2 DEF Lost, Confirmed, InProcess, Holding
    <2> QED BY <2>1, <2>2, <2>3, <2>4, <2>5, <2>6, <2>7, <2>8 DEF Effect
<1>2. NoNumber
    <2>1. CASE Rested(t) \/ Added(t)
        BY <2>1 DEF Rested, Added, SameMeta, SameRest, FreshMeta, InOrder
    <2>2. CASE Refused(t)
        BY <2>2, UnhandledFacts DEF Refused, SameRest
    <2>3. CASE Moved(t) \/ Took(t) \/ Ended(t)
        BY <2>3 DEF Moved, Took, Ended, InOrder, InProcess, Holding
    <2>4. CASE Begun(t) \/ Dropped(t) \/ Lost(t) \/ Confirmed(t)
        BY <2>4 DEF Begun, Dropped, Lost, Confirmed
    <2> QED BY <2>1, <2>2, <2>3, <2>4 DEF Effect
<1>3. Offered
    <2> SUFFICES ASSUME NEW w \in Window, ~ Handled(t)', view'[w][t] = "shown"
                 PROVE  store'[t] # NoTx
        OBVIOUS
    <2>1. ~ Handled(t)
        BY HandledStays
    <2>2. CASE Rested(t)
        <3>1. store[t] # NoTx
            BY <2>1, <2>2 DEF Rested, Frame, InOrder
        <3>2. Object(t).status \notin FinalStates
            BY <2>1, UnhandledFacts DEF FinalStates
        <3> QED BY <2>2, <3>1, <3>2 DEF Rested
    <2>3. CASE Added(t)
        BY <2>3, ObjectAssumption DEF Added, Later
    <2>4. ~ Begun(t) /\ ~ Refused(t)
        BY DEF Begun, Refused, Handled
    <2> QED BY <2>1, <2>2, <2>3, <2>4, UnhandledEffect
<1>4. Unanswered
    <2>1. CASE Rested(t)
        BY <2>1 DEF Rested, Frame, InOrder
    <2>2. CASE Added(t) \/ Begun(t)
        BY <2>2 DEF Added, Begun, InOrder
    <2>3. CASE \/ Refused(t) \/ Moved(t) \/ Took(t) \/ Ended(t) \/ Dropped(t)
               \/ Lost(t) \/ Confirmed(t)
        <3>1. answer'[t] = answer[t] \/ answer[t] = "waiting"
            BY <2>3 DEF Refused, Moved, Took, Ended, Dropped, Lost, Confirmed, Heard
        <3>2. stage[t] = "done" => stage'[t] = "done"
            BY <2>3 DEF Refused, Moved, Took, Ended, Dropped, Lost, Confirmed, Frame
        <3> QED BY <3>1, <3>2 DEF InOrder
    <2> QED BY <2>1, <2>2, <2>3 DEF Effect
<1> QED BY <1>1, <1>2, <1>3, <1>4 DEF InOrder, Later, Object

LEMMA FlowOrderInit == Init => FlowOrder
<1> SUFFICES ASSUME Init, NEW t \in Tx PROVE InOrder(t)
    BY DEF FlowOrder
<1>1. Object(t) = FreshMeta /\ pc[t] = "idle" /\ answer[t] = "none"
      /\ \A w \in Window : view[w][t] = "hidden"
    BY DEF Init, Meta0, Object, Version
<1> QED BY <1>1 DEF InOrder, FreshMeta, InProcess, Holding

(***************************************************************************)
(* While the tracker chooses every nonce, an approval's status says how    *)
(* far approveTransaction is, its object never leaves the store on the     *)
(* way, and nobody else has the status of an approval under way.           *)
(***************************************************************************)
THEOREM ApprovalsAreInOrder == Spec /\ []Plain => []FlowOrder
<1>1. LockInv /\ LockInv' /\ (Undisturbed => LifeInv) /\ (Undisturbed => LifeInv)'
      /\ Plain /\ Plain' /\ PlainInv /\ FlowOrder /\ [Next]_vars => FlowOrder'
    <2> SUFFICES ASSUME LockInv, LockInv', Undisturbed => LifeInv,
                        (Undisturbed => LifeInv)', Plain, Plain', PlainInv,
                        FlowOrder, [Next]_vars, NEW t \in Tx
                 PROVE  InOrder(t)'
        BY DEF FlowOrder
    <2>1. LifeInv /\ LifeInv' /\ Undisturbed'
        BY DEF Plain
    <2>2. Effect(t)
        BY <2>1, StepEffect
    <2> QED BY <2>1, <2>2, InOrderStep DEF FlowOrder
<1> QED BY <1>1, FlowOrderInit, PlainInvariant, LockInvariant, LifeInvariant, PTL
        DEF Spec

\* The mapping of a transaction.
StatusNow(t) == IF store[t] = NoTx /\ Object(t).status = "unapproved" THEN "none"
                ELSE Object(t).status
ToldNow(t) ==
    IF answer[t] \in {"none", "pending", "waiting"} THEN "nothing" ELSE answer[t]

LEMMA FlowMeans ==
    \A t \in Tx : flowStatus[t] = StatusNow(t) /\ flowTold[t] = ToldNow(t)
BY DEF flowStatus, flowTold, StatusNow, ToldNow

\* A transaction stays where it is.
StaysPut(t) == /\ StatusNow(t)' = StatusNow(t)
               /\ \/ ToldNow(t)' = ToldNow(t)
                  \/ ToldNow(t) = "nothing" /\ ToldNow(t)' = "error"

\* It takes an arrow, with the answer it may give.
TakesArrow(t) ==
    /\ <<StatusNow(t), StatusNow(t)'>> \in Flow!Arrows
    /\ \/ ToldNow(t)' = ToldNow(t)
       \/ ToldNow(t) = "nothing" /\ ToldNow(t)' \in Flow!Report(StatusNow(t)')
    /\ StatusNow(t)' = "failed" => ToldNow(t) # "hash"
    /\ StatusNow(t)' = "dropped" => \E u \in Tx \ {t} : StatusNow(u)' = "confirmed"

\* An effect on a transaction in order is an arrow or none.
LEMMA EffectIsArrow ==
    ASSUME LockInv, LifeInv, LifeInv', Plain, Plain', PlainInv, NEW t \in Tx,
           Effect(t), InOrder(t), InOrder(t)'
    PROVE  StaysPut(t) \/ TakesArrow(t)
<1>1. CASE Rested(t)
    <2>1. StatusNow(t)' = StatusNow(t)
        <3>1. Later(t).status = Object(t).status
            BY <1>1 DEF Rested, SameMeta
        <3>2. Object(t).status = "unapproved" => store'[t] = store[t]
            BY <1>1 DEF Rested, FinalStates, PlainInv, AskedIsSubmitted
        <3> QED BY <3>1, <3>2 DEF StatusNow, Later, Object
    <2>2. stage[t] = "new" => answer[t] = "none"
        BY DEF LifeInv, NotYetSeen
    <2>3. \/ ToldNow(t)' = ToldNow(t)
          \/ ToldNow(t) = "nothing" /\ ToldNow(t)' = "error"
        BY <1>1, <2>2 DEF Rested, InOrder, ToldNow
    <2> QED BY <2>1, <2>3 DEF StaysPut
<1>2. CASE Added(t)
    <2>1. StatusNow(t) = "none"
        BY <1>2, EarlyFacts, UnhandledFacts DEF Added, StatusNow
    <2>2. StatusNow(t)' = "unapproved" /\ ToldNow(t)' = ToldNow(t)
        BY <1>2, ObjectAssumption DEF Added, StatusNow, ToldNow, Later, Object,
                                      FreshMeta
    <2> QED BY <2>1, <2>2 DEF TakesArrow, Flow!Arrows
<1>3. CASE Begun(t)
    <2>1. Object(t).status = "unapproved"
        BY <1>3, UnhandledFacts DEF Begun
    <2>2. ~ Later(t).lastGasPrice
        BY DEF Plain, OfTracker, Later, Object
    <2>3. store[t] # NoTx
        BY <1>3, <2>2 DEF Begun, InOrder
    <2>4. StatusNow(t) = "unapproved" /\ StatusNow(t)' = "approved"
        BY <1>3, <2>1, <2>3 DEF Begun, StatusNow, Later, Object
    <2>5. ToldNow(t)' = ToldNow(t)
        BY <1>3 DEF Begun, ToldNow
    <2> QED BY <2>4, <2>5 DEF TakesArrow, Flow!Arrows
<1>4. CASE Refused(t)
    <2>1. Object(t).status = "unapproved" /\ store[t] # NoTx
        BY <1>4, UnhandledFacts DEF Refused, InOrder
    <2>2. StatusNow(t) = "unapproved" /\ StatusNow(t)' = "rejected"
        BY <1>4, <2>1 DEF Refused, StatusNow, Later, Object
    <2>3. \/ ToldNow(t)' = ToldNow(t)
          \/ ToldNow(t) = "nothing" /\ ToldNow(t)' = "rejected"
        BY <1>4, <2>1 DEF Refused, Heard, ToldNow
    <2> QED BY <2>2, <2>3 DEF TakesArrow, Flow!Arrows, Flow!Report
<1>5. CASE Moved(t) \/ Took(t)
    <2>1. Object(t).status \in {"approved", "signed"}
        BY <1>5 DEF Moved, Took, PlainInv, SigningIsNotFinal, InProcess, Holding
    <2>2. StatusNow(t) = Object(t).status /\ ToldNow(t)' = ToldNow(t)
        BY <1>5, <2>1 DEF Moved, Took, StatusNow, ToldNow
    <2>3. StatusNow(t)' = Later(t).status
        BY <1>5, <2>1 DEF Moved, Took, StatusNow, Later, Object
    <2>4. \/ Later(t).status = Object(t).status
          \/ Object(t).status = "approved" /\ Later(t).status = "signed"
        BY <1>5 DEF Moved, Took, InOrder
    <2> QED BY <2>2, <2>3, <2>4 DEF StaysPut, TakesArrow, Flow!Arrows
<1>6. CASE Ended(t)
    <2>1. /\ Object(t).status \in {"approved", "signed"} /\ store[t] # NoTx
          /\ pc[t] = "broadcast" => Object(t).status = "signed"
        BY <1>6 DEF Ended, InOrder, InProcess, Holding
    <2>2. ToldNow(t) # "hash"
        BY <1>6 DEF Ended, ToldNow, Holding, LifeInv, AnswerIsTrue
    <2>3. StatusNow(t) = Object(t).status /\ StatusNow(t)' = Later(t).status
        BY <1>6, <2>1 DEF Ended, StatusNow, Later, Object
    <2>4. CASE Later(t).status = "failed" /\ answer'[t] \in {answer[t], "failed"}
        <3>1. \/ ToldNow(t)' = ToldNow(t)
              \/ ToldNow(t) = "nothing" /\ ToldNow(t)' = "failed"
            BY <1>6, <2>4 DEF Ended, Heard, ToldNow
        <3> QED BY <2>1, <2>2, <2>3, <2>4, <3>1
                DEF TakesArrow, Flow!Arrows, Flow!Report
    <2>5. CASE /\ Later(t).status = "submitted" /\ pc[t] = "broadcast"
               /\ answer'[t] \in {answer[t], "noHash", "hash"}
        <3>1. \/ ToldNow(t)' = ToldNow(t)
              \/ ToldNow(t) = "nothing" /\ ToldNow(t)' \in {"noHash", "hash"}
            BY <1>6, <2>5 DEF Ended, Heard, ToldNow
        <3> QED BY <2>1, <2>3, <2>5, <3>1 DEF TakesArrow, Flow!Arrows, Flow!Report
    <2> QED BY <1>6, <2>1, <2>4, <2>5 DEF Ended
<1>7. CASE Dropped(t)
    <2>1. Object(t).status \in {"failed", "dropped"}
        <3>1. pc[t] = "idle" /\ Object(t).status \notin {"submitted", "confirmed"}
            BY <1>7, DroppedIsIdle
        <3>2. Object(t).status \notin {"approved", "signed"}
            BY <3>1 DEF InOrder, InProcess, Holding
        <3>3. Object(t).status \notin {"unapproved", "rejected"}
            BY <1>7, NonceAssumption DEF Dropped, InOrder
        <3>4. Object(t).status \in Status
            BY ObjectType DEF Meta
        <3> QED BY <3>1, <3>2, <3>3, <3>4 DEF Status
    <2>2. StatusNow(t) = Object(t).status /\ StatusNow(t)' = "dropped"
        BY <1>7, <2>1 DEF Dropped, StatusNow, Later, Object
    <2>3. ToldNow(t)' = ToldNow(t)
        BY <1>7 DEF Dropped, ToldNow
    <2>4. \E u \in Tx \ {t} : StatusNow(u)' = "confirmed"
        BY <1>7 DEF Dropped, Twin, StatusNow, Later, Object
    <2> QED BY <2>1, <2>2, <2>3, <2>4 DEF StaysPut, TakesArrow, Flow!Arrows
<1>8. CASE Lost(t)
    <2>1. StatusNow(t) = "submitted" /\ StatusNow(t)' = "failed"
        BY <1>8 DEF Lost, StatusNow, Later, Object
    <2>2. ToldNow(t) # "hash"
        BY <1>8 DEF Lost, ToldNow, LifeInv, AnswerIsTrue
    <2>3. \/ ToldNow(t)' = ToldNow(t)
          \/ ToldNow(t) = "nothing" /\ ToldNow(t)' = "failed"
        BY <1>8 DEF Lost, Heard, ToldNow
    <2> QED BY <2>1, <2>2, <2>3 DEF TakesArrow, Flow!Arrows, Flow!Report
<1>9. CASE Confirmed(t)
    <2>1. StatusNow(t) = "submitted" /\ StatusNow(t)' = "confirmed"
        BY <1>9, ConfirmedWasSubmitted DEF Confirmed, StatusNow, Later, Object
    <2>2. ToldNow(t)' = ToldNow(t)
        BY <1>9 DEF Confirmed, ToldNow
    <2> QED BY <2>1, <2>2 DEF TakesArrow, Flow!Arrows
<1> QED BY <1>1, <1>2, <1>3, <1>4, <1>5, <1>6, <1>7, <1>8, <1>9 DEF Effect

LEMMA FlowStep ==
    ASSUME LockInv, LockInv', LifeInv, LifeInv', Plain, Plain', PlainInv,
           FlowOrder, FlowOrder', [Next]_vars
    PROVE  Flow!Next
<1>1. \A t \in Tx : Effect(t)
    BY StepEffect DEF Plain
<1>2. \A t \in Tx : InOrder(t) /\ InOrder(t)'
    BY DEF FlowOrder
<1>3. \A t \in Tx : StaysPut(t) \/ TakesArrow(t)
    BY <1>1, <1>2, EffectIsArrow
<1>4. \A t \in Tx : flowStatus'[t] = StatusNow(t)' /\ flowTold'[t] = ToldNow(t)'
    BY DEF flowStatus, flowTold, StatusNow, ToldNow
<1>5. DOMAIN flowStatus' = Tx /\ DOMAIN flowTold' = Tx
    BY DEF flowStatus, flowTold
<1>6. ASSUME NEW t \in Tx PROVE StaysPut(t) => Flow!Stays(t)
    BY <1>4, FlowMeans DEF StaysPut, Flow!Stays
<1>7. ASSUME NEW t \in Tx PROVE TakesArrow(t) => Flow!Goes(t)
    BY <1>4, FlowMeans DEF TakesArrow, Flow!Goes
<1> QED BY <1>3, <1>5, <1>6, <1>7 DEF Flow!Next

LEMMA FlowInit == Init => Flow!Init
<1> SUFFICES ASSUME Init PROVE Flow!Init
    OBVIOUS
<1>1. \A t \in Tx : Object(t) = FreshMeta /\ store[t] = NoTx /\ answer[t] = "none"
    BY DEF Init, Meta0, Object, Version
<1> QED BY <1>1 DEF FreshMeta, flowStatus, flowTold, Flow!Init

(***************************************************************************)
(* While the tracker chooses every nonce, TxController implements TxFlow:  *)
(* on every path through requests, windows, approvals, checks and their    *)
(* failures each transaction goes along the arrows of                      *)
(* docs/transaction-flow.png, and its dapp is answered once and in         *)
(* accordance with them.                                                   *)
(***************************************************************************)
THEOREM FlowIsFollowed == Spec /\ []Plain => FollowsFlow
<1>1. LockInv /\ LockInv' /\ (Undisturbed => LifeInv) /\ (Undisturbed => LifeInv)'
      /\ Plain /\ Plain' /\ PlainInv /\ FlowOrder /\ FlowOrder' /\ [Next]_vars
      => [Flow!Next]_<<flowStatus, flowTold>>
    BY FlowStep DEF Plain
<1> QED BY <1>1, FlowInit, ApprovalsAreInOrder, PlainInvariant, LockInvariant,
           LifeInvariant, PTL DEF Spec, FollowsFlow, Flow!Spec

-----------------------------------------------------------------------------
\* Plain is not an empty hypothesis.

NoneReplaces == \A t \in Tx : replaces[t] = NoTx

LEMMA TrackerOnlyFrame ==
    ASSUME LockInv, TrackerOnly, [Next]_vars
    PROVE  UNCHANGED <<replaces, switches, crashes>>
<1> DEFINE Kept == UNCHANGED <<replaces, switches, crashes>>
<1> USE DEF requestVars, outerVars
<1> DEFINE replacing == {u \in Tx : replaces[u] # NoTx}
<1>1. switches \in Nat /\ crashes \in Nat /\ Cardinality(replacing) \in Nat
    <2>1. IsFiniteSet(Tx)
        BY FS_Interval, NumTxAssumption DEF Tx
    <2>2. IsFiniteSet(replacing)
        BY <2>1, FS_Subset
    <2>3. Cardinality(replacing) \in Nat
        BY <2>2, FS_CardinalityType
    <2> QED BY <2>3 DEF LockInv, TypeOK, OuterTypeOK
<1>2. /\ ~ Crash /\ \A o, t \in Tx : ~ Replace(o, t)
      /\ \A st, c : ~ SwitchTo(st, c)
    <2>1. /\ ~ (switches < MaxSwitch) /\ ~ (crashes < MaxCrash)
          /\ ~ (Cardinality(replacing) < MaxReplace)
        <3> HIDE DEF replacing
        <3> QED BY <1>1 DEF TrackerOnly
    <2>2. ~ Crash
        BY <2>1 DEF Crash
    <2>3. \A o, t \in Tx : ~ Replace(o, t)
        BY <2>1 DEF Replace
    <2>4. \A st, c : ~ SwitchTo(st, c)
        BY <2>1 DEF SwitchTo
    <2> QED BY <2>2, <2>3, <2>4
<1>3. ASSUME NEW t \in Tx, RequestStep(t) \/ \E a \in Account : Request(t, a)
      PROVE  Kept
    BY <1>3 DEF RequestStep, RequestDenied, AddUnapproved, GasDefaults, BootGas,
                Request
<1>4. ASSUME UserStep PROVE Kept
    BY <1>2, <1>4 DEF UserStep, Refresh, Approve, Reject, Click
<1>5. ASSUME NEW t \in Tx, ApprovalStep(t) PROVE Kept
    BY <1>5 DEF ApprovalStep, GlobalFree, TakeNonce, AccountAnswer, Sign,
                SwapBalance, AwaitRejects, BroadcastAnswer
<1>6. ASSUME NEW h \in Handler, NewBlock(h) \/ CheckStep(h) PROVE Kept
    BY <1>6 DEF NewBlock, CheckStep, CheckPending, CheckDone, ResultMined,
                ResultPending, ResultError
<1>7. ASSUME NodeStep \/ NetStep \/ Save PROVE Kept
    BY <1>2, <1>7 DEF NodeStep, NodeAccepts, Mine, ForeignTransaction, NetStep,
                      NetworkUp, SwitchNetwork, ResetAccount, Save
<1>8. ASSUME UNCHANGED vars PROVE Kept
    BY <1>8 DEF vars
<1> HIDE DEF Kept
<1> QED BY <1>2, <1>3, <1>4, <1>5, <1>6, <1>7, <1>8 DEF Next, Kept

LEMMA TrackerOnlyStep ==
    ASSUME LockInv, LockInv', LifeInv, TrackerOnly, Plain, NoneReplaces, [Next]_vars
    PROVE  Plain' /\ NoneReplaces'
<1>1. UNCHANGED <<replaces, switches, crashes>>
    BY TrackerOnlyFrame
<1>2. Undisturbed'
    BY <1>1 DEF Plain, Undisturbed, TrackerOnly
<1>3. NoneReplaces'
    BY <1>1 DEF NoneReplaces
<1>4. ASSUME NEW t \in Tx PROVE OfTracker(t)'
    <2>1. Effect(t)
        BY <1>2, StepEffect
    <2>2. Object(t).custom = NoNonce /\ ~ Object(t).lastGasPrice
        BY DEF Plain, OfTracker
    <2>3. CASE Begun(t)
        BY <1>3, <2>2, <2>3 DEF Begun, NoneReplaces, TrackerOnly, OfTracker, Later, Object
    <2>4. CASE Added(t)
        BY <2>4 DEF Added, FreshMeta, OfTracker, Later, Object
    <2>5. CASE \/ Rested(t) \/ Refused(t) \/ Moved(t) \/ Took(t) \/ Ended(t)
               \/ Dropped(t) \/ Lost(t) \/ Confirmed(t)
        <3>1. /\ Later(t).custom = Object(t).custom
              /\ Later(t).lastGasPrice = Object(t).lastGasPrice
            BY <2>5 DEF Rested, Refused, Moved, Took, Ended, Dropped, Lost,
                        Confirmed, SameMeta, SameRest
        <3> QED BY <2>2, <3>1 DEF OfTracker, Later, Object
    <2> QED BY <2>1, <2>3, <2>4, <2>5 DEF Effect
<1> QED BY <1>2, <1>3, <1>4 DEF Plain

LEMMA TrackerOnlyInit == Init /\ TrackerOnly => Plain /\ NoneReplaces
<1> SUFFICES ASSUME Init, TrackerOnly PROVE Plain /\ NoneReplaces
    OBVIOUS
<1>1. NoneReplaces
    BY DEF Init, NoneReplaces
<1>2. \A t \in Tx : Object(t) = FreshMeta
    BY DEF Init, Meta0, Object, Version
<1>3. \A t \in Tx : OfTracker(t)
    BY <1>2 DEF FreshMeta, OfTracker
<1>4. Undisturbed
    BY DEF Init, Undisturbed
<1> QED BY <1>1, <1>3, <1>4 DEF Plain

(***************************************************************************)
(* With one window and nothing but approvals, nonces are always the        *)
(* tracker's, whatever dapps, node, blocks and keyrings do.                *)
(***************************************************************************)
THEOREM TrackerChooses == Spec => [](TrackerOnly => Plain)
<1>1. LockInv /\ LockInv' /\ (Undisturbed => LifeInv)
      /\ (TrackerOnly => Plain /\ NoneReplaces) /\ [Next]_vars
      => (TrackerOnly => Plain /\ NoneReplaces)'
    BY TrackerOnlyStep DEF Plain, TrackerOnly
<1> QED BY <1>1, TrackerOnlyInit, LockInvariant, LifeInvariant, PTL DEF Spec

(***************************************************************************)
(* So there the refinements and the finality of statuses hold of every     *)
(* behaviour.                                                              *)
(***************************************************************************)
THEOREM TrackerOnlyIsSerial ==
    Spec /\ TrackerOnly => SerialNonces /\ FinalStatusIsFinal /\ FollowsFlow
<1>1. TrackerOnly => TrackerOnly'
    BY DEF TrackerOnly
<1> QED BY <1>1, TrackerChooses, NoncesAreSerial, FinalStaysFinal, FlowIsFollowed,
           PTL
=============================================================================

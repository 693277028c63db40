------------------------- MODULE TxControllerProofs -------------------------
(***************************************************************************)
(* The nonce lock of the transaction pipeline, and the fate of approved    *)
(* transactions, for any number of transactions, senders, windows, block   *)
(* handlers and networks, and with any number of switches, resets and      *)
(* crashes.                                                                *)
(***************************************************************************)
EXTENDS TxController, NonceTrackerProofs

-----------------------------------------------------------------------------
\* What the operators on the store return

Stores == [Tx -> Version \union {NoTx}]
Heaps  == [Tx -> [Version -> Meta]]

\* A status change keeps the objects well typed.
LEMMA SetStatusType ==
    ASSUME NEW st \in Stores, NEW hp \in Heaps, NEW ts, NEW status \in Status
    PROVE  SetStatus(st, hp, ts, status) \in Heaps
<1> DEFINE new(t, v) == IF t \in ts /\ v = st[t]
                        THEN [hp[t][v] EXCEPT !.status = status] ELSE hp[t][v]
<1>1. \A m \in Meta : [m EXCEPT !.status = status] \in Meta
    BY DEF Meta
<1>2. \A t \in Tx, v \in Version : new(t, v) \in Meta
    BY <1>1 DEF Heaps
<1>3. SetStatus(st, hp, ts, status)
          = [t \in Tx |-> [v \in Version |-> new(t, v)]]
    BY DEF SetStatus
<1> HIDE DEF new
<1> QED BY <1>2, <1>3 DEF Heaps

\* So do the operators that change which object the store holds.
LEMMA StoreTypes ==
    ASSUME NEW st \in Stores, NEW hp
    PROVE  /\ \A t \in Tx, v \in Version : Put(st, t, v) \in Stores
           /\ \A t \in Tx : Delete(st, t) \in Stores
           /\ \A t \in Tx : AddTransaction(st, hp, t) \in Stores
           /\ \A ts : Wipe(st, ts) \in Stores
           /\ ClearUnapproved(st, hp) \in Stores
BY DEF Stores, Version, Put, Delete, AddTransaction, Wipe, ClearUnapproved

\* What a dapp is told is an answer, whatever just finished.
LEMMA ToldType ==
    ASSUME NEW st, NEW hp, NEW fin, answer \in [Tx -> Answers]
    PROVE  Told(st, hp, fin) \in [Tx -> Answers]
BY DEF Told, Outcome, Answers

\* The lists the tracker reads are finite sets of nonces.
LEMMA NoncesType ==
    ASSUME TypeOK, NEW a, NEW statuses
    PROVE  /\ NoncesOf(a, statuses) \in SUBSET (Nat \union {NoNonce})
           /\ IsFiniteSet(NoncesOf(a, statuses))
<1> DEFINE ts == {u \in Here(WithStatus(store, heap, statuses)) : from[u] = a}
<1>1. ts \in SUBSET Stored(store)
    BY DEF Here, OnChain, WithStatus
<1>2. IsFiniteSet(ts)
    <2>1. IsFiniteSet(Tx)
        BY FS_Interval, NumTxAssumption DEF Tx
    <2>2. ts \in SUBSET Tx
        BY <1>1 DEF Stored
    <2> HIDE DEF ts
    <2> QED BY <2>1, <2>2, FS_Subset
<1>3. \A t \in Stored(store) : heap[t][store[t]].nonce \in Nat \union {NoNonce}
    BY DEF TypeOK, StoreTypeOK, Stored, Meta
<1>4. NoncesOf(a, statuses) = {heap[t][store[t]].nonce : t \in ts}
    BY DEF NoncesOf
<1> HIDE DEF ts
<1>5. IsFiniteSet({heap[t][store[t]].nonce : t \in ts})
    <2> DEFINE nonceIn == [t \in ts |-> heap[t][store[t]].nonce]
               nonces  == {heap[t][store[t]].nonce : t \in ts}
    <2>1. nonceIn \in Surjection(ts, nonces)
        BY DEF Surjection
    <2> HIDE DEF nonceIn, nonces
    <2>2. IsFiniteSet(nonces)
        BY <1>2, <2>1, FS_Surjection
    <2> QED BY <2>2 DEF nonces
<1> QED BY <1>1, <1>3, <1>4, <1>5

\* A nonce the approval writes is a number: an absent one disables TakeNonce.
LEMMA NonceForType ==
    ASSUME TypeOK, NEW t \in Tx, from[t] \in Account, NEW meta \in Meta,
           NonceFor(t, meta) # NoNonce
    PROVE  NonceFor(t, meta) \in Nat
<1>1. NextNonce(nodeNonce[from[t]], NoncesOf(from[t], {"confirmed"}),
                NoncesOf(from[t], {"submitted"})) \in Nat
    <2>1. nodeNonce[from[t]] \in Nat
        BY DEF TypeOK, NodeTypeOK
    <2> QED BY <2>1, NoncesType, NextNonceIsNat
<1> QED BY <1>1 DEF NonceFor, Meta

\* The objects the steps write, one conjunct per kind of write.
LEMMA HeapTypes ==
    ASSUME NEW hp \in Heaps, NEW t \in Tx, NEW v \in Version
    PROVE  /\ \A m \in Meta : [hp EXCEPT ![t][v] = m] \in Heaps
           /\ \A n \in Nat : [hp EXCEPT ![t][v].nonce = n] \in Heaps
           /\ [hp EXCEPT ![t][v].loading = FALSE] \in Heaps
           /\ \A b \in BOOLEAN : [hp EXCEPT ![t][v].status = "submitted",
                                            ![t][v].hash = b] \in Heaps
<1>1. \A m \in Meta : [hp EXCEPT ![t][v] = m] \in Heaps
    BY DEF Heaps
<1> DEFINE old == hp[t][v]
<1>2. old \in Meta
    BY DEF Heaps
<1>3. /\ \A n \in Nat : [old EXCEPT !.nonce = n] \in Meta
      /\ [old EXCEPT !.loading = FALSE] \in Meta
      /\ \A b \in BOOLEAN :
            [old EXCEPT !.status = "submitted", !.hash = b] \in Meta
    <2> HIDE DEF old
    <2> QED BY <1>2 DEF Meta, Status
<1>4. /\ \A n \in Nat : [hp EXCEPT ![t][v].nonce = n]
                           = [hp EXCEPT ![t][v] = [old EXCEPT !.nonce = n]]
      /\ [hp EXCEPT ![t][v].loading = FALSE]
            = [hp EXCEPT ![t][v] = [old EXCEPT !.loading = FALSE]]
      /\ \A b \in BOOLEAN :
            [hp EXCEPT ![t][v].status = "submitted", ![t][v].hash = b]
               = [hp EXCEPT ![t][v] =
                     [old EXCEPT !.status = "submitted", !.hash = b]]
    BY DEF Heaps
<1> HIDE DEF old
<1> QED BY <1>1, <1>3, <1>4

\* What the two windows and a speed-up write.
LEMMA NewMetaTypes ==
    ASSUME heap \in Heaps, store \in Stores
    PROVE  /\ FreshMeta \in Meta
           /\ \A t \in Tx, c \in CustomNonces \union {NoNonce} :
                 WindowCopy(t, c) \in Meta
           /\ \A o \in Stored(store) : ReplacementMeta(o) \in Meta
<1>1. FreshMeta \in Meta
    BY DEF FreshMeta, Meta, Status
<1>2. ASSUME NEW t \in Tx, NEW c \in CustomNonces \union {NoNonce}
      PROVE  WindowCopy(t, c) \in Meta
    <2> DEFINE old == heap[t][Original]
    <2>1. old \in Meta
        BY DEF Heaps, Version
    <2>2. c \in Nat \union {NoNonce}
        BY CustomAssumption
    <2>3. WindowCopy(t, c) = [old EXCEPT !.status = "unapproved",
              !.nonce = NoNonce, !.hash = FALSE, !.custom = c]
        BY DEF WindowCopy
    <2> HIDE DEF old
    <2> QED BY <2>1, <2>2, <2>3 DEF Meta, Status
<1>3. ASSUME NEW o \in Stored(store) PROVE ReplacementMeta(o) \in Meta
    <2> DEFINE n == heap[o][store[o]].nonce
    <2>1. n \in Nat \union {NoNonce}
        BY DEF Heaps, Stores, Stored, Meta
    <2>2. ReplacementMeta(o) = [FreshMeta EXCEPT !.status = "approved",
              !.loading = FALSE, !.nonce = n, !.lastGasPrice = TRUE]
        BY DEF ReplacementMeta
    <2> HIDE DEF n
    <2> QED BY <2>1, <2>2 DEF FreshMeta, Meta, Status
<1> QED BY <1>1, <1>2, <1>3

-----------------------------------------------------------------------------
\* Type correctness.  Every action changes variables of a few groups only.

\* A step that leaves a group of variables alone keeps its part of TypeOK.
LEMMA TypeFrame ==
    ASSUME TypeOK
    PROVE  /\ UNCHANGED storeVars => StoreTypeOK'
           /\ UNCHANGED requestVars => RequestTypeOK'
           /\ UNCHANGED flowVars => FlowTypeOK'
           /\ UNCHANGED trackerVars => TrackerTypeOK'
           /\ UNCHANGED nodeVars => NodeTypeOK'
           /\ UNCHANGED <<netVars, outerVars>> => OuterTypeOK'
BY DEF TypeOK, StoreTypeOK, RequestTypeOK, FlowTypeOK, TrackerTypeOK,
       NodeTypeOK, OuterTypeOK, storeVars, requestVars, flowVars, trackerVars,
       nodeVars, netVars, outerVars

\* Joining and leaving a waiting list keeps it a sequence of entries.
LEMMA Queues ==
    ASSUME FlowTypeOK, NEW k \in Account \union {Global}
    PROVE  /\ \A x \in QueueEntry :
                 [queue EXCEPT ![k] = Append(@, x)]
                     \in [Account \union {Global} -> Seq(QueueEntry)]
           /\ queue[k] # <<>> =>
                 [queue EXCEPT ![k] = Tail(@)]
                     \in [Account \union {Global} -> Seq(QueueEntry)]
BY DEF FlowTypeOK

\* The operations that begin and end an approval.
LEMMA BeginApprovalType ==
    ASSUME FlowTypeOK, NEW st \in Stores, NEW hp \in Heaps, NEW t \in Tx,
           st[t] # NoTx, BeginApproval(st, hp, t)
    PROVE  heap' \in Heaps /\ FlowTypeOK'
<1>1. CASE pc[t] \in InProcess
    BY <1>1 DEF BeginApproval, FlowTypeOK, flowVars
<1>2. CASE pc[t] \notin InProcess
    <2>1. heap' \in Heaps
        <3>1. heap' = SetStatus(st, hp, {t}, "approved")
            BY <1>2 DEF BeginApproval
        <3>2. "approved" \in Status
            BY DEF Status
        <3> QED BY <3>1, <3>2, SetStatusType
    <2>2. st[t] \in Version /\ t \in QueueEntry /\ "global" \in InProcess
        BY DEF Stores, QueueEntry, InProcess
    <2>3. queue' \in [Account \union {Global} -> Seq(QueueEntry)]
        <3>1. queue' = [queue EXCEPT ![Global] = Append(@, t)]
            BY <1>2 DEF BeginApproval
        <3> QED BY <2>2, <3>1, Queues
    <2> QED BY <1>2, <2>1, <2>2, <2>3 DEF BeginApproval, FlowTypeOK
<1> QED BY <1>1, <1>2

\* The end of an approval keeps its variables well typed.
LEMMA EndApprovalType ==
    ASSUME FlowTypeOK, NEW t \in Tx, from[t] \in Account, HasNonceLock(t),
           EndApproval(t)
    PROVE  FlowTypeOK'
<1>1. queue' \in [Account \union {Global} -> Seq(QueueEntry)]
    BY Queues DEF EndApproval, HasNonceLock, HoldsMutex
<1> QED BY <1>1 DEF EndApproval, FlowTypeOK

\* So does the end that fails the transaction.
LEMMA FailApprovalType ==
    ASSUME TypeOK, NEW t \in Tx, from[t] \in Account, HasNonceLock(t),
           FailApproval(t)
    PROVE  /\ heap' \in Heaps /\ FlowTypeOK' /\ answer' \in [Tx -> Answers]
<1>1. heap \in Heaps /\ store \in Stores /\ answer \in [Tx -> Answers]
    BY DEF TypeOK, StoreTypeOK, RequestTypeOK, Heaps, Stores
<1>2. heap' \in Heaps /\ answer' \in [Tx -> Answers]
    BY <1>1, SetStatusType, ToldType DEF FailApproval, Status
<1> QED BY <1>2, EndApprovalType DEF FailApproval, TypeOK

\* So does the clean-up, on any store, heap and chain.
LEMMA BootCleanUpType ==
    ASSUME TypeOK, NEW st \in Stores, NEW c, BootCleanUp(st, heap, c)
    PROVE  /\ heap' \in Heaps /\ answer' \in [Tx -> Answers]
           /\ regas' \subseteq Tx
<1>1. heap \in Heaps /\ answer \in [Tx -> Answers] /\ regas \subseteq Tx
    BY DEF TypeOK, StoreTypeOK, RequestTypeOK, Heaps
<1>2. WithoutGas(st, heap, c) \subseteq Tx
    BY DEF WithoutGas, OnChain, WithStatus, Stored
<1> QED BY <1>1, <1>2, SetStatusType, ToldType DEF BootCleanUp, Status

\* An approval that waits for a mutex or holds it has a sender.
LEMMA ApprovingHasSender ==
    ASSUME LockInv, NEW t \in Tx, pc[t] # "idle"
    PROVE  from[t] \in Account
BY DEF LockInv, UnusedIsAbsent, Unused, TypeOK, RequestTypeOK

\* Every step keeps the type invariant, one case per action.
LEMMA TypeStep ==
    ASSUME LockInv, [Next]_vars
    PROVE  TypeOK'
<1>0. /\ TypeOK /\ store \in Stores /\ heap \in Heaps
      /\ answer \in [Tx -> Answers]
    BY DEF LockInv, TypeOK, StoreTypeOK, RequestTypeOK, Stores, Heaps
<1> DEFINE Types == /\ StoreTypeOK' /\ RequestTypeOK' /\ FlowTypeOK'
                    /\ TrackerTypeOK' /\ NodeTypeOK' /\ OuterTypeOK'
<1>a. Types => TypeOK'
    BY DEF TypeOK
<1>b. store' \in Stores /\ heap' \in Heaps => StoreTypeOK'
    BY DEF StoreTypeOK, Stores, Heaps
<1>1. ASSUME NEW t \in Tx, NEW a \in Account, Request(t, a) PROVE Types
    <2>1. RequestTypeOK'
        BY <1>0, <1>1 DEF Request, TypeOK, RequestTypeOK, OuterTypeOK, Stages,
           Answers
    <2> QED BY <1>0, <1>1, <2>1, TypeFrame DEF Request
<1>2. ASSUME NEW t \in Tx, RequestDenied(t) PROVE Types
    <2>1. RequestTypeOK'
        BY <1>0, <1>2 DEF RequestDenied, TypeOK, RequestTypeOK, Stages, Answers
    <2> QED BY <1>0, <1>2, <2>1, TypeFrame DEF RequestDenied
<1>3. ASSUME NEW t \in Tx, AddUnapproved(t) PROVE Types
    <2>1. StoreTypeOK'
        BY <1>0, <1>3, <1>b, StoreTypes, HeapTypes, NewMetaTypes
        DEF AddUnapproved, Version
    <2>2. RequestTypeOK'
        BY <1>0, <1>3 DEF AddUnapproved, TypeOK, RequestTypeOK, Stages
    <2> QED BY <1>0, <1>3, <2>1, <2>2, TypeFrame DEF AddUnapproved
<1>4. ASSUME NEW t \in Tx, NEW ok \in BOOLEAN, GasDefaults(t, ok) PROVE Types
    <2>1. heap' \in Heaps
        <3>1. store[t] # NoTx => store[t] \in Version
            BY <1>0 DEF Stores
        <3>2. CASE store[t] = NoTx
            BY <1>0, <1>4, <3>2 DEF GasDefaults
        <3>3. CASE store[t] # NoTx
            <4>1. heap' = [heap EXCEPT ![t][store[t]].loading = FALSE]
                BY <1>4, <3>3 DEF GasDefaults
            <4> QED BY <1>0, <3>1, <3>3, <4>1, HeapTypes
        <3> QED BY <3>2, <3>3
    <2>2. RequestTypeOK'
        BY <1>0, <1>4 DEF GasDefaults, TypeOK, RequestTypeOK, Stages, Answers
    <2> QED BY <1>0, <1>4, <1>b, <2>1, <2>2, TypeFrame DEF GasDefaults
<1>5. ASSUME NEW t \in Tx, NEW ok \in BOOLEAN, BootGas(t, ok) PROVE Types
    <2> DEFINE set == [heap EXCEPT ![t][store[t]].loading = FALSE]
    <2>1. store[t] # NoTx => set \in Heaps
        <3>1. store[t] # NoTx => store[t] \in Version
            BY <1>0 DEF Stores
        <3> QED BY <1>0, <3>1, HeapTypes
    <2>2. store[t] # NoTx => SetStatus(store, set, {t}, "failed") \in Heaps
        <3>1. "failed" \in Status
            BY DEF Status
        <3> HIDE DEF set
        <3> QED BY <1>0, <2>1, <3>1, SetStatusType
    <2>3. heap' \in Heaps
        BY <1>0, <1>5, <2>1, <2>2 DEF BootGas
    <2>4. answer' \in [Tx -> Answers]
        BY <1>0, <1>5, ToldType DEF BootGas
    <2>5. RequestTypeOK'
        BY <1>0, <1>5, <2>4 DEF BootGas, TypeOK, RequestTypeOK
    <2> QED BY <1>0, <1>5, <1>b, <2>3, <2>5, TypeFrame DEF BootGas
<1>6. ASSUME NEW w \in Window, Refresh(w) PROVE Types
    <2>1. OuterTypeOK'
        BY <1>0, <1>6 DEF Refresh, TypeOK, OuterTypeOK, netVars
    <2> QED BY <1>0, <1>6, <2>1, TypeFrame DEF Refresh
<1>7. ASSUME NEW w \in Window, NEW t \in Tx,
             NEW custom \in CustomNonces \union {NoNonce}, Approve(w, t, custom)
      PROVE  Types
    <2> DEFINE hp == [heap EXCEPT ![t][w] = WindowCopy(t, custom)]
    <2>1. w \in Version /\ store' \in Stores /\ hp \in Heaps /\ store'[t] # NoTx
        <3>1. w \in Version /\ w # NoTx
            BY ObjectAssumption DEF Version
        <3>2. store' = Put(store, t, w)
            BY <1>7 DEF Approve
        <3> QED BY <1>0, <3>1, <3>2, StoreTypes, HeapTypes, NewMetaTypes
            DEF Put, Stores
    <2>2. BeginApproval(store', hp, t)
        BY <1>7 DEF Approve
    <2>3. heap' \in Heaps /\ FlowTypeOK'
        <3> HIDE DEF hp
        <3> QED BY <1>0, <2>1, <2>2, BeginApprovalType DEF TypeOK
    <2>4. OuterTypeOK'
        BY <1>0, <1>7 DEF Approve, Click, TypeOK, OuterTypeOK, netVars
    <2> QED BY <1>0, <1>7, <1>b, <2>1, <2>3, <2>4, TypeFrame DEF Approve
<1>8. ASSUME NEW w \in Window, NEW t \in Tx, Reject(w, t) PROVE Types
    <2>1. "rejected" \in Status
        BY DEF Status
    <2>2. StoreTypeOK' /\ answer' \in [Tx -> Answers]
        BY <1>0, <1>8, <1>b, <2>1, StoreTypes, SetStatusType, ToldType
        DEF Reject
    <2>3. RequestTypeOK'
        BY <1>0, <1>8, <2>2 DEF Reject, TypeOK, RequestTypeOK
    <2>4. OuterTypeOK'
        BY <1>0, <1>8 DEF Reject, Click, TypeOK, OuterTypeOK, netVars
    <2> QED BY <1>0, <1>8, <2>2, <2>3, <2>4, TypeFrame DEF Reject
<1>9. ASSUME NEW o \in Tx, NEW t \in Tx, Replace(o, t) PROVE Types
    <2> DEFINE hp == [heap EXCEPT ![t][Original] = ReplacementMeta(o)]
    <2>1. o \in Stored(store)
        BY <1>9 DEF Replace, Here, OnChain, WithStatus
    <2>2. store' \in Stores /\ hp \in Heaps /\ store'[t] # NoTx
        <3>1. Original \in Version /\ Original # NoTx
            BY ObjectAssumption DEF Version
        <3>2. store' = AddTransaction(store, heap, t)
            BY <1>9 DEF Replace
        <3>3. store'[t] = Original
            BY <3>2 DEF AddTransaction
        <3> QED BY <1>0, <2>1, <3>1, <3>2, <3>3, StoreTypes, HeapTypes,
                   NewMetaTypes
    <2>3. BeginApproval(store', hp, t)
        BY <1>9 DEF Replace
    <2>4. heap' \in Heaps /\ FlowTypeOK'
        <3> HIDE DEF hp
        <3> QED BY <1>0, <2>2, <2>3, BeginApprovalType DEF TypeOK
    <2>5. RequestTypeOK'
        BY <1>0, <1>9 DEF Replace, TypeOK, RequestTypeOK, OuterTypeOK, Stages
    <2> QED BY <1>0, <1>9, <1>b, <2>2, <2>4, <2>5, TypeFrame DEF Replace
<1>10. ASSUME NEW t \in Tx, GlobalFree(t) PROVE Types
    <2>1. from[t] \in Account
        BY <1>10, ApprovingHasSender DEF GlobalFree
    <2> DEFINE freed == [queue EXCEPT ![Global] = Tail(@)]
    <2>2. freed \in [Account \union {Global} -> Seq(QueueEntry)]
        BY <1>0, <1>10, Queues DEF GlobalFree, HoldsMutex, TypeOK
    <2>3. [freed EXCEPT ![from[t]] = Append(@, t)]
              \in [Account \union {Global} -> Seq(QueueEntry)]
        <3> HIDE DEF freed
        <3> QED BY <2>1, <2>2 DEF QueueEntry
    <2>4. queue' \in [Account \union {Global} -> Seq(QueueEntry)]
        BY <1>0, <1>10, <2>1, <2>3, GlobalAssumption
        DEF GlobalFree, TypeOK, FlowTypeOK
    <2>5. FlowTypeOK'
        BY <1>0, <1>10, <2>4 DEF GlobalFree, TypeOK, FlowTypeOK, InProcess
    <2> QED BY <1>0, <1>10, <2>5, TypeFrame DEF GlobalFree
<1>11. ASSUME NEW t \in Tx, TakeNonce(t) PROVE Types
    <2> DEFINE n == NonceFor(t, heap[t][ref[t]])
    <2>1. ref[t] \in Version /\ heap[t][ref[t]] \in Meta
        BY <1>0 DEF TypeOK, FlowTypeOK, Heaps
    <2>2. n \in Nat
        BY <1>0, <1>11, <2>1, NonceForType, ApprovingHasSender DEF TakeNonce
    <2>3. StoreTypeOK'
        <3>1. heap' = [heap EXCEPT ![t][ref[t]].nonce = n]
            BY <1>11 DEF TakeNonce
        <3>2. store' \in Stores
            BY <1>0, <1>11, <2>1, StoreTypes DEF TakeNonce
        <3> HIDE DEF n
        <3>3. heap' \in Heaps
            BY <1>0, <2>1, <2>2, <3>1, HeapTypes
        <3> QED BY <1>b, <3>2, <3>3
    <2>4. FlowTypeOK'
        BY <1>0, <1>11 DEF TakeNonce, TypeOK, FlowTypeOK, InProcess, Holding
    <2> QED BY <1>0, <1>11, <2>3, <2>4, TypeFrame DEF TakeNonce
<1>12. ASSUME NEW t \in Tx, AccountAnswer(t) PROVE Types
    <2>1. from[t] \in Account
        BY <1>12, ApprovingHasSender DEF AccountAnswer
    <2>2. FlowTypeOK'
        BY <1>0, <1>12 DEF AccountAnswer, TypeOK, FlowTypeOK, InProcess, Holding
    <2>3. NodeTypeOK'
        BY <1>0, <1>12, <2>1 DEF AccountAnswer, TypeOK, NodeTypeOK
    <2> QED BY <1>0, <1>12, <2>2, <2>3, TypeFrame DEF AccountAnswer
<1>13. ASSUME NEW t \in Tx, Sign(t) PROVE Types
    <2>1. ref[t] \in Version /\ "signed" \in Status
        BY <1>0 DEF TypeOK, FlowTypeOK, Status
    <2>2. StoreTypeOK'
        BY <1>0, <1>13, <1>b, <2>1, StoreTypes, SetStatusType DEF Sign
    <2>3. FlowTypeOK'
        BY <1>0, <1>13 DEF Sign, TypeOK, FlowTypeOK, InProcess, Holding
    <2> QED BY <1>0, <1>13, <2>2, <2>3, TypeFrame DEF Sign
<1>14. ASSUME NEW t \in Tx, SwapBalance(t) PROVE Types
    <2>1. ref[t] \in Version
        BY <1>0 DEF TypeOK, FlowTypeOK
    <2>2. StoreTypeOK'
        BY <1>0, <1>14, <1>b, <2>1, StoreTypes DEF SwapBalance
    <2>3. FlowTypeOK'
        BY <1>0, <1>14 DEF SwapBalance, TypeOK, FlowTypeOK, InProcess, Holding
    <2> QED BY <1>0, <1>14, <2>2, <2>3, TypeFrame DEF SwapBalance
<1>15. ASSUME NEW t \in Tx, AwaitRejects(t) PROVE Types
    <2>1. from[t] \in Account /\ HasNonceLock(t)
        BY <1>15, ApprovingHasSender
        DEF AwaitRejects, Holding, LockInv, NonceLockDiscipline
    <2>2. heap' \in Heaps /\ FlowTypeOK' /\ answer' \in [Tx -> Answers]
        BY <1>0, <1>15, <2>1, FailApprovalType DEF AwaitRejects
    <2>3. RequestTypeOK'
        BY <1>0, <1>15, <2>2 DEF AwaitRejects, TypeOK, RequestTypeOK
    <2> QED BY <1>0, <1>15, <1>b, <2>2, <2>3, TypeFrame DEF AwaitRejects
<1>16. ASSUME NEW t \in Tx, NEW withHash \in BOOLEAN,
              BroadcastAnswer(t, withHash)
       PROVE  Types
    <2>1. from[t] \in Account /\ HasNonceLock(t)
        BY <1>16, ApprovingHasSender
        DEF BroadcastAnswer, Holding, LockInv, NonceLockDiscipline
    <2>2. heap' \in Heaps /\ FlowTypeOK' /\ answer' \in [Tx -> Answers]
        <3>1. CASE store[t] = NoTx
            BY <1>0, <1>16, <2>1, <3>1, FailApprovalType DEF BroadcastAnswer
        <3>2. CASE store[t] # NoTx
            <4>1. store[t] \in Version
                BY <1>0, <3>2 DEF Stores
            <4>2. heap' = Submitted(t, withHash) /\ EndApproval(t)
                BY <1>16, <3>2 DEF BroadcastAnswer
            <4>3. heap' \in Heaps
                BY <1>0, <4>1, <4>2, HeapTypes DEF Submitted
            <4>4. answer' \in [Tx -> Answers]
                BY <1>0, <1>16, <3>2, ToldType DEF BroadcastAnswer
            <4> QED BY <1>0, <2>1, <4>2, <4>3, <4>4, EndApprovalType DEF TypeOK
        <3> QED BY <3>1, <3>2
    <2>3. RequestTypeOK'
        BY <1>0, <1>16, <2>2 DEF BroadcastAnswer, TypeOK, RequestTypeOK
    <2> QED BY <1>0, <1>16, <1>b, <2>2, <2>3, TypeFrame DEF BroadcastAnswer
<1>17. ASSUME NEW h \in Handler, NewBlock(h) PROVE Types
    <2>1. queue' \in [Account \union {Global} -> Seq(QueueEntry)]
        BY <1>0, <1>17, Queues DEF NewBlock, TypeOK, QueueEntry
    <2>2. FlowTypeOK' /\ TrackerTypeOK'
        BY <1>0, <1>17, <2>1 DEF NewBlock, TypeOK, FlowTypeOK, TrackerTypeOK
    <2> QED BY <1>0, <1>17, <2>2, TypeFrame DEF NewBlock
<1>18. ASSUME NEW h \in Handler, CheckPending(h) PROVE Types
    <2>1. "failed" \in Status /\ "dropped" \in Status
        BY DEF Status
    <2>2. heap' \in Heaps /\ answer' \in [Tx -> Answers]
        BY <1>0, <1>18, <2>1, SetStatusType, ToldType DEF CheckPending
    <2>3. RequestTypeOK'
        BY <1>0, <1>18, <2>2 DEF CheckPending, TypeOK, RequestTypeOK
    <2>4. TrackerTypeOK'
        BY <1>0, <1>18 DEF CheckPending, TypeOK, TrackerTypeOK, Stores
    <2> QED BY <1>0, <1>18, <1>b, <2>2, <2>3, <2>4, TypeFrame DEF CheckPending
<1>19. ASSUME NEW h \in Handler, CheckDone(h) PROVE Types
    <2>1. HoldsMutex(Global, h)
        BY <1>19 DEF CheckDone, LockInv, CheckHoldsGlobal
    <2>2. queue' \in [Account \union {Global} -> Seq(QueueEntry)]
        BY <1>0, <1>19, <2>1, Queues DEF CheckDone, HoldsMutex, TypeOK
    <2>3. FlowTypeOK' /\ TrackerTypeOK'
        BY <1>0, <1>19, <2>2 DEF CheckDone, TypeOK, FlowTypeOK, TrackerTypeOK
    <2> QED BY <1>0, <1>19, <2>3, TypeFrame DEF CheckDone
<1>20. ASSUME NEW h \in Handler, NEW t \in Tx, ResultMined(h, t) PROVE Types
    <2>1. "confirmed" \in Status /\ "dropped" \in Status
        BY DEF Status
    <2>2. heap' \in Heaps
        BY <1>0, <1>20, <2>1, SetStatusType DEF ResultMined, Confirm
    <2>3. TrackerTypeOK'
        BY <1>0, <1>20 DEF ResultMined, Answered, TypeOK, TrackerTypeOK
    <2> QED BY <1>0, <1>20, <1>b, <2>2, <2>3, TypeFrame DEF ResultMined
<1>21. ASSUME NEW h \in Handler, NEW t \in Tx, ResultPending(h, t) PROVE Types
    <2>1. TrackerTypeOK'
        BY <1>0, <1>21 DEF ResultPending, Answered, TypeOK, TrackerTypeOK
    <2> QED BY <1>0, <1>21, <2>1, TypeFrame DEF ResultPending
<1>22. ASSUME NEW h \in Handler, NEW t \in Tx, ResultError(h, t) PROVE Types
    <2>1. asked[h][t] \in Version
        BY <1>0, <1>22 DEF ResultError, Answered, TypeOK, TrackerTypeOK
    <2>2. StoreTypeOK'
        BY <1>0, <1>22, <1>b, <2>1, StoreTypes DEF ResultError
    <2>3. TrackerTypeOK'
        BY <1>0, <1>22 DEF ResultError, Answered, TypeOK, TrackerTypeOK
    <2> QED BY <1>0, <1>22, <2>2, <2>3, TypeFrame DEF ResultError
<1>23. ASSUME NEW t \in Tx, NodeAccepts(t) PROVE Types
    <2>1. signed[t] \in Nat
        BY <1>23 DEF NodeAccepts, LockInv, PayloadHasNonce
    <2>2. NodeTypeOK'
        BY <1>0, <1>23, <2>1 DEF NodeAccepts, TypeOK, NodeTypeOK
    <2> QED BY <1>0, <1>23, <2>2, TypeFrame DEF NodeAccepts
<1>24. ASSUME NEW t \in Tx, Mine(t) PROVE Types
    <2>1. from[t] \in Account
        BY <1>0, <1>24 DEF Mine, TypeOK, RequestTypeOK
    <2>2. NodeTypeOK'
        BY <1>0, <1>24, <2>1 DEF Mine, TypeOK, NodeTypeOK
    <2> QED BY <1>0, <1>24, <2>2, TypeFrame DEF Mine
<1>25. ASSUME NEW a \in Account, ForeignTransaction(a) PROVE Types
    <2>1. NodeTypeOK'
        BY <1>0, <1>25 DEF ForeignTransaction, TypeOK, NodeTypeOK
    <2> QED BY <1>0, <1>25, <2>1, TypeFrame DEF ForeignTransaction
<1>26. ASSUME NetworkUp PROVE Types
    <2>1. heap' \in Heaps /\ answer' \in [Tx -> Answers] /\ regas' \subseteq Tx
        BY <1>0, <1>26, BootCleanUpType DEF NetworkUp
    <2>2. RequestTypeOK'
        BY <1>0, <1>26, <2>1 DEF NetworkUp, TypeOK, RequestTypeOK
    <2>3. OuterTypeOK'
        BY <1>0, <1>26 DEF NetworkUp, TypeOK, OuterTypeOK, outerVars
    <2> QED BY <1>0, <1>26, <1>b, <2>1, <2>2, <2>3, TypeFrame DEF NetworkUp
<1>27. ASSUME NEW st \in Stores, NEW c \in Chain, SwitchTo(st, c) PROVE Types
    <2>1. store' \in Stores
        BY <1>27, StoreTypes DEF SwitchTo
    <2>2. heap' \in Heaps /\ answer' \in [Tx -> Answers] /\ regas' \subseteq Tx
        BY <1>0, <1>27, <2>1, BootCleanUpType DEF SwitchTo
    <2>3. RequestTypeOK'
        BY <1>0, <1>27, <2>2 DEF SwitchTo, TypeOK, RequestTypeOK
    <2>4. OuterTypeOK'
        BY <1>0, <1>27 DEF SwitchTo, TypeOK, OuterTypeOK
    <2> QED BY <1>0, <1>27, <1>b, <2>1, <2>2, <2>3, <2>4, TypeFrame DEF SwitchTo
<1>28. ASSUME NEW c \in Chain, SwitchNetwork(c) PROVE Types
    BY <1>0, <1>27, <1>28 DEF SwitchNetwork
<1>29. ASSUME NEW a \in Account, ResetAccount(a) PROVE Types
    <2>1. chain \in Chain
        BY <1>0 DEF TypeOK, OuterTypeOK
    <2> QED BY <1>0, <1>27, <1>29, <2>1, StoreTypes DEF ResetAccount
<1>30. ASSUME Save PROVE Types
    <2>1. Saved \in [held : SUBSET Tx, meta : [Tx -> Meta], chain : Chain]
        <3>1. \A t \in Stored(store) : heap[t][store[t]] \in Meta
            BY <1>0 DEF Stored, Stores, Heaps
        <3>2. Stored(store) \subseteq Tx /\ chain \in Chain /\ FreshMeta \in Meta
            BY <1>0, NewMetaTypes DEF Stored, TypeOK, OuterTypeOK
        <3> QED BY <3>1, <3>2 DEF Saved
    <2>2. OuterTypeOK'
        BY <1>0, <1>30, <2>1 DEF Save, TypeOK, OuterTypeOK, netVars
    <2> QED BY <1>0, <1>30, <2>2, TypeFrame DEF Save
<1>31. ASSUME Crash PROVE Types
    <2> DEFINE loaded == [t \in Tx |-> [v \in Version |-> disk.meta[t]]]
               stuck == StuckSigning(store', loaded, disk.chain)
    <2>1. disk \in [held : SUBSET Tx, meta : [Tx -> Meta], chain : Chain]
        BY <1>0 DEF TypeOK, OuterTypeOK
    <2>2. store' \in Stores /\ loaded \in Heaps
        BY <1>31, <2>1 DEF Crash, Stores, Heaps, Version
    <2>3. heap' \in Heaps
        <3>1. heap' = SetStatus(store', loaded, stuck, "failed")
            BY <1>31 DEF Crash
        <3>2. "failed" \in Status
            BY DEF Status
        <3> HIDE DEF loaded, stuck
        <3> QED BY <2>2, <3>1, <3>2, SetStatusType
    <2>4. RequestTypeOK'
        <3>1. regas' \subseteq Tx
            BY <1>31 DEF Crash, WithoutGas, OnChain, WithStatus, Stored
        <3>2. /\ stage' \in [Tx -> Stages] /\ answer' \in [Tx -> Answers]
            BY <1>0, <1>31 DEF Crash, TypeOK, RequestTypeOK, Stages, Answers
        <3> QED BY <1>0, <1>31, <3>1, <3>2 DEF Crash, TypeOK, RequestTypeOK
    <2>5. FlowTypeOK'
        BY <1>31 DEF Crash, FlowTypeOK, Version
    <2>6. TrackerTypeOK'
        BY <1>31 DEF Crash, TrackerTypeOK
    <2>7. OuterTypeOK'
        BY <1>0, <1>31, <2>1 DEF Crash, TypeOK, OuterTypeOK
    <2> QED BY <1>0, <1>31, <1>b, <2>2, <2>3, <2>4, <2>5, <2>6, <2>7, TypeFrame
        DEF Crash
<1>32. CASE UNCHANGED vars
    BY <1>0, <1>a, <1>32, TypeFrame DEF vars
<1> HIDE DEF Types
<1> QED
    BY <1>a, <1>1, <1>2, <1>3, <1>4, <1>5, <1>6, <1>7, <1>8, <1>9, <1>10, <1>11,
       <1>12, <1>13, <1>14, <1>15, <1>16, <1>17, <1>18, <1>19, <1>20, <1>21,
       <1>22, <1>23, <1>24, <1>25, <1>26, <1>28, <1>29, <1>30, <1>31, <1>32
    DEF Next, RequestStep, UserStep, ApprovalStep, CheckStep, NodeStep, NetStep

-----------------------------------------------------------------------------
\* The mutexes

\* Every other action leaves the approvals, the queues and the checks alone.
LockAction ==
    \/ \E t \in Tx, a \in Account : Request(t, a)
    \/ \E w \in Window, t \in Tx, custom \in CustomNonces \union {NoNonce} :
          Approve(w, t, custom)
    \/ \E o, t \in Tx : Replace(o, t)
    \/ \E t \in Tx : GlobalFree(t) \/ TakeNonce(t) \/ AccountAnswer(t)
    \/ \E t \in Tx : Sign(t) \/ SwapBalance(t) \/ AwaitRejects(t)
    \/ \E t \in Tx, withHash \in BOOLEAN : BroadcastAnswer(t, withHash)
    \/ \E h \in Handler : NewBlock(h) \/ CheckPending(h) \/ CheckDone(h)
    \/ Crash

\* Every step is one of the lock's actions or leaves the lock's variables alone.
LEMMA LockFrame ==
    ASSUME [Next]_vars
    PROVE  LockAction \/ UNCHANGED <<from, pc, queue, hpc, signed>>
<1> USE DEF flowVars, requestVars, nodeVars, trackerVars
<1>1. ASSUME NEW t \in Tx, RequestStep(t)
      PROVE  UNCHANGED <<from, pc, queue, hpc, signed>>
    BY <1>1 DEF RequestStep, RequestDenied, AddUnapproved, GasDefaults, BootGas
<1>2. ASSUME UserStep
      PROVE  LockAction \/ UNCHANGED <<from, pc, queue, hpc, signed>>
    BY <1>2 DEF UserStep, Refresh, Reject, LockAction
<1>3. ASSUME NEW t \in Tx, ApprovalStep(t) PROVE LockAction
    BY <1>3 DEF ApprovalStep, LockAction
<1>4. ASSUME NEW h \in Handler, CheckStep(h)
      PROVE  LockAction \/ UNCHANGED <<from, pc, queue, hpc, signed>>
    BY <1>4 DEF CheckStep, ResultMined, ResultPending, ResultError, LockAction
<1>5. ASSUME NodeStep
      PROVE  UNCHANGED <<from, pc, queue, hpc, signed>>
    BY <1>5 DEF NodeStep, NodeAccepts, Mine, ForeignTransaction
<1>6. ASSUME NetStep
      PROVE  UNCHANGED <<from, pc, queue, hpc, signed>>
    BY <1>6 DEF NetStep, NetworkUp, SwitchNetwork, ResetAccount, SwitchTo
<1>7. ASSUME Save PROVE UNCHANGED <<from, pc, queue, hpc, signed>>
    BY <1>7 DEF Save
<1>8. ASSUME UNCHANGED vars PROVE UNCHANGED <<from, pc, queue, hpc, signed>>
    BY <1>8 DEF vars
<1> QED
    BY <1>1, <1>2, <1>3, <1>4, <1>5, <1>6, <1>7, <1>8 DEF Next, LockAction

\* Joining a queue leaves its head alone, unless the queue was empty.
LEMMA JoinKeepsHead ==
    ASSUME FlowTypeOK, NEW k \in Account \union {Global}, NEW x \in QueueEntry,
           NEW y, HoldsMutex(k, y)
    PROVE  Append(queue[k], x) # <<>> /\ Head(Append(queue[k], x)) = y
BY DEF FlowTypeOK, HoldsMutex

\* A check that talks to the node keeps the global mutex.
LEMMA CheckHoldsStep ==
    ASSUME LockInv, [Next]_vars
    PROVE  CheckHoldsGlobal'
<1>0. FlowTypeOK /\ RequestTypeOK /\ TrackerTypeOK /\ CheckHoldsGlobal
    BY DEF LockInv, TypeOK
<1> SUFFICES ASSUME NEW g \in Handler, hpc'[g] = "checking"
             PROVE  HoldsMutex(Global, g)'
    BY DEF CheckHoldsGlobal
<1>1. ASSUME hpc[g] = "checking", queue'[Global] = queue[Global]
      PROVE  HoldsMutex(Global, g)'
    BY <1>0, <1>1 DEF CheckHoldsGlobal, HoldsMutex
<1>2. ASSUME hpc[g] = "checking", NEW x \in QueueEntry,
             queue'[Global] = Append(queue[Global], x)
      PROVE  HoldsMutex(Global, g)'
    BY <1>0, <1>2, JoinKeepsHead DEF CheckHoldsGlobal, HoldsMutex
<1>3. ASSUME NEW st, NEW hp, NEW t \in Tx, BeginApproval(st, hp, t),
             UNCHANGED hpc
      PROVE  HoldsMutex(Global, g)'
    <2>1. queue' = queue \/ queue' = [queue EXCEPT ![Global] = Append(@, t)]
        BY <1>3 DEF BeginApproval, flowVars
    <2> QED BY <1>0, <1>1, <1>2, <1>3, <2>1 DEF FlowTypeOK, QueueEntry
<1>4. ASSUME NEW t \in Tx, GlobalFree(t) PROVE HoldsMutex(Global, g)'
    <2>1. HoldsMutex(Global, g) /\ HoldsMutex(Global, t)
        BY <1>0, <1>4 DEF GlobalFree, trackerVars, CheckHoldsGlobal
    <2> QED BY <2>1, HandlerAssumption DEF HoldsMutex, Tx
<1>5. ASSUME NEW t \in Tx, pc[t] # "idle", EndApproval(t), UNCHANGED hpc
      PROVE  HoldsMutex(Global, g)'
    <2>1. from[t] # Global
        BY <1>5, ApprovingHasSender, GlobalAssumption
    <2> QED BY <1>0, <1>1, <1>5, <2>1 DEF EndApproval, FlowTypeOK
<1>6. ASSUME NEW h \in Handler, NewBlock(h) PROVE HoldsMutex(Global, g)'
    <2>1. hpc[g] = "checking"
        BY <1>0, <1>6 DEF NewBlock, TrackerTypeOK
    <2>2. queue'[Global] = Append(queue[Global], h)
        BY <1>0, <1>6 DEF NewBlock, FlowTypeOK
    <2> QED BY <1>2, <2>1, <2>2 DEF QueueEntry
<1>7. ASSUME NEW h \in Handler, CheckPending(h) PROVE HoldsMutex(Global, g)'
    <2>1. HoldsMutex(Global, h) /\ queue' = queue
        BY <1>7 DEF CheckPending, flowVars
    <2>2. g = h \/ hpc[g] = "checking"
        BY <1>0, <1>7 DEF CheckPending, TrackerTypeOK
    <2> QED BY <1>1, <2>1, <2>2 DEF HoldsMutex
<1>8. ASSUME NEW h \in Handler, CheckDone(h) PROVE HoldsMutex(Global, g)'
    <2>1. g # h /\ hpc[g] = "checking" /\ hpc[h] = "checking"
        BY <1>0, <1>8 DEF CheckDone, TrackerTypeOK
    <2> QED BY <1>0, <2>1 DEF CheckHoldsGlobal, HoldsMutex
<1>9. CASE UNCHANGED <<from, pc, queue, hpc, signed>>
    BY <1>1, <1>9
<1>10. ASSUME NEW t \in Tx,
              TakeNonce(t) \/ AccountAnswer(t) \/ Sign(t) \/ SwapBalance(t)
       PROVE  HoldsMutex(Global, g)'
    BY <1>1, <1>10 DEF TakeNonce, AccountAnswer, Sign, SwapBalance, trackerVars
<1>11. ASSUME NEW t \in Tx, AwaitRejects(t) PROVE HoldsMutex(Global, g)'
    BY <1>5, <1>11 DEF AwaitRejects, FailApproval, trackerVars, Holding
<1>12. ASSUME NEW t \in Tx, NEW withHash \in BOOLEAN,
              BroadcastAnswer(t, withHash)
       PROVE  HoldsMutex(Global, g)'
    BY <1>5, <1>12 DEF BroadcastAnswer, FailApproval, trackerVars
<1>13. ASSUME NEW t \in Tx, NEW a \in Account, Request(t, a)
       PROVE  HoldsMutex(Global, g)'
    BY <1>1, <1>13 DEF Request, flowVars, trackerVars
<1>14. ASSUME NEW w \in Window, NEW t \in Tx,
              NEW custom \in CustomNonces \union {NoNonce}, Approve(w, t, custom)
       PROVE  HoldsMutex(Global, g)'
    BY <1>3, <1>14 DEF Approve, trackerVars
<1>15. ASSUME NEW o \in Tx, NEW t \in Tx, Replace(o, t)
       PROVE  HoldsMutex(Global, g)'
    BY <1>3, <1>15 DEF Replace, trackerVars
<1>16. CASE Crash
    BY <1>16 DEF Crash
<1> QED
    BY <1>4, <1>6, <1>7, <1>8, <1>9, <1>10, <1>11, <1>12, <1>13, <1>14, <1>15,
       <1>16, LockFrame DEF LockAction

\* From AccountAnswer to the end of the approval the payload has a nonce.
LEMMA PayloadStep ==
    ASSUME LockInv, [Next]_vars
    PROVE  PayloadHasNonce'
<1>0. FlowTypeOK /\ NodeTypeOK /\ PayloadHasNonce
    BY DEF LockInv, TypeOK
<1> SUFFICES ASSUME NEW u \in Tx, pc'[u] \in {"sign", "balance", "broadcast"}
             PROVE  signed'[u] \in Nat
    BY DEF PayloadHasNonce
<1>1. ASSUME pc[u] \in {"sign", "balance", "broadcast"}, UNCHANGED signed
      PROVE  signed'[u] \in Nat
    BY <1>0, <1>1 DEF PayloadHasNonce
<1>2. ASSUME NEW st, NEW hp, NEW t \in Tx, BeginApproval(st, hp, t),
             UNCHANGED signed
      PROVE  signed'[u] \in Nat
    BY <1>0, <1>1, <1>2 DEF BeginApproval, flowVars, FlowTypeOK
<1>3. ASSUME NEW t \in Tx, AccountAnswer(t) PROVE signed'[u] \in Nat
    <2>1. from[t] \in Account
        BY <1>3, ApprovingHasSender DEF AccountAnswer
    <2>2. CASE u = t
        BY <1>0, <1>3, <2>1, <2>2 DEF AccountAnswer, NodeTypeOK
    <2>3. CASE u # t
        BY <1>0, <1>3, <2>3
        DEF AccountAnswer, NodeTypeOK, FlowTypeOK, PayloadHasNonce
    <2> QED BY <2>2, <2>3
<1>4. ASSUME NEW t \in Tx, GlobalFree(t) \/ TakeNonce(t) \/ Sign(t) \/ SwapBalance(t)
      PROVE  signed'[u] \in Nat
    BY <1>0, <1>1, <1>4
    DEF GlobalFree, TakeNonce, Sign, SwapBalance, FlowTypeOK, nodeVars
<1>5. ASSUME NEW t \in Tx, EndApproval(t), UNCHANGED signed
      PROVE  signed'[u] \in Nat
    BY <1>0, <1>1, <1>5 DEF EndApproval, FlowTypeOK
<1>6. ASSUME NEW t \in Tx, AwaitRejects(t) PROVE signed'[u] \in Nat
    BY <1>5, <1>6 DEF AwaitRejects, FailApproval, nodeVars
<1>7. ASSUME NEW t \in Tx, NEW withHash \in BOOLEAN, BroadcastAnswer(t, withHash)
      PROVE  signed'[u] \in Nat
    BY <1>5, <1>7 DEF BroadcastAnswer, FailApproval, nodeVars
<1>8. ASSUME NEW h \in Handler, NewBlock(h) \/ CheckPending(h) \/ CheckDone(h)
      PROVE  signed'[u] \in Nat
    BY <1>1, <1>8 DEF NewBlock, CheckPending, CheckDone, flowVars, nodeVars
<1>9. ASSUME NEW t \in Tx, NEW a \in Account, Request(t, a)
      PROVE  signed'[u] \in Nat
    BY <1>1, <1>9 DEF Request, flowVars, nodeVars
<1>10. ASSUME NEW w \in Window, NEW t \in Tx,
              NEW custom \in CustomNonces \union {NoNonce}, Approve(w, t, custom)
       PROVE  signed'[u] \in Nat
    BY <1>2, <1>10 DEF Approve, nodeVars
<1>11. ASSUME NEW o \in Tx, NEW t \in Tx, Replace(o, t) PROVE signed'[u] \in Nat
    BY <1>2, <1>11 DEF Replace, nodeVars
<1>12. CASE Crash
    BY <1>12 DEF Crash
<1>13. CASE UNCHANGED <<from, pc, queue, hpc, signed>>
    BY <1>1, <1>13
<1> QED
    BY <1>3, <1>4, <1>6, <1>7, <1>8, <1>9, <1>10, <1>11, <1>12, <1>13, LockFrame
    DEF LockAction

\* The line for a sender's mutex, and what its holder is.
InLine(a) ==
    \A i \in 1..Len(queue[a]) :
        /\ queue[a][i] \in Tx /\ from[queue[a][i]] = a
        /\ pc[queue[a][i]] \in {"address"} \union Holding
        /\ \A j \in 1..Len(queue[a]) : queue[a][i] = queue[a][j] => i = j
HoldersHold == \A t \in Tx : pc[t] \in Holding => HasNonceLock(t)

\* The discipline, taken apart for one transaction and one waiting list.
LEMMA DisciplineParts ==
    /\ NonceLockDiscipline <=> HoldersHold /\ \A a \in Account : InLine(a)
    /\ NonceLockDiscipline' <=> HoldersHold' /\ \A a \in Account : InLine(a)'
BY DEF NonceLockDiscipline, HoldersHold, InLine

\* An approval that begins is in no sender's line yet.
LEMMA BeginDiscipline ==
    ASSUME LockInv, NEW st, NEW hp, NEW t \in Tx, BeginApproval(st, hp, t),
           \A u \in Tx : pc[u] # "idle" => from'[u] = from[u]
    PROVE  NonceLockDiscipline'
<1>0. FlowTypeOK /\ RequestTypeOK /\ HoldersHold /\ \A a \in Account : InLine(a)
    BY DisciplineParts DEF LockInv, TypeOK
<1>1. ASSUME NEW a \in Account PROVE queue'[a] = queue[a]
    BY <1>0, <1>1, GlobalAssumption DEF BeginApproval, FlowTypeOK, flowVars
<1>2. ASSUME NEW u \in Tx, pc[u] \in {"address"} \union Holding
      PROVE  pc'[u] = pc[u] /\ from'[u] = from[u]
    BY <1>0, <1>2 DEF BeginApproval, FlowTypeOK, flowVars, InProcess, Holding
<1>3. ASSUME NEW u \in Tx, pc'[u] \in Holding
      PROVE  pc[u] \in Holding /\ from[u] \in Account
    <2>1. pc[u] \in Holding
        BY <1>0, <1>3 DEF BeginApproval, FlowTypeOK, flowVars, InProcess, Holding
    <2> QED BY <2>1, ApprovingHasSender DEF Holding
<1>4. HoldersHold'
    <2> SUFFICES ASSUME NEW u \in Tx, pc'[u] \in Holding PROVE HasNonceLock(u)'
        BY DEF HoldersHold
    <2>1. HasNonceLock(u) /\ from'[u] = from[u] /\ queue'[from[u]] = queue[from[u]]
        BY <1>0, <1>1, <1>2, <1>3 DEF HoldersHold
    <2> QED BY <2>1 DEF HasNonceLock, HoldsMutex
<1>5. ASSUME NEW a \in Account PROVE InLine(a)'
    BY <1>0, <1>1, <1>2 DEF InLine
<1> QED BY <1>4, <1>5, DisciplineParts

\* An approval that ends leaves the head of its sender's line.
LEMMA EndDiscipline ==
    ASSUME LockInv, NEW t \in Tx, pc[t] # "idle", HasNonceLock(t),
           EndApproval(t), UNCHANGED from
    PROVE  NonceLockDiscipline'
<1>0. FlowTypeOK /\ RequestTypeOK /\ HoldersHold /\ \A a \in Account : InLine(a)
    BY DisciplineParts DEF LockInv, TypeOK
<1>b. PICK b \in Account : b = from[t]
    BY ApprovingHasSender
<1> DEFINE line == queue[b]
<1>1. /\ line # <<>> /\ Head(line) = t
      /\ line \in Seq(QueueEntry) /\ queue'[b] = Tail(line)
    BY <1>0, <1>b DEF EndApproval, FlowTypeOK, HasNonceLock, HoldsMutex
<1>2. ASSUME NEW a \in Account, a # b PROVE queue'[a] = queue[a]
    BY <1>0, <1>b, <1>2 DEF EndApproval, FlowTypeOK
<1>3. \A u \in Tx : u # t => pc'[u] = pc[u]
    BY <1>0 DEF EndApproval, FlowTypeOK
<1>4. HoldersHold'
    <2> SUFFICES ASSUME NEW u \in Tx, pc'[u] \in Holding PROVE HasNonceLock(u)'
        BY DEF HoldersHold
    <2>1. u # t /\ pc[u] \in Holding
        BY <1>0, <1>3 DEF EndApproval, FlowTypeOK, Holding
    <2>2. HasNonceLock(u) /\ from[u] \in Account
        BY <1>0, <2>1, ApprovingHasSender DEF HoldersHold, Holding
    <2>3. from[u] # b
        BY <1>1, <2>1, <2>2 DEF HasNonceLock, HoldsMutex
    <2> QED BY <1>2, <2>2, <2>3 DEF HasNonceLock, HoldsMutex
<1>5. ASSUME NEW a \in Account, a # b PROVE InLine(a)'
    <2>1. \A i \in 1..Len(queue[a]) : queue[a][i] # t
        BY <1>0, <1>b, <1>5 DEF InLine
    <2> QED BY <1>0, <1>2, <1>3, <1>5, <2>1 DEF InLine
<1>6. InLine(b)'
    <2>1. /\ Len(Tail(line)) = Len(line) - 1 /\ Len(line) \in Nat
          /\ \A i \in 1..Len(Tail(line)) : Tail(line)[i] = line[i + 1]
          /\ t = line[1] /\ Len(line) >= 1
        <3> HIDE DEF line
        <3> QED BY <1>1
    <2>2. \A i \in 1..Len(line) :
             /\ line[i] \in Tx /\ from[line[i]] = b
             /\ pc[line[i]] \in {"address"} \union Holding
             /\ \A j \in 1..Len(line) : line[i] = line[j] => i = j
        BY <1>0, <1>1 DEF InLine
    <2>3. ASSUME NEW i \in 1..Len(Tail(line))
          PROVE  /\ Tail(line)[i] \in Tx /\ from[Tail(line)[i]] = b
                 /\ pc'[Tail(line)[i]] \in {"address"} \union Holding
                 /\ \A j \in 1..Len(Tail(line)) :
                       Tail(line)[i] = Tail(line)[j] => i = j
        <3>1. i + 1 \in 1..Len(line) /\ Tail(line)[i] = line[i + 1] /\ i + 1 # 1
            BY <2>1
        <3>2. line[i + 1] # t
            BY <2>1, <2>2, <3>1
        <3>3. ASSUME NEW j \in 1..Len(Tail(line)), Tail(line)[i] = Tail(line)[j]
              PROVE  i = j
            <4>1. j + 1 \in 1..Len(line) /\ Tail(line)[j] = line[j + 1]
                BY <2>1
            <4>2. i + 1 = j + 1
                BY <2>2, <3>1, <3>3, <4>1
            <4> QED BY <4>2
        <3> HIDE DEF line
        <3> QED BY <1>3, <2>2, <3>1, <3>2, <3>3
    <2> HIDE DEF line
    <2>4. queue'[b] = Tail(line) /\ from' = from
        BY <1>1
    <2> QED BY <2>3, <2>4 DEF InLine
<1> QED BY <1>4, <1>5, <1>6, DisciplineParts

\* Passing the global mutex and queueing for the sender's keeps it.
LEMMA GlobalFreeDiscipline ==
    ASSUME LockInv, NEW t \in Tx, GlobalFree(t)
    PROVE  NonceLockDiscipline'
<1>0. FlowTypeOK /\ RequestTypeOK /\ HoldersHold /\ \A a \in Account : InLine(a)
    BY DisciplineParts DEF LockInv, TypeOK
<1>b. PICK b \in Account : b = from[t]
    BY ApprovingHasSender DEF GlobalFree
<1> DEFINE line == queue[b]
<1>1. /\ line \in Seq(QueueEntry) /\ from' = from
      /\ queue'[b] = Append(line, t) /\ t \in QueueEntry
    BY <1>0, <1>b, GlobalAssumption
    DEF GlobalFree, FlowTypeOK, requestVars, QueueEntry
<1>2. ASSUME NEW a \in Account, a # b PROVE queue'[a] = queue[a]
    BY <1>0, <1>b, <1>2, GlobalAssumption DEF GlobalFree, FlowTypeOK
<1>3. /\ \A u \in Tx : u # t => pc'[u] = pc[u]
      /\ pc'[t] = "address" /\ pc[t] = "global"
    BY <1>0 DEF GlobalFree, FlowTypeOK
<1>4. HoldersHold'
    <2> SUFFICES ASSUME NEW u \in Tx, pc'[u] \in Holding PROVE HasNonceLock(u)'
        BY DEF HoldersHold
    <2>1. pc[u] \in Holding
        BY <1>3 DEF Holding
    <2>2. HoldsMutex(from[u], u) /\ from[u] \in Account
        BY <1>0, <2>1, ApprovingHasSender DEF HoldersHold, HasNonceLock, Holding
    <2>3. CASE from[u] = b
        <3>1. Append(line, t) # <<>> /\ Head(Append(line, t)) = u
            BY <1>0, <1>1, <2>2, <2>3, JoinKeepsHead
        <3> QED BY <1>1, <2>3, <3>1 DEF HasNonceLock, HoldsMutex
    <2>4. CASE from[u] # b
        BY <1>1, <1>2, <2>2, <2>4 DEF HasNonceLock, HoldsMutex
    <2> QED BY <2>3, <2>4
<1>5. ASSUME NEW a \in Account
      PROVE  \A i \in 1..Len(queue[a]) : queue[a][i] # t
    BY <1>0, <1>3, <1>5 DEF InLine, Holding
<1>6. ASSUME NEW a \in Account, a # b PROVE InLine(a)'
    BY <1>0, <1>1, <1>2, <1>3, <1>5, <1>6 DEF InLine
<1>7. InLine(b)'
    <2> DEFINE new == Append(line, t)
    <2>1. /\ Len(new) = Len(line) + 1 /\ Len(line) \in Nat
          /\ \A i \in 1..Len(line) : new[i] = line[i]
          /\ new[Len(line) + 1] = t
        <3> HIDE DEF line
        <3> QED BY <1>1
    <2>2. \A i \in 1..Len(line) :
             /\ line[i] \in Tx /\ from[line[i]] = b /\ line[i] # t
             /\ pc[line[i]] \in {"address"} \union Holding
             /\ \A j \in 1..Len(line) : line[i] = line[j] => i = j
        BY <1>0, <1>1, <1>5 DEF InLine
    <2>3. ASSUME NEW i \in 1..Len(new)
          PROVE  /\ new[i] \in Tx /\ from[new[i]] = b
                 /\ pc'[new[i]] \in {"address"} \union Holding
                 /\ \A j \in 1..Len(new) : new[i] = new[j] => i = j
        <3>1. i \in 1..Len(line) \/ i = Len(line) + 1
            BY <2>1
        <3>2. \A j \in 1..Len(new) : j \in 1..Len(line) \/ j = Len(line) + 1
            BY <2>1
        <3> HIDE DEF line, new
        <3> QED BY <1>b, <1>3, <2>1, <2>2, <3>1, <3>2
    <2>4. queue'[b] = new /\ from' = from
        BY <1>1
    <2> HIDE DEF new, line
    <2> QED BY <2>3, <2>4 DEF InLine
<1> QED BY <1>4, <1>6, <1>7, DisciplineParts

\* Steps that move a lock holder on, or touch no sender's line.
LEMMA QuietDiscipline ==
    ASSUME LockInv, UNCHANGED from,
           \A a \in Account : queue'[a] = queue[a],
           \A u \in Tx : pc'[u] # pc[u] =>
               /\ pc[u] \in {"address"} \union Holding /\ HasNonceLock(u)
               /\ pc'[u] \in Holding
    PROVE  NonceLockDiscipline'
<1>0. FlowTypeOK /\ RequestTypeOK /\ HoldersHold /\ \A a \in Account : InLine(a)
    BY DisciplineParts DEF LockInv, TypeOK
<1>1. HoldersHold'
    <2> SUFFICES ASSUME NEW u \in Tx, pc'[u] \in Holding PROVE HasNonceLock(u)'
        BY DEF HoldersHold
    <2>1. HasNonceLock(u) /\ pc[u] # "idle"
        BY <1>0 DEF HoldersHold, Holding
    <2>2. from[u] \in Account
        BY <2>1, ApprovingHasSender
    <2> QED BY <2>1, <2>2 DEF HasNonceLock, HoldsMutex
<1>2. ASSUME NEW a \in Account PROVE InLine(a)'
    <2>1. \A i \in 1..Len(queue[a]) :
             pc'[queue[a][i]] \in {"address"} \union Holding
        BY <1>0 DEF InLine
    <2> QED BY <1>0, <2>1 DEF InLine
<1> QED BY <1>1, <1>2, DisciplineParts

\* Every step keeps the nonce lock discipline, one case per action.
LEMMA DisciplineStep ==
    ASSUME LockInv, [Next]_vars
    PROVE  NonceLockDiscipline'
<1>0. FlowTypeOK /\ RequestTypeOK /\ HoldersHold
    BY DisciplineParts DEF LockInv, TypeOK
<1> USE DEF requestVars
<1>1. ASSUME NEW t \in Tx, NEW a \in Account, Request(t, a)
      PROVE  NonceLockDiscipline'
    <2>1. pc[t] = "idle" /\ pc' = pc /\ queue' = queue
        BY <1>1 DEF Request, NextId, LockInv, UnusedIsAbsent, flowVars
    <2>2. \A u \in Tx : u # t => from'[u] = from[u]
        BY <1>0, <1>1 DEF Request, RequestTypeOK
    <2>3. HoldersHold'
        <3> SUFFICES ASSUME NEW u \in Tx, pc'[u] \in Holding
                     PROVE  HasNonceLock(u)'
            BY DEF HoldersHold
        <3>1. u # t /\ HasNonceLock(u)
            BY <1>0, <2>1 DEF HoldersHold, Holding
        <3> QED BY <2>1, <2>2, <3>1 DEF HasNonceLock, HoldsMutex
    <2>4. ASSUME NEW b \in Account PROVE InLine(b)'
        <3>1. InLine(b)
            BY DisciplineParts DEF LockInv
        <3> QED BY <2>1, <2>2, <3>1 DEF InLine, Holding
    <2> QED BY <2>3, <2>4, DisciplineParts
<1>2. ASSUME NEW w \in Window, NEW t \in Tx,
             NEW custom \in CustomNonces \union {NoNonce}, Approve(w, t, custom)
      PROVE  NonceLockDiscipline'
    BY <1>2, BeginDiscipline DEF Approve
<1>3. ASSUME NEW o \in Tx, NEW t \in Tx, Replace(o, t)
      PROVE  NonceLockDiscipline'
    <2>1. \A u \in Tx : pc[u] # "idle" => from'[u] = from[u]
        BY <1>0, <1>3
        DEF Replace, NextId, LockInv, UnusedIsAbsent, RequestTypeOK
    <2> QED BY <1>3, <2>1, BeginDiscipline DEF Replace
<1>4. ASSUME NEW t \in Tx, GlobalFree(t) PROVE NonceLockDiscipline'
    BY <1>4, GlobalFreeDiscipline
<1>5. ASSUME NEW t \in Tx,
             TakeNonce(t) \/ AccountAnswer(t) \/ Sign(t) \/ SwapBalance(t)
      PROVE  NonceLockDiscipline'
    <2>1. /\ UNCHANGED <<from, queue>> /\ HasNonceLock(t)
          /\ pc[t] \in {"address"} \union Holding
        BY <1>0, <1>5
        DEF TakeNonce, AccountAnswer, Sign, SwapBalance, HoldersHold, Holding
    <2>2. pc'[t] \in Holding /\ \A u \in Tx : u # t => pc'[u] = pc[u]
        BY <1>0, <1>5
        DEF TakeNonce, AccountAnswer, Sign, SwapBalance, FlowTypeOK, Holding
    <2> QED BY <2>1, <2>2, QuietDiscipline
<1>6. ASSUME NEW t \in Tx, AwaitRejects(t) PROVE NonceLockDiscipline'
    <2>1. HasNonceLock(t) /\ pc[t] # "idle"
        BY <1>0, <1>6 DEF AwaitRejects, HoldersHold, Holding
    <2> QED BY <1>6, <2>1, EndDiscipline DEF AwaitRejects, FailApproval
<1>7. ASSUME NEW t \in Tx, NEW withHash \in BOOLEAN, BroadcastAnswer(t, withHash)
      PROVE  NonceLockDiscipline'
    <2>1. HasNonceLock(t) /\ pc[t] # "idle" /\ EndApproval(t)
        BY <1>0, <1>7 DEF BroadcastAnswer, HoldersHold, Holding, FailApproval
    <2> QED BY <1>7, <2>1, EndDiscipline DEF BroadcastAnswer
<1>8. ASSUME NEW h \in Handler, NewBlock(h) \/ CheckPending(h) \/ CheckDone(h)
      PROVE  NonceLockDiscipline'
    <2>1. UNCHANGED <<from, pc>> /\ \A a \in Account : queue'[a] = queue[a]
        BY <1>0, <1>8, GlobalAssumption
        DEF NewBlock, CheckPending, CheckDone, flowVars, FlowTypeOK
    <2> QED BY <2>1, QuietDiscipline
<1>9. CASE Crash
    BY <1>9 DEF Crash, NonceLockDiscipline, Holding
<1>10. CASE UNCHANGED <<from, pc, queue, hpc, signed>>
    BY <1>10, QuietDiscipline
<1> QED
    BY <1>1, <1>2, <1>3, <1>4, <1>5, <1>6, <1>7, <1>8, <1>9, <1>10, LockFrame
    DEF LockAction

-----------------------------------------------------------------------------
\* Ids that are not in use

\* Every step keeps unused ids out of every structure.
LEMMA UnusedStep ==
    ASSUME LockInv, [Next]_vars
    PROVE  UnusedIsAbsent'
<1>0. /\ StoreTypeOK /\ RequestTypeOK /\ FlowTypeOK /\ TrackerTypeOK
      /\ OuterTypeOK /\ UnusedIsAbsent
    BY DEF LockInv, TypeOK
<1> USE DEF storeVars, requestVars, flowVars, trackerVars, nodeVars, netVars,
            outerVars
<1> SUFFICES ASSUME NEW u \in Tx, Unused(u)'
             PROVE  /\ store'[u] = NoTx /\ u \notin disk'.held
                    /\ stage'[u] = "new" /\ pc'[u] = "idle"
                    /\ \A h \in Handler : asked'[h][u] = NoTx
                    /\ \A w \in Window : view'[w][u] = "hidden"
    BY DEF UnusedIsAbsent
<1> DEFINE Absent == /\ store'[u] = NoTx /\ u \notin disk'.held
                     /\ stage'[u] = "new" /\ pc'[u] = "idle"
                     /\ \A h \in Handler : asked'[h][u] = NoTx
                     /\ \A w \in Window : view'[w][u] = "hidden"
<1>1. ASSUME Unused(u)
      PROVE  /\ store[u] = NoTx /\ u \notin disk.held
             /\ stage[u] = "new" /\ pc[u] = "idle"
             /\ \A h \in Handler : asked[h][u] = NoTx
             /\ \A w \in Window : view[w][u] = "hidden"
    BY <1>0, <1>1 DEF UnusedIsAbsent
<1>2. Unused(u)
    <2>1. ASSUME NEW t \in Tx, NEW a \in Account, Request(t, a)
          PROVE  Unused(u)
        BY <1>0, <2>1 DEF Request, NextId, Unused, RequestTypeOK
    <2>2. ASSUME NEW o \in Tx, NEW t \in Tx, Replace(o, t)
          PROVE  Unused(u)
        BY <1>0, <2>2 DEF Replace, NextId, Unused, RequestTypeOK
    <2>3. CASE UNCHANGED <<from, pc, queue, hpc, signed>>
        BY <2>3 DEF Unused
    <2>4. ASSUME NEW w \in Window, NEW t \in Tx,
                 NEW custom \in CustomNonces \union {NoNonce},
                 Approve(w, t, custom)
          PROVE  Unused(u)
        BY <2>4 DEF Approve, Unused
    <2>5. ASSUME NEW t \in Tx, \/ GlobalFree(t) \/ TakeNonce(t)
                 \/ AccountAnswer(t) \/ Sign(t) \/ SwapBalance(t)
          PROVE  Unused(u)
        BY <2>5 DEF GlobalFree, TakeNonce, AccountAnswer, Sign, SwapBalance, Unused
    <2>6. ASSUME NEW t \in Tx, AwaitRejects(t)
          PROVE  Unused(u)
        BY <2>6 DEF AwaitRejects, Unused
    <2>7. ASSUME NEW t \in Tx, NEW withHash \in BOOLEAN,
                 BroadcastAnswer(t, withHash)
          PROVE  Unused(u)
        BY <2>7 DEF BroadcastAnswer, Unused
    <2>8. ASSUME NEW h \in Handler, NewBlock(h) \/ CheckPending(h) \/ CheckDone(h)
          PROVE  Unused(u)
        BY <2>8 DEF NewBlock, CheckPending, CheckDone, Unused
    <2>9. CASE Crash
        BY <2>9 DEF Crash, Unused
    <2> QED
        BY <2>1, <2>2, <2>3, <2>4, <2>5, <2>6, <2>7, <2>8, <2>9, LockFrame
        DEF LockAction
<1>3. store[u] = NoTx /\ pc[u] = "idle" /\ stage[u] = "new"
    BY <1>1, <1>2
<1>4. ASSUME UNCHANGED <<store, disk, stage, pc, asked, view>> PROVE Absent
    BY <1>1, <1>2, <1>4
<1>5. ASSUME NEW t \in Tx, RequestStep(t) PROVE Absent
    <2>1. CASE RequestDenied(t)
        BY <1>0, <1>1, <1>2, <2>1 DEF RequestDenied, RequestTypeOK
    <2>2. CASE AddUnapproved(t)
        <3>1. u # t
            BY <1>3, <2>2 DEF AddUnapproved
        <3>2. store'[u] = NoTx
            BY <1>3, <2>2, <3>1 DEF AddUnapproved, AddTransaction
        <3> QED BY <1>0, <1>1, <1>2, <2>2, <3>1, <3>2
            DEF AddUnapproved, RequestTypeOK
    <2>3. ASSUME NEW ok \in BOOLEAN, GasDefaults(t, ok) PROVE Absent
        BY <1>0, <1>1, <1>2, <2>3 DEF GasDefaults, RequestTypeOK
    <2>4. ASSUME NEW ok \in BOOLEAN, BootGas(t, ok) PROVE Absent
        BY <1>4, <2>4 DEF BootGas
    <2> QED BY <1>5, <2>1, <2>2, <2>3, <2>4 DEF RequestStep
<1>6. ASSUME NEW t \in Tx, NEW a \in Account, Request(t, a) PROVE Absent
    <2>1. u # t
        BY <1>0, <1>6, AccountAssumption DEF Request, Unused, RequestTypeOK
    <2> QED BY <1>0, <1>1, <1>2, <1>6, <2>1 DEF Request, RequestTypeOK
<1>7. ASSUME NEW w \in Window, Refresh(w) PROVE Absent
    <2>1. u \notin Here(WithStatus(store, heap, {"unapproved"}))
        BY <1>3 DEF Here, OnChain, WithStatus, Stored
    <2> QED BY <1>0, <1>1, <1>2, <1>7, <2>1 DEF Refresh, OuterTypeOK
<1>8. ASSUME NEW w \in Window, NEW t \in Tx,
             NEW custom \in CustomNonces \union {NoNonce}, Approve(w, t, custom)
      PROVE  Absent
    <2>1. u # t
        BY <1>1, <1>2, <1>8 DEF Approve, Click
    <2>2. pc'[u] = pc[u]
        BY <1>0, <1>8, <2>1 DEF Approve, BeginApproval, FlowTypeOK
    <2> QED BY <1>0, <1>1, <1>2, <1>8, <2>1, <2>2
        DEF Approve, Click, Put, StoreTypeOK, OuterTypeOK
<1>9. ASSUME NEW w \in Window, NEW t \in Tx, Reject(w, t) PROVE Absent
    <2>1. u # t
        BY <1>1, <1>2, <1>9 DEF Reject, Click
    <2> QED BY <1>0, <1>1, <1>2, <1>9, <2>1
        DEF Reject, Click, Delete, StoreTypeOK, OuterTypeOK
<1>10. ASSUME NEW o \in Tx, NEW t \in Tx, Replace(o, t) PROVE Absent
    <2>1. o \in Stored(store)
        BY <1>10 DEF Replace, Here, OnChain, WithStatus
    <2>2. from[o] \in Account
        BY <1>0, <2>1 DEF UnusedIsAbsent, Unused, Stored, RequestTypeOK
    <2>3. u # t
        BY <1>0, <1>10, <2>2, AccountAssumption
        DEF Replace, Unused, RequestTypeOK
    <2>4. pc'[u] = pc[u]
        BY <1>0, <1>10, <2>3 DEF Replace, BeginApproval, FlowTypeOK
    <2>5. store'[u] = NoTx
        BY <1>3, <1>10, <2>3 DEF Replace, AddTransaction
    <2> QED BY <1>0, <1>1, <1>2, <1>10, <2>3, <2>4, <2>5
        DEF Replace, RequestTypeOK
<1>11. ASSUME NEW t \in Tx, pc[t] # "idle", UNCHANGED <<disk, stage, asked, view>>,
              store'[u] = store[u],
              \/ \E p : pc' = [pc EXCEPT ![t] = p]
              \/ UNCHANGED pc
       PROVE  Absent
    BY <1>0, <1>1, <1>2, <1>11 DEF FlowTypeOK
<1>12. ASSUME NEW t \in Tx, ApprovalStep(t) PROVE Absent
    <2>1. pc[t] # "idle" /\ UNCHANGED <<disk, stage, asked, view>>
        BY <1>12
        DEF ApprovalStep, GlobalFree, TakeNonce, AccountAnswer, Sign,
            SwapBalance, AwaitRejects, BroadcastAnswer, Holding
    <2>2. store'[u] = store[u]
        BY <1>0, <1>3, <1>12, <2>1
        DEF ApprovalStep, GlobalFree, TakeNonce, AccountAnswer, Sign,
            SwapBalance, AwaitRejects, BroadcastAnswer, Put, StoreTypeOK
    <2>3. \E p : pc' = [pc EXCEPT ![t] = p]
        BY <1>12
        DEF ApprovalStep, GlobalFree, TakeNonce, AccountAnswer, Sign,
            SwapBalance, AwaitRejects, BroadcastAnswer, FailApproval, EndApproval
    <2> QED BY <1>11, <2>1, <2>2, <2>3
<1>13. ASSUME NEW h \in Handler, NewBlock(h) PROVE Absent
    BY <1>4, <1>13 DEF NewBlock
<1>14. ASSUME NEW h \in Handler, CheckPending(h) PROVE Absent
    <2>1. u \notin Here(WithStatus(store, heap, {"submitted"}))
        BY <1>3 DEF Here, OnChain, WithStatus, Stored
    <2>2. \A g \in Handler : asked'[g][u] = NoTx
        BY <1>0, <1>1, <1>2, <1>14, <2>1 DEF CheckPending, TrackerTypeOK
    <2> QED BY <1>1, <1>2, <1>14, <2>2 DEF CheckPending
<1>15. ASSUME NEW h \in Handler, CheckDone(h) PROVE Absent
    BY <1>4, <1>15 DEF CheckDone
<1>16. ASSUME NEW h \in Handler, NEW t \in Tx, Answered(h, t),
              store'[u] = store[u], UNCHANGED <<disk, stage, pc, view>>
       PROVE  Absent
    BY <1>0, <1>1, <1>2, <1>16 DEF Answered, TrackerTypeOK
<1>17. ASSUME NEW h \in Handler, NEW t \in Tx,
              ResultMined(h, t) \/ ResultPending(h, t)
       PROVE  Absent
    BY <1>16, <1>17 DEF ResultMined, ResultPending
<1>18. ASSUME NEW h \in Handler, NEW t \in Tx, ResultError(h, t) PROVE Absent
    <2>1. u # t
        BY <1>1, <1>2, <1>18 DEF ResultError, Answered
    <2> QED BY <1>0, <1>16, <1>18, <2>1 DEF ResultError, Put, StoreTypeOK
<1>19. ASSUME NodeStep PROVE Absent
    BY <1>4, <1>19 DEF NodeStep, NodeAccepts, Mine, ForeignTransaction
<1>20. ASSUME NEW st, NEW c, st[u] = NoTx, SwitchTo(st, c) PROVE Absent
    <2>1. store'[u] = NoTx
        BY <1>20 DEF SwitchTo, ClearUnapproved
    <2> QED BY <1>1, <1>2, <1>20, <2>1 DEF SwitchTo
<1>21. ASSUME NetStep PROVE Absent
    <2>1. CASE NetworkUp
        BY <1>4, <2>1 DEF NetworkUp
    <2>2. ASSUME NEW c \in Chain, SwitchNetwork(c) PROVE Absent
        BY <1>3, <1>20, <2>2 DEF SwitchNetwork
    <2>3. ASSUME NEW a \in Account, ResetAccount(a) PROVE Absent
        BY <1>3, <1>20, <2>3 DEF ResetAccount, Wipe
    <2> QED BY <1>21, <2>1, <2>2, <2>3 DEF NetStep
<1>22. ASSUME Save PROVE Absent
    <2>1. u \notin Stored(store) /\ disk'.held = Stored(store)
        BY <1>3, <1>22 DEF Stored, Save, Saved
    <2> QED BY <1>1, <1>2, <1>22, <2>1 DEF Save
<1>23. ASSUME Crash PROVE Absent
    BY <1>1, <1>2, <1>23 DEF Crash
<1>24. ASSUME UNCHANGED vars PROVE Absent
    BY <1>4, <1>24 DEF vars
<1>25. Absent
    <2> HIDE DEF Absent
    <2> QED
        BY <1>5, <1>6, <1>7, <1>8, <1>9, <1>10, <1>12, <1>13, <1>14, <1>15,
           <1>17, <1>18, <1>19, <1>21, <1>22, <1>23, <1>24
        DEF Next, UserStep, CheckStep
<1> QED BY <1>25

-----------------------------------------------------------------------------
\* The theorems about the lock

\* The lock invariant holds initially.
LEMMA LockInit == Init => LockInv
<1> SUFFICES ASSUME Init PROVE LockInv
    OBVIOUS
<1>1. FreshMeta \in Meta
    BY DEF FreshMeta, Meta, Status
<1>2. StoreTypeOK /\ RequestTypeOK /\ FlowTypeOK
    BY <1>1 DEF Init, Meta0, StoreTypeOK, RequestTypeOK, FlowTypeOK, Stages,
       Answers, Version
<1>3. TrackerTypeOK /\ NodeTypeOK /\ OuterTypeOK
    BY <1>1 DEF Init, TrackerTypeOK, NodeTypeOK, OuterTypeOK
<1>4. UnusedIsAbsent /\ CheckHoldsGlobal /\ PayloadHasNonce
    BY DEF Init, UnusedIsAbsent, CheckHoldsGlobal, PayloadHasNonce
<1>5. NonceLockDiscipline
    BY DEF Init, NonceLockDiscipline, Holding
<1> QED BY <1>2, <1>3, <1>4, <1>5 DEF LockInv, TypeOK

(***************************************************************************)
(* LockInv is inductive.  Its parts need each other: that a queue is not   *)
(* empty when an approval or a check leaves it comes from the discipline,  *)
(* that a signed payload has a number from the order of the stages, and    *)
(* that a new transaction is in no line from the absence of unused ids.    *)
(***************************************************************************)
THEOREM LockInvariant == Spec => []LockInv
<1>1. LockInv /\ [Next]_vars => LockInv'
    BY TypeStep, UnusedStep, CheckHoldsStep, PayloadStep, DisciplineStep
    DEF LockInv
<1> QED BY <1>1, LockInit, PTL DEF Spec

\* Every variable of the pipeline keeps its type.
THEOREM TypeCorrect == Spec => []TypeOK
<1>1. LockInv => TypeOK
    BY DEF LockInv
<1> QED BY <1>1, LockInvariant, PTL

(***************************************************************************)
(* approveTransaction never holds a nonce without the sender's lock, and   *)
(* no error path, network switch, reset or crash leaves the lock behind.   *)
(***************************************************************************)
THEOREM NonceLockIsDisciplined == Spec => []NonceLockDiscipline
<1>1. LockInv => NonceLockDiscipline
    BY DEF LockInv
<1> QED BY <1>1, LockInvariant, PTL

(***************************************************************************)
(* At most one approval per sender is between taking its nonce and its     *)
(* submission: the nonces of one sender are given out one after the other. *)
(***************************************************************************)
OneHolderPerSender ==
    \A t, u \in Tx : pc[t] \in Holding /\ pc[u] \in Holding /\ from[t] = from[u]
                     => t = u

\* Mutual exclusion: at most one approval of a sender is between taking its
\* nonce and being submitted or failed (bohr-nonce-tracker, getNonceLock).
THEOREM NonceLockExcludes == Spec => []OneHolderPerSender
<1>1. NonceLockDiscipline => OneHolderPerSender
    BY DEF NonceLockDiscipline, OneHolderPerSender, HasNonceLock, HoldsMutex
<1> QED BY <1>1, NonceLockIsDisciplined, PTL

-----------------------------------------------------------------------------
\* Approved transactions.  First, whose object the store can hold.

\* Every step keeps window objects out of use until their click.
LEMMA ClickedStep ==
    ASSUME LockInv, ApprovalInv, [Next]_vars
    PROVE  ClickedOnce'
<1>0. /\ StoreTypeOK /\ FlowTypeOK /\ TrackerTypeOK /\ OuterTypeOK
      /\ ClickedOnce
    BY DEF LockInv, TypeOK, ApprovalInv
<1> USE DEF storeVars, requestVars, flowVars, trackerVars, nodeVars, netVars,
            outerVars
<1> SUFFICES ASSUME NEW u \in Tx, NEW x \in Window,
                    \/ store'[u] = x \/ ref'[u] = x
                    \/ \E h \in Handler : asked'[h][u] = x
             PROVE  view'[x][u] = "clicked"
    BY DEF ClickedOnce
<1> DEFINE InUse == \/ store[u] = x \/ ref[u] = x
                    \/ \E h \in Handler : asked[h][u] = x
           Goal == view'[x][u] = "clicked"
<1>1. InUse => view[x][u] = "clicked"
    BY <1>0 DEF ClickedOnce
<1>2. x # NoTx /\ x # Original
    BY ObjectAssumption
<1>3. ASSUME InUse, UNCHANGED view PROVE Goal
    BY <1>1, <1>3
<1>4. ASSUME UNCHANGED <<ref, asked, view>>, store'[u] = store[u] \/ store'[u] # x
      PROVE  Goal
    BY <1>3, <1>4
<1>5. ASSUME NEW t \in Tx, NEW a \in Account, Request(t, a) PROVE Goal
    BY <1>4, <1>5 DEF Request
<1>6. ASSUME NEW t \in Tx, RequestStep(t) PROVE Goal
    <2>1. store'[u] = store[u] \/ store'[u] # x
        BY <1>2, <1>6
        DEF RequestStep, RequestDenied, AddUnapproved, GasDefaults, BootGas,
            AddTransaction
    <2>2. UNCHANGED <<ref, asked, view>>
        BY <1>6
        DEF RequestStep, RequestDenied, AddUnapproved, GasDefaults, BootGas
    <2> QED BY <1>4, <2>1, <2>2
<1>7. ASSUME NEW w \in Window, Refresh(w) PROVE Goal
    <2>1. view[x][u] = "clicked"
        BY <1>1, <1>7 DEF Refresh
    <2>2. CASE x # w
        BY <1>0, <1>7, <2>1, <2>2 DEF Refresh, OuterTypeOK
    <2>3. CASE x = w
        BY <1>0, <1>7, <2>1, <2>3 DEF Refresh, OuterTypeOK
    <2> QED BY <2>2, <2>3
<1>8. ASSUME NEW w \in Window, NEW t \in Tx,
             NEW custom \in CustomNonces \union {NoNonce}, Approve(w, t, custom)
      PROVE  Goal
    <2>1. view'[w][t] = "clicked"
          /\ (view[x][u] = "clicked" => view'[x][u] = "clicked")
        BY <1>0, <1>8 DEF Approve, Click, OuterTypeOK
    <2>2. CASE u = t /\ x = w
        BY <2>1, <2>2
    <2>3. CASE ~ (u = t /\ x = w)
        <3>1. store'[u] = store[u] \/ store'[u] # x
            BY <1>0, <1>8, <2>3 DEF Approve, Put, StoreTypeOK
        <3>2. ref'[u] = ref[u] \/ ref'[u] = store'[u]
            BY <1>0, <1>8 DEF Approve, BeginApproval, FlowTypeOK
        <3>3. asked' = asked
            BY <1>8 DEF Approve
        <3> QED BY <1>1, <2>1, <3>1, <3>2, <3>3
    <2> QED BY <2>2, <2>3
<1>9. ASSUME NEW w \in Window, NEW t \in Tx, Reject(w, t) PROVE Goal
    <2>1. view[x][u] = "clicked" => view'[x][u] = "clicked"
        BY <1>0, <1>9 DEF Reject, Click, OuterTypeOK
    <2>2. store'[u] = store[u] \/ store'[u] # x
        BY <1>0, <1>2, <1>9 DEF Reject, Delete, StoreTypeOK
    <2> QED BY <1>1, <1>9, <2>1, <2>2 DEF Reject
<1>10. ASSUME NEW o \in Tx, NEW t \in Tx, Replace(o, t) PROVE Goal
    <2>1. store'[u] = store[u] \/ store'[u] # x
        BY <1>2, <1>10 DEF Replace, AddTransaction
    <2>2. ref'[u] = ref[u] \/ ref'[u] = store'[u]
        BY <1>0, <1>10 DEF Replace, BeginApproval, FlowTypeOK
    <2> QED BY <1>3, <1>10, <2>1, <2>2 DEF Replace
<1>11. ASSUME NEW t \in Tx, ApprovalStep(t) PROVE Goal
    <2>1. store'[u] = store[u] \/ store'[u] = ref[u]
        BY <1>0, <1>11
        DEF ApprovalStep, GlobalFree, TakeNonce, AccountAnswer, Sign,
            SwapBalance, AwaitRejects, BroadcastAnswer, Put, StoreTypeOK
    <2>2. UNCHANGED <<ref, asked, view>>
        BY <1>11
        DEF ApprovalStep, GlobalFree, TakeNonce, AccountAnswer, Sign,
            SwapBalance, AwaitRejects, BroadcastAnswer, FailApproval, EndApproval
    <2> QED BY <1>3, <2>1, <2>2
<1>12. ASSUME NEW h \in Handler, NewBlock(h) \/ CheckDone(h) PROVE Goal
    BY <1>4, <1>12 DEF NewBlock, CheckDone
<1>13. ASSUME NEW h \in Handler, CheckPending(h) PROVE Goal
    <2>1. \A g \in Handler : asked'[g][u] \in {asked[g][u], store[u], NoTx}
        BY <1>0, <1>13 DEF CheckPending, TrackerTypeOK
    <2> QED BY <1>2, <1>3, <1>13, <2>1 DEF CheckPending
<1>14. ASSUME NEW h \in Handler, NEW t \in Tx, Answered(h, t)
       PROVE  \A g \in Handler : asked'[g][u] \in {asked[g][u], NoTx}
    BY <1>0, <1>14 DEF Answered, TrackerTypeOK
<1>15. ASSUME NEW h \in Handler, NEW t \in Tx,
              ResultMined(h, t) \/ ResultPending(h, t)
       PROVE  Goal
    BY <1>2, <1>3, <1>14, <1>15 DEF ResultMined, ResultPending
<1>16. ASSUME NEW h \in Handler, NEW t \in Tx, ResultError(h, t) PROVE Goal
    <2>1. store'[u] = store[u] \/ store'[u] = asked[h][u]
        BY <1>0, <1>16 DEF ResultError, Put, StoreTypeOK
    <2> QED BY <1>2, <1>3, <1>14, <1>16, <2>1 DEF ResultError
<1>17. ASSUME NodeStep PROVE Goal
    BY <1>4, <1>17 DEF NodeStep, NodeAccepts, Mine, ForeignTransaction
<1>18. ASSUME NEW st, NEW c, SwitchTo(st, c), st[u] = store[u] \/ st[u] # x
       PROVE  Goal
    BY <1>2, <1>4, <1>18 DEF SwitchTo, ClearUnapproved
<1>19. ASSUME NetStep PROVE Goal
    <2>1. CASE NetworkUp
        BY <1>4, <2>1 DEF NetworkUp
    <2>2. ASSUME NEW c \in Chain, SwitchNetwork(c) PROVE Goal
        BY <1>18, <2>2 DEF SwitchNetwork
    <2>3. ASSUME NEW a \in Account, ResetAccount(a) PROVE Goal
        BY <1>2, <1>18, <2>3 DEF ResetAccount, Wipe
    <2> QED BY <1>19, <2>1, <2>2, <2>3 DEF NetStep
<1>20. ASSUME Save PROVE Goal
    BY <1>4, <1>20 DEF Save
<1>21. ASSUME Crash PROVE Goal
    BY <1>2, <1>21 DEF Crash
<1>22. ASSUME UNCHANGED vars PROVE Goal
    BY <1>4, <1>22 DEF vars
<1>23. Goal
    <2> HIDE DEF Goal
    <2> QED
        BY <1>5, <1>6, <1>7, <1>8, <1>9, <1>10, <1>11, <1>12, <1>13, <1>15,
           <1>16, <1>17, <1>19, <1>20, <1>21, <1>22
        DEF Next, UserStep, CheckStep
<1> QED BY <1>23

-----------------------------------------------------------------------------
\* What happens to the status "approved"

\* What a status change does to one object.
LEMMA SetStatusEffect ==
    ASSUME NEW st, NEW hp \in Heaps, NEW ts, NEW status,
           NEW t \in Tx, NEW v \in Version
    PROVE  SetStatus(st, hp, ts, status)[t][v].status
               = IF t \in ts /\ v = st[t] THEN status ELSE hp[t][v].status
<1> DEFINE m == hp[t][v]
<1>1. m \in Meta
    BY DEF Heaps
<1>2. [m EXCEPT !.status = status].status = status
    <2> HIDE DEF m
    <2> QED BY <1>1 DEF Meta
<1>3. SetStatus(st, hp, ts, status)[t][v]
         = IF t \in ts /\ v = st[t] THEN [m EXCEPT !.status = status] ELSE m
    BY DEF SetStatus
<1> HIDE DEF m
<1>4. CASE t \in ts /\ v = st[t]
    BY <1>2, <1>3, <1>4
<1>5. CASE ~ (t \in ts /\ v = st[t])
    BY <1>3, <1>5 DEF m
<1> QED BY <1>4, <1>5

\* After a status change an object has the new status or its old one.
LEMMA SetStatusRange ==
    ASSUME NEW st, NEW hp \in Heaps, NEW ts, NEW status
    PROVE  \A t \in Tx, v \in Version :
              SetStatus(st, hp, ts, status)[t][v].status
                  \in {hp[t][v].status, status}
<1> SUFFICES ASSUME NEW t \in Tx, NEW v \in Version
             PROVE  SetStatus(st, hp, ts, status)[t][v].status
                        \in {hp[t][v].status, status}
    OBVIOUS
<1>1. SetStatus(st, hp, ts, status)[t][v].status
         = IF t \in ts /\ v = st[t] THEN status ELSE hp[t][v].status
    BY SetStatusEffect
<1> QED BY <1>1

\* No object becomes approved in the step.
NoNewApproved ==
    \A t \in Tx, v \in Version :
        heap'[t][v].status = "approved" => heap[t][v].status = "approved"

\* A change to another status makes no transaction approved.
LEMMA OtherStatus ==
    ASSUME NEW st, NEW ts, NEW status, status # "approved", heap \in Heaps,
           heap' = SetStatus(st, heap, ts, status)
    PROVE  NoNewApproved
<1> SUFFICES ASSUME NEW t \in Tx, NEW v \in Version,
                    heap'[t][v].status = "approved"
             PROVE  heap[t][v].status = "approved"
    BY DEF NoNewApproved
<1>1. heap'[t][v].status
         = IF t \in ts /\ v = st[t] THEN status ELSE heap[t][v].status
    BY SetStatusEffect
<1> QED BY <1>1

\* A transaction keeps its object and its approval, or is not approved after
\* the step.
KeptOrSettled(t) ==
    \/ /\ store'[t] = store[t] /\ chainOf'[t] = chainOf[t]
       /\ pc[t] \in InProcess => pc'[t] \in InProcess
    \/ store'[t] = NoTx
    \/ heap'[t][store'[t]].status # "approved"
    \/ pc'[t] \in InProcess

\* A step that approves nothing new, and stores no other object unless it is
\* settled, keeps both parts of the approval invariant.
LEMMA ApprovalKept ==
    ASSUME LockInv, ApprovalInv, NoNewApproved, UNCHANGED chain,
           \A h \in Handler, t \in Tx : asked'[h][t] \in {asked[h][t], NoTx},
           \A t \in Tx : KeptOrSettled(t)
    PROVE  AskedIsNotApproved' /\ ApprovedIsInProcess'
<1>0. TrackerTypeOK /\ StoreTypeOK /\ AskedIsNotApproved /\ ApprovedIsInProcess
    BY DEF LockInv, TypeOK, ApprovalInv
<1>1. AskedIsNotApproved'
    BY <1>0 DEF AskedIsNotApproved, NoNewApproved, TrackerTypeOK
<1>2. ApprovedIsInProcess'
    <2> SUFFICES ASSUME NEW t \in Tx, store'[t] # NoTx,
                        heap'[t][store'[t]].status = "approved",
                        chainOf'[t] = chain'
                 PROVE  pc'[t] \in InProcess
        BY DEF ApprovedIsInProcess, Here, OnChain, WithStatus, Stored
    <2> SUFFICES ASSUME store'[t] = store[t], chainOf'[t] = chainOf[t],
                        pc[t] \in InProcess => pc'[t] \in InProcess
                 PROVE  pc'[t] \in InProcess
        BY DEF KeptOrSettled
    <2>1. heap[t][store[t]].status = "approved"
        BY <1>0 DEF NoNewApproved, StoreTypeOK
    <2> QED BY <1>0, <2>1
        DEF ApprovedIsInProcess, Here, OnChain, WithStatus, Stored
<1> QED BY <1>1, <1>2

\* A new approval is of an object no pending check holds, and in process.
LEMMA BeginKeeps ==
    ASSUME LockInv, ApprovalInv, NEW st \in Stores, NEW hp \in Heaps,
           NEW t \in Tx, st[t] # NoTx, BeginApproval(st, hp, t),
           store' = st, UNCHANGED <<chain, asked>>,
           \A u \in Tx : u # t => st[u] \in {store[u], NoTx} /\ chainOf'[u] = chainOf[u],
           \A u \in Tx, v \in Version :
               (u = t /\ v = st[t]) \/ hp[u][v].status = heap[u][v].status,
           \A h \in Handler : asked[h][t] # st[t]
    PROVE  AskedIsNotApproved' /\ ApprovedIsInProcess'
<1>0. /\ StoreTypeOK /\ FlowTypeOK /\ TrackerTypeOK /\ AskedIsNotApproved
      /\ ApprovedIsInProcess
    BY DEF LockInv, TypeOK, ApprovalInv
<1>1. ASSUME NEW u \in Tx, NEW v \in Version, ~ (u = t /\ v = st[t])
      PROVE  heap'[u][v].status = heap[u][v].status
    <2>1. heap'[u][v].status = hp[u][v].status
        BY <1>1, SetStatusEffect DEF BeginApproval
    <2> QED BY <1>1, <2>1
<1>2. AskedIsNotApproved'
    BY <1>0, <1>1 DEF AskedIsNotApproved, TrackerTypeOK
<1>3. /\ pc'[t] \in InProcess
      /\ \A u \in Tx : u # t => pc'[u] = pc[u]
    BY <1>0 DEF BeginApproval, FlowTypeOK, flowVars, InProcess
<1>4. ASSUME NEW u \in Tx, st[u] # NoTx, heap'[u][st[u]].status = "approved",
             chainOf'[u] = chain
      PROVE  pc'[u] \in InProcess
    <2>1. CASE u = t
        BY <1>3, <2>1
    <2>2. CASE u # t
        <3>1. st[u] = store[u] /\ store[u] \in Version /\ chainOf[u] = chain
            BY <1>0, <1>4, <2>2 DEF StoreTypeOK
        <3>2. heap[u][store[u]].status = "approved"
            BY <1>1, <1>4, <2>2, <3>1
        <3>3. pc[u] \in InProcess
            BY <1>0, <1>4, <3>1, <3>2
            DEF ApprovedIsInProcess, Here, OnChain, WithStatus, Stored
        <3> QED BY <1>3, <2>2, <3>3
    <2> QED BY <2>1, <2>2
<1>5. ApprovedIsInProcess'
    BY <1>4 DEF ApprovedIsInProcess, Here, OnChain, WithStatus, Stored
<1> QED BY <1>2, <1>5

\* The clean-up: afterwards nothing is approved on the selected network.
LEMMA CleanUpSettles ==
    ASSUME NEW st, NEW hp \in Heaps, NEW c, st \in Stores,
           heap' = SetStatus(st, hp, StuckSigning(st, hp, c), "failed"),
           store' = st, chain' = c, UNCHANGED chainOf
    PROVE  ApprovedIsInProcess'
<1> SUFFICES ASSUME NEW t \in Tx, st[t] # NoTx,
                    heap'[t][st[t]].status = "approved", chainOf[t] = c
             PROVE  FALSE
    BY DEF ApprovedIsInProcess, Here, OnChain, WithStatus, Stored
<1>1. st[t] \in Version
    BY DEF Stores
<1>2. t \notin StuckSigning(st, hp, c) /\ hp[t][st[t]].status = "approved"
    BY <1>1, SetStatusEffect
<1> QED BY <1>2 DEF StuckSigning, OnChain, WithStatus, Stored

\* The clean-up makes no object approved.
LEMMA CleanUpKeeps ==
    ASSUME LockInv, ApprovalInv, NEW st \in Stores, NEW c,
           BootCleanUp(st, heap, c), store' = st, chain' = c,
           UNCHANGED <<chainOf, asked>>
    PROVE  AskedIsNotApproved' /\ ApprovedIsInProcess'
<1>0. /\ heap \in Heaps /\ TrackerTypeOK /\ AskedIsNotApproved
    BY DEF LockInv, TypeOK, ApprovalInv, StoreTypeOK, Heaps
<1>1. heap' = SetStatus(st, heap, StuckSigning(st, heap, c), "failed")
    BY DEF BootCleanUp
<1>2. NoNewApproved
    BY <1>0, <1>1, OtherStatus
<1>3. AskedIsNotApproved'
    BY <1>0, <1>2 DEF AskedIsNotApproved, NoNewApproved, TrackerTypeOK
<1> QED BY <1>0, <1>1, <1>3, CleanUpSettles

\* Every step keeps the approval invariant, one case per action.
LEMMA ApprovalStepKeeps ==
    ASSUME LockInv, ApprovalInv, [Next]_vars
    PROVE  AskedIsNotApproved' /\ ApprovedIsInProcess'
<1>0. /\ StoreTypeOK /\ RequestTypeOK /\ FlowTypeOK /\ TrackerTypeOK
      /\ store \in Stores /\ heap \in Heaps
    BY DEF LockInv, TypeOK, StoreTypeOK, Stores, Heaps
<1> USE DEF storeVars, requestVars, flowVars, trackerVars, nodeVars, netVars,
            outerVars
<1> DEFINE Goal == AskedIsNotApproved' /\ ApprovedIsInProcess'
\* An action that changes no status, and no store but towards settled objects.
<1>1. ASSUME NoNewApproved, UNCHANGED <<chain, asked>>,
             \A u \in Tx : KeptOrSettled(u)
      PROVE  Goal
    <2>1. \A h \in Handler, u \in Tx : asked'[h][u] \in {asked[h][u], NoTx}
        BY <1>1
    <2> QED BY <1>1, <2>1, ApprovalKept
<1>2. UNCHANGED heap => NoNewApproved
    BY DEF NoNewApproved
<1>3. ASSUME UNCHANGED <<storeVars, pc, chain, asked, chainOf>> PROVE Goal
    BY <1>1, <1>2, <1>3 DEF KeptOrSettled
<1>4. ASSUME NEW t \in Tx, NEW v \in Version,
             heap' = [heap EXCEPT ![t][v].loading = FALSE]
      PROVE  NoNewApproved
    BY <1>0, <1>4 DEF NoNewApproved, Heaps, Meta
<1>5. ASSUME NEW t \in Tx, NEW a \in Account, Request(t, a) PROVE Goal
    <2>1. store[t] = NoTx /\ \A u \in Tx : u # t => chainOf'[u] = chainOf[u]
        BY <1>0, <1>5
        DEF Request, NextId, LockInv, UnusedIsAbsent, RequestTypeOK
    <2> QED BY <1>1, <1>2, <1>5, <2>1 DEF Request, KeptOrSettled
<1>6. ASSUME NEW t \in Tx, AddUnapproved(t) PROVE Goal
    <2>1. heap' = [heap EXCEPT ![t][Original] = FreshMeta]
        BY <1>6 DEF AddUnapproved
    <2>2. NoNewApproved /\ heap'[t][Original].status # "approved"
        BY <1>0, <2>1 DEF NoNewApproved, Heaps, FreshMeta, Version
    <2>3. store'[t] = Original /\ \A u \in Tx : u # t => store'[u] \in {store[u], NoTx}
        BY <1>6 DEF AddUnapproved, AddTransaction
    <2> QED BY <1>1, <1>6, <2>2, <2>3 DEF AddUnapproved, KeptOrSettled
<1>7. ASSUME NEW t \in Tx, NEW ok \in BOOLEAN, GasDefaults(t, ok) PROVE Goal
    <2>1. NoNewApproved
        <3>1. CASE store[t] = NoTx
            BY <1>2, <1>7, <3>1 DEF GasDefaults
        <3>2. CASE store[t] # NoTx
            BY <1>0, <1>4, <1>7, <3>2 DEF GasDefaults, Stores
        <3> QED BY <3>1, <3>2
    <2> QED BY <1>1, <1>7, <2>1 DEF GasDefaults, KeptOrSettled
<1>8. ASSUME NEW t \in Tx, NEW ok \in BOOLEAN, BootGas(t, ok) PROVE Goal
    <2> DEFINE set == [heap EXCEPT ![t][store[t]].loading = FALSE]
    <2>1. NoNewApproved
        <3>1. CASE store[t] = NoTx
            BY <1>2, <1>8, <3>1 DEF BootGas
        <3>2. CASE store[t] # NoTx
            <4>1. store[t] \in Version
                BY <1>0, <3>2 DEF Stores
            <4>2. set \in Heaps
                BY <1>0, <4>1, HeapTypes
            <4>3. \A u \in Tx, v \in Version : set[u][v].status = heap[u][v].status
                BY <1>0, <4>1 DEF Heaps, Meta
            <4>4. heap' = set \/ heap' = SetStatus(store, set, {t}, "failed")
                BY <1>8, <3>2 DEF BootGas
            <4> HIDE DEF set
            <4>5. \A u \in Tx, v \in Version :
                     heap'[u][v].status \in {heap[u][v].status, "failed"}
                BY <4>2, <4>3, <4>4, SetStatusRange
            <4> QED BY <4>5 DEF NoNewApproved
        <3> QED BY <3>1, <3>2
    <2> QED BY <1>1, <1>8, <2>1 DEF BootGas, KeptOrSettled
<1>9. ASSUME NEW w \in Window, NEW t \in Tx,
             NEW custom \in CustomNonces \union {NoNonce}, Approve(w, t, custom)
      PROVE  Goal
    <2> DEFINE hp == [heap EXCEPT ![t][w] = WindowCopy(t, custom)]
    <2>1. w \in Version /\ w # NoTx
        BY ObjectAssumption DEF Version
    <2>2. /\ store' \in Stores /\ store'[t] = w
          /\ \A u \in Tx : u # t => store'[u] = store[u]
        <3>1. store' = Put(store, t, w)
            BY <1>9 DEF Approve
        <3> QED BY <1>0, <2>1, <3>1, StoreTypes DEF Put, Stores
    <2>3. hp \in Heaps
        BY <1>0, <2>1, HeapTypes, NewMetaTypes
    <2>4. \A u \in Tx, v \in Version :
             (u = t /\ v = w) \/ hp[u][v].status = heap[u][v].status
        BY <1>0, <2>1 DEF Heaps
    <2>5. \A h \in Handler : asked[h][t] # w
        BY <1>9 DEF Approve, Click, ApprovalInv, ClickedOnce
    <2>6. BeginApproval(store', hp, t) /\ UNCHANGED <<chain, asked, chainOf>>
        BY <1>9 DEF Approve
    <2> HIDE DEF hp
    <2> QED BY <2>1, <2>2, <2>3, <2>4, <2>5, <2>6, BeginKeeps
<1>10. ASSUME NEW w \in Window, NEW t \in Tx, Reject(w, t) PROVE Goal
    <2>1. NoNewApproved
        BY <1>0, <1>10, OtherStatus DEF Reject
    <2>2. \A u \in Tx : store'[u] \in {store[u], NoTx}
        BY <1>0, <1>10 DEF Reject, Delete, StoreTypeOK
    <2> QED BY <1>1, <1>10, <2>1, <2>2 DEF Reject, KeptOrSettled
<1>11. ASSUME NEW o \in Tx, NEW t \in Tx, Replace(o, t) PROVE Goal
    <2> DEFINE hp == [heap EXCEPT ![t][Original] = ReplacementMeta(o)]
    <2>1. Original \in Version /\ Original # NoTx
        BY ObjectAssumption DEF Version
    <2>2. /\ store' \in Stores /\ store'[t] = Original
          /\ \A u \in Tx : u # t => store'[u] \in {store[u], NoTx}
        <3>1. store' = AddTransaction(store, heap, t)
            BY <1>11 DEF Replace
        <3> QED BY <1>0, <3>1, StoreTypes DEF AddTransaction
    <2>3. hp \in Heaps
        <3>1. o \in Stored(store)
            BY <1>11 DEF Replace, Here, OnChain, WithStatus
        <3> QED BY <1>0, <2>1, <3>1, HeapTypes, NewMetaTypes
    <2>4. \A u \in Tx, v \in Version :
             (u = t /\ v = Original) \/ hp[u][v].status = heap[u][v].status
        BY <1>0, <2>1 DEF Heaps
    <2>5. \A h \in Handler : asked[h][t] # Original
        BY <1>11, <2>1 DEF Replace, NextId, LockInv, UnusedIsAbsent
    <2>6. BeginApproval(store', hp, t) /\ UNCHANGED <<chain, asked>>
        BY <1>11 DEF Replace
    <2>7. \A u \in Tx : u # t => chainOf'[u] = chainOf[u]
        BY <1>0, <1>11 DEF Replace, RequestTypeOK
    <2> HIDE DEF hp
    <2> QED BY <2>1, <2>2, <2>3, <2>4, <2>5, <2>6, <2>7, BeginKeeps
<1>12. ASSUME NEW t \in Tx, GlobalFree(t) \/ AccountAnswer(t) PROVE Goal
    <2>1. \A u \in Tx : pc'[u] = pc[u] \/ pc'[u] \in InProcess
        BY <1>0, <1>12
        DEF GlobalFree, AccountAnswer, FlowTypeOK, InProcess, Holding
    <2> QED BY <1>1, <1>2, <1>12, <2>1
        DEF GlobalFree, AccountAnswer, KeptOrSettled
<1>13. ASSUME NEW t \in Tx, TakeNonce(t) PROVE Goal
    <2> DEFINE n == NonceFor(t, heap[t][ref[t]])
    <2>1. NoNewApproved
        <3>1. heap' = [heap EXCEPT ![t][ref[t]].nonce = n]
            BY <1>13 DEF TakeNonce
        <3> HIDE DEF n
        <3> QED BY <1>0, <3>1 DEF NoNewApproved, Heaps, Meta
    <2>2. \A u \in Tx : u # t => store'[u] = store[u] /\ pc'[u] = pc[u]
        BY <1>0, <1>13 DEF TakeNonce, Put, StoreTypeOK, FlowTypeOK
    <2>3. pc'[t] \in InProcess
        BY <1>0, <1>13 DEF TakeNonce, FlowTypeOK, InProcess, Holding
    <2> QED BY <1>1, <1>13, <2>1, <2>2, <2>3 DEF TakeNonce, KeptOrSettled
<1>14. ASSUME NEW t \in Tx, Sign(t) \/ SwapBalance(t) PROVE Goal
    <2>1. NoNewApproved
        BY <1>0, <1>2, <1>14, OtherStatus DEF Sign, SwapBalance
    <2>2. \A u \in Tx : u # t => store'[u] = store[u] /\ pc'[u] = pc[u]
        BY <1>0, <1>14 DEF Sign, SwapBalance, Put, StoreTypeOK, FlowTypeOK
    <2>3. pc'[t] \in InProcess
        BY <1>0, <1>14 DEF Sign, SwapBalance, FlowTypeOK, InProcess, Holding
    <2> QED BY <1>1, <1>14, <2>1, <2>2, <2>3 DEF Sign, SwapBalance, KeptOrSettled
\* The catch block fails the stored object before the approval ends.
<1>15. ASSUME NEW t \in Tx, FailApproval(t), UNCHANGED <<store, chain, asked, chainOf>>
       PROVE  Goal
    <2>1. heap' = SetStatus(store, heap, {t}, "failed")
        BY <1>15 DEF FailApproval
    <2>2. NoNewApproved
        BY <1>0, <2>1, OtherStatus
    <2>3. store[t] # NoTx => heap'[t][store[t]].status = "failed"
        BY <1>0, <2>1, SetStatusEffect DEF Stores
    <2>4. \A u \in Tx : u # t => pc'[u] = pc[u]
        BY <1>0, <1>15 DEF FailApproval, EndApproval, FlowTypeOK
    <2> QED BY <1>1, <1>15, <2>2, <2>3, <2>4 DEF KeptOrSettled
<1>16. ASSUME NEW t \in Tx, AwaitRejects(t) PROVE Goal
    BY <1>15, <1>16 DEF AwaitRejects
<1>17. ASSUME NEW t \in Tx, NEW withHash \in BOOLEAN, BroadcastAnswer(t, withHash)
       PROVE  Goal
    <2>1. CASE store[t] = NoTx
        BY <1>15, <1>17, <2>1 DEF BroadcastAnswer
    <2>2. CASE store[t] # NoTx
        <3>1. store[t] \in Version
            BY <1>0, <2>2 DEF Stores
        <3>2. heap' = [heap EXCEPT ![t][store[t]].status = "submitted",
                                   ![t][store[t]].hash = withHash]
            BY <1>17, <2>2 DEF BroadcastAnswer, Submitted
        <3>3. /\ heap'[t][store[t]].status = "submitted"
              /\ \A u \in Tx, v \in Version : heap'[u][v].status
                    \in {heap[u][v].status, "submitted"}
            BY <1>0, <3>1, <3>2 DEF Heaps, Meta
        <3>4. \A u \in Tx : u # t => pc'[u] = pc[u]
            BY <1>0, <1>17, <2>2 DEF BroadcastAnswer, EndApproval, FlowTypeOK
        <3> QED BY <1>1, <1>17, <3>3, <3>4
            DEF BroadcastAnswer, NoNewApproved, KeptOrSettled
    <2> QED BY <2>1, <2>2
<1>18. ASSUME NEW h \in Handler, NewBlock(h) \/ CheckDone(h) PROVE Goal
    BY <1>3, <1>18 DEF NewBlock, CheckDone
\* What a check asks about is submitted, or was asked about before.
<1>19. ASSUME NEW h \in Handler, CheckPending(h) PROVE Goal
    <2> DEFINE pending == Here(WithStatus(store, heap, {"submitted"}))
               noHash  == {u \in pending : ~heap[u][store[u]].hash}
               taken   == {u \in pending \ noHash : NonceTaken(u)}
               half    == SetStatus(store, heap, noHash, "failed")
    <2>1. heap' = SetStatus(store, half, taken, "dropped") /\ half \in Heaps
        BY <1>0, <1>19, SetStatusType DEF CheckPending, Status
    <2>2. \A u \in Tx, v \in Version :
             half[u][v].status \in {heap[u][v].status, "failed"}
        BY <1>0, SetStatusRange
    <2>3. NoNewApproved
        <3> HIDE DEF half, taken
        <3>1. \A u \in Tx, v \in Version :
                 heap'[u][v].status \in {half[u][v].status, "dropped"}
            BY <2>1, SetStatusRange
        <3> QED BY <2>2, <3>1 DEF NoNewApproved
    <2>4. \A g \in Handler, u \in Tx :
             \/ asked'[g][u] \in {asked[g][u], NoTx}
             \/ asked'[g][u] = store[u] /\ u \in pending
        BY <1>0, <1>19 DEF CheckPending, TrackerTypeOK
    <2>5. \A u \in pending : store[u] \in Version /\ heap[u][store[u]].status = "submitted"
        BY <1>0 DEF Here, OnChain, WithStatus, Stored, Stores
    <2> HIDE DEF pending
    <2>6. AskedIsNotApproved'
        BY <1>0, <2>3, <2>4, <2>5
        DEF ApprovalInv, AskedIsNotApproved, NoNewApproved, TrackerTypeOK
    <2>7. ApprovedIsInProcess'
        <3>1. UNCHANGED <<store, pc, chain, chainOf>>
            BY <1>19 DEF CheckPending
        <3> QED BY <1>0, <2>3, <3>1
            DEF ApprovalInv, ApprovedIsInProcess, Here, OnChain, WithStatus,
                Stored, Stores, NoNewApproved
    <2> QED BY <2>6, <2>7
<1>20. ASSUME NEW h \in Handler, NEW t \in Tx,
              ResultMined(h, t) \/ ResultPending(h, t) \/ ResultError(h, t)
       PROVE  Goal
    <2>1. \A g \in Handler, u \in Tx : asked'[g][u] \in {asked[g][u], NoTx}
        BY <1>0, <1>20
        DEF ResultMined, ResultPending, ResultError, Answered, TrackerTypeOK
    <2>2. NoNewApproved
        <3>1. CASE ResultMined(h, t)
            <4> DEFINE half == SetStatus(store, heap, {t}, "confirmed")
            <4>1. CASE store[t] = NoTx
                BY <1>2, <3>1, <4>1 DEF ResultMined, Confirm
            <4>2. CASE store[t] # NoTx
                <5>1. /\ heap' = SetStatus(store, half, NonceDuplicates(t), "dropped")
                      /\ half \in Heaps
                    BY <1>0, <3>1, <4>2, SetStatusType DEF ResultMined, Confirm, Status
                <5>2. \A u \in Tx, v \in Version :
                         half[u][v].status \in {heap[u][v].status, "confirmed"}
                    BY <1>0, SetStatusRange
                <5> HIDE DEF half
                <5>3. \A u \in Tx, v \in Version :
                         heap'[u][v].status \in {half[u][v].status, "dropped"}
                    BY <5>1, SetStatusRange
                <5> QED BY <5>2, <5>3 DEF NoNewApproved
            <4> QED BY <4>1, <4>2
        <3>2. CASE ResultPending(h, t) \/ ResultError(h, t)
            BY <1>2, <3>2 DEF ResultPending, ResultError
        <3> QED BY <1>20, <3>1, <3>2
    <2>3. \A u \in Tx : KeptOrSettled(u)
        <3>1. CASE ResultMined(h, t) \/ ResultPending(h, t)
            BY <3>1 DEF ResultMined, ResultPending, KeptOrSettled
        <3>2. CASE ResultError(h, t)
            <4>1. heap'[t][asked[h][t]].status # "approved"
                BY <3>2
                DEF ResultError, Answered, ApprovalInv, AskedIsNotApproved
            <4>2. store'[t] = asked[h][t] /\ \A u \in Tx : u # t => store'[u] = store[u]
                BY <1>0, <3>2 DEF ResultError, Put, StoreTypeOK
            <4> QED BY <3>2, <4>1, <4>2 DEF ResultError, KeptOrSettled
        <3> QED BY <1>20, <3>1, <3>2
    <2>4. UNCHANGED chain
        BY <1>20 DEF ResultMined, ResultPending, ResultError
    <2> QED BY <2>1, <2>2, <2>3, <2>4, ApprovalKept
<1>21. ASSUME NodeStep PROVE Goal
    BY <1>3, <1>21 DEF NodeStep, NodeAccepts, Mine, ForeignTransaction
<1>22. ASSUME NEW st \in Stores, NEW c \in Chain, SwitchTo(st, c) PROVE Goal
    <2>1. store' \in Stores /\ BootCleanUp(store', heap, c)
        BY <1>22, StoreTypes DEF SwitchTo
    <2> QED BY <1>22, <2>1, CleanUpKeeps DEF SwitchTo
<1>23. ASSUME NetStep PROVE Goal
    <2>1. CASE NetworkUp
        BY <1>0, <2>1, CleanUpKeeps DEF NetworkUp
    <2>2. ASSUME NEW c \in Chain, SwitchNetwork(c) PROVE Goal
        BY <1>0, <1>22, <2>2 DEF SwitchNetwork
    <2>3. ASSUME NEW a \in Account, ResetAccount(a) PROVE Goal
        <3>1. chain \in Chain
            BY DEF LockInv, TypeOK, OuterTypeOK
        <3> QED BY <1>0, <1>22, <2>3, <3>1, StoreTypes DEF ResetAccount
    <2> QED BY <1>23, <2>1, <2>2, <2>3 DEF NetStep
<1>24. ASSUME Save \/ UNCHANGED vars PROVE Goal
    BY <1>3, <1>24 DEF Save, vars
<1>25. ASSUME Crash PROVE Goal
    <2> DEFINE loaded == [t \in Tx |-> [v \in Version |-> disk.meta[t]]]
    <2>1. loaded \in Heaps /\ store' \in Stores
        BY <1>25 DEF Crash, LockInv, TypeOK, OuterTypeOK, Heaps, Stores, Version
    <2>2. /\ heap' = SetStatus(store', loaded,
                          StuckSigning(store', loaded, disk.chain), "failed")
          /\ chain' = disk.chain /\ UNCHANGED chainOf
        BY <1>25 DEF Crash
    <2> HIDE DEF loaded
    <2>3. ApprovedIsInProcess'
        BY <2>1, <2>2, CleanUpSettles
    <2>4. AskedIsNotApproved'
        BY <1>25 DEF Crash, AskedIsNotApproved
    <2> QED BY <2>3, <2>4
<1>26. ASSUME NEW w \in Window, Refresh(w) PROVE Goal
    BY <1>3, <1>26 DEF Refresh
<1>27. ASSUME NEW t \in Tx, RequestDenied(t) PROVE Goal
    BY <1>3, <1>27 DEF RequestDenied
<1>28. Goal
    <2> HIDE DEF Goal
    <2> QED
        BY <1>5, <1>6, <1>7, <1>8, <1>9, <1>10, <1>11, <1>12, <1>13, <1>14,
           <1>16, <1>17, <1>18, <1>19, <1>20, <1>21, <1>23, <1>24, <1>25,
           <1>26, <1>27
        DEF Next, RequestStep, UserStep, ApprovalStep, CheckStep
<1> QED BY <1>28

\* The approval invariant holds initially.
LEMMA ApprovalInit == Init => ApprovalInv
BY ObjectAssumption
DEF Init, ApprovalInv, ClickedOnce, AskedIsNotApproved, ApprovedIsInProcess,
    Here, OnChain, WithStatus, Stored

(***************************************************************************)
(* An approved transaction of the selected network is being signed: every  *)
(* exit of approveTransaction settles it, and so does every clean-up, in   *)
(* spite of windows that replace the stored object and of pending checks   *)
(* that write back an old one.  (That is why ApprovalInv speaks of whose   *)
(* object is where: ApprovedIsInProcess alone is not inductive.)           *)
(***************************************************************************)
THEOREM ApprovedIsAlwaysInProcess == Spec => []ApprovedIsInProcess
<1>1. LockInv /\ ApprovalInv /\ [Next]_vars => ApprovalInv'
    BY ClickedStep, ApprovalStepKeeps DEF ApprovalInv
<1>2. ApprovalInv => ApprovedIsInProcess
    BY DEF ApprovalInv
<1> QED BY <1>1, <1>2, ApprovalInit, LockInvariant, PTL DEF Spec

-----------------------------------------------------------------------------
\* What is sent to the node

\* Before a restart an original becomes unapproved only when it is stored first.
LEMMA OnlyNewIsUnapproved ==
    ASSUME LockInv, ApprovalInv, [Next]_vars, crashes' = crashes
    PROVE  \A u \in Tx : heap'[u][Original].status = "unapproved" =>
              heap[u][Original].status = "unapproved" \/ stage[u] = "permission"
<1>0. /\ StoreTypeOK /\ FlowTypeOK /\ OuterTypeOK
      /\ store \in Stores /\ heap \in Heaps /\ Original \in Version
    BY DEF LockInv, TypeOK, StoreTypeOK, Stores, Heaps, Version
<1> USE DEF storeVars, requestVars, flowVars, trackerVars, nodeVars, netVars,
            outerVars
<1> SUFFICES ASSUME NEW u \in Tx
             PROVE  heap'[u][Original].status = "unapproved" =>
                       heap[u][Original].status = "unapproved" \/ stage[u] = "permission"
    OBVIOUS
<1> DEFINE old == heap[u][Original].status
           new == heap'[u][Original].status
           Goal == new = "unapproved" => old = "unapproved" \/ stage[u] = "permission"
<1>1. UNCHANGED heap => Goal
    OBVIOUS
<1>2. ASSUME NEW st, NEW hp \in Heaps, NEW ts, NEW status, status # "unapproved",
             heap' = SetStatus(st, hp, ts, status), hp[u][Original].status = old
      PROVE  Goal
    <2>1. new \in {hp[u][Original].status, status}
        BY <1>0, <1>2, SetStatusRange
    <2> QED BY <1>2, <2>1
<1>3. ASSUME NEW t \in Tx, NEW v \in Version
      PROVE  [heap EXCEPT ![t][v].loading = FALSE][u][Original].status = old
    BY <1>0, <1>3 DEF Heaps, Meta
<1>4. ASSUME NEW t \in Tx, AddUnapproved(t) PROVE Goal
    <2>1. CASE u = t
        BY <1>4, <2>1 DEF AddUnapproved
    <2>2. CASE u # t
        BY <1>0, <1>4, <2>2 DEF AddUnapproved, Heaps
    <2> QED BY <2>1, <2>2
<1>5. ASSUME NEW t \in Tx, NEW ok \in BOOLEAN, GasDefaults(t, ok) PROVE Goal
    <2>1. CASE store[t] = NoTx
        BY <1>1, <1>5, <2>1 DEF GasDefaults
    <2>2. CASE store[t] # NoTx
        <3>1. /\ store[t] \in Version
              /\ heap' = [heap EXCEPT ![t][store[t]].loading = FALSE]
            BY <1>0, <1>5, <2>2 DEF GasDefaults, Stores
        <3> QED BY <1>3, <3>1
    <2> QED BY <2>1, <2>2
<1>6. ASSUME NEW t \in Tx, NEW ok \in BOOLEAN, BootGas(t, ok) PROVE Goal
    <2> DEFINE set == [heap EXCEPT ![t][store[t]].loading = FALSE]
    <2>1. CASE store[t] = NoTx
        BY <1>1, <1>6, <2>1 DEF BootGas
    <2>2. CASE store[t] # NoTx
        <3>1. store[t] \in Version
            BY <1>0, <2>2 DEF Stores
        <3>2. set \in Heaps /\ set[u][Original].status = old
            BY <1>0, <1>3, <3>1, HeapTypes
        <3>3. heap' = set \/ heap' = SetStatus(store, set, {t}, "failed")
            BY <1>6, <2>2 DEF BootGas
        <3> HIDE DEF set
        <3> QED BY <1>2, <3>2, <3>3
    <2> QED BY <2>1, <2>2
<1>7. ASSUME NEW w \in Window, NEW t \in Tx,
             NEW custom \in CustomNonces \union {NoNonce}, Approve(w, t, custom)
      PROVE  Goal
    <2> DEFINE hp == [heap EXCEPT ![t][w] = WindowCopy(t, custom)]
    <2>1. w \in Version /\ w # Original
        BY ObjectAssumption DEF Version
    <2>2. hp \in Heaps
        BY <1>0, <2>1, HeapTypes, NewMetaTypes
    <2>3. hp[u][Original].status = old
        BY <1>0, <2>1 DEF Heaps
    <2>4. heap' = hp \/ heap' = SetStatus(store', hp, {t}, "approved")
        BY <1>7 DEF Approve, BeginApproval
    <2> HIDE DEF hp
    <2> QED BY <1>2, <2>2, <2>3, <2>4
<1>8. ASSUME NEW w \in Window, NEW t \in Tx, Reject(w, t) PROVE Goal
    BY <1>0, <1>2, <1>8 DEF Reject
<1>9. ASSUME NEW o \in Tx, NEW t \in Tx, Replace(o, t) PROVE Goal
    <2> DEFINE hp == [heap EXCEPT ![t][Original] = ReplacementMeta(o)]
    <2>1. hp \in Heaps
        <3>1. o \in Stored(store)
            BY <1>9 DEF Replace, Here, OnChain, WithStatus
        <3> QED BY <1>0, <3>1, HeapTypes, NewMetaTypes
    <2>2. BeginApproval(store', hp, t)
        BY <1>9 DEF Replace
    <2>3. pc[t] = "idle"
        BY <1>9 DEF Replace, NextId, LockInv, UnusedIsAbsent
    <2>4. /\ heap' = SetStatus(store', hp, {t}, "approved")
          /\ store'[t] = Original
        BY <1>9, <2>2, <2>3
        DEF BeginApproval, InProcess, Holding, Replace, AddTransaction
    <2>5. CASE u = t
        <3> HIDE DEF hp
        <3>1. new = "approved"
            BY <1>0, <2>1, <2>4, <2>5, SetStatusEffect
        <3> QED BY <3>1
    <2>6. CASE u # t
        <3>1. hp[u][Original].status = old
            BY <1>0, <2>6 DEF Heaps
        <3> HIDE DEF hp
        <3> QED BY <1>2, <2>1, <2>4, <3>1
    <2> QED BY <2>5, <2>6
<1>10. ASSUME NEW t \in Tx, TakeNonce(t) PROVE Goal
    <2> DEFINE n == NonceFor(t, heap[t][ref[t]])
    <2>1. heap' = [heap EXCEPT ![t][ref[t]].nonce = n]
        BY <1>10 DEF TakeNonce
    <2> HIDE DEF n
    <2> QED BY <1>0, <2>1 DEF Heaps, Meta
<1>11. ASSUME NEW t \in Tx, FailApproval(t) PROVE Goal
    BY <1>0, <1>2, <1>11 DEF FailApproval
<1>12. ASSUME NEW t \in Tx, ApprovalStep(t) PROVE Goal
    <2>1. CASE GlobalFree(t) \/ AccountAnswer(t) \/ SwapBalance(t)
        BY <1>1, <2>1 DEF GlobalFree, AccountAnswer, SwapBalance
    <2>2. CASE Sign(t)
        BY <1>0, <1>2, <2>2 DEF Sign
    <2>3. CASE AwaitRejects(t)
        BY <1>11, <2>3 DEF AwaitRejects
    <2>4. ASSUME NEW withHash \in BOOLEAN, BroadcastAnswer(t, withHash)
          PROVE  Goal
        <3>1. CASE store[t] = NoTx
            BY <1>11, <2>4, <3>1 DEF BroadcastAnswer
        <3>2. CASE store[t] # NoTx
            <4>1. store[t] \in Version
                BY <1>0, <3>2 DEF Stores
            <4>2. heap' = [heap EXCEPT ![t][store[t]].status = "submitted",
                                       ![t][store[t]].hash = withHash]
                BY <2>4, <3>2 DEF BroadcastAnswer, Submitted
            <4>3. new \in {old, "submitted"}
                BY <1>0, <4>1, <4>2 DEF Heaps, Meta
            <4> QED BY <4>3
        <3> QED BY <3>1, <3>2
    <2> QED BY <1>10, <1>12, <2>1, <2>2, <2>3, <2>4 DEF ApprovalStep
<1>13. ASSUME NEW st \in Stores, NEW ts, NEW status, status \in Status \ {"unapproved"},
              NEW st2, NEW ts2, NEW status2, status2 # "unapproved",
              heap' = SetStatus(st2, SetStatus(st, heap, ts, status), ts2, status2)
       PROVE  Goal
    <2> DEFINE half == SetStatus(st, heap, ts, status)
    <2>0. status \in Status
        BY <1>13
    <2>1. half[u][Original].status \in {old, status} /\ half \in Heaps
        BY <1>0, <2>0, SetStatusRange, SetStatusType
    <2> HIDE DEF half
    <2>2. new \in {half[u][Original].status, status2}
        BY <1>0, <1>13, <2>1, SetStatusRange DEF half
    <2> QED BY <1>13, <2>1, <2>2
<1>14. ASSUME NEW h \in Handler, CheckStep(h) PROVE Goal
    <2>1. CASE CheckPending(h)
        BY <1>0, <1>13, <2>1 DEF CheckPending, Status
    <2>2. CASE CheckDone(h)
        BY <1>1, <2>2 DEF CheckDone
    <2>3. ASSUME NEW t \in Tx, ResultMined(h, t) PROVE Goal
        BY <1>0, <1>1, <1>13, <2>3 DEF ResultMined, Confirm, Status
    <2>4. ASSUME NEW t \in Tx, ResultPending(h, t) \/ ResultError(h, t) PROVE Goal
        BY <1>1, <2>4 DEF ResultPending, ResultError
    <2> QED BY <1>14, <2>1, <2>2, <2>3, <2>4 DEF CheckStep
<1>15. ASSUME NEW st, NEW c, BootCleanUp(st, heap, c) PROVE Goal
    BY <1>0, <1>2, <1>15 DEF BootCleanUp
<1>16. ASSUME NetStep PROVE Goal
    BY <1>15, <1>16 DEF NetStep, NetworkUp, SwitchNetwork, ResetAccount, SwitchTo
<1>17. ASSUME \/ \E t \in Tx, a \in Account : Request(t, a)
              \/ \E t \in Tx : RequestDenied(t)
              \/ \E w \in Window : Refresh(w)
              \/ \E h \in Handler : NewBlock(h)
              \/ NodeStep \/ Save \/ UNCHANGED vars
       PROVE  Goal
    <2>1. UNCHANGED heap
        BY <1>17 DEF Request, RequestDenied, Refresh, NewBlock, NodeStep,
           NodeAccepts, Mine, ForeignTransaction, Save, vars
    <2> QED BY <1>1, <2>1
<1>18. ~ Crash
    BY <1>0 DEF Crash, OuterTypeOK
<1>19. Goal
    <2> HIDE DEF Goal
    <2> QED
        BY <1>4, <1>5, <1>6, <1>7, <1>8, <1>9, <1>12, <1>14, <1>16, <1>17, <1>18
        DEF Next, RequestStep, UserStep
<1> QED BY <1>19

\* A hidden transaction is shown only when its original is unapproved.
LEMMA HiddenStays ==
    ASSUME LockInv, ApprovalInv, [Next]_vars, NEW u \in Tx,
           heap[u][Original].status # "unapproved",
           \A w \in Window : view[w][u] = "hidden"
    PROVE  \A w \in Window : view'[w][u] = "hidden"
<1>0. OuterTypeOK /\ StoreTypeOK /\ ClickedOnce
    BY DEF LockInv, TypeOK, ApprovalInv
<1> USE DEF storeVars, requestVars, flowVars, trackerVars, nodeVars, netVars,
            outerVars
<1> DEFINE Goal == \A w \in Window : view'[w][u] = "hidden"
<1>1. UNCHANGED view => Goal
    OBVIOUS
<1>2. ASSUME NEW w \in Window, Refresh(w) PROVE Goal
    <2>1. store[u] \in {NoTx, Original}
        BY <1>0 DEF ClickedOnce, StoreTypeOK, Version
    <2>2. u \notin Here(WithStatus(store, heap, {"unapproved"}))
        BY <2>1 DEF Here, OnChain, WithStatus, Stored
    <2> QED BY <1>0, <1>2, <2>2 DEF Refresh, OuterTypeOK
<1>3. ASSUME NEW w \in Window, NEW t \in Tx, Click(w, t) PROVE Goal
    BY <1>0, <1>3 DEF Click, OuterTypeOK
<1>4. ASSUME UserStep PROVE Goal
    BY <1>1, <1>2, <1>3, <1>4 DEF UserStep, Approve, Reject, Replace
<1>5. ASSUME NEW t \in Tx, RequestStep(t) \/ ApprovalStep(t) PROVE Goal
    <2>1. UNCHANGED view
        BY <1>5
        DEF RequestStep, RequestDenied, AddUnapproved, GasDefaults, BootGas,
            ApprovalStep, GlobalFree, TakeNonce, AccountAnswer, Sign,
            SwapBalance, AwaitRejects, BroadcastAnswer
    <2> QED BY <1>1, <2>1
<1>6. ASSUME NEW h \in Handler, NewBlock(h) \/ CheckStep(h) PROVE Goal
    BY <1>1, <1>6
    DEF NewBlock, CheckStep, CheckPending, CheckDone, ResultMined,
        ResultPending, ResultError
<1>7. ASSUME \/ \E t \in Tx, a \in Account : Request(t, a)
             \/ NodeStep \/ NetStep \/ Save \/ Crash \/ UNCHANGED vars
      PROVE  Goal
    <2>1. UNCHANGED view \/ Crash
        BY <1>7
        DEF Request, NodeStep, NodeAccepts, Mine, ForeignTransaction, NetStep,
            NetworkUp, SwitchNetwork, ResetAccount, SwitchTo, Save, vars
    <2> QED BY <1>1, <2>1 DEF Crash
<1>8. Goal
    <2> HIDE DEF Goal
    <2> QED BY <1>4, <1>5, <1>6, <1>7 DEF Next
<1> QED BY <1>8

\* What a step does to the transactions' requests.
RequestKept(u) == /\ replaces'[u] = replaces[u]
                  /\ Unused(u)' => Unused(u)
                  /\ stage[u] = "done" => stage'[u] = "done"

\* A step keeps the request, or creates the transaction as a replacement.
LEMMA RequestIsKept ==
    ASSUME LockInv, [Next]_vars, NEW u \in Tx
    PROVE  \/ RequestKept(u)
           \/ \E o \in Tx : Replace(o, u)
<1>0. RequestTypeOK
    BY DEF LockInv, TypeOK
<1> USE DEF storeVars, requestVars, flowVars, trackerVars, nodeVars, netVars,
            outerVars, RequestKept, Unused
<1>1. ASSUME NEW t \in Tx, NEW a \in Account, Request(t, a) PROVE RequestKept(u)
    BY <1>0, <1>1 DEF Request, NextId, RequestTypeOK, LockInv, UnusedIsAbsent
<1>2. ASSUME NEW t \in Tx, RequestStep(t) PROVE RequestKept(u)
    BY <1>0, <1>2
    DEF RequestStep, RequestDenied, AddUnapproved, GasDefaults, BootGas,
        RequestTypeOK
<1>3. ASSUME NEW w \in Window, NEW t \in Tx,
             \/ Reject(w, t)
             \/ \E custom \in CustomNonces \union {NoNonce} : Approve(w, t, custom)
      PROVE  RequestKept(u)
    BY <1>3 DEF Reject, Approve
<1>4. ASSUME NEW o \in Tx, NEW t \in Tx, Replace(o, t), u # t
      PROVE  RequestKept(u)
    BY <1>0, <1>4 DEF Replace, RequestTypeOK
<1>5. ASSUME NEW t \in Tx, ApprovalStep(t) PROVE RequestKept(u)
    BY <1>5
    DEF ApprovalStep, GlobalFree, TakeNonce, AccountAnswer, Sign, SwapBalance,
        AwaitRejects, BroadcastAnswer
<1>6. ASSUME NEW h \in Handler, NewBlock(h) \/ CheckStep(h) PROVE RequestKept(u)
    BY <1>6
    DEF NewBlock, CheckStep, CheckPending, CheckDone, ResultMined,
        ResultPending, ResultError
<1>7. ASSUME NodeStep \/ NetStep \/ Save \/ UNCHANGED vars PROVE RequestKept(u)
    BY <1>7
    DEF NodeStep, NodeAccepts, Mine, ForeignTransaction, NetStep, NetworkUp,
        SwitchNetwork, ResetAccount, SwitchTo, Save, vars
<1>8. ASSUME Crash PROVE RequestKept(u)
    BY <1>0, <1>8 DEF Crash, RequestTypeOK
<1>9. ASSUME NEW w \in Window, Refresh(w) PROVE RequestKept(u)
    BY <1>9 DEF Refresh
<1> QED
    BY <1>1, <1>2, <1>3, <1>4, <1>5, <1>6, <1>7, <1>8, <1>9 DEF Next, UserStep

\* A replacement is born approved and stays out of the windows.
LEMMA NotOfferedStep ==
    ASSUME LockInv, ApprovalInv, [Next]_vars, crashes' = crashes,
           ReplacementIsNotOffered
    PROVE  ReplacementIsNotOffered'
<1> SUFFICES ASSUME NEW u \in Tx, replaces'[u] # NoTx
             PROVE  /\ ~ Unused(u)' /\ stage'[u] = "done"
                    /\ heap'[u][Original].status # "unapproved"
                    /\ \A w \in Window : view'[w][u] = "hidden"
    BY DEF ReplacementIsNotOffered
<1>1. CASE RequestKept(u)
    <2>1. /\ ~ Unused(u) /\ stage[u] = "done"
          /\ heap[u][Original].status # "unapproved"
          /\ \A w \in Window : view[w][u] = "hidden"
        BY <1>1 DEF RequestKept, ReplacementIsNotOffered
    <2> QED BY <1>1, <2>1, HiddenStays, OnlyNewIsUnapproved DEF RequestKept
<1>2. ASSUME NEW o \in Tx, Replace(o, u)
      PROVE  /\ ~ Unused(u)' /\ stage'[u] = "done"
             /\ heap'[u][Original].status # "unapproved"
             /\ \A w \in Window : view'[w][u] = "hidden"
    <2>0. /\ RequestTypeOK /\ store \in Stores /\ heap \in Heaps
          /\ Original \in Version
        BY DEF LockInv, TypeOK, StoreTypeOK, Stores, Heaps, Version
    <2>1. Unused(u) /\ pc[u] = "idle" /\ \A w \in Window : view[w][u] = "hidden"
        BY <1>2 DEF Replace, NextId, LockInv, UnusedIsAbsent
    <2>2. o \in Stored(store) /\ ~ Unused(o)
        BY <1>2 DEF Replace, Here, OnChain, WithStatus, Stored, LockInv,
           UnusedIsAbsent
    <2>3. ~ Unused(u)' /\ stage'[u] = "done"
        BY <1>2, <2>0, <2>2 DEF Replace, Unused, RequestTypeOK
    <2> DEFINE hp == [heap EXCEPT ![u][Original] = ReplacementMeta(o)]
    <2>4. hp \in Heaps
        BY <2>0, <2>2, HeapTypes, NewMetaTypes
    <2>5. BeginApproval(store', hp, u)
        BY <1>2 DEF Replace
    <2> HIDE DEF hp
    <2>6. /\ heap' = SetStatus(store', hp, {u}, "approved")
          /\ store'[u] = Original
        BY <1>2, <2>1, <2>5
        DEF BeginApproval, InProcess, Holding, Replace, AddTransaction
    <2>7. heap'[u][Original].status = "approved"
        BY <2>0, <2>4, <2>6, SetStatusEffect
    <2>8. UNCHANGED view
        BY <1>2 DEF Replace, outerVars
    <2> QED BY <2>1, <2>3, <2>7, <2>8
<1> QED BY <1>1, <1>2, RequestIsKept

-----------------------------------------------------------------------------
\* What a step does to the payloads of a transaction.

Early == {"global", "address", "account"}
Unsent(u) == \A p \in pool : p[1] # u
PoolKept(u) == \A p : p[1] = u => (p \in pool' <=> p \in pool)
ClickKept(u) == \A w \in Window : view[w][u] = "clicked" => view'[w][u] = "clicked"

\* Nothing, or its approval goes on or ends.
Calm(u) == /\ PoolKept(u) /\ signed'[u] = signed[u]
           /\ pc[u] = "idle" => pc'[u] = "idle"
           /\ pc'[u] \in Early => pc[u] \in Early
\* Its approval starts, by a first answer or as a replacement.
Starts(u) == /\ PoolKept(u) /\ signed'[u] = signed[u]
             /\ \/ \E w \in Window : view[w][u] = "shown" /\ view'[w][u] = "clicked"
                \/ Unused(u) /\ replaces'[u] # NoTx
\* It is signed with the account nonce; its payload is sent.
IsSigned(u) == PoolKept(u) /\ pc[u] = "account" /\ pc'[u] = "sign"
IsSent(u) == /\ pool' = pool \union {<<u, signed[u]>>} /\ signed'[u] = signed[u]
            /\ pc[u] = "broadcast" /\ pc'[u] = "broadcast"

\* Every step does one of these things to a transaction.
LEMMA SendEffect ==
    ASSUME LockInv, [Next]_vars, crashes' = crashes, NEW u \in Tx
    PROVE  Calm(u) \/ Starts(u) \/ IsSigned(u) \/ IsSent(u)
<1>0. FlowTypeOK /\ NodeTypeOK /\ OuterTypeOK
    BY DEF LockInv, TypeOK
<1> USE DEF storeVars, requestVars, flowVars, trackerVars, nodeVars, netVars,
            outerVars
<1> DEFINE Goal == Calm(u) \/ Starts(u) \/ IsSigned(u) \/ IsSent(u)
<1>1. ASSUME UNCHANGED <<pool, signed>> PROVE PoolKept(u) /\ signed'[u] = signed[u]
    BY <1>1 DEF PoolKept
<1>2. ASSUME UNCHANGED <<pool, signed, pc>> PROVE Goal
    BY <1>1, <1>2 DEF Calm
<1>3. ASSUME NEW t \in Tx, RequestStep(t) PROVE Goal
    BY <1>2, <1>3
    DEF RequestStep, RequestDenied, AddUnapproved, GasDefaults, BootGas
<1>4. ASSUME NEW t \in Tx, NEW w \in Window,
             NEW custom \in CustomNonces \union {NoNonce}, Approve(w, t, custom)
      PROVE  Goal
    <2>1. PoolKept(u) /\ signed'[u] = signed[u]
        BY <1>1, <1>4 DEF Approve
    <2>2. CASE u = t
        BY <1>0, <1>4, <2>1, <2>2 DEF Approve, Click, Starts, OuterTypeOK
    <2>3. CASE u # t
        BY <1>0, <1>4, <2>1, <2>3 DEF Approve, BeginApproval, Calm, FlowTypeOK
    <2> QED BY <2>2, <2>3
<1>5. ASSUME NEW o \in Tx, NEW t \in Tx, Replace(o, t) PROVE Goal
    <2>1. PoolKept(u) /\ signed'[u] = signed[u]
        BY <1>1, <1>5 DEF Replace
    <2>2. CASE u = t
        <3>1. Unused(t) /\ replaces'[t] = o /\ o # NoTx
            BY <1>5, ObjectAssumption
            DEF Replace, NextId, LockInv, TypeOK, RequestTypeOK, Tx
        <3> QED BY <2>1, <2>2, <3>1 DEF Starts
    <2>3. CASE u # t
        BY <1>0, <1>5, <2>1, <2>3 DEF Replace, BeginApproval, Calm, FlowTypeOK
    <2> QED BY <2>2, <2>3
<1>6. ASSUME NEW t \in Tx, GlobalFree(t) PROVE Goal
    BY <1>0, <1>1, <1>6 DEF GlobalFree, Calm, Early, FlowTypeOK
<1>7. ASSUME NEW t \in Tx, TakeNonce(t) PROVE Goal
    BY <1>0, <1>1, <1>7 DEF TakeNonce, Calm, Early, FlowTypeOK
<1>8. ASSUME NEW t \in Tx, AccountAnswer(t) PROVE Goal
    <2>1. PoolKept(u)
        BY <1>8 DEF AccountAnswer, PoolKept
    <2>2. CASE u = t
        BY <1>0, <1>8, <2>1, <2>2 DEF AccountAnswer, IsSigned, FlowTypeOK
    <2>3. CASE u # t
        BY <1>0, <1>8, <2>1, <2>3
        DEF AccountAnswer, Calm, Early, FlowTypeOK, NodeTypeOK
    <2> QED BY <2>2, <2>3
<1>9. ASSUME NEW t \in Tx, Sign(t) \/ SwapBalance(t) PROVE Goal
    BY <1>0, <1>1, <1>9 DEF Sign, SwapBalance, Calm, Early, FlowTypeOK
<1>10. ASSUME NEW t \in Tx, EndApproval(t), UNCHANGED <<pool, signed>>
       PROVE  Goal
    BY <1>0, <1>1, <1>10 DEF EndApproval, Calm, Early, FlowTypeOK
<1>11. ASSUME NEW t \in Tx, AwaitRejects(t) PROVE Goal
    BY <1>10, <1>11 DEF AwaitRejects, FailApproval
<1>12. ASSUME NEW t \in Tx, NEW withHash \in BOOLEAN, BroadcastAnswer(t, withHash)
       PROVE  Goal
    BY <1>10, <1>12 DEF BroadcastAnswer, FailApproval
<1>13. ASSUME NEW h \in Handler, NewBlock(h) \/ CheckStep(h) PROVE Goal
    BY <1>2, <1>13
    DEF NewBlock, CheckStep, CheckPending, CheckDone, ResultMined,
        ResultPending, ResultError
<1>14. ASSUME NEW t \in Tx, NodeAccepts(t) PROVE Goal
    <2>1. CASE u = t
        BY <1>14, <2>1 DEF NodeAccepts, IsSent
    <2>2. CASE u # t
        BY <1>14, <2>2 DEF NodeAccepts, Calm, PoolKept
    <2> QED BY <2>1, <2>2
<1>15. ASSUME \/ \E t \in Tx : Mine(t)
              \/ \E a \in Account : ForeignTransaction(a)
              \/ \E t \in Tx, a \in Account : Request(t, a)
              \/ \E w \in Window : Refresh(w)
              \/ \E w \in Window, t \in Tx : Reject(w, t)
              \/ NetStep \/ Save \/ UNCHANGED vars
       PROVE  Goal
    <2>1. UNCHANGED <<pool, signed, pc>>
        BY <1>15
        DEF Mine, ForeignTransaction, Request, Refresh, Reject, NetStep,
            NetworkUp, SwitchNetwork, ResetAccount, SwitchTo, Save, vars
    <2> QED BY <1>2, <2>1
<1>16. ~ Crash
    BY <1>0 DEF Crash, OuterTypeOK
<1>17. Goal
    <2> HIDE DEF Goal
    <2> QED
        BY <1>3, <1>4, <1>5, <1>6, <1>7, <1>8, <1>9, <1>11, <1>12, <1>13,
           <1>14, <1>15, <1>16
        DEF Next, UserStep, ApprovalStep, NodeStep
<1> QED BY <1>17

\* An answer is never taken back, except by a restart.
LEMMA ClicksAreKept ==
    ASSUME LockInv, [Next]_vars, crashes' = crashes, NEW u \in Tx
    PROVE  ClickKept(u)
<1>0. OuterTypeOK
    BY DEF LockInv, TypeOK
<1> USE DEF storeVars, requestVars, flowVars, trackerVars, nodeVars, netVars,
            outerVars
<1>1. UNCHANGED view => ClickKept(u)
    BY DEF ClickKept
<1>2. ASSUME UserStep PROVE ClickKept(u)
    <2>1. ASSUME NEW w \in Window, Refresh(w) PROVE ClickKept(u)
        BY <1>0, <2>1 DEF Refresh, ClickKept, OuterTypeOK
    <2>2. ASSUME NEW w \in Window, NEW t \in Tx, Click(w, t) PROVE ClickKept(u)
        BY <1>0, <2>2 DEF Click, ClickKept, OuterTypeOK
    <2> QED BY <1>1, <1>2, <2>1, <2>2 DEF UserStep, Approve, Reject, Replace
<1>3. ASSUME NEW t \in Tx, RequestStep(t) \/ ApprovalStep(t) PROVE UNCHANGED view
    BY <1>3
    DEF RequestStep, RequestDenied, AddUnapproved, GasDefaults, BootGas,
        ApprovalStep, GlobalFree, TakeNonce, AccountAnswer, Sign,
        SwapBalance, AwaitRejects, BroadcastAnswer
<1>4. ASSUME NEW h \in Handler, NewBlock(h) \/ CheckStep(h) PROVE UNCHANGED view
    BY <1>4
    DEF NewBlock, CheckStep, CheckPending, CheckDone, ResultMined,
        ResultPending, ResultError
<1>5. ASSUME \/ \E t \in Tx, a \in Account : Request(t, a)
             \/ NodeStep \/ NetStep \/ Save \/ UNCHANGED vars
      PROVE  UNCHANGED view
    BY <1>5
    DEF Request, NodeStep, NodeAccepts, Mine, ForeignTransaction, NetStep,
        NetworkUp, SwitchNetwork, ResetAccount, SwitchTo, Save, vars
<1>6. ~ Crash
    BY <1>0 DEF Crash, OuterTypeOK
<1> QED BY <1>1, <1>2, <1>3, <1>4, <1>5, <1>6 DEF Next

\* Only the user rejects.
LEMMA OnlyUserRejects ==
    ASSUME LockInv, [Next]_vars, NEW u \in Tx, answer'[u] = "rejected"
    PROVE  answer[u] = "rejected" \/ \E w \in Window : Reject(w, u)
<1>0. /\ StoreTypeOK /\ RequestTypeOK /\ store \in Stores /\ heap \in Heaps
    BY DEF LockInv, TypeOK, StoreTypeOK, Stores, Heaps
<1> USE DEF storeVars, requestVars, flowVars, trackerVars, nodeVars, netVars,
            outerVars
<1> DEFINE Goal == answer[u] = "rejected" \/ \E w \in Window : Reject(w, u)
<1>1. UNCHANGED answer => Goal
    OBVIOUS
<1>2. ASSUME NEW st, NEW hp, NEW fin, answer' = Told(st, hp, fin),
             u \in fin => hp[u][st[u]].status # "rejected" \/ st[u] = NoTx
      PROVE  Goal
    BY <1>2 DEF Told, Outcome
<1>3. ASSUME NEW st \in Stores, NEW hp \in Heaps, NEW ts, NEW status,
             status # "rejected", heap' = SetStatus(st, hp, ts, status),
             answer' = Told(st, heap', ts)
      PROVE  Goal
    <2>1. u \in ts /\ st[u] # NoTx => heap'[u][st[u]].status = status
        BY <1>3, SetStatusEffect DEF Stores
    <2> QED BY <1>2, <1>3, <2>1
<1>4. ASSUME NEW t \in Tx, RequestStep(t) PROVE Goal
    <2>1. CASE RequestDenied(t) \/ AddUnapproved(t)
        BY <1>0, <2>1 DEF RequestDenied, AddUnapproved, RequestTypeOK
    <2>2. ASSUME NEW ok \in BOOLEAN, GasDefaults(t, ok) PROVE Goal
        BY <1>0, <2>2 DEF GasDefaults, RequestTypeOK
    <2>3. ASSUME NEW ok \in BOOLEAN, BootGas(t, ok) PROVE Goal
        <3> DEFINE set == [heap EXCEPT ![t][store[t]].loading = FALSE]
        <3>1. CASE store[t] = NoTx \/ ok
            BY <1>1, <2>3, <3>1 DEF BootGas
        <3>2. CASE store[t] # NoTx /\ ~ ok
            <4>1. set \in Heaps
                BY <1>0, <3>2, HeapTypes DEF Stores
            <4>2. /\ heap' = SetStatus(store, set, {t}, "failed")
                  /\ answer' = Told(store, heap', {t})
                BY <2>3, <3>2 DEF BootGas
            <4> HIDE DEF set
            <4> QED BY <1>0, <1>3, <4>1, <4>2
        <3> QED BY <3>1, <3>2
    <2> QED BY <1>4, <2>1, <2>2, <2>3 DEF RequestStep
<1>5. ASSUME NEW w \in Window, NEW t \in Tx, Reject(w, t) PROVE Goal
    <2>1. CASE u = t
        BY <1>5, <2>1
    <2>2. CASE u # t
        <3>1. answer' = Told(store, heap', {t})
            BY <1>5 DEF Reject
        <3> QED BY <1>2, <2>2, <3>1
    <2> QED BY <2>1, <2>2
<1>6. ASSUME UserStep PROVE Goal
    BY <1>1, <1>5, <1>6 DEF UserStep, Refresh, Approve, Replace
<1>7. ASSUME NEW t \in Tx, FailApproval(t) PROVE Goal
    BY <1>0, <1>3, <1>7 DEF FailApproval
<1>8. ASSUME NEW t \in Tx, ApprovalStep(t) PROVE Goal
    <2>1. CASE GlobalFree(t) \/ TakeNonce(t) \/ AccountAnswer(t) \/ Sign(t)
               \/ SwapBalance(t)
        BY <1>1, <2>1 DEF GlobalFree, TakeNonce, AccountAnswer, Sign, SwapBalance
    <2>2. CASE AwaitRejects(t)
        BY <1>7, <2>2 DEF AwaitRejects
    <2>3. ASSUME NEW withHash \in BOOLEAN, BroadcastAnswer(t, withHash)
          PROVE  Goal
        <3>1. CASE store[t] = NoTx
            BY <1>7, <2>3, <3>1 DEF BroadcastAnswer
        <3>2. CASE store[t] # NoTx
            <4>1. store[t] \in Version
                BY <1>0, <3>2 DEF Stores
            <4>2. /\ heap' = [heap EXCEPT ![t][store[t]].status = "submitted",
                                          ![t][store[t]].hash = withHash]
                  /\ answer' = Told(store, heap', {t})
                BY <2>3, <3>2 DEF BroadcastAnswer, Submitted
            <4>3. heap'[t][store[t]].status = "submitted"
                BY <1>0, <4>1, <4>2 DEF Heaps, Meta
            <4> QED BY <1>2, <4>2, <4>3
        <3> QED BY <3>1, <3>2
    <2> QED BY <1>8, <2>1, <2>2, <2>3 DEF ApprovalStep
<1>9. ASSUME NEW h \in Handler, CheckStep(h) PROVE Goal
    <2>1. CASE CheckPending(h)
        <3> DEFINE pending == Here(WithStatus(store, heap, {"submitted"}))
                   noHash  == {x \in pending : ~heap[x][store[x]].hash}
                   taken   == {x \in pending \ noHash : NonceTaken(x)}
                   half    == SetStatus(store, heap, noHash, "failed")
        <3>1. /\ heap' = SetStatus(store, half, taken, "dropped")
              /\ answer' = Told(store, heap', noHash) /\ half \in Heaps
            BY <1>0, <2>1, SetStatusType DEF CheckPending, Status
        <3>2. u \in noHash => store[u] \in Version
            BY <1>0 DEF Here, OnChain, WithStatus, Stored, Stores
        <3>3. u \in noHash => half[u][store[u]].status = "failed"
            BY <1>0, <3>2, SetStatusEffect
        <3> HIDE DEF half, noHash, taken
        <3>4. u \in noHash => heap'[u][store[u]].status \in {"failed", "dropped"}
            BY <3>1, <3>2, <3>3, SetStatusRange
        <3> QED BY <1>2, <3>1, <3>4
    <2>2. CASE CheckDone(h)
        BY <1>1, <2>2 DEF CheckDone
    <2>3. ASSUME NEW t \in Tx,
                 ResultMined(h, t) \/ ResultPending(h, t) \/ ResultError(h, t)
          PROVE  Goal
        BY <1>1, <2>3 DEF ResultMined, ResultPending, ResultError
    <2> QED BY <1>9, <2>1, <2>2, <2>3 DEF CheckStep
<1>10. ASSUME NEW st \in Stores, NEW c, BootCleanUp(st, heap, c) PROVE Goal
    BY <1>0, <1>3, <1>10 DEF BootCleanUp
<1>11. ASSUME NetStep PROVE Goal
    <2>1. CASE NetworkUp
        BY <1>0, <1>10, <2>1 DEF NetworkUp
    <2>2. ASSUME NEW st \in Stores, NEW c, SwitchTo(st, c) PROVE Goal
        <3>1. ClearUnapproved(st, heap) \in Stores
            BY StoreTypes
        <3> QED BY <1>10, <2>2, <3>1 DEF SwitchTo
    <2>3. ASSUME NEW a \in Account, ResetAccount(a) PROVE Goal
        BY <1>0, <2>2, <2>3, StoreTypes DEF ResetAccount
    <2> QED BY <1>0, <1>11, <2>1, <2>2, <2>3 DEF NetStep, SwitchNetwork
<1>12. ASSUME Crash PROVE Goal
    BY <1>0, <1>12 DEF Crash
<1>13. ASSUME \/ \E t \in Tx, a \in Account : Request(t, a)
              \/ \E h \in Handler : NewBlock(h)
              \/ NodeStep \/ Save \/ UNCHANGED vars
       PROVE  Goal
    BY <1>0, <1>1, <1>13
    DEF Request, NewBlock, NodeStep, NodeAccepts, Mine, ForeignTransaction,
        Save, vars, RequestTypeOK
<1>14. Goal
    <2> HIDE DEF Goal
    <2> QED BY <1>4, <1>6, <1>8, <1>9, <1>11, <1>12, <1>13 DEF Next
<1> QED BY <1>14

\* What was sent stays what was signed last.
LEMMA SentStep ==
    ASSUME LockInv, [Next]_vars, crashes' = crashes, ReplacementIsNotOffered,
           SentIsSigned
    PROVE  SentIsSigned'
<1> SUFFICES ASSUME NEW u \in Tx
             PROVE  /\ ~ Handled(u)' => pc'[u] = "idle" /\ Unsent(u)'
                    /\ AnsweredOnce(u)' =>
                          /\ pc'[u] \in Early => Unsent(u)'
                          /\ \A p \in pool' : p[1] = u => p = <<u, signed'[u]>>
                          /\ answer'[u] = "rejected" => pc'[u] = "idle" /\ Unsent(u)'
                    /\ answer'[u] = "rejected" => Handled(u)'
    BY DEF SentIsSigned, Early, Unsent
<1>0. /\ ~ Handled(u) => pc[u] = "idle" /\ Unsent(u)
      /\ AnsweredOnce(u) =>
            /\ pc[u] \in Early => Unsent(u)
            /\ \A p \in pool : p[1] = u => p = <<u, signed[u]>>
            /\ answer[u] = "rejected" => pc[u] = "idle" /\ Unsent(u)
      /\ answer[u] = "rejected" => Handled(u)
      /\ replaces[u] # NoTx => ~ Unused(u) /\ \A w \in Window : view[w][u] = "hidden"
      /\ Unused(u) => \A w \in Window : view[w][u] = "hidden"
    BY DEF SentIsSigned, Early, Unsent, ReplacementIsNotOffered, LockInv,
       UnusedIsAbsent
<1>1. ClickKept(u)
    BY ClicksAreKept
<1>2. AnsweredOnce(u)' => AnsweredOnce(u)
    BY <1>1 DEF AnsweredOnce, ClickKept
<1>3. ~ Handled(u)' => ~ Handled(u)
    <2>1. RequestKept(u) \/ replaces'[u] # NoTx
        <3>1. ASSUME NEW o \in Tx, Replace(o, u) PROVE replaces'[u] # NoTx
            BY <3>1, ObjectAssumption
            DEF Replace, LockInv, TypeOK, RequestTypeOK, Tx
        <3> QED BY <3>1, RequestIsKept
    <2> QED BY <1>1, <2>1 DEF Handled, ClickKept, RequestKept
\* The first answer is to a transaction for which nothing was sent.
<1>8. ASSUME NEW w \in Window, view[w][u] = "shown", view'[w][u] = "clicked",
             AnsweredOnce(u)'
      PROVE  ~ Handled(u)
    BY <1>0, <1>1, <1>8 DEF AnsweredOnce, ClickKept, Handled
\* A rejected one was rejected before, or is so now.
<1>9. ASSUME answer'[u] = "rejected"
      PROVE  /\ Handled(u)'
             /\ AnsweredOnce(u)' =>
                   \/ answer[u] = "rejected"
                   \/ /\ ~ Handled(u) /\ pc'[u] = "idle" /\ Unsent(u)'
    <2>1. ASSUME NEW w \in Window, Reject(w, u)
          PROVE  /\ view[w][u] = "shown" /\ view'[w][u] = "clicked"
                 /\ pc' = pc /\ pool' = pool
        BY <2>1 DEF Reject, Click, flowVars, nodeVars, LockInv, TypeOK, OuterTypeOK
    <2>2. ASSUME NEW w \in Window, Reject(w, u)
          PROVE  /\ Handled(u)'
                 /\ AnsweredOnce(u)' => ~ Handled(u) /\ pc'[u] = "idle" /\ Unsent(u)'
        BY <1>0, <1>8, <2>1, <2>2 DEF Handled, Unsent
    <2> QED BY <1>0, <1>3, <1>9, <2>2, OnlyUserRejects
<1>4. CASE Calm(u)
    <2>1. Unsent(u) => Unsent(u)'
        BY <1>4 DEF Calm, PoolKept, Unsent
    <2>2. (\A p \in pool : p[1] = u => p = <<u, signed[u]>>)
          => \A p \in pool' : p[1] = u => p = <<u, signed'[u]>>
        BY <1>4 DEF Calm, PoolKept
    <2> QED BY <1>0, <1>2, <1>3, <1>4, <1>9, <2>1, <2>2 DEF Calm
<1>5. CASE Starts(u)
    <2>1. Handled(u)'
        BY <1>5 DEF Starts, Handled
    <2>2. AnsweredOnce(u)' => ~ Handled(u)
        <3>1. CASE Unused(u)
            BY <1>0, <3>1 DEF Handled
        <3> QED BY <1>5, <1>8, <3>1 DEF Starts
    <2>3. AnsweredOnce(u)' => Unsent(u)'
        BY <1>0, <1>5, <2>2 DEF Starts, PoolKept, Unsent
    <2>4. AnsweredOnce(u)' /\ answer'[u] = "rejected" => pc'[u] = "idle"
        BY <1>0, <1>9, <2>2
    <2> QED BY <2>1, <2>3, <2>4 DEF Unsent
<1>6. CASE IsSigned(u)
    <2>1. AnsweredOnce(u)' => Unsent(u)'
        BY <1>0, <1>2, <1>6 DEF IsSigned, Early, PoolKept, Unsent
    <2>2. Handled(u)'
        BY <1>0, <1>3, <1>6 DEF IsSigned
    <2> QED BY <1>0, <1>2, <1>6, <1>9, <2>1, <2>2 DEF IsSigned, Unsent
<1>7. CASE IsSent(u)
    <2>1. Handled(u)'
        BY <1>0, <1>3, <1>7 DEF IsSent
    <2> QED BY <1>0, <1>2, <1>7, <1>9, <2>1 DEF IsSent, Early
<1> QED BY <1>4, <1>5, <1>6, <1>7, SendEffect

(***************************************************************************)
(* What the user confirmed in one window is never sent with two payload    *)
(* nonces, and what is reported as rejected is not sent at all, for any    *)
(* number of transactions, windows, senders and networks, with network     *)
(* switches, account resets, typed nonces, speed-ups and every failure of  *)
(* a call, as long as the page did not crash: the payload is signed once,  *)
(* because no path leads from a finished approval back into                *)
(* approveTransaction.                                                     *)
(***************************************************************************)
THEOREM AlwaysSentAsAnswered == Spec => []SentAsAnswered
<1>1. Init => SentInv
    BY ObjectAssumption
    DEF Init, SentInv, ReplacementIsNotOffered, SentIsSigned, AnsweredOnce
<1>2. LockInv /\ ApprovalInv /\ SentInv /\ [Next]_vars => SentInv'
    <2> SUFFICES ASSUME LockInv, ApprovalInv, SentInv, [Next]_vars, crashes' = 0
                 PROVE  (ReplacementIsNotOffered /\ SentIsSigned)'
        BY DEF SentInv
    <2>1. crashes' = crashes \/ Crash
        BY DEF Next, vars, outerVars, RequestStep, ApprovalStep, CheckStep,
           UserStep, NodeStep, NetStep, Request, RequestDenied, AddUnapproved,
           GasDefaults, BootGas, Refresh, Approve, Reject, Replace, GlobalFree,
           TakeNonce, AccountAnswer, Sign, SwapBalance, AwaitRejects,
           BroadcastAnswer, NewBlock, CheckPending, CheckDone, ResultMined,
           ResultPending, ResultError, NodeAccepts, Mine, ForeignTransaction,
           NetworkUp, SwitchNetwork, ResetAccount, SwitchTo, Save
    <2>2. crashes' = crashes
        BY <2>1 DEF Crash, LockInv, TypeOK, OuterTypeOK
    <2>3. ReplacementIsNotOffered /\ SentIsSigned
        BY <2>2 DEF SentInv
    <2> QED BY <2>2, <2>3, NotOfferedStep, SentStep
<1>3. SentInv => SentAsAnswered
    BY DEF SentInv, SentIsSigned, SentAsAnswered
<1>4. LockInv /\ ApprovalInv /\ [Next]_vars => ApprovalInv'
    BY ClickedStep, ApprovalStepKeeps DEF ApprovalInv
<1> QED BY <1>1, <1>2, <1>3, <1>4, ApprovalInit, LockInvariant, PTL DEF Spec
=============================================================================

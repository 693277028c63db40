---------------------------- MODULE TxLifeProofs ----------------------------
(***************************************************************************)
(* What becomes of a transaction and of its nonce, for any number of       *)
(* transactions, senders, windows and block handlers, with nonces the user *)
(* types and with speed-ups and cancellations.                             *)
(*                                                                         *)
(* A step does one of a few things to a transaction: the predicates of the *)
(* first part name them, StepEffect shows that every action of             *)
(* TxController does one of them to each transaction, and the invariants   *)
(* are preserved by each of them.                                          *)
(***************************************************************************)
EXTENDS TxLife, TxControllerProofs

\* The object of t after the step.
Later(t) == heap'[t][ref'[t]]

SameRest(t) == /\ Later(t).nonce = Object(t).nonce
               /\ Later(t).custom = Object(t).custom
               /\ Later(t).hash = Object(t).hash
               /\ Later(t).lastGasPrice = Object(t).lastGasPrice

SameMeta(t) == Later(t).status = Object(t).status /\ SameRest(t)

SameFlow(t) == pc'[t] = pc[t] /\ ref'[t] = ref[t]

\* What a step that does not create or answer t does to its surroundings.
Frame(t) ==
    /\ replaces'[t] = replaces[t] /\ (from'[t] = from[t] \/ Unused(t))
    /\ \A w \in Window :
          \/ view'[w][t] = view[w][t]
          \/ /\ view[w][t] # "clicked" /\ view'[w][t] = "hidden"
          \/ /\ view[w][t] # "clicked" /\ view'[w][t] = "shown"
             /\ store[t] # NoTx /\ Object(t).status = "unapproved"
    /\ \/ stage'[t] = stage[t]
       \/ stage[t] # "done" /\ stage'[t] \in {"gas", "done"}
       \/ stage[t] = "new" /\ stage'[t] = "permission"

\* No pending check starts to ask about t.
AskedKept(t) ==
    \A h \in Handler : asked'[h][t] # NoTx =>
        asked'[h][t] = asked[h][t] /\ hpc'[h] = hpc[h]

\* Only a dapp that listens is told something.
Heard(t) == answer'[t] = answer[t] \/ answer[t] = "waiting"

\* Nothing, or: evicted in a final state, written back by a failed check,
\* asked about, or the dapp's request went on.
Rested(t) ==
    /\ Frame(t) /\ SameFlow(t) /\ SameMeta(t)
    /\ \/ store'[t] = store[t]
       \/ store'[t] = NoTx /\ Object(t).status \in FinalStates
       \/ \E h \in Handler : asked[h][t] # NoTx /\ store'[t] = asked[h][t]
    /\ \/ answer'[t] = answer[t]
       \/ /\ stage[t] = "new" /\ stage'[t] = "permission"
          /\ answer'[t] = "pending"
       \/ /\ stage[t] # "done" /\ stage'[t] = "done"
          /\ answer'[t] \in {"waiting", "error"}
    /\ \A h \in Handler : asked'[h][t] # NoTx =>
          \/ asked'[h][t] = asked[h][t] /\ hpc'[h] = hpc[h]
          \/ /\ hpc'[h] = "checking" /\ asked'[h][t] = store[t]
             /\ Object(t).status = "submitted" /\ Object(t).hash

\* addUnapprovedTransaction stored it.
Added(t) ==
    /\ Frame(t) /\ SameFlow(t) /\ AskedKept(t) /\ answer'[t] = answer[t]
    /\ stage[t] = "permission" /\ stage'[t] = "gas"
    /\ store'[t] = Original /\ ref[t] = Original /\ Later(t) = FreshMeta

\* Its approval began: from a window, or as a speed-up or cancellation.
Begun(t) ==
    /\ ~ Handled(t) /\ AskedKept(t) /\ answer'[t] = answer[t]
    /\ pc'[t] = "global" /\ ref'[t] # NoTx /\ store'[t] = ref'[t]
    /\ Later(t).status = "approved"
    /\ \/ /\ replaces'[t] = replaces[t] /\ from'[t] = from[t] /\ stage'[t] = stage[t]
          /\ \E w \in Window :
                /\ view[w][t] = "shown" /\ view'[w][t] = "clicked"
                /\ \A v \in Window \ {w} : view'[v][t] = view[v][t]
          /\ Later(t).nonce = NoNonce
          /\ Later(t).custom \in CustomNonces \union {NoNonce}
          /\ Later(t).lastGasPrice = Object(t).lastGasPrice
       \/ /\ Unused(t) /\ stage'[t] = "done" /\ replaces'[t] # NoTx
          /\ ref'[t] = Original
          /\ \A w \in Window : view'[w][t] = view[w][t]
          /\ Later(t).nonce \in Nat /\ Later(t).custom = NoNonce
          /\ Later(t).lastGasPrice

\* The user rejected it.
Refused(t) ==
    /\ ~ Handled(t) /\ AskedKept(t) /\ SameFlow(t) /\ SameRest(t) /\ Heard(t)
    /\ replaces'[t] = replaces[t] /\ from'[t] = from[t] /\ stage'[t] = stage[t]
    /\ \E w \in Window :
          /\ view[w][t] = "shown" /\ view'[w][t] = "clicked"
          /\ \A v \in Window \ {w} : view'[v][t] = view[v][t]
    /\ store'[t] = NoTx
    /\ \/ /\ store[t] = NoTx /\ Later(t).status = Object(t).status
          /\ answer'[t] = answer[t]
       \/ Later(t).status = "rejected" /\ answer'[t] \in {answer[t], "rejected"}

\* Its approval went on: in line for a mutex, or with the nonce lock.
Moved(t) ==
    /\ Frame(t) /\ AskedKept(t) /\ ref'[t] = ref[t] /\ SameRest(t)
    /\ \/ /\ \/ pc[t] = "global" /\ pc'[t] = "address"
             \/ pc[t] = "account" /\ pc'[t] = "sign"
             \/ pc[t] = "balance" /\ pc'[t] = "broadcast"
          /\ Later(t).status = Object(t).status
       \/ /\ pc[t] = "sign" /\ pc'[t] \in {"balance", "broadcast"}
          /\ Later(t).status = "signed"
    /\ store'[t] \in {store[t], ref[t]} /\ answer'[t] = answer[t]

\* Its approval took a nonce.
Took(t) ==
    /\ Frame(t) /\ AskedKept(t) /\ ref'[t] = ref[t]
    /\ pc[t] = "address" /\ pc'[t] = "account"
    /\ Later(t).nonce \in Nat
    /\ Object(t).lastGasPrice /\ Object(t).custom = NoNonce =>
          Later(t).nonce = Object(t).nonce
    /\ Later(t).status = Object(t).status /\ Later(t).custom = Object(t).custom
    /\ Later(t).lastGasPrice = Object(t).lastGasPrice
    /\ store'[t] = ref[t] /\ answer'[t] = answer[t]

\* Its approval ended: failed, failed without an object, or submitted.
Ended(t) ==
    /\ Frame(t) /\ AskedKept(t) /\ ref'[t] = ref[t] /\ Heard(t)
    /\ pc[t] \in Holding \union {"address"} /\ pc'[t] = "idle"
    /\ store'[t] = store[t]
    /\ Later(t).nonce = Object(t).nonce /\ Later(t).custom = Object(t).custom
    /\ Later(t).lastGasPrice = Object(t).lastGasPrice
    /\ \/ /\ Later(t).status = "failed" /\ answer'[t] \in {answer[t], "failed"}
       \/ /\ store[t] = NoTx /\ SameMeta(t) /\ answer'[t] = answer[t]
       \/ /\ pc[t] = "broadcast" /\ store[t] # NoTx
          /\ Later(t).status = "submitted"
          /\ \/ answer'[t] \in {answer[t], "noHash"}
             \/ answer'[t] = "hash" /\ Later(t).hash

\* Transaction u is confirmed after the step, with the sender and nonce of t.
Twin(t, u) ==
    /\ u # t /\ from'[u] = from'[t] /\ Later(u).nonce = Later(t).nonce
    /\ Later(u).status = "confirmed"

\* That one was confirmed while t was submitted, or the node just said it is.
Ousts(u, t) ==
    /\ store[u] # NoTx /\ from[u] = from[t] /\ Object(u).nonce = Object(t).nonce
    /\ \/ Object(u).status = "confirmed" /\ Object(t).status = "submitted"
       \/ \E h \in Handler : asked[h][u] # NoTx

\* A pending check dropped it, found it without a hash, or confirmed it.
Dropped(t) ==
    /\ Frame(t) /\ SameFlow(t) /\ AskedKept(t) /\ SameRest(t)
    /\ store'[t] = store[t] /\ store[t] # NoTx /\ answer'[t] = answer[t]
    /\ Object(t).nonce \in Nat /\ Later(t).status = "dropped"
    /\ \E u \in Tx : Twin(t, u) /\ Ousts(u, t)

Lost(t) ==
    /\ Frame(t) /\ SameFlow(t) /\ AskedKept(t) /\ SameRest(t) /\ Heard(t)
    /\ store'[t] = store[t] /\ answer'[t] \in {answer[t], "failed"}
    /\ Object(t).status = "submitted" /\ ~ Object(t).hash
    /\ Later(t).status = "failed"

Confirmed(t) ==
    /\ Frame(t) /\ SameFlow(t) /\ SameRest(t)
    /\ store'[t] = store[t] /\ answer'[t] = answer[t]
    /\ \E h \in Handler : asked[h][t] # NoTx
    /\ \A h \in Handler : asked'[h][t] = NoTx
    /\ <<t, signed[t]>> \in mined /\ Later(t).status = "confirmed"

Effect(t) == \/ Rested(t) \/ Added(t) \/ Begun(t) \/ Refused(t) \/ Moved(t)
             \/ Took(t) \/ Ended(t) \/ Dropped(t) \/ Lost(t) \/ Confirmed(t)

-----------------------------------------------------------------------------
\* The objects are well typed.
LEMMA ObjectType ==
    ASSUME LockInv
    PROVE  /\ heap \in Heaps /\ store \in Stores /\ ref \in [Tx -> Version]
           /\ \A t \in Tx : Object(t) \in Meta
BY DEF LockInv, TypeOK, StoreTypeOK, FlowTypeOK, Heaps, Stores, Object

\* A status change leaves the other fields of an object alone.
LEMMA SetStatusFields ==
    ASSUME NEW hp \in Heaps, NEW t \in Tx, NEW v \in Version
    PROVE  \A st, ts, status :
              /\ SetStatus(st, hp, ts, status)[t][v].status
                     = IF t \in ts /\ v = st[t] THEN status ELSE hp[t][v].status
              /\ SetStatus(st, hp, ts, status)[t][v].nonce = hp[t][v].nonce
              /\ SetStatus(st, hp, ts, status)[t][v].custom = hp[t][v].custom
              /\ SetStatus(st, hp, ts, status)[t][v].hash = hp[t][v].hash
              /\ SetStatus(st, hp, ts, status)[t][v].lastGasPrice
                     = hp[t][v].lastGasPrice
<1> SUFFICES ASSUME NEW st, NEW ts, NEW status
             PROVE
              /\ SetStatus(st, hp, ts, status)[t][v].status
                     = IF t \in ts /\ v = st[t] THEN status ELSE hp[t][v].status
              /\ SetStatus(st, hp, ts, status)[t][v].nonce = hp[t][v].nonce
              /\ SetStatus(st, hp, ts, status)[t][v].custom = hp[t][v].custom
              /\ SetStatus(st, hp, ts, status)[t][v].hash = hp[t][v].hash
              /\ SetStatus(st, hp, ts, status)[t][v].lastGasPrice
                     = hp[t][v].lastGasPrice
    OBVIOUS
<1> DEFINE m == hp[t][v]
           n == SetStatus(st, hp, ts, status)[t][v]
<1>1. m \in Meta
    BY DEF Heaps
<1>2. n = IF t \in ts /\ v = st[t] THEN [m EXCEPT !.status = status] ELSE m
    BY DEF SetStatus
<1> HIDE DEF m, n
<1> SUFFICES /\ n.status = IF t \in ts /\ v = st[t] THEN status ELSE m.status
             /\ n.nonce = m.nonce /\ n.custom = m.custom
             /\ n.hash = m.hash /\ n.lastGasPrice = m.lastGasPrice
    BY DEF m, n
<1> QED BY <1>1, <1>2 DEF Meta

\* A step that changes neither objects nor approvals, and is no user's.
LEMMA QuietRests ==
    ASSUME LockInv, NEW t \in Tx, SameFlow(t), store'[t] = store[t], SameMeta(t),
           UNCHANGED <<replaces, from, view, stage, answer, asked>>,
           \A h \in Handler : asked[h][t] # NoTx => hpc'[h] = hpc[h]
    PROVE  Rested(t)
BY DEF Rested, Frame

\* The object is the same when heap and flow are.
LEMMA SameObject ==
    ASSUME NEW t \in Tx, SameFlow(t), heap'[t][ref[t]] = heap[t][ref[t]]
    PROVE  SameMeta(t)
BY DEF SameFlow, SameMeta, SameRest, Later, Object


\* What a status change does to the object of a standing approval.
LEMMA StatusChange ==
    ASSUME NEW hp \in Heaps, NEW u \in Tx, ref[u] \in Version, SameFlow(u),
           hp[u][ref[u]] = heap[u][ref[u]]
    PROVE  \A st, ts, status : heap' = SetStatus(st, hp, ts, status) =>
              /\ SameRest(u)
              /\ Later(u).status = IF u \in ts /\ ref[u] = st[u]
                                   THEN status ELSE Object(u).status
<1> SUFFICES ASSUME NEW st, NEW ts, NEW status,
                    heap' = SetStatus(st, hp, ts, status)
             PROVE  /\ SameRest(u)
                    /\ Later(u).status = IF u \in ts /\ ref[u] = st[u]
                                         THEN status ELSE Object(u).status
    OBVIOUS
<1>1. /\ heap'[u][ref[u]].status
            = IF u \in ts /\ ref[u] = st[u] THEN status ELSE hp[u][ref[u]].status
      /\ heap'[u][ref[u]].nonce = hp[u][ref[u]].nonce
      /\ heap'[u][ref[u]].custom = hp[u][ref[u]].custom
      /\ heap'[u][ref[u]].hash = hp[u][ref[u]].hash
      /\ heap'[u][ref[u]].lastGasPrice = hp[u][ref[u]].lastGasPrice
    BY SetStatusFields
<1> QED BY <1>1 DEF SameRest, SameFlow, Later, Object

\* A window that answers t undisturbed is the first to do so.
LEMMA FirstAnswer ==
    ASSUME LifeInv, LockInv, Undisturbed', NEW t \in Tx, NEW w \in Window, Click(w, t)
    PROVE  /\ ~ Handled(t) /\ replaces[t] = NoTx
           /\ view[w][t] = "shown" /\ view'[w][t] = "clicked"
           /\ \A v \in Window \ {w} : view'[v][t] = view[v][t]
           /\ \A u \in Tx \ {t}, v \in Window : view'[v][u] = view[v][u]
<1>1. view \in [Window -> [Tx -> {"hidden", "shown", "clicked"}]]
    BY DEF LockInv, TypeOK, OuterTypeOK
<1>2. /\ view[w][t] = "shown" /\ view'[w][t] = "clicked"
      /\ \A v \in Window \ {w} : view'[v][t] = view[v][t]
      /\ \A u \in Tx \ {t}, v \in Window : view'[v][u] = view[v][u]
    BY <1>1 DEF Click
<1>3. replaces[t] = NoTx
    BY <1>2 DEF LifeInv, ReplacementIsSilent
<1>4. \A v \in Window : view[v][t] # "clicked"
    BY <1>2 DEF Undisturbed
<1> QED BY <1>2, <1>3, <1>4 DEF Handled

\* The store's object is the object.
LEMMA StoredObject ==
    ASSUME LifeInv, NEW t \in Tx, store[t] # NoTx
    PROVE  store[t] = ref[t] /\ heap[t][store[t]] = Object(t)
BY DEF LifeInv, OneObject, Object

\* At the history limit only settled transactions are evicted.
LEMMA EvictedIsFinal ==
    ASSUME LockInv, LifeInv, NEW t \in Tx, NEW u \in Tx \ {t},
           store' = AddTransaction(store, heap, t)
    PROVE  \/ store'[u] = store[u]
           \/ store'[u] = NoTx /\ Object(u).status \in FinalStates
<1>1. u \in Evictable(store, heap) =>
          store[u] # NoTx /\ heap[u][store[u]].status \in FinalStates
    BY DEF Evictable, WithStatus, Stored
<1>2. store'[u] = IF u \in Evictable(store, heap) THEN NoTx ELSE store[u]
    BY DEF AddTransaction
<1> QED BY <1>1, <1>2, StoredObject

\* Requests: the actions of newUnapprovedTransaction.
LEMMA RequestEffect ==
    ASSUME LockInv, LifeInv, NEW t \in Tx,
           \/ \E a \in Account : Request(t, a)
           \/ RequestStep(t)
    PROVE  \A u \in Tx : Effect(u)
<1> USE DEF storeVars, requestVars, flowVars, trackerVars, nodeVars, netVars,
            outerVars
<1>0. /\ heap \in Heaps /\ store \in Stores /\ ref \in [Tx -> Version]
      /\ RequestTypeOK /\ FlowTypeOK
    BY ObjectType DEF LockInv, TypeOK
<1> SUFFICES ASSUME NEW u \in Tx PROVE Effect(u)
    OBVIOUS
<1>1. ASSUME NEW a \in Account, Request(t, a) PROVE Rested(u)
    <2>1. SameFlow(u) /\ SameMeta(u) /\ store'[u] = store[u]
        BY <1>1, SameObject DEF Request, SameFlow
    <2>2. stage[t] = "new" /\ Unused(t)
        BY <1>1 DEF Request, NextId, LockInv, UnusedIsAbsent
    <2>3. Frame(u)
        BY <1>0, <1>1, <2>2 DEF Request, Frame, RequestTypeOK
    <2>4. \/ answer'[u] = answer[u]
          \/ /\ stage[u] = "new" /\ stage'[u] = "permission"
             /\ answer'[u] = "pending"
        BY <1>0, <1>1, <2>2 DEF Request, RequestTypeOK
    <2> QED BY <1>1, <2>1, <2>3, <2>4 DEF Request, Rested
<1>2. ASSUME RequestDenied(t) PROVE Rested(u)
    <2>1. SameFlow(u) /\ SameMeta(u) /\ store'[u] = store[u]
        BY <1>2, SameObject DEF RequestDenied, SameFlow
    <2>2. Frame(u)
        BY <1>0, <1>2 DEF RequestDenied, Frame, RequestTypeOK
    <2>3. \/ answer'[u] = answer[u]
          \/ /\ stage[u] # "done" /\ stage'[u] = "done"
             /\ answer'[u] \in {"waiting", "error"}
        BY <1>0, <1>2 DEF RequestDenied, RequestTypeOK
    <2> QED BY <1>2, <2>1, <2>2, <2>3 DEF RequestDenied, Rested
<1>3. ASSUME AddUnapproved(t) PROVE Effect(u)
    <2>1. SameFlow(u) /\ Frame(u) /\ AskedKept(u) /\ answer'[u] = answer[u]
        BY <1>0, <1>3 DEF AddUnapproved, SameFlow, Frame, AskedKept, RequestTypeOK
    <2>2. CASE u = t
        <3>1. stage[t] = "permission" /\ stage'[t] = "gas"
            BY <1>0, <1>3 DEF AddUnapproved, RequestTypeOK
        <3>2. ref[t] = Original
            BY <3>1 DEF LifeInv, NotYetSeen, Handled, UnhandledIsFresh
        <3>3. store'[t] = Original /\ heap'[t][Original] = FreshMeta
            BY <1>0, <1>3 DEF AddUnapproved, AddTransaction, Heaps, Version
        <3> QED BY <2>1, <2>2, <3>1, <3>2, <3>3
            DEF Effect, Added, Later, SameFlow
    <2>3. CASE u # t
        <3>1. SameMeta(u)
            BY <1>0, <1>3, <2>1, <2>3, SameObject DEF AddUnapproved, Heaps
        <3>2. \/ store'[u] = store[u]
              \/ store'[u] = NoTx /\ Object(u).status \in FinalStates
            BY <1>3, <2>3, EvictedIsFinal DEF AddUnapproved
        <3> QED BY <1>3, <2>1, <3>1, <3>2 DEF AddUnapproved, Effect, Rested
    <2> QED BY <2>2, <2>3
<1>4. ASSUME NEW ok \in BOOLEAN, GasDefaults(t, ok) PROVE Rested(u)
    <2>1. SameFlow(u) /\ store'[u] = store[u] /\ Frame(u)
        BY <1>0, <1>4 DEF GasDefaults, SameFlow, Frame, RequestTypeOK
    <2>2. \/ answer'[u] = answer[u]
          \/ /\ stage[u] # "done" /\ stage'[u] = "done"
             /\ answer'[u] \in {"waiting", "error"}
        BY <1>0, <1>4 DEF GasDefaults, RequestTypeOK
    <2>3. SameMeta(u)
        <3>1. CASE heap' = heap
            BY <2>1, <3>1, SameObject
        <3>2. CASE store[t] # NoTx
            <4> DEFINE m == heap[t][store[t]]
            <4>1. store[t] \in Version /\ m \in Meta
                BY <1>0, <3>2 DEF Stores, Heaps
            <4>2. heap' = [heap EXCEPT ![t][store[t]].loading = FALSE]
                BY <1>4, <3>2 DEF GasDefaults
            <4>3. heap'[t][store[t]] = [m EXCEPT !.loading = FALSE]
                BY <1>0, <4>1, <4>2 DEF Heaps
            <4>4. u # t \/ ref[u] # store[t] => heap'[u][ref[u]] = heap[u][ref[u]]
                BY <1>0, <4>1, <4>2 DEF Heaps
            <4>5. LET n == heap'[t][store[t]] IN
                  /\ n.status = m.status /\ n.nonce = m.nonce /\ n.hash = m.hash
                  /\ n.custom = m.custom /\ n.lastGasPrice = m.lastGasPrice
                <5> HIDE DEF m
                <5> QED BY <4>1, <4>3 DEF Meta
            <4>6. CASE u = t /\ ref[u] = store[t]
                BY <2>1, <4>5, <4>6
                DEF SameMeta, SameRest, SameFlow, Later, Object
            <4> QED BY <2>1, <4>4, <4>6, SameObject
        <3> QED BY <1>4, <3>1, <3>2 DEF GasDefaults
    <2> QED BY <1>4, <2>1, <2>2, <2>3 DEF GasDefaults, Rested
<1>5. ASSUME NEW ok \in BOOLEAN, BootGas(t, ok) PROVE FALSE
    BY <1>5 DEF BootGas, LifeInv, OneNetwork
<1> QED BY <1>1, <1>2, <1>3, <1>4, <1>5 DEF RequestStep, Effect

\* Answers and replacements: the actions of the user.
LEMMA UserEffect ==
    ASSUME LockInv, LockInv', LifeInv, Undisturbed', UserStep
    PROVE  \A u \in Tx : Effect(u)
<1> USE DEF storeVars, requestVars, flowVars, trackerVars, nodeVars, netVars,
            outerVars
<1>0. /\ heap \in Heaps /\ store \in Stores /\ ref \in [Tx -> Version]
      /\ RequestTypeOK /\ FlowTypeOK /\ OuterTypeOK
    BY ObjectType DEF LockInv, TypeOK
<1> SUFFICES ASSUME NEW u \in Tx PROVE Effect(u)
    OBVIOUS
<1>1. ASSUME NEW w \in Window, Refresh(w) PROVE Rested(u)
    <2>1. SameFlow(u) /\ SameMeta(u)
        BY <1>1, SameObject DEF Refresh, SameFlow
    <2>2. u \in Here(WithStatus(store, heap, {"unapproved"})) =>
              store[u] # NoTx /\ Object(u).status = "unapproved"
        BY StoredObject DEF Here, OnChain, WithStatus, Stored
    <2>3. \A v \in Window :
             \/ view'[v][u] = view[v][u]
             \/ /\ view[v][u] # "clicked" /\ view'[v][u] = "hidden"
             \/ /\ view[v][u] # "clicked" /\ view'[v][u] = "shown"
                /\ store[u] # NoTx /\ Object(u).status = "unapproved"
        BY <1>0, <1>1, <2>2 DEF Refresh, OuterTypeOK
    <2>4. Frame(u)
        BY <1>1, <2>3 DEF Refresh, Frame
    <2> QED BY <1>1, <2>1, <2>4 DEF Refresh, Rested
<1>2. ASSUME NEW w \in Window, NEW t \in Tx,
             NEW custom \in CustomNonces \union {NoNonce}, Approve(w, t, custom)
      PROVE  Effect(u)
    <2> DEFINE copy == WindowCopy(t, custom)
               hp   == [heap EXCEPT ![t][w] = copy]
    <2>1. /\ ~ Handled(t) /\ replaces[t] = NoTx
          /\ view[w][t] = "shown" /\ view'[w][t] = "clicked"
          /\ \A v \in Window \ {w} : view'[v][t] = view[v][t]
          /\ \A x \in Tx \ {t}, v \in Window : view'[v][x] = view[v][x]
        BY <1>2, FirstAnswer DEF Approve
    <2>2. pc[t] = "idle" /\ ref[t] = Original
        BY <2>1 DEF LifeInv, UnhandledIsFresh
    <2>3. w \in Version /\ w # NoTx
        BY ObjectAssumption DEF Version
    <2>4. store' = [store EXCEPT ![t] = w] /\ store'[t] = w
        BY <1>0, <1>2 DEF Approve, Put, Stores
    <2>5. /\ heap' = SetStatus(store', hp, {t}, "approved")
          /\ ref' = [ref EXCEPT ![t] = store'[t]]
          /\ pc' = [pc EXCEPT ![t] = "global"]
        BY <1>2, <2>2 DEF Approve, BeginApproval, InProcess, Holding
    <2>6. hp \in Heaps
        BY <1>0, <2>3, HeapTypes, NewMetaTypes
    <2>7. AskedKept(u) /\ answer'[u] = answer[u]
        BY <1>2 DEF Approve, AskedKept
    <2>8. CASE u = t
        <3>1. hp[t][w] = copy
            BY <1>0, <2>3 DEF Heaps
        <3>2. /\ copy.nonce = NoNonce /\ copy.custom = custom
              /\ copy.lastGasPrice = heap[t][Original].lastGasPrice
            <4> DEFINE old == heap[t][Original]
            <4>1. old \in Meta
                BY <1>0 DEF Heaps, Version
            <4>2. copy = [old EXCEPT !.status = "unapproved",
                     !.nonce = NoNonce, !.hash = FALSE, !.custom = custom]
                BY DEF WindowCopy
            <4> HIDE DEF old, copy
            <4>3. /\ copy.nonce = NoNonce /\ copy.custom = custom
                  /\ copy.lastGasPrice = old.lastGasPrice
                BY <4>1, <4>2 DEF Meta
            <4> QED BY <4>3 DEF old
        <3>3. /\ heap'[t][w].status = "approved"
              /\ heap'[t][w].nonce = hp[t][w].nonce
              /\ heap'[t][w].custom = hp[t][w].custom
              /\ heap'[t][w].lastGasPrice = hp[t][w].lastGasPrice
            <4>1. store'[t] = w
                BY <2>4
            <4> HIDE DEF hp
            <4> QED BY <2>3, <2>5, <2>6, <4>1, SetStatusFields
        <3>4. /\ Later(t).status = "approved" /\ Later(t).nonce = NoNonce
              /\ Later(t).custom = custom
              /\ Later(t).lastGasPrice = Object(t).lastGasPrice
              /\ pc'[t] = "global" /\ ref'[t] # NoTx /\ store'[t] = ref'[t]
            <4> HIDE DEF hp, copy
            <4> QED BY <1>0, <2>2, <2>3, <2>4, <2>5, <3>1, <3>2, <3>3
                    DEF Later, Object, FlowTypeOK
        <3>5. from'[t] = from[t] /\ stage'[t] = stage[t] /\ replaces'[t] = replaces[t]
            BY <1>2 DEF Approve
        <3> QED BY <2>1, <2>7, <2>8, <3>4, <3>5 DEF Effect, Begun
    <2>9. CASE u # t
        <3>1. SameFlow(u) /\ store'[u] = store[u]
            BY <1>0, <2>4, <2>5, <2>9 DEF SameFlow, FlowTypeOK, Stores
        <3>2. hp[u][ref[u]] = heap[u][ref[u]]
            BY <1>0, <2>9 DEF Heaps
        <3>3. SameMeta(u)
            <4> HIDE DEF hp
            <4>1. ref[u] \in Version
                BY <1>0
            <4> QED BY <2>5, <2>6, <2>9, <3>1, <3>2, <4>1, StatusChange
                    DEF SameMeta
        <3>4. Frame(u)
            BY <1>2, <2>1, <2>9 DEF Approve, Frame
        <3> QED BY <1>2, <3>1, <3>3, <3>4 DEF Approve, Effect, Rested
    <2> QED BY <2>8, <2>9
<1>3. ASSUME NEW w \in Window, NEW t \in Tx, Reject(w, t) PROVE Effect(u)
    <2>1. /\ ~ Handled(t)
          /\ view[w][t] = "shown" /\ view'[w][t] = "clicked"
          /\ \A v \in Window \ {w} : view'[v][t] = view[v][t]
          /\ \A x \in Tx \ {t}, v \in Window : view'[v][x] = view[v][x]
        BY <1>3, FirstAnswer DEF Reject
    <2>2. SameFlow(u) /\ AskedKept(u)
        BY <1>3 DEF Reject, SameFlow, AskedKept
    <2>3. ref[u] \in Version /\ heap' = SetStatus(store, heap, {t}, "rejected")
        BY <1>0, <1>3 DEF Reject
    <2>4. /\ SameRest(u)
          /\ Later(u).status = IF u = t /\ store[t] # NoTx
                               THEN "rejected" ELSE Object(u).status
        <3>1. store[u] # NoTx => store[u] = ref[u]
            BY StoredObject
        <3>2. ref[u] # NoTx
            BY <2>3, ObjectAssumption DEF Version
        <3>3. /\ SameRest(u)
              /\ Later(u).status = IF u \in {t} /\ ref[u] = store[u]
                                   THEN "rejected" ELSE Object(u).status
            BY <1>0, <2>2, <2>3, StatusChange
        <3> QED BY <3>1, <3>2, <3>3
    <2>5. CASE u = t
        <3>1. store'[t] = NoTx
            BY <1>0, <1>3 DEF Reject, Delete, Stores
        <3>2. \/ /\ store[t] = NoTx /\ Later(t).status = Object(t).status
                 /\ answer'[t] = answer[t]
              \/ Later(t).status = "rejected" /\ answer'[t] \in {answer[t], "rejected"}
            <4>1. CASE store[t] = NoTx
                BY <1>3, <2>4, <2>5, <4>1 DEF Reject, Told
            <4>2. CASE store[t] # NoTx
                <5>1. heap'[t][store[t]].status = "rejected"
                    BY <2>2, <2>4, <2>5, <4>2, StoredObject DEF Later, SameFlow
                <5>2. answer'[t] \in {answer[t], Outcome(heap'[t][store[t]])}
                    BY <1>3 DEF Reject, Told
                <5> QED BY <2>4, <2>5, <4>2, <5>1, <5>2 DEF Outcome
            <4> QED BY <4>1, <4>2
        <3>3. Heard(t)
            BY <1>3 DEF Reject, Told, Heard
        <3> QED BY <1>3, <2>1, <2>2, <2>4, <2>5, <3>1, <3>2, <3>3
            DEF Reject, Effect, Refused
    <2>6. CASE u # t
        <3>1. store'[u] = store[u] /\ answer'[u] = answer[u]
            BY <1>0, <1>3, <2>6 DEF Reject, Delete, Stores, Told, RequestTypeOK
        <3>2. Frame(u)
            BY <1>3, <2>1, <2>6 DEF Reject, Frame
        <3> QED BY <1>3, <2>2, <2>4, <2>6, <3>1, <3>2
            DEF Reject, Effect, Rested, SameMeta
    <2> QED BY <2>5, <2>6
<1>4. ASSUME NEW o \in Tx, NEW t \in Tx, Replace(o, t) PROVE Effect(u)
    <2> DEFINE new == ReplacementMeta(o)
               hp  == [heap EXCEPT ![t][Original] = new]
    <2>1. /\ Unused(t) /\ stage[t] = "new" /\ ~ Handled(t) /\ pc[t] = "idle"
          /\ store[t] = NoTx
        BY <1>4
        DEF Replace, NextId, LockInv, UnusedIsAbsent, LifeInv, NotYetSeen, Handled
    <2>2. Original \in Version /\ Original # NoTx
        BY ObjectAssumption DEF Version
    <2>3. store' = AddTransaction(store, heap, t) /\ store'[t] = Original
        BY <1>4 DEF Replace, AddTransaction
    <2>4. /\ heap' = SetStatus(store', hp, {t}, "approved")
          /\ ref' = [ref EXCEPT ![t] = store'[t]]
          /\ pc' = [pc EXCEPT ![t] = "global"]
        BY <1>4, <2>1 DEF Replace, BeginApproval, InProcess, Holding
    <2>5. store[o] # NoTx /\ Object(o).status = "submitted"
        BY <1>4, StoredObject DEF Replace, Here, OnChain, WithStatus, Stored
    <2>6. hp \in Heaps
        <3>1. o \in Stored(store)
            BY <2>5 DEF Stored
        <3> QED BY <1>0, <2>2, <3>1, HeapTypes, NewMetaTypes
    <2>7. AskedKept(u) /\ answer'[u] = answer[u]
        BY <1>4 DEF Replace, AskedKept
    <2>8. CASE u = t
        <3>1. hp[t][Original] = new
            BY <1>0, <2>2 DEF Heaps
        <3>2. new.nonce \in Nat /\ new.custom = NoNonce /\ new.lastGasPrice
            <4> DEFINE n == heap[o][store[o]].nonce
            <4>1. n \in Nat
                BY <2>5, StoredObject DEF LifeInv, NonceOnce
            <4>2. new = [FreshMeta EXCEPT !.status = "approved",
                     !.loading = FALSE, !.nonce = n, !.lastGasPrice = TRUE]
                BY DEF ReplacementMeta
            <4> HIDE DEF n, new
            <4> QED BY <4>1, <4>2 DEF FreshMeta
        <3>3. /\ heap'[t][Original].status = "approved"
              /\ heap'[t][Original].nonce = hp[t][Original].nonce
              /\ heap'[t][Original].custom = hp[t][Original].custom
              /\ heap'[t][Original].lastGasPrice = hp[t][Original].lastGasPrice
            <4> HIDE DEF hp
            <4> QED BY <2>2, <2>3, <2>4, <2>6, SetStatusFields
        <3>4. /\ Later(t).status = "approved" /\ Later(t).nonce \in Nat
              /\ Later(t).custom = NoNonce /\ Later(t).lastGasPrice
              /\ pc'[t] = "global" /\ ref'[t] = Original /\ store'[t] = ref'[t]
            <4> HIDE DEF hp, new
            <4> QED BY <1>0, <2>2, <2>3, <2>4, <3>1, <3>2, <3>3
                    DEF Later, FlowTypeOK
        <3>5. /\ stage'[t] = "done" /\ replaces'[t] # NoTx
              /\ \A w \in Window : view'[w][t] = view[w][t]
            <4>1. o # NoTx
                BY NumTxAssumption, ObjectAssumption DEF Tx
            <4> QED BY <1>0, <1>4, <4>1 DEF Replace, RequestTypeOK
        <3> QED BY <2>1, <2>2, <2>7, <2>8, <3>4, <3>5 DEF Effect, Begun
    <2>9. CASE u # t
        <3>1. SameFlow(u)
            BY <1>0, <2>4, <2>9 DEF SameFlow, FlowTypeOK
        <3>2. hp[u][ref[u]] = heap[u][ref[u]]
            BY <1>0, <2>9 DEF Heaps
        <3>3. SameMeta(u)
            <4> HIDE DEF hp
            <4>1. ref[u] \in Version
                BY <1>0
            <4> QED BY <2>4, <2>6, <2>9, <3>1, <3>2, <4>1, StatusChange
                    DEF SameMeta
        <3>4. Frame(u)
            BY <1>0, <1>4, <2>9 DEF Replace, Frame, RequestTypeOK
        <3>5. \/ store'[u] = store[u]
              \/ store'[u] = NoTx /\ Object(u).status \in FinalStates
            BY <2>3, <2>9, EvictedIsFinal
        <3> QED BY <1>4, <2>7, <3>1, <3>3, <3>4, <3>5 DEF Replace, Effect, Rested
    <2> QED BY <2>8, <2>9
<1> QED BY <1>1, <1>2, <1>3, <1>4 DEF UserStep, Effect

\* An approval that ends with an error: its object fails, if it is stored.
LEMMA FailureEffect ==
    ASSUME LockInv, LifeInv, NEW t \in Tx, FailApproval(t),
           pc[t] \in Holding \union {"address"},
           UNCHANGED <<store, from, replaces, stage, view, asked, hpc>>
    PROVE  \A u \in Tx : Effect(u)
<1>0. /\ heap \in Heaps /\ store \in Stores /\ ref \in [Tx -> Version]
      /\ RequestTypeOK /\ FlowTypeOK
    BY ObjectType DEF LockInv, TypeOK
<1> SUFFICES ASSUME NEW u \in Tx PROVE Effect(u)
    OBVIOUS
<1> DEFINE failing == SetStatus(store, heap, {t}, "failed")
<1>1. heap' = failing /\ answer' = Told(store, heap', {t}) /\ UNCHANGED ref
    BY DEF FailApproval, EndApproval
<1>2. pc' = [pc EXCEPT ![t] = "idle"]
    BY DEF FailApproval, EndApproval
<1>3. Frame(u) /\ AskedKept(u)
    BY DEF Frame, AskedKept
<1>4. CASE u = t
    <2>1. pc'[t] = "idle" /\ ref'[t] = ref[t] /\ Heard(t)
        BY <1>0, <1>1, <1>2 DEF FlowTypeOK, Told, Heard
    <2>2. store[t] \in {ref[t], NoTx} /\ ref[t] # NoTx
        BY <1>0, ObjectAssumption DEF LifeInv, OneObject, Version
    <2> DEFINE o == heap'[t][ref[t]]
    <2>3. /\ o.status = IF store[t] # NoTx THEN "failed" ELSE heap[t][ref[t]].status
          /\ o.nonce = heap[t][ref[t]].nonce /\ o.custom = heap[t][ref[t]].custom
          /\ o.hash = heap[t][ref[t]].hash
          /\ o.lastGasPrice = heap[t][ref[t]].lastGasPrice
        <3>1. ref[t] \in Version
            BY <1>0
        <3> QED BY <1>0, <1>1, <2>2, <3>1, SetStatusFields
    <2>4. Later(t) = o /\ Object(t) = heap[t][ref[t]]
        BY <2>1 DEF Later, Object
    <2>5. SameRest(t)
        BY <2>3, <2>4 DEF SameRest
    <2>6. CASE store[t] = NoTx
        <3>1. answer'[t] = answer[t]
            BY <1>1, <2>6 DEF Told
        <3> QED BY <1>0, <1>3, <1>4, <2>1, <2>3, <2>4, <2>5, <2>6, <3>1
            DEF Effect, Ended, SameMeta, SameRest
    <2>7. CASE store[t] # NoTx
        <3>1. heap'[t][store[t]].status = "failed"
            BY <2>2, <2>3, <2>7
        <3>2. answer'[t] \in {answer[t], Outcome(heap'[t][store[t]])}
            BY <1>1 DEF Told
        <3>3. answer'[t] \in {answer[t], "failed"}
            BY <3>1, <3>2 DEF Outcome
        <3> QED BY <1>0, <1>3, <1>4, <2>1, <2>3, <2>4, <2>5, <2>7, <3>3
            DEF Effect, Ended, SameRest
    <2> QED BY <2>6, <2>7
<1>5. CASE u # t
    <2>1. SameFlow(u) /\ ref[u] \in Version
        BY <1>0, <1>1, <1>2, <1>5 DEF SameFlow, FlowTypeOK
    <2>2. SameMeta(u)
        BY <1>0, <1>1, <1>5, <2>1, StatusChange DEF SameMeta
    <2>3. answer'[u] = answer[u]
        BY <1>1, <1>5 DEF Told
    <2> QED BY <1>3, <2>1, <2>2, <2>3 DEF Effect, Rested, AskedKept
<1> QED BY <1>4, <1>5

\* The steps of approveTransaction.
LEMMA ApprovalEffect ==
    ASSUME LockInv, LifeInv, NEW t \in Tx, ApprovalStep(t)
    PROVE  \A u \in Tx : Effect(u)
<1> USE DEF storeVars, requestVars, flowVars, trackerVars, nodeVars, netVars,
            outerVars
<1>0. /\ heap \in Heaps /\ store \in Stores /\ ref \in [Tx -> Version]
      /\ RequestTypeOK /\ FlowTypeOK
    BY ObjectType DEF LockInv, TypeOK
<1>1. ASSUME FailApproval(t), pc[t] \in Holding \union {"address"},
             UNCHANGED <<store, from, chainOf, replaces, stage, regas, trackerVars,
                         nodeVars, netVars, outerVars>>
      PROVE  \A u \in Tx : Effect(u)
    BY <1>1, FailureEffect
<1>2. ASSUME AwaitRejects(t) PROVE \A u \in Tx : Effect(u)
    BY <1>1, <1>2 DEF AwaitRejects
<1>3. ASSUME NEW withHash \in BOOLEAN, BroadcastAnswer(t, withHash), store[t] = NoTx
      PROVE  \A u \in Tx : Effect(u)
    BY <1>1, <1>3 DEF BroadcastAnswer, Holding
<1> SUFFICES ASSUME NEW u \in Tx,
                    \/ GlobalFree(t) \/ TakeNonce(t) \/ AccountAnswer(t)
                    \/ Sign(t) \/ SwapBalance(t)
                    \/ store[t] # NoTx /\ \E withHash \in BOOLEAN :
                                             BroadcastAnswer(t, withHash)
             PROVE  Effect(u)
    BY <1>2, <1>3 DEF ApprovalStep
<1>4. Frame(u) /\ AskedKept(u) /\ ref' = ref
    BY DEF GlobalFree, TakeNonce, AccountAnswer, Sign, SwapBalance,
           BroadcastAnswer, EndApproval, Frame, AskedKept
<1>5. ASSUME GlobalFree(t) \/ AccountAnswer(t) PROVE Effect(u)
    <2>1. SameMeta(u) /\ store' = store /\ answer' = answer
        BY <1>5 DEF GlobalFree, AccountAnswer, SameMeta, SameRest, Later, Object
    <2>2. CASE u # t
        <3>1. SameFlow(u)
            BY <1>0, <1>5, <2>2 DEF GlobalFree, AccountAnswer, SameFlow, FlowTypeOK
        <3> QED BY <1>4, <2>1, <3>1 DEF Effect, Rested, AskedKept
    <2>3. CASE u = t
        <3>1. \/ pc[t] = "global" /\ pc'[t] = "address"
              \/ pc[t] = "account" /\ pc'[t] = "sign"
            BY <1>0, <1>5 DEF GlobalFree, AccountAnswer, FlowTypeOK
        <3> QED BY <1>4, <2>1, <2>3, <3>1 DEF Effect, Moved, SameMeta
    <2> QED BY <2>2, <2>3
<1>6. ASSUME TakeNonce(t) PROVE Effect(u)
    <2> DEFINE old == heap[t][ref[t]]
               n == NonceFor(t, old)
    <2>1. old \in Meta /\ ref[t] \in Version /\ from[t] \in Account
        BY <1>0, <1>6, ApprovingHasSender DEF TakeNonce, Heaps
    <2>2. /\ heap' = [heap EXCEPT ![t][ref[t]].nonce = n] /\ n # NoNonce
          /\ store' = Put(store, t, ref[t]) /\ pc' = [pc EXCEPT ![t] = "account"]
          /\ pc[t] = "address" /\ answer' = answer
        BY <1>6 DEF TakeNonce
    <2>3. n \in Nat
        <3> HIDE DEF old
        <3> QED BY <2>1, <2>2, NonceForType DEF LockInv
    <2>4. CASE u # t
        <3>1. SameFlow(u) /\ store'[u] = store[u]
            BY <1>0, <1>4, <2>2, <2>4 DEF SameFlow, FlowTypeOK, Put, Stores
        <3>2. heap'[u][ref[u]] = heap[u][ref[u]]
            <4> HIDE DEF n
            <4> QED BY <1>0, <2>2, <2>4 DEF Heaps
        <3> QED BY <1>4, <2>2, <3>1, <3>2, SameObject
            DEF Effect, Rested, AskedKept
    <2>5. CASE u = t
        <3>1. heap'[t][ref[t]] = [old EXCEPT !.nonce = n]
            <4> HIDE DEF n
            <4> QED BY <1>0, <2>1, <2>2 DEF Heaps
        <3>2. /\ heap'[t][ref[t]].nonce = n
              /\ heap'[t][ref[t]].status = old.status
              /\ heap'[t][ref[t]].custom = old.custom
              /\ heap'[t][ref[t]].lastGasPrice = old.lastGasPrice
            <4> HIDE DEF n, old
            <4> QED BY <2>1, <3>1 DEF Meta
        <3>3. old.lastGasPrice /\ old.custom = NoNonce => n = old.nonce
            <4> HIDE DEF old
            <4> QED BY DEF NonceFor
        <3>4. store'[t] = ref[t] /\ pc'[t] = "account" /\ ref'[t] = ref[t]
            BY <1>0, <1>4, <2>2 DEF Put, Stores, FlowTypeOK
        <3>5. Later(t) = heap'[t][ref[t]] /\ Object(t) = old
            BY <3>4 DEF Later, Object
        <3> HIDE DEF n, old
        <3> QED BY <1>4, <2>2, <2>3, <2>5, <3>2, <3>3, <3>4, <3>5 DEF Effect, Took
    <2> QED BY <2>4, <2>5
<1>7. ASSUME Sign(t) \/ SwapBalance(t) PROVE Effect(u)
    <2>1. /\ store' = Put(store, t, ref[t]) /\ answer' = answer
          /\ ref[t] \in Version
          /\ \E next \in {"balance", "broadcast"} : pc' = [pc EXCEPT ![t] = next]
        BY <1>0, <1>7 DEF Sign, SwapBalance
    <2>2. /\ SameRest(u)
          /\ SwapBalance(t) \/ u # t => Later(u).status = Object(u).status
          /\ Sign(t) /\ u = t => Later(u).status = "signed"
        <3>1. CASE Sign(t)
            <4>1. heap' = SetStatus(store', heap, {t}, "signed")
                BY <3>1 DEF Sign
            <4>2. ref[u] \in Version
                BY <1>0
            <4> DEFINE o == heap'[u][ref[u]]
            <4>3. /\ o.status = IF u \in {t} /\ ref[u] = store'[u]
                                THEN "signed" ELSE heap[u][ref[u]].status
                  /\ o.nonce = heap[u][ref[u]].nonce
                  /\ o.custom = heap[u][ref[u]].custom
                  /\ o.hash = heap[u][ref[u]].hash
                  /\ o.lastGasPrice = heap[u][ref[u]].lastGasPrice
                BY <1>0, <4>1, <4>2, SetStatusFields
            <4>4. Later(u) = o /\ Object(u) = heap[u][ref[u]]
                BY <1>4 DEF Later, Object
            <4>5. store'[t] = ref[t] /\ ~ SwapBalance(t)
                BY <1>0, <2>1, <3>1 DEF Put, Stores, Sign, SwapBalance
            <4> HIDE DEF o
            <4> QED BY <4>3, <4>4, <4>5 DEF SameRest
        <3>2. CASE SwapBalance(t)
            <4>1. ~ Sign(t)
                BY <3>2 DEF Sign, SwapBalance
            <4> QED BY <1>4, <3>2, <4>1 DEF SwapBalance, SameRest, Later, Object
        <3> QED BY <1>7, <3>1, <3>2
    <2>3. CASE u # t
        <3>1. SameFlow(u) /\ store'[u] = store[u]
            BY <1>0, <1>4, <2>1, <2>3 DEF SameFlow, FlowTypeOK, Put, Stores
        <3> QED BY <1>4, <2>1, <2>2, <2>3, <3>1
            DEF Effect, Rested, AskedKept, SameMeta
    <2>4. CASE u = t
        <3>1. store'[t] = ref[t]
            BY <1>0, <2>1 DEF Put, Stores
        <3>2. \/ Sign(t) /\ pc[t] = "sign" /\ pc'[t] \in {"balance", "broadcast"}
              \/ SwapBalance(t) /\ pc[t] = "balance" /\ pc'[t] = "broadcast"
            BY <1>0, <1>7 DEF Sign, SwapBalance, FlowTypeOK
        <3> QED BY <1>4, <2>1, <2>2, <2>4, <3>1, <3>2 DEF Effect, Moved
    <2> QED BY <2>3, <2>4
<1>8. ASSUME NEW withHash \in BOOLEAN, BroadcastAnswer(t, withHash), store[t] # NoTx
      PROVE  Effect(u)
    <2>1. /\ heap' = Submitted(t, withHash) /\ answer' = Told(store, heap', {t})
          /\ pc' = [pc EXCEPT ![t] = "idle"] /\ store' = store
          /\ pc[t] = "broadcast"
        BY <1>8 DEF BroadcastAnswer, EndApproval
    <2> DEFINE old == heap[t][ref[t]]
    <2>2. store[t] = ref[t] /\ ref[t] \in Version /\ old \in Meta
        BY <1>0, <1>8, StoredObject DEF Heaps
    <2>3. CASE u # t
        <3>1. SameFlow(u) /\ answer'[u] = answer[u]
            BY <1>4, <2>1, <2>3, <1>0 DEF SameFlow, Told, FlowTypeOK
        <3>2. heap'[u][ref[u]] = heap[u][ref[u]]
            BY <1>0, <2>1, <2>2, <2>3 DEF Submitted, Heaps
        <3> QED BY <1>4, <2>1, <3>1, <3>2, SameObject DEF Effect, Rested, AskedKept
    <2>4. CASE u = t
        <3>1. heap'[t][ref[t]]
                  = [old EXCEPT !.status = "submitted", !.hash = withHash]
            BY <1>0, <2>1, <2>2 DEF Submitted, Heaps
        <3>2. /\ heap'[t][ref[t]].status = "submitted"
              /\ heap'[t][ref[t]].hash = withHash
              /\ heap'[t][ref[t]].nonce = old.nonce
              /\ heap'[t][ref[t]].custom = old.custom
              /\ heap'[t][ref[t]].lastGasPrice = old.lastGasPrice
            <4> HIDE DEF old
            <4> QED BY <2>2, <3>1 DEF Meta
        <3>3. answer'[t] \in {answer[t], Outcome(heap'[t][store[t]])}
            BY <2>1 DEF Told
        <3>4. \/ answer'[t] \in {answer[t], "noHash"}
              \/ answer'[t] = "hash" /\ withHash
            BY <2>2, <3>2, <3>3 DEF Outcome
        <3>5. pc'[t] = "idle" /\ ref'[t] = ref[t] /\ Heard(t)
            BY <1>0, <1>4, <2>1 DEF FlowTypeOK, Told, Heard
        <3>6. Later(t) = heap'[t][ref[t]] /\ Object(t) = old
            BY <3>5 DEF Later, Object
        <3> HIDE DEF old
        <3> QED BY <1>4, <1>8, <2>1, <2>4, <3>2, <3>4, <3>5, <3>6
            DEF Effect, Ended, Holding
    <2> QED BY <2>3, <2>4
<1> QED BY <1>5, <1>6, <1>7, <1>8

\* What the two status changes of a pending check do to an object.
LEMMA TwoStatusChanges ==
    ASSUME LockInv, NEW u \in Tx, SameFlow(u)
    PROVE  \A ts, us : \A one, two \in Status :
              heap' = SetStatus(store, SetStatus(store, heap, ts, one), us, two) =>
                 /\ SameRest(u)
                 /\ Later(u).status =
                       IF u \in us /\ ref[u] = store[u] THEN two
                       ELSE IF u \in ts /\ ref[u] = store[u] THEN one
                       ELSE Object(u).status
<1> SUFFICES ASSUME NEW ts, NEW us, NEW one \in Status, NEW two \in Status,
                    heap' = SetStatus(store, SetStatus(store, heap, ts, one),
                                      us, two)
             PROVE  /\ SameRest(u)
                    /\ Later(u).status =
                          IF u \in us /\ ref[u] = store[u] THEN two
                          ELSE IF u \in ts /\ ref[u] = store[u] THEN one
                          ELSE Object(u).status
    OBVIOUS
<1> DEFINE hp == SetStatus(store, heap, ts, one)
<1>0. heap \in Heaps /\ store \in Stores /\ ref[u] \in Version
    BY ObjectType
<1>1. hp \in Heaps
    BY <1>0, SetStatusType
<1>2. /\ hp[u][ref[u]].status = IF u \in ts /\ ref[u] = store[u]
                                THEN one ELSE heap[u][ref[u]].status
      /\ hp[u][ref[u]].nonce = heap[u][ref[u]].nonce
      /\ hp[u][ref[u]].custom = heap[u][ref[u]].custom
      /\ hp[u][ref[u]].hash = heap[u][ref[u]].hash
      /\ hp[u][ref[u]].lastGasPrice = heap[u][ref[u]].lastGasPrice
    BY <1>0, SetStatusFields
<1>3. /\ heap'[u][ref[u]].status = IF u \in us /\ ref[u] = store[u]
                                   THEN two ELSE hp[u][ref[u]].status
      /\ heap'[u][ref[u]].nonce = hp[u][ref[u]].nonce
      /\ heap'[u][ref[u]].custom = hp[u][ref[u]].custom
      /\ heap'[u][ref[u]].hash = hp[u][ref[u]].hash
      /\ heap'[u][ref[u]].lastGasPrice = hp[u][ref[u]].lastGasPrice
    <2> HIDE DEF hp
    <2>1. heap' = SetStatus(store, hp, us, two)
        BY DEF hp
    <2> QED BY <1>0, <1>1, <2>1, SetStatusFields
<1>4. Later(u) = heap'[u][ref[u]] /\ Object(u) = heap[u][ref[u]]
    BY DEF SameFlow, Later, Object
<1> HIDE DEF hp
<1> QED BY <1>2, <1>3, <1>4 DEF SameRest

\* The steps of the pending check, and a block that starts one.
LEMMA CheckEffect ==
    ASSUME LockInv, LifeInv, NEW h \in Handler, NewBlock(h) \/ CheckStep(h)
    PROVE  \A u \in Tx : Effect(u)
<1> USE DEF storeVars, requestVars, flowVars, trackerVars, nodeVars, netVars,
            outerVars
<1>0. /\ heap \in Heaps /\ store \in Stores /\ ref \in [Tx -> Version]
      /\ RequestTypeOK /\ FlowTypeOK /\ TrackerTypeOK
    BY ObjectType DEF LockInv, TypeOK
<1> SUFFICES ASSUME NEW u \in Tx PROVE Effect(u)
    OBVIOUS
<1>1. Frame(u) /\ SameFlow(u)
    BY DEF NewBlock, CheckStep, CheckPending, CheckDone, Answered, ResultMined,
           ResultPending, ResultError, Frame, SameFlow
<1>2. ASSUME NewBlock(h) \/ CheckDone(h) PROVE Effect(u)
    <2>1. SameMeta(u)
        BY <1>1, <1>2, SameObject DEF NewBlock, CheckDone
    <2>2. \A g \in Handler : asked[g][u] # NoTx => hpc'[g] = hpc[g]
        BY <1>0, <1>2 DEF NewBlock, CheckDone, TrackerTypeOK, LifeInv, AskedIsPending
    <2> QED BY <1>1, <1>2, <2>1, <2>2 DEF NewBlock, CheckDone, Effect, Rested
<1>3. ASSUME NEW t \in Tx, Answered(h, t), UNCHANGED hpc PROVE AskedKept(u)
    BY <1>0, <1>3 DEF Answered, AskedKept, TrackerTypeOK
<1>4. ASSUME NEW t \in Tx, ResultPending(h, t) \/ ResultError(h, t) PROVE Effect(u)
    <2>1. SameMeta(u) /\ AskedKept(u)
        BY <1>1, <1>3, <1>4, SameObject DEF ResultPending, ResultError
    <2>2. \/ store'[u] = store[u]
          \/ \E g \in Handler : asked[g][u] # NoTx /\ store'[u] = asked[g][u]
        BY <1>0, <1>4 DEF ResultPending, ResultError, Answered, Put, Stores
    <2> QED BY <1>1, <1>4, <2>1, <2>2
        DEF ResultPending, ResultError, Effect, Rested, AskedKept
<1>5. ASSUME NEW t \in Tx, ResultMined(h, t) PROVE Effect(u)
    <2>1. AskedKept(u) /\ store' = store /\ answer' = answer
        BY <1>3, <1>5 DEF ResultMined
    <2>0. ASSUME store[t] # NoTx, NEW v \in Tx, SameFlow(v)
          PROVE  /\ SameRest(v)
                 /\ Later(v).status =
                       IF v \in NonceDuplicates(t) /\ ref[v] = store[v]
                       THEN "dropped"
                       ELSE IF v \in {t} /\ ref[v] = store[v] THEN "confirmed"
                       ELSE Object(v).status
        <3>1. heap' = SetStatus(store, SetStatus(store, heap, {t}, "confirmed"),
                                NonceDuplicates(t), "dropped")
            BY <1>5, <2>0 DEF ResultMined, Confirm
        <3>2. "confirmed" \in Status /\ "dropped" \in Status
            BY DEF Status
        <3> QED BY <2>0, <3>1, <3>2, TwoStatusChanges
    <2>2. CASE store[t] = NoTx
        <3>1. SameMeta(u)
            BY <1>1, <1>5, <2>2, SameObject DEF ResultMined, Confirm
        <3> QED BY <1>1, <2>1, <3>1 DEF Effect, Rested, AskedKept
    <2>3. CASE store[t] # NoTx
        <3>1. /\ SameRest(u)
              /\ Later(u).status =
                    IF u \in NonceDuplicates(t) /\ ref[u] = store[u] THEN "dropped"
                    ELSE IF u \in {t} /\ ref[u] = store[u] THEN "confirmed"
                    ELSE Object(u).status
            BY <1>1, <2>0, <2>3
        <3>2. CASE u = t
            <4>1. Later(u).status = "confirmed"
                BY <2>3, <3>1, <3>2, StoredObject DEF NonceDuplicates
            <4>2. \A g \in Handler : asked'[g][t] = NoTx
                <5>1. \A g \in Handler : asked[g][t] # NoTx => g = h
                    BY <1>5 DEF ResultMined, Answered, LifeInv, AskedIsPending,
                                LockInv, CheckHoldsGlobal, HoldsMutex
                <5> QED BY <1>0, <1>5, <5>1
                        DEF ResultMined, Answered, TrackerTypeOK
            <4>3. asked[h][t] # NoTx /\ <<t, signed[t]>> \in mined
                BY <1>5 DEF ResultMined, Answered
            <4> QED BY <1>1, <2>1, <3>1, <3>2, <4>1, <4>2, <4>3
                DEF Effect, Confirmed
        <3>3. CASE u # t /\ u \in NonceDuplicates(t)
            <4>1. /\ store[u] # NoTx /\ from[u] = from[t]
                  /\ heap[u][store[u]].nonce = heap[t][store[t]].nonce
                BY <3>3 DEF NonceDuplicates, Stored, Here, OnChain, NonceOf
            <4>2. ref[u] = store[u] /\ Object(u).nonce = Object(t).nonce
                BY <2>3, <4>1, StoredObject
            <4>3. Object(t).nonce \in Nat
                BY <1>5 DEF ResultMined, Answered, LifeInv, AskedIsPending, NonceOnce
            <4>4. SameFlow(t) /\ from' = from
                BY <1>5 DEF ResultMined, SameFlow
            <4>5. Later(t).status = "confirmed" /\ SameRest(t)
                BY <2>0, <2>3, <4>4, StoredObject DEF NonceDuplicates
            <4>6. Twin(u, t)
                BY <3>1, <3>3, <4>1, <4>2, <4>4, <4>5 DEF Twin, SameRest
            <4>7. Ousts(t, u)
                BY <1>5, <2>3, <4>1, <4>2 DEF Ousts, ResultMined, Answered
            <4> QED BY <1>1, <2>1, <3>1, <3>3, <4>1, <4>2, <4>3, <4>6, <4>7
                DEF Effect, Dropped
        <3>4. CASE u # t /\ u \notin NonceDuplicates(t)
            BY <1>1, <2>1, <3>1, <3>4 DEF Effect, Rested, AskedKept, SameMeta
        <3> QED BY <3>2, <3>3, <3>4
    <2> QED BY <2>2, <2>3
<1>6. ASSUME CheckPending(h) PROVE Effect(u)
    <2> DEFINE pending == Here(WithStatus(store, heap, {"submitted"}))
               noHash  == {t \in pending : ~heap[t][store[t]].hash}
               taken   == {t \in pending \ noHash : NonceTaken(t)}
    <2>1. /\ hpc' = [hpc EXCEPT ![h] = "checking"]
          /\ heap' = SetStatus(store, SetStatus(store, heap, noHash, "failed"),
                               taken, "dropped")
          /\ answer' = Told(store, heap', noHash)
          /\ asked' = [asked EXCEPT ![h] = [t \in Tx |->
                 IF t \in pending \ (noHash \union taken) THEN store[t] ELSE NoTx]]
          /\ UNCHANGED <<store, from>> /\ hpc[h] = "waiting"
        BY <1>6 DEF CheckPending
    <2>2. u \in pending => /\ store[u] # NoTx /\ ref[u] = store[u]
                           /\ Object(u).status = "submitted"
                           /\ heap[u][store[u]] = Object(u)
        BY StoredObject DEF Here, OnChain, WithStatus, Stored
    <2>3. noHash \subseteq pending /\ taken \subseteq pending /\ noHash \cap taken = {}
        OBVIOUS
    <2>12. ASSUME NEW v \in Tx, v \in taken \/ v \in noHash
           PROVE  Object(v).status = "submitted"
        BY <2>12, StoredObject DEF Here, OnChain, WithStatus, Stored
    <2> HIDE DEF taken
    <2>4. u \in noHash <=> u \in pending /\ ~ Object(u).hash
        BY <2>2
    <2> HIDE DEF noHash, pending
    <2>13. ASSUME NEW v \in Tx, SameFlow(v)
           PROVE  /\ SameRest(v)
                  /\ Later(v).status =
                        IF v \in taken /\ ref[v] = store[v] THEN "dropped"
                        ELSE IF v \in noHash /\ ref[v] = store[v] THEN "failed"
                        ELSE Object(v).status
        <3>1. "failed" \in Status /\ "dropped" \in Status
            BY DEF Status
        <3> QED BY <2>1, <2>13, <3>1, TwoStatusChanges
    <2>5. /\ SameRest(u)
          /\ Later(u).status =
                IF u \in taken /\ ref[u] = store[u] THEN "dropped"
                ELSE IF u \in noHash /\ ref[u] = store[u] THEN "failed"
                ELSE Object(u).status
        BY <1>1, <2>13
    <2>6. \A g \in Handler :
             asked'[g][u] = IF g # h THEN asked[g][u]
                            ELSE IF u \in pending \ (noHash \union taken)
                            THEN store[u] ELSE NoTx
        BY <1>0, <2>1 DEF TrackerTypeOK
    <2>7. \A g \in Handler : hpc'[g] = IF g # h THEN hpc[g] ELSE "checking"
        BY <1>0, <2>1 DEF TrackerTypeOK
    <2>8. u \notin noHash => answer'[u] = answer[u]
        BY <2>1 DEF Told
    <2>9. CASE u \in noHash
        <3>1. Later(u).status = "failed" /\ AskedKept(u)
            BY <2>2, <2>3, <2>5, <2>6, <2>7, <2>9 DEF AskedKept
        <3>2. heap'[u][store[u]] = Later(u)
            BY <1>1, <2>2, <2>3, <2>9 DEF SameFlow, Later
        <3>3. answer'[u] \in {answer[u], Outcome(heap'[u][store[u]])}
            BY <2>1 DEF Told
        <3>4. answer'[u] \in {answer[u], "failed"}
            BY <3>1, <3>2, <3>3 DEF Outcome
        <3>5. Heard(u)
            BY <2>1 DEF Told, Heard
        <3> QED BY <1>1, <2>1, <2>2, <2>3, <2>4, <2>5, <2>9, <3>1, <3>4, <3>5
            DEF Effect, Lost
    <2>10. CASE u \in taken
        <3>1. Object(u).nonce \in Nat
            BY <2>2, <2>3, <2>10 DEF LifeInv, NonceOnce
        <3>2. AskedKept(u)
            BY <2>6, <2>7, <2>10 DEF AskedKept
        <3>3. PICK v \in Tx \ {u} :
                 /\ store[v] # NoTx /\ heap[v][store[v]].status = "confirmed"
                 /\ from[v] = from[u]
                 /\ heap[v][store[v]].nonce = heap[u][store[u]].nonce
            BY <2>10 DEF taken, NonceTaken, NonceOf, Here, OnChain, WithStatus,
                         Stored
        <3>4. /\ ref[v] = store[v] /\ Object(v).status = "confirmed"
              /\ Object(v).nonce = Object(u).nonce
            BY <2>2, <2>3, <2>10, <3>3, StoredObject
        <3>5. v \notin taken /\ v \notin noHash
            BY <2>12, <3>4
        <3>6. SameFlow(v)
            BY <1>6 DEF CheckPending, SameFlow
        <3>7. SameRest(v) /\ Later(v).status = "confirmed"
            BY <2>13, <3>4, <3>5, <3>6
        <3>8. Twin(u, v)
            BY <2>1, <2>5, <3>3, <3>4, <3>7 DEF Twin, SameRest
        <3>9. Ousts(v, u)
            BY <2>2, <2>3, <2>10, <3>3, <3>4 DEF Ousts
        <3> QED BY <1>1, <2>1, <2>2, <2>3, <2>5, <2>8, <2>10, <3>1, <3>2, <3>8, <3>9
            DEF Effect, Dropped
    <2>11. CASE u \notin noHash /\ u \notin taken
        <3>1. SameMeta(u)
            BY <2>5, <2>11 DEF SameMeta
        <3>2. \A g \in Handler : asked'[g][u] # NoTx =>
                 \/ asked'[g][u] = asked[g][u] /\ hpc'[g] = hpc[g]
                 \/ /\ hpc'[g] = "checking" /\ asked'[g][u] = store[u]
                    /\ Object(u).status = "submitted" /\ Object(u).hash
            <4> TAKE g \in Handler
            <4> HAVE asked'[g][u] # NoTx
            <4>1. CASE g # h
                BY <2>6, <2>7, <4>1
            <4>2. CASE g = h
                <5>1. /\ u \in pending /\ asked'[g][u] = store[u]
                      /\ hpc'[g] = "checking"
                    BY <2>6, <2>7, <4>2
                <5> QED BY <2>2, <2>4, <2>11, <5>1
            <4> QED BY <4>1, <4>2
        <3> QED BY <1>1, <2>1, <2>8, <2>11, <3>1, <3>2 DEF Effect, Rested
    <2> QED BY <2>9, <2>10, <2>11
<1> QED BY <1>2, <1>4, <1>5, <1>6 DEF CheckStep

\* Without a second selected network the clean-up finds nothing to settle.
LEMMA NetworkUpEffect ==
    ASSUME LockInv, LifeInv, NetworkUp
    PROVE  (\A u \in Tx : Effect(u)) /\ regas' = {}
<1>1. \A t \in Tx : store[t] = NoTx
    BY DEF NetworkUp, LifeInv, OneNetwork, LockInv, UnusedIsAbsent
<1>2. regas' = {} /\ StuckSigning(store, heap, chain) = {}
    BY <1>1 DEF NetworkUp, BootCleanUp, StuckSigning, WithoutGas, OnChain,
                WithStatus, Stored, LifeInv, OneNetwork
<1>3. ASSUME NEW u \in Tx PROVE Effect(u)
    <2>1. heap' = SetStatus(store, heap, {}, "failed") /\ answer'[u] = answer[u]
        BY <1>1, <1>2 DEF NetworkUp, BootCleanUp, Told
    <2>2. SameFlow(u)
        BY DEF NetworkUp, flowVars, SameFlow
    <2>3. SameMeta(u)
        BY <2>1, <2>2, ObjectType, StatusChange DEF SameMeta
    <2> QED BY <2>1, <2>2, <2>3
        DEF NetworkUp, flowVars, trackerVars, outerVars, Effect, Rested, Frame
<1> QED BY <1>2, <1>3

\* An undisturbed step is no switch, reset or crash.
LEMMA StepIsUndisturbed ==
    ASSUME LockInv, Undisturbed', Next
    PROVE  /\ ~ Crash
           /\ \A c \in Chain : ~ SwitchNetwork(c)
           /\ \A a \in Account : ~ ResetAccount(a)
<1>1. switches \in Nat /\ crashes \in Nat /\ switches' = 0 /\ crashes' = 0
    BY DEF LockInv, TypeOK, OuterTypeOK, Undisturbed
<1>2. ~ Crash
    BY <1>1 DEF Crash
<1>3. \A st, c : ~ SwitchTo(st, c)
    BY <1>1 DEF SwitchTo
<1> QED BY <1>2, <1>3 DEF SwitchNetwork, ResetAccount

(***************************************************************************)
(* Every step of an undisturbed run does one of ten things to each         *)
(* transaction.                                                            *)
(***************************************************************************)
LEMMA StepEffect ==
    ASSUME LockInv, LockInv', LifeInv, Undisturbed', [Next]_vars
    PROVE  \A u \in Tx : Effect(u)
<1> DEFINE Quiet == UNCHANGED <<storeVars, requestVars, flowVars, trackerVars, view>>
<1>1. ASSUME Quiet PROVE \A u \in Tx : Effect(u)
    BY <1>1 DEF storeVars, requestVars, flowVars, trackerVars, Effect, Rested,
                Frame, SameFlow, SameMeta, SameRest, Later, Object
<1>2. CASE UNCHANGED vars
    BY <1>1, <1>2 DEF vars, outerVars
<1>3. ASSUME NodeStep \/ Save PROVE \A u \in Tx : Effect(u)
    BY <1>1, <1>3 DEF NodeStep, NodeAccepts, Mine, ForeignTransaction, Save,
                      outerVars
<1>4. ASSUME NetStep, Next PROVE \A u \in Tx : Effect(u)
    BY <1>4, StepIsUndisturbed, NetworkUpEffect DEF NetStep
<1>5. ASSUME NEW t \in Tx,
             RequestStep(t) \/ ApprovalStep(t) \/ \E a \in Account : Request(t, a)
      PROVE  \A u \in Tx : Effect(u)
    BY <1>5, RequestEffect, ApprovalEffect
<1>6. ASSUME NEW h \in Handler, NewBlock(h) \/ CheckStep(h)
      PROVE  \A u \in Tx : Effect(u)
    BY <1>6, CheckEffect
<1>7. ASSUME UserStep PROVE \A u \in Tx : Effect(u)
    BY <1>7, UserEffect
<1>8. CASE Next
    <2>1. ~ Crash
        BY <1>8, StepIsUndisturbed
    <2> QED BY <1>3, <1>4, <1>5, <1>6, <1>7, <1>8, <2>1 DEF Next
<1> QED BY <1>2, <1>8

-----------------------------------------------------------------------------
\* What the invariants say of a transaction nobody has answered yet.
LEMMA UnhandledFacts ==
    ASSUME LifeInv, NEW t \in Tx, ~ Handled(t)
    PROVE  /\ pc[t] = "idle" /\ ref[t] = Original /\ replaces[t] = NoTx
           /\ Object(t).status = "unapproved" /\ Object(t).nonce = NoNonce
           /\ answer[t] \in {"none", "pending", "waiting", "error"}
           /\ \A h \in Handler : asked[h][t] = NoTx
           /\ \A w \in Window : view[w][t] # "clicked"
           /\ \A p \in pool : p[1] # t
<1>1. /\ pc[t] = "idle" /\ ref[t] = Original
      /\ Object(t).status = "unapproved" /\ Object(t).nonce = NoNonce
      /\ answer[t] \in {"none", "pending", "waiting", "error"}
      /\ \A p \in pool : p[1] # t
    BY DEF LifeInv, UnhandledIsFresh
<1>2. \A h \in Handler : asked[h][t] = NoTx
    BY <1>1 DEF LifeInv, AskedIsPending
<1>3. replaces[t] = NoTx /\ \A w \in Window : view[w][t] # "clicked"
    BY DEF Handled
<1> QED BY <1>1, <1>2, <1>3

\* An early request has not been answered.
LEMMA EarlyFacts ==
    ASSUME LifeInv, NEW t \in Tx, stage[t] \in {"new", "permission"}
    PROVE  /\ ~ Handled(t) /\ store[t] = NoTx
           /\ \A w \in Window : view[w][t] = "hidden"
BY DEF LifeInv, NotYetSeen, Handled

\* Neither has an id that is not in use.
LEMMA UnusedFacts ==
    ASSUME LockInv, LifeInv, NEW t \in Tx, Unused(t)
    PROVE  stage[t] = "new" /\ answer[t] = "none" /\ ~ Handled(t)
<1>1. stage[t] = "new"
    BY DEF LockInv, UnusedIsAbsent
<1>2. answer[t] = "none"
    BY <1>1 DEF LifeInv, NotYetSeen
<1> QED BY <1>1, <1>2, EarlyFacts

\* A transaction whose approval has begun, or that has left the first status.
LEMMA HandledFacts ==
    ASSUME LockInv, LifeInv, NEW t \in Tx,
           pc[t] # "idle" \/ Object(t).status # "unapproved"
    PROVE  /\ Handled(t) /\ ~ Unused(t) /\ stage[t] \notin {"new", "permission"}
           /\ ref[t] # NoTx
<1>1. Handled(t)
    BY UnhandledFacts
<1>2. ref[t] # NoTx
    BY ObjectType, ObjectAssumption DEF Version
<1> QED BY <1>1, <1>2, EarlyFacts, UnusedFacts

\* Once answered, a transaction stays so.
LEMMA HandledStays ==
    ASSUME LifeInv, NEW t \in Tx, Effect(t), Handled(t)
    PROVE  Handled(t)'
<1>1. Frame(t)
    BY DEF Effect, Rested, Added, Begun, Refused, Moved, Took, Ended, Dropped,
           Lost, Confirmed
<1> QED BY <1>1 DEF Frame, Handled

\* The effects on a transaction nobody has answered.
LEMMA UnhandledEffect ==
    ASSUME LifeInv, LockInv, NEW t \in Tx, Effect(t), ~ Handled(t)
    PROVE  Rested(t) \/ Added(t) \/ Begun(t) \/ Refused(t)
<1>1. ~ Moved(t) /\ ~ Took(t) /\ ~ Ended(t)
    BY UnhandledFacts DEF Moved, Took, Ended, Holding
<1>2. ~ Lost(t)
    BY UnhandledFacts DEF Lost
<1>3. ~ Dropped(t)
    BY UnhandledFacts, NonceAssumption DEF Dropped
<1>4. ~ Confirmed(t)
    BY UnhandledFacts DEF Confirmed
<1> QED BY <1>1, <1>2, <1>3, <1>4 DEF Effect

\* The effects on an answered one.
LEMMA HandledEffect ==
    ASSUME LifeInv, LockInv, NEW t \in Tx, Effect(t), Handled(t)
    PROVE  \/ Rested(t) \/ Moved(t) \/ Took(t) \/ Ended(t) \/ Dropped(t)
           \/ Lost(t) \/ Confirmed(t)
<1>1. ~ Added(t)
    BY EarlyFacts DEF Added
<1> QED BY <1>1 DEF Effect, Begun, Refused

\* What the world does meanwhile: blocks are kept, a payload gets its nonce
\* once per approval, and only broadcast payloads enter the pool.
LEMMA WorldStep ==
    ASSUME LockInv, Undisturbed', [Next]_vars
    PROVE  /\ mined \subseteq mined'
           /\ \A t \in Tx : signed'[t] = signed[t] \/ pc[t] = "account"
           /\ \A p \in pool' : p \in pool \/ (p[1] \in Tx /\ pc[p[1]] = "broadcast")
<1> DEFINE Kept == signed' = signed /\ pool' = pool /\ mined' = mined
<1> USE DEF nodeVars
<1>1. ASSUME NEW t \in Tx, RequestStep(t) PROVE Kept
    BY <1>1 DEF RequestStep, RequestDenied, AddUnapproved, GasDefaults, BootGas
<1>2. ASSUME NEW t \in Tx, NEW a \in Account, Request(t, a) PROVE Kept
    BY <1>2 DEF Request
<1>3. ASSUME UserStep PROVE Kept
    BY <1>3 DEF UserStep, Refresh, Approve, Reject, Replace
<1>4. ASSUME NEW t \in Tx, ApprovalStep(t) PROVE Kept \/ AccountAnswer(t)
    BY <1>4 DEF ApprovalStep, GlobalFree, TakeNonce, Sign, SwapBalance,
                AwaitRejects, BroadcastAnswer
<1>5. ASSUME NEW h \in Handler, NewBlock(h) \/ CheckStep(h) PROVE Kept
    BY <1>5 DEF NewBlock, CheckStep, CheckPending, CheckDone, ResultMined,
                ResultPending, ResultError
<1>6. ASSUME NetStep \/ Save \/ Crash PROVE Kept
    BY <1>6 DEF NetStep, NetworkUp, SwitchNetwork, ResetAccount, SwitchTo, Save,
                Crash
<1>7. ASSUME UNCHANGED vars PROVE Kept
    BY <1>7 DEF vars
<1> DEFINE Signs(t) == signed'[t] = signed[t] \/ pc[t] = "account"
           Sent(p) == p \in pool \/ (p[1] \in Tx /\ pc[p[1]] = "broadcast")
<1>8. Kept \/ (\E t \in Tx : AccountAnswer(t)) \/ NodeStep
    <2> HIDE DEF Kept
    <2> QED BY <1>1, <1>2, <1>3, <1>4, <1>5, <1>6, <1>7 DEF Next
<1>9. ASSUME NEW t \in Tx, AccountAnswer(t)
      PROVE  mined' = mined /\ pool' = pool /\ \A u \in Tx : Signs(u)
    BY <1>9 DEF AccountAnswer, LockInv, TypeOK, NodeTypeOK
<1>10. ASSUME NEW t \in Tx, NodeAccepts(t)
       PROVE  mined' = mined /\ signed' = signed /\ \A p \in pool' : Sent(p)
    BY <1>10 DEF NodeAccepts
<1>11. ASSUME NEW t \in Tx, Mine(t)
       PROVE  mined \subseteq mined' /\ signed' = signed /\ pool' = pool
    BY <1>11 DEF Mine
<1>12. ASSUME NEW a \in Account, ForeignTransaction(a) PROVE Kept
    BY <1>12 DEF ForeignTransaction
<1>13. CASE Kept
    BY <1>13
<1>14. CASE \E t \in Tx : AccountAnswer(t)
    BY <1>9, <1>14
<1>15. CASE NodeStep
    BY <1>10, <1>11, <1>12, <1>13, <1>15 DEF NodeStep
<1> QED BY <1>8, <1>13, <1>14, <1>15

-----------------------------------------------------------------------------
\* Each part of the invariant is preserved by every effect.

LEMMA NotYetSeenStep ==
    ASSUME LockInv, LifeInv, \A t \in Tx : Effect(t)
    PROVE  NotYetSeen'
<1> SUFFICES ASSUME NEW t \in Tx
             PROVE  /\ stage'[t] = "new" => answer'[t] = "none"
                    /\ stage'[t] # "done" => replaces'[t] = NoTx
                    /\ stage'[t] \in {"new", "permission"} =>
                          /\ store'[t] = NoTx
                          /\ \A w \in Window : view'[w][t] = "hidden"
    BY DEF NotYetSeen
<1>1. /\ stage[t] = "new" => answer[t] = "none"
      /\ stage[t] # "done" => replaces[t] = NoTx
      /\ stage[t] \in {"new", "permission"} =>
            /\ store[t] = NoTx /\ ~ Handled(t)
            /\ \A w \in Window : view[w][t] = "hidden"
            /\ \A h \in Handler : asked[h][t] = NoTx
    BY EarlyFacts, UnhandledFacts DEF LifeInv, NotYetSeen
<1>2. CASE ~ Handled(t)
    <2>1. CASE Rested(t)
        BY <1>1, <2>1 DEF Rested, Frame
    <2>2. CASE Added(t)
        BY <1>1, <2>2 DEF Added, Frame
    <2>3. CASE Begun(t)
        BY <1>1, <2>3 DEF Begun
    <2>4. CASE Refused(t)
        BY <1>1, <2>4 DEF Refused
    <2> QED BY <1>2, <2>1, <2>2, <2>3, <2>4, UnhandledEffect
<1>3. CASE Handled(t)
    <2>1. Frame(t)
        BY <1>3, HandledEffect
        DEF Rested, Moved, Took, Ended, Dropped, Lost, Confirmed
    <2> QED BY <1>1, <1>3, <2>1 DEF Frame
<1> QED BY <1>2, <1>3

LEMMA ReplacementStep ==
    ASSUME LockInv, LifeInv, \A t \in Tx : Effect(t)
    PROVE  ReplacementIsSilent'
<1> SUFFICES ASSUME NEW t \in Tx
             PROVE  /\ replaces'[t] # NoTx =>
                          /\ answer'[t] = "none" /\ Later(t).status # "unapproved"
                          /\ \A w \in Window : view'[w][t] = "hidden"
                    /\ Later(t).lastGasPrice => replaces'[t] # NoTx
    BY DEF ReplacementIsSilent, Later, Object
<1>1. /\ replaces[t] # NoTx =>
            /\ answer[t] = "none" /\ Object(t).status # "unapproved"
            /\ \A w \in Window : view[w][t] = "hidden"
            /\ stage[t] = "done"
      /\ Object(t).lastGasPrice => replaces[t] # NoTx
    BY DEF LifeInv, ReplacementIsSilent, NotYetSeen
<1>2. CASE Rested(t)
    BY <1>1, <1>2 DEF Rested, Frame, SameMeta, SameRest
<1>3. CASE Added(t)
    BY <1>1, <1>3 DEF Added, Frame, FreshMeta
<1>4. CASE Begun(t)
    <2>1. Unused(t) => /\ answer[t] = "none"
                       /\ \A w \in Window : view[w][t] = "hidden"
        BY UnusedFacts, EarlyFacts
    <2> QED BY <1>1, <1>4, <2>1 DEF Begun
<1>5. CASE Refused(t)
    BY <1>1, <1>5 DEF Refused, SameRest
<1>6. CASE Moved(t)
    BY <1>1, <1>6 DEF Moved, Frame, SameRest
<1>7. CASE Took(t)
    BY <1>1, <1>7 DEF Took, Frame
<1>8. CASE Ended(t)
    BY <1>1, <1>8 DEF Ended, Heard, Frame, SameMeta
<1>9. CASE Dropped(t)
    BY <1>1, <1>9 DEF Dropped, Frame, SameRest
<1>10. CASE Lost(t)
    BY <1>1, <1>10 DEF Lost, Heard, Frame, SameRest
<1>11. CASE Confirmed(t)
    BY <1>1, <1>11 DEF Confirmed, Frame, SameRest
<1> QED BY <1>2, <1>3, <1>4, <1>5, <1>6, <1>7, <1>8, <1>9, <1>10, <1>11 DEF Effect

LEMMA FreshStep ==
    ASSUME LockInv, LifeInv, Undisturbed', [Next]_vars, \A t \in Tx : Effect(t)
    PROVE  UnhandledIsFresh'
<1> SUFFICES ASSUME NEW t \in Tx, ~ Handled(t)'
             PROVE  /\ pc'[t] = "idle" /\ ref'[t] = Original
                    /\ Later(t).status = "unapproved"
                    /\ Later(t).nonce = NoNonce /\ ~Later(t).hash
                    /\ answer'[t] \in {"none", "pending", "waiting", "error"}
                    /\ \A p \in pool' : p[1] # t
    BY DEF UnhandledIsFresh, Later, Object
<1>1. ~ Handled(t)
    BY HandledStays
<1>2. \A p \in pool' : p[1] # t
    BY <1>1, UnhandledFacts, WorldStep
<1>3. ~ Begun(t)
    BY DEF Begun, Handled
<1>4. ~ Refused(t)
    BY DEF Refused, Handled
<1>5. ~ Object(t).hash
    BY <1>1 DEF LifeInv, UnhandledIsFresh
<1>6. CASE Rested(t)
    BY <1>1, <1>2, <1>5, <1>6, UnhandledFacts DEF Rested, SameFlow, SameMeta, SameRest
<1>7. CASE Added(t)
    BY <1>1, <1>2, <1>7, UnhandledFacts DEF Added, SameFlow, FreshMeta
<1> QED BY <1>1, <1>3, <1>4, <1>6, <1>7, UnhandledEffect

LEMMA OneObjectStep ==
    ASSUME LockInv, LifeInv, \A t \in Tx : Effect(t)
    PROVE  OneObject'
<1> SUFFICES ASSUME NEW t \in Tx
             PROVE  /\ store'[t] \in {NoTx, ref'[t]}
                    /\ Later(t).status = "submitted" => store'[t] # NoTx
    BY DEF OneObject, Later, Object
<1>1. /\ store[t] \in {NoTx, ref[t]}
      /\ Object(t).status = "submitted" => store[t] # NoTx
      /\ \A h \in Handler : asked[h][t] # NoTx => asked[h][t] = ref[t]
    BY DEF LifeInv, OneObject, AskedIsPending
<1>2. CASE Rested(t)
    BY <1>1, <1>2 DEF Rested, SameFlow, SameMeta, FinalStates
<1>3. CASE Added(t)
    BY <1>1, <1>3 DEF Added, SameFlow, FreshMeta
<1>4. CASE Begun(t)
    BY <1>4 DEF Begun
<1>5. CASE Refused(t)
    BY <1>5, UnhandledFacts DEF Refused
<1>6. CASE Moved(t)
    BY <1>1, <1>6, HandledFacts DEF Moved, Holding
<1>7. CASE Took(t)
    BY <1>7, HandledFacts DEF Took
<1>8. CASE Ended(t)
    BY <1>1, <1>8 DEF Ended, SameMeta
<1>9. CASE Dropped(t) \/ Lost(t) \/ Confirmed(t)
    BY <1>1, <1>9 DEF Dropped, Lost, Confirmed, SameFlow
<1> QED BY <1>2, <1>3, <1>4, <1>5, <1>6, <1>7, <1>8, <1>9 DEF Effect

LEMMA AskedStep ==
    ASSUME LockInv, LifeInv, \A t \in Tx : Effect(t)
    PROVE  AskedIsPending'
<1> SUFFICES ASSUME NEW h \in Handler, NEW t \in Tx, asked'[h][t] # NoTx
             PROVE  /\ hpc'[h] = "checking" /\ asked'[h][t] = ref'[t]
                    /\ Later(t).status \in {"submitted", "dropped"}
                    /\ Later(t).hash /\ pc'[t] = "idle"
    BY DEF AskedIsPending, Later, Object
<1>1. asked[h][t] # NoTx =>
         /\ hpc[h] = "checking" /\ asked[h][t] = ref[t] /\ Handled(t)
         /\ Object(t).status \in {"submitted", "dropped"} /\ Object(t).hash
         /\ pc[t] = "idle"
    BY UnhandledFacts DEF LifeInv, AskedIsPending
<1>2. Object(t).status = "submitted" =>
         pc[t] = "idle" /\ store[t] = ref[t]
    BY DEF LifeInv, NonceOnce, OneObject
<1>3. CASE Rested(t)
    BY <1>1, <1>2, <1>3 DEF Rested, SameFlow, SameMeta, SameRest
<1>4. CASE Added(t) \/ Begun(t) \/ Refused(t)
    BY <1>1, <1>4, EarlyFacts DEF Added, Begun, Refused, AskedKept
<1>5. CASE Moved(t) \/ Took(t) \/ Ended(t)
    BY <1>1, <1>5 DEF Moved, Took, Ended, AskedKept, Holding
<1>6. CASE Dropped(t)
    BY <1>1, <1>6 DEF Dropped, AskedKept, SameFlow, SameRest
<1>7. CASE Lost(t)
    BY <1>1, <1>7 DEF Lost, AskedKept
<1>8. CASE Confirmed(t)
    BY <1>8 DEF Confirmed
<1> QED BY <1>3, <1>4, <1>5, <1>6, <1>7, <1>8 DEF Effect

LEMMA NonceOnceStep ==
    ASSUME LockInv, LifeInv, Undisturbed', [Next]_vars, \A t \in Tx : Effect(t)
    PROVE  NonceOnce'
<1> SUFFICES ASSUME NEW t \in Tx
             PROVE  /\ pc'[t] \in {"global", "address"} =>
                          \/ Later(t).nonce = NoNonce
                          \/ Later(t).lastGasPrice /\ Later(t).custom = NoNonce
                    /\ pc'[t] \in Holding => Later(t).nonce \in Nat
                    /\ Later(t).status \in {"submitted", "confirmed"} =>
                          pc'[t] = "idle"
                    /\ Later(t).status \in {"submitted", "confirmed", "dropped"} =>
                          Later(t).nonce \in Nat
                    /\ Later(t).status = "confirmed" => <<t, signed'[t]>> \in mined'
    BY DEF NonceOnce, Later, Object
<1>1. /\ pc[t] \in {"global", "address"} =>
            \/ Object(t).nonce = NoNonce
            \/ Object(t).lastGasPrice /\ Object(t).custom = NoNonce
      /\ pc[t] \in Holding => Object(t).nonce \in Nat
      /\ Object(t).status \in {"submitted", "confirmed"} => pc[t] = "idle"
      /\ Object(t).status \in {"submitted", "confirmed", "dropped"} =>
            Object(t).nonce \in Nat
      /\ Object(t).status = "confirmed" => <<t, signed[t]>> \in mined
    BY DEF LifeInv, NonceOnce
<1>2. pc[t] = "idle" /\ <<t, signed[t]>> \in mined => <<t, signed'[t]>> \in mined'
    BY WorldStep
<1>3. CASE Rested(t)
    BY <1>1, <1>2, <1>3 DEF Rested, SameFlow, SameMeta, SameRest
<1>4. CASE Added(t)
    <2>1. pc'[t] = "idle" /\ Later(t) = FreshMeta
        BY <1>4, EarlyFacts, UnhandledFacts DEF Added, SameFlow
    <2> QED BY <2>1 DEF FreshMeta, Holding
<1>5. CASE Begun(t)
    BY <1>5 DEF Begun, Holding
<1>6. CASE Refused(t)
    <2>1. pc'[t] = "idle" /\ Later(t).status \in {"unapproved", "rejected"}
        BY <1>6, UnhandledFacts DEF Refused, SameFlow
    <2> QED BY <2>1 DEF Holding
<1>7. CASE Moved(t)
    <2>1. pc[t] # "idle" /\ Object(t).status \notin {"submitted", "confirmed"}
        BY <1>1, <1>7 DEF Moved, Holding
    <2> QED BY <1>1, <1>7, <2>1 DEF Moved, SameRest, Holding
<1>8. CASE Took(t)
    BY <1>1, <1>8 DEF Took, Holding
<1>9. CASE Ended(t)
    <2>1. pc[t] # "idle"
        BY <1>9 DEF Ended, Holding
    <2> QED BY <1>1, <1>9, <2>1 DEF Ended, SameMeta, Holding
<1>10. CASE Dropped(t)
    BY <1>1, <1>10 DEF Dropped, SameFlow, SameRest
<1>11. CASE Lost(t)
    BY <1>1, <1>11 DEF Lost, SameFlow, SameRest
<1>12. CASE Confirmed(t)
    <2>1. pc[t] = "idle" /\ Object(t).status \in {"submitted", "dropped"}
        BY <1>12 DEF Confirmed, LifeInv, AskedIsPending
    <2> QED BY <1>1, <1>2, <1>12, <2>1 DEF Confirmed, SameFlow, SameRest, Holding
<1> QED BY <1>3, <1>4, <1>5, <1>6, <1>7, <1>8, <1>9, <1>10, <1>11, <1>12 DEF Effect

\* A dropped transaction keeps its twin, or the twin has one itself.
LEMMA TwinStep ==
    ASSUME LockInv, LifeInv, \A t \in Tx : Effect(t)
    PROVE  TwinIsMined'
<1> SUFFICES ASSUME NEW t \in Tx, Later(t).status = "dropped"
             PROVE  \E u \in Tx : Twin(t, u)
    BY DEF TwinIsMined, Twin, Later, Object
<1>1. SUFFICES ASSUME ~ Dropped(t) PROVE \E u \in Tx : Twin(t, u)
    BY DEF Dropped
<1>2. /\ Object(t).status = "dropped" /\ Later(t).nonce = Object(t).nonce
      /\ Frame(t)
    <2>1. CASE ~ Handled(t)
        BY <2>1, UnhandledEffect, UnhandledFacts
        DEF Rested, SameMeta, Added, FreshMeta, Begun, Refused
    <2>2. CASE Took(t)
        <3>1. Later(t).status = Object(t).status /\ pc[t] = "address" /\ Frame(t)
            BY <2>2 DEF Took
        <3>2. Object(t).lastGasPrice /\ Object(t).custom = NoNonce
            BY <3>1, NonceAssumption DEF LifeInv, NonceOnce
        <3> QED BY <2>2, <3>1, <3>2 DEF Took
    <2>3. CASE Rested(t) \/ Moved(t) \/ Ended(t) \/ Lost(t) \/ Confirmed(t)
        BY <2>3 DEF Rested, SameMeta, SameRest, Moved, Ended, Lost, Confirmed
    <2> QED BY <1>1, <2>1, <2>2, <2>3, HandledEffect
<1>3. PICK u \in Tx \ {t} : /\ from[u] = from[t] /\ Object(u).nonce = Object(t).nonce
                            /\ Object(u).status = "confirmed"
    BY <1>2 DEF LifeInv, TwinIsMined
<1>4. Handled(u) /\ ~ Unused(u) /\ ~ Unused(t) /\ pc[u] = "idle"
    BY <1>2, <1>3, HandledFacts DEF LifeInv, NonceOnce
<1>5. /\ Frame(u) /\ Later(u).nonce = Object(u).nonce
      /\ Later(u).status = "confirmed" \/ Dropped(u)
    <2>1. ~ Moved(u) /\ ~ Took(u) /\ ~ Ended(u)
        BY <1>4 DEF Moved, Took, Ended, Holding
    <2>2. CASE Rested(u) \/ Confirmed(u)
        BY <1>3, <2>2 DEF Rested, SameMeta, SameRest, Confirmed
    <2>3. CASE Dropped(u)
        BY <2>3 DEF Dropped, SameRest
    <2>4. ~ Lost(u)
        BY <1>3 DEF Lost
    <2> QED BY <1>4, <2>1, <2>2, <2>3, <2>4, HandledEffect
<1>6. from'[u] = from[u] /\ from'[t] = from[t]
    BY <1>2, <1>4, <1>5 DEF Frame
<1>7. CASE Later(u).status = "confirmed"
    BY <1>2, <1>3, <1>5, <1>6, <1>7 DEF Twin
<1>8. CASE Dropped(u)
    <2>1. PICK v \in Tx : Twin(u, v)
        BY <1>8 DEF Dropped
    <2>2. v # t
        BY <2>1 DEF Twin
    <2> QED BY <1>2, <1>3, <1>5, <1>6, <2>1, <2>2 DEF Twin
<1> QED BY <1>5, <1>7, <1>8

LEMMA AnswerStep ==
    ASSUME LockInv, LifeInv, Undisturbed', [Next]_vars, \A t \in Tx : Effect(t)
    PROVE  AnswerIsTrue'
<1> DEFINE NotAsked(t) == \A h \in Handler : asked[h][t] = NoTx
           NotSent(t) == \A p \in pool : p[1] # t
<1> SUFFICES ASSUME NEW t \in Tx
             PROVE  /\ answer'[t] = "hash" =>
                          /\ Later(t).status \in {"submitted", "confirmed", "dropped"}
                          /\ Later(t).hash /\ pc'[t] = "idle"
                    /\ answer'[t] = "failed" =>
                          /\ Later(t).status \in {"failed", "dropped"}
                          /\ pc'[t] = "idle" /\ NotAsked(t)'
                    /\ answer'[t] = "rejected" =>
                          /\ store'[t] = NoTx /\ pc'[t] = "idle"
                          /\ Later(t).status = "rejected"
                          /\ NotAsked(t)' /\ NotSent(t)'
    BY DEF AnswerIsTrue, Later, Object
<1>1. /\ answer[t] = "hash" =>
            /\ Object(t).status \in {"submitted", "confirmed", "dropped"}
            /\ Object(t).hash /\ pc[t] = "idle"
      /\ answer[t] = "failed" =>
            /\ Object(t).status \in {"failed", "dropped"} /\ pc[t] = "idle"
            /\ NotAsked(t)
      /\ answer[t] = "rejected" =>
            /\ store[t] = NoTx /\ pc[t] = "idle"
            /\ Object(t).status = "rejected" /\ NotAsked(t) /\ NotSent(t)
    BY DEF LifeInv, AnswerIsTrue
<1>2. AskedKept(t) /\ NotAsked(t) => NotAsked(t)'
    BY DEF AskedKept
<1>3. pc[t] = "idle" /\ NotSent(t) => NotSent(t)'
    BY WorldStep
<1>4. pc[t] # "idle" => NotAsked(t)
    BY DEF LifeInv, AskedIsPending
<1>5. CASE Rested(t)
    <2>1. \/ answer'[t] = answer[t]
          \/ answer'[t] \notin {"hash", "failed", "rejected"}
        BY <1>5 DEF Rested
    <2>2. Object(t).status # "submitted" /\ NotAsked(t) => NotAsked(t)'
        BY <1>5 DEF Rested
    <2>3. store[t] = NoTx /\ NotAsked(t) => store'[t] = NoTx
        BY <1>5 DEF Rested
    <2>4. SameFlow(t) /\ SameMeta(t)
        BY <1>5 DEF Rested
    <2> HIDE DEF NotAsked, NotSent
    <2> QED BY <1>1, <1>3, <2>1, <2>2, <2>3, <2>4 DEF SameFlow, SameMeta, SameRest
<1>6. CASE ~ Handled(t)
    <2>1. /\ answer[t] \notin {"hash", "failed", "rejected"} /\ pc[t] = "idle"
          /\ NotAsked(t) /\ NotSent(t)
        BY <1>6, UnhandledFacts
    <2>2. CASE Added(t) \/ Begun(t)
        BY <2>1, <2>2 DEF Added, Begun
    <2>3. CASE Refused(t)
        <3>1. NotAsked(t)' /\ NotSent(t)' /\ pc'[t] = "idle"
            BY <1>2, <1>3, <2>1, <2>3 DEF Refused, SameFlow
        <3> HIDE DEF NotAsked, NotSent
        <3> QED BY <2>1, <2>3, <3>1 DEF Refused
    <2> QED BY <1>5, <1>6, <2>2, <2>3, UnhandledEffect
<1>7. CASE Moved(t) \/ Took(t)
    BY <1>1, <1>7 DEF Moved, Took, Holding
<1>8. CASE Ended(t)
    <2>1. pc[t] # "idle" /\ answer[t] \notin {"hash", "failed", "rejected"}
        BY <1>1, <1>8 DEF Ended, Holding
    <2>2. NotAsked(t)' /\ pc'[t] = "idle"
        BY <1>2, <1>4, <1>8, <2>1 DEF Ended
    <2> HIDE DEF NotAsked, NotSent
    <2> QED BY <1>8, <2>1, <2>2 DEF Ended
<1>9. CASE Dropped(t)
    <2>1. /\ answer'[t] = answer[t] /\ pc'[t] = pc[t] /\ Later(t).hash = Object(t).hash
          /\ Later(t).status = "dropped" /\ store[t] # NoTx /\ AskedKept(t)
        BY <1>9 DEF Dropped, SameFlow, SameRest
    <2> HIDE DEF NotAsked, NotSent
    <2> QED BY <1>1, <1>2, <2>1
<1>10. CASE Lost(t)
    <2>1. /\ Object(t).status = "submitted" /\ ~ Object(t).hash /\ AskedKept(t)
          /\ pc'[t] = pc[t] /\ answer'[t] \in {answer[t], "failed"}
          /\ Later(t).status = "failed"
        BY <1>10 DEF Lost, SameFlow
    <2>2. pc[t] = "idle" /\ NotAsked(t)
        BY <2>1 DEF LifeInv, NonceOnce, AskedIsPending
    <2> HIDE DEF NotAsked, NotSent
    <2> QED BY <1>1, <1>2, <2>1, <2>2
<1>11. CASE Confirmed(t)
    <2>1. ~ NotAsked(t)
        BY <1>11 DEF Confirmed
    <2>2. /\ answer'[t] = answer[t] /\ pc'[t] = pc[t] /\ Later(t).hash = Object(t).hash
          /\ Later(t).status = "confirmed"
        BY <1>11 DEF Confirmed, SameFlow, SameRest
    <2> HIDE DEF NotAsked, NotSent
    <2> QED BY <1>1, <2>1, <2>2
<1> QED BY <1>5, <1>6, <1>7, <1>8, <1>9, <1>10, <1>11, HandledEffect

-----------------------------------------------------------------------------
\* The nonces of one sender.

\* An approval takes its nonce in TakeNonce and nowhere else.
LEMMA TookIsTakeNonce ==
    ASSUME LockInv, [Next]_vars, NEW t \in Tx, Took(t)
    PROVE  TakeNonce(t)
<1>0. FlowTypeOK /\ pc[t] = "address" /\ pc'[t] = "account"
    BY DEF LockInv, TypeOK, Took
<1>1. LockAction
    BY <1>0, LockFrame
<1>2. ASSUME NEW s \in Tx,
             \/ GlobalFree(s) \/ AccountAnswer(s) \/ Sign(s) \/ SwapBalance(s)
             \/ AwaitRejects(s) \/ \E withHash \in BOOLEAN : BroadcastAnswer(s, withHash)
      PROVE  FALSE
    BY <1>0, <1>2 DEF GlobalFree, AccountAnswer, Sign, SwapBalance, AwaitRejects,
                      BroadcastAnswer, FailApproval, EndApproval, FlowTypeOK
<1>3. ASSUME NEW st, NEW hp, NEW s \in Tx, BeginApproval(st, hp, s) PROVE FALSE
    BY <1>0, <1>3 DEF BeginApproval, FlowTypeOK, flowVars
<1>4. ASSUME \/ \E s \in Tx, a \in Account : Request(s, a)
             \/ \E h \in Handler : NewBlock(h) \/ CheckPending(h) \/ CheckDone(h)
             \/ Crash
      PROVE  FALSE
    BY <1>0, <1>4 DEF Request, NewBlock, CheckPending, CheckDone, Crash, flowVars
<1>5. ASSUME \/ \E w \in Window, s \in Tx, custom \in CustomNonces \union {NoNonce} :
                   Approve(w, s, custom)
             \/ \E o, s \in Tx : Replace(o, s)
      PROVE  FALSE
    BY <1>3, <1>5 DEF Approve, Replace
<1>6. ASSUME NEW s \in Tx, TakeNonce(s), s # t PROVE FALSE
    BY <1>0, <1>6 DEF TakeNonce, FlowTypeOK
<1> QED BY <1>1, <1>2, <1>4, <1>5, <1>6 DEF LockAction

\* Who is in use after a step was so before, with the same nonce, or has just
\* taken one.
LEMMA InUseStep ==
    ASSUME LockInv, LifeInv, NEW t \in Tx, Effect(t), InUse(t)'
    PROVE  /\ ~ Unused(t) /\ from'[t] = from[t]
           /\ Later(t).custom = Object(t).custom
           /\ Later(t).lastGasPrice = Object(t).lastGasPrice
           /\ Took(t) \/ (InUse(t) /\ Later(t).nonce = Object(t).nonce)
<1>0. pc'[t] \in Holding \/ Later(t).status = "submitted"
    BY DEF InUse, Later, Object
<1>1. Object(t).status = "submitted" => pc[t] = "idle"
    BY DEF LifeInv, NonceOnce
<1>2. Handled(t)
    BY <1>0, UnhandledEffect, UnhandledFacts
    DEF Rested, SameFlow, SameMeta, Added, FreshMeta, Begun, Refused, Holding
<1>3. ~ Unused(t)
    BY <1>2, UnusedFacts
<1>4. Frame(t)
    BY <1>2, HandledEffect
    DEF Rested, Moved, Took, Ended, Dropped, Lost, Confirmed
<1>5. from'[t] = from[t]
    BY <1>3, <1>4 DEF Frame
<1>6. CASE Rested(t)
    BY <1>0, <1>3, <1>5, <1>6 DEF Rested, SameFlow, SameMeta, SameRest, InUse
<1>7. CASE Moved(t)
    <2>1. pc'[t] \in Holding
        BY <1>0, <1>1, <1>7 DEF Moved, Holding
    <2> QED BY <1>3, <1>5, <1>7, <2>1 DEF Moved, SameRest, InUse, Holding
<1>8. CASE Took(t)
    BY <1>3, <1>5, <1>8 DEF Took
<1>9. CASE Ended(t)
    <2>1. Later(t).status = "submitted"
        BY <1>0, <1>9 DEF Ended, Holding
    <2>2. pc[t] = "broadcast"
        BY <1>1, <1>9, <2>1 DEF Ended, SameMeta, Holding
    <2> QED BY <1>3, <1>5, <1>9, <2>2 DEF Ended, InUse, Holding
<1>10. CASE Dropped(t)
    BY <1>0, <1>3, <1>5, <1>10 DEF Dropped, SameFlow, SameRest, InUse
<1>11. CASE Lost(t)
    BY <1>0, <1>1, <1>11 DEF Lost, SameFlow, Holding
<1>12. CASE Confirmed(t)
    <2>1. pc[t] = "idle"
        BY <1>12 DEF Confirmed, LifeInv, AskedIsPending
    <2> QED BY <1>0, <1>12, <2>1 DEF Confirmed, SameFlow, Holding
<1> QED BY <1>2, <1>6, <1>7, <1>8, <1>9, <1>10, <1>11, <1>12, HandledEffect

\* An approval gets the tracker's next nonce, unless the user typed one or it
\* is a replacement's.
LEMMA TakenIsNext ==
    ASSUME LockInv, LifeInv, NEW t \in Tx, TakeNonce(t), OfTracker(t)
    PROVE  /\ from[t] \in Account /\ nodeNonce[from[t]] \in Nat
           /\ Later(t).nonce = NextNonce(nodeNonce[from[t]],
                                         NoncesOf(from[t], {"confirmed"}),
                                         NoncesOf(from[t], {"submitted"}))
<1> DEFINE n == NextNonce(nodeNonce[from[t]], NoncesOf(from[t], {"confirmed"}),
                          NoncesOf(from[t], {"submitted"}))
           old == heap[t][ref[t]]
<1>1. from[t] \in Account /\ nodeNonce[from[t]] \in Nat
    BY ApprovingHasSender DEF LockInv, TakeNonce, TypeOK, NodeTypeOK
<1>2. /\ heap' = [heap EXCEPT ![t][ref[t]].nonce = NonceFor(t, Object(t))]
      /\ ref' = ref
    BY DEF TakeNonce, Object
<1>3. NonceFor(t, Object(t)) = n
    BY DEF NonceFor, OfTracker
<1> HIDE DEF n
<1>4. heap \in Heaps /\ ref[t] \in Version
    BY ObjectType
<1>5. old \in Meta /\ heap'[t][ref[t]] = [old EXCEPT !.nonce = n]
    BY <1>2, <1>3, <1>4 DEF Heaps
<1>6. [old EXCEPT !.nonce = n].nonce = n
    <2> HIDE DEF old
    <2> QED BY <1>5 DEF Meta
<1>7. Later(t).nonce = n
    BY <1>2, <1>5, <1>6 DEF Later
<1> QED BY <1>1, <1>7 DEF n

\* So it is none of the sender's submitted ones.
LEMMA TakenIsFree ==
    ASSUME LockInv, LifeInv, NEW t \in Tx, TakeNonce(t),
           OfTracker(t), NEW u \in Tx, from[u] = from[t], Object(u).status = "submitted"
    PROVE  Later(t).nonce # Object(u).nonce
<1> DEFINE pending == NoncesOf(from[t], {"submitted"})
<1>1. Object(u).nonce \in pending
    <2>1. store[u] = ref[u] /\ u \in Stored(store) /\ chainOf[u] = chain
        BY DEF LifeInv, OneObject, OneNetwork, Stored
    <2> QED BY <2>1 DEF NoncesOf, Here, OnChain, WithStatus, Object
<1>2. Later(t).nonce \notin pending
    <2>1. TypeOK
        BY DEF LockInv
    <2> QED BY <2>1, TakenIsNext, NoncesType, NextNonceIsFirstFree
<1> QED BY <1>1, <1>2

LEMMA NoncesDifferStep ==
    ASSUME LockInv, LockInv', LifeInv, [Next]_vars, \A t \in Tx : Effect(t)
    PROVE  NoncesDiffer'
<1> SUFFICES ASSUME NEW t \in Tx, NEW u \in Tx, t # u, from'[t] = from'[u],
                    InUse(t)', InUse(u)', OfTracker(t)', OfTracker(u)',
                    Later(t).nonce = Later(u).nonce
             PROVE  FALSE
    BY DEF NoncesDiffer, Later, Object
<1>1. \A s \in {t, u} : /\ from'[s] = from[s] /\ OfTracker(s)
                        /\ Took(s) \/ (InUse(s) /\ Later(s).nonce = Object(s).nonce)
    <2> SUFFICES ASSUME NEW s \in {t, u}
                 PROVE  /\ from'[s] = from[s] /\ OfTracker(s)
                        /\ \/ Took(s)
                           \/ InUse(s) /\ Later(s).nonce = Object(s).nonce
        OBVIOUS
    <2>1. s \in Tx /\ Effect(s) /\ InUse(s)'
        OBVIOUS
    <2>2. Later(s).custom = NoNonce /\ ~ Later(s).lastGasPrice
        BY DEF Later, Object, OfTracker
    <2> QED BY <2>1, <2>2, InUseStep DEF OfTracker
<1>2. \A v, w \in Tx : v # w /\ from'[v] = from'[w] /\ pc'[v] \in Holding
                       => pc'[w] \notin Holding
    BY DEF LockInv, NonceLockDiscipline, HasNonceLock, HoldsMutex
<1>3. ASSUME NEW v \in {t, u}, NEW w \in {t, u}, v # w, Took(v) PROVE FALSE
    <2>1. TakeNonce(v) /\ pc'[v] \in Holding
        BY <1>3, TookIsTakeNonce DEF Took, Holding
    <2>2. pc'[w] \notin Holding
        BY <1>2, <1>3, <2>1
    <2>3. heap'[w] = heap[w] /\ ref' = ref
        BY <1>3, <2>1, ObjectType DEF TakeNonce, Heaps
    <2>4. Object(w).status = "submitted" /\ Later(w).nonce = Object(w).nonce
        BY <2>2, <2>3 DEF InUse, Later, Object
    <2>5. from[w] = from[v] /\ OfTracker(v)
        BY <1>1, <1>3
    <2>6. Later(v).nonce # Object(w).nonce
        BY <1>3, <2>1, <2>4, <2>5, TakenIsFree
    <2> QED BY <1>3, <2>4, <2>6
<1>4. InUse(t) /\ InUse(u) /\ Object(t).nonce = Object(u).nonce
    BY <1>1, <1>3
<1> QED BY <1>1, <1>4 DEF LifeInv, NoncesDiffer

-----------------------------------------------------------------------------
\* The undisturbed run as a whole.

LEMMA OneNetworkStep ==
    ASSUME LockInv, LifeInv, Undisturbed', [Next]_vars
    PROVE  OneNetwork'
<1> DEFINE Same == UNCHANGED <<regas, net, chain, chainOf, from>>
<1> USE DEF requestVars, netVars
<1>0. /\ OneNetwork /\ RequestTypeOK
    BY DEF LifeInv, LockInv, TypeOK
<1>1. CASE Same
    BY <1>0, <1>1 DEF OneNetwork, Unused
<1>2. ASSUME NEW t \in Tx,
             (\E a \in Account : Request(t, a)) \/ (\E o \in Tx : Replace(o, t))
      PROVE  OneNetwork'
    <2>1. /\ net' = "up" /\ regas' = regas /\ chain' = chain
          /\ chainOf' = [chainOf EXCEPT ![t] = chain]
        BY <1>2 DEF Request, Replace
    <2> QED BY <1>0, <2>1 DEF OneNetwork, RequestTypeOK
<1>3. ASSUME NEW t \in Tx, RequestStep(t) PROVE Same
    BY <1>0, <1>3
    DEF RequestStep, RequestDenied, AddUnapproved, GasDefaults, BootGas, OneNetwork
<1>4. ASSUME UserStep PROVE Same \/ \E o, t \in Tx : Replace(o, t)
    BY <1>4 DEF UserStep, Refresh, Approve, Reject
<1>5. ASSUME NEW t \in Tx, ApprovalStep(t) PROVE Same
    BY <1>5 DEF ApprovalStep, GlobalFree, TakeNonce, AccountAnswer, Sign,
                SwapBalance, AwaitRejects, BroadcastAnswer
<1>6. ASSUME NEW h \in Handler, NewBlock(h) \/ CheckStep(h) PROVE Same
    BY <1>6 DEF NewBlock, CheckStep, CheckPending, CheckDone, ResultMined,
                ResultPending, ResultError
<1>7. ASSUME NodeStep \/ Save PROVE Same
    BY <1>7 DEF NodeStep, NodeAccepts, Mine, ForeignTransaction, Save
<1>8. ASSUME NetworkUp PROVE OneNetwork'
    <2>1. regas' = {}
        BY <1>8, NetworkUpEffect
    <2>2. net' = "up" /\ chain' = chain /\ chainOf' = chainOf
        BY <1>8 DEF NetworkUp
    <2> QED BY <1>0, <2>1, <2>2 DEF OneNetwork
<1>9. CASE UNCHANGED vars
    BY <1>1, <1>9 DEF vars
<1>10. CASE Next
    <2> HIDE DEF Same
    <2>1. ASSUME NetStep PROVE OneNetwork'
        BY <1>8, <1>10, <2>1, StepIsUndisturbed DEF NetStep
    <2>2. ~ Crash
        BY <1>10, StepIsUndisturbed
    <2> QED BY <1>1, <1>2, <1>3, <1>4, <1>5, <1>6, <1>7, <1>10, <2>1, <2>2 DEF Next
<1> QED BY <1>9, <1>10

\* A run that is undisturbed after a step was so before it.
LEMMA UndisturbedBefore ==
    ASSUME LockInv, Undisturbed', [Next]_vars
    PROVE  Undisturbed
<1> DEFINE Kept == UNCHANGED <<switches, crashes, view>>
<1> USE DEF outerVars
<1>0. OuterTypeOK /\ switches' = 0 /\ crashes' = 0
    BY DEF LockInv, TypeOK, Undisturbed
<1>1. CASE Kept
    BY <1>1 DEF Undisturbed
<1>2. ASSUME NEW t \in Tx,
             RequestStep(t) \/ ApprovalStep(t) \/ \E a \in Account : Request(t, a)
      PROVE  Kept
    BY <1>2 DEF RequestStep, RequestDenied, AddUnapproved, GasDefaults, BootGas,
                Request, ApprovalStep, GlobalFree, TakeNonce, AccountAnswer, Sign,
                SwapBalance, AwaitRejects, BroadcastAnswer
<1>3. ASSUME NEW h \in Handler, NewBlock(h) \/ CheckStep(h) PROVE Kept
    BY <1>3 DEF NewBlock, CheckStep, CheckPending, CheckDone, ResultMined,
                ResultPending, ResultError
<1>4. ASSUME NodeStep \/ Save \/ NetworkUp PROVE Kept
    BY <1>4 DEF NodeStep, NodeAccepts, Mine, ForeignTransaction, Save, NetworkUp
<1>5. ASSUME UserStep
      PROVE  /\ switches' = switches /\ crashes' = crashes
             /\ \A w \in Window, t \in Tx :
                   view[w][t] = "clicked" => view'[w][t] = "clicked"
    <2>1. CASE \E w \in Window : Refresh(w)
        BY <1>0, <2>1 DEF Refresh, OuterTypeOK
    <2>2. ASSUME NEW v \in Window, NEW u \in Tx, Click(v, u)
          PROVE  \A w \in Window, t \in Tx :
                    view[w][t] = "clicked" => view'[w][t] = "clicked"
        BY <1>0, <2>2 DEF Click, OuterTypeOK
    <2>4. ASSUME NEW w \in Window, NEW t \in Tx,
                 \/ \E custom \in CustomNonces \union {NoNonce} : Approve(w, t, custom)
                 \/ Reject(w, t)
          PROVE  Click(w, t) /\ switches' = switches /\ crashes' = crashes
        BY <2>4 DEF Approve, Reject
    <2>3. CASE \E o, t \in Tx : Replace(o, t)
        BY <2>3 DEF Replace
    <2> QED BY <1>5, <2>1, <2>2, <2>3, <2>4 DEF UserStep
<1>6. CASE UserStep
    BY <1>0, <1>5, <1>6 DEF Undisturbed
<1>7. CASE UNCHANGED vars
    BY <1>1, <1>7 DEF vars
<1>8. CASE Next
    <2> HIDE DEF Kept
    <2>1. NetStep => NetworkUp
        BY <1>8, StepIsUndisturbed DEF NetStep
    <2>2. ~ Crash
        BY <1>8, StepIsUndisturbed
    <2> QED BY <1>1, <1>2, <1>3, <1>4, <1>6, <1>8, <2>1, <2>2 DEF Next
<1> QED BY <1>7, <1>8

\* The invariant holds at first.
LEMMA LifeInit == Init => LifeInv
<1> SUFFICES ASSUME Init PROVE LifeInv
    OBVIOUS
<1>1. \A t \in Tx : /\ Object(t) = FreshMeta /\ ~ Handled(t) /\ ref[t] = Original
                    /\ pc[t] = "idle" /\ store[t] = NoTx /\ answer[t] = "none"
                    /\ stage[t] = "new" /\ replaces[t] = NoTx
                    /\ \A h \in Handler : asked[h][t] = NoTx
                    /\ \A w \in Window : view[w][t] = "hidden"
    BY DEF Init, Meta0, Object, Handled, Version
<1>2. pool = {}
    BY DEF Init
<1>3. OneNetwork
    BY DEF Init, OneNetwork, Unused
<1>4. NotYetSeen /\ ReplacementIsSilent /\ OneObject /\ AskedIsPending
    BY <1>1 DEF NotYetSeen, ReplacementIsSilent, OneObject, AskedIsPending, FreshMeta
<1>5. UnhandledIsFresh /\ AnswerIsTrue
    BY <1>1, <1>2 DEF UnhandledIsFresh, AnswerIsTrue, FreshMeta
<1>6. NonceOnce /\ NoncesDiffer /\ TwinIsMined
    BY <1>1 DEF NonceOnce, NoncesDiffer, TwinIsMined, InUse, FreshMeta, Holding
<1> QED BY <1>3, <1>4, <1>5, <1>6 DEF LifeInv

(***************************************************************************)
(* The life of a transaction while the user answers it in one window and   *)
(* no switch, reset or crash interferes.  (The parts need each other: that *)
(* a nonce is recorded once needs to know whom a pending check may touch,  *)
(* and that in turn what an unanswered transaction looks like.)            *)
(***************************************************************************)
THEOREM LifeInvariant == Spec => [](Undisturbed => LifeInv)
<1>1. Init => (Undisturbed => LifeInv)
    BY LifeInit
<1>2. ASSUME LockInv, LockInv', Undisturbed => LifeInv, [Next]_vars, Undisturbed'
      PROVE  LifeInv'
    <2>1. LifeInv
        BY <1>2, UndisturbedBefore
    <2>2. \A t \in Tx : Effect(t)
        BY <1>2, <2>1, StepEffect
    <2>3. OneNetwork' /\ NotYetSeen' /\ ReplacementIsSilent' /\ UnhandledIsFresh'
        BY <1>2, <2>1, <2>2, OneNetworkStep, NotYetSeenStep, ReplacementStep, FreshStep
    <2>4. OneObject' /\ AskedIsPending' /\ NonceOnce' /\ NoncesDiffer'
        BY <1>2, <2>1, <2>2, OneObjectStep, AskedStep, NonceOnceStep, NoncesDifferStep
    <2>5. TwinIsMined' /\ AnswerIsTrue'
        BY <1>2, <2>1, <2>2, TwinStep, AnswerStep
    <2> QED BY <2>3, <2>4, <2>5 DEF LifeInv
<1>3. LockInv /\ LockInv' /\ (Undisturbed => LifeInv) /\ [Next]_vars
      => (Undisturbed => LifeInv)'
    BY <1>2
<1> QED BY <1>1, <1>3, LockInvariant, PTL DEF Spec

(***************************************************************************)
(* Two transactions of one sender never wait for the same nonce of the     *)
(* tracker's, whatever is confirmed, dropped or failed while a second      *)
(* approval waits for its turn at the nonce lock.                          *)
(***************************************************************************)
THEOREM TrackerNoncesDiffer == Spec => [](Undisturbed => AutomaticNoncesDiffer)
<1>1. LifeInv => AutomaticNoncesDiffer
    <2> SUFFICES ASSUME LifeInv, NEW t \in Tx, NEW u \in Tx, t # u, from[t] = from[u],
                        NonceInUse(t), NonceInUse(u), Automatic(t), Automatic(u)
                 PROVE  NonceOf(t) # NonceOf(u)
        BY DEF AutomaticNoncesDiffer
    <2>1. heap[t][store[t]] = Object(t) /\ heap[u][store[u]] = Object(u)
        BY StoredObject DEF NonceInUse
    <2>2. InUse(t) /\ InUse(u) /\ OfTracker(t) /\ OfTracker(u)
        BY <2>1 DEF NonceInUse, StatusOf, Automatic, InUse, OfTracker
    <2> QED BY <2>1, <2>2 DEF LifeInv, NoncesDiffer, NonceOf
<1> QED BY <1>1, LifeInvariant, PTL

(***************************************************************************)
(* What newUnapprovedTransaction told the dapp stays true: a hash is of a  *)
(* transaction that does not fail later, a failed one is not submitted     *)
(* after all, and a rejected one never reaches the node.                   *)
(***************************************************************************)
THEOREM AnswersStayTrue == Spec => [](Undisturbed => AnswerStaysTrue)
<1>1. LifeInv => AnswerStaysTrue
    <2> SUFFICES ASSUME LifeInv, NEW t \in Tx
                 PROVE  /\ answer[t] = "hash" /\ store[t] # NoTx =>
                              StatusOf(t) \in {"submitted", "confirmed", "dropped"}
                        /\ answer[t] = "failed" /\ store[t] # NoTx =>
                              StatusOf(t) \in {"failed", "dropped"}
                        /\ answer[t] = "rejected" =>
                              /\ store[t] = NoTx /\ pc[t] = "idle"
                              /\ \A n \in 0..MaxNonce : <<t, n>> \notin pool
        BY DEF AnswerStaysTrue
    <2>1. store[t] # NoTx => StatusOf(t) = Object(t).status
        BY StoredObject DEF StatusOf
    <2>2. (\A p \in pool : p[1] # t) => \A n \in 0..MaxNonce : <<t, n>> \notin pool
        OBVIOUS
    <2> QED BY <2>1, <2>2 DEF LifeInv, AnswerIsTrue
<1> QED BY <1>1, LifeInvariant, PTL

(***************************************************************************)
(* _markNonceDuplicatesDropped and _checkIfNonceIsTaken drop a transaction *)
(* only for another one with its nonce that a block contains.              *)
(***************************************************************************)
THEOREM DroppedForAConfirmed == Spec => [](Undisturbed => DroppedHasConfirmedTwin)
<1>1. LockInv /\ LifeInv => DroppedHasConfirmedTwin
    <2> SUFFICES ASSUME LockInv, LifeInv,
                        NEW t \in WithStatus(store, heap, {"dropped"})
                 PROVE  \E u \in Tx \ {t} :
                           /\ from[u] = from[t] /\ chainOf[u] = chainOf[t]
                           /\ \E v \in Version : /\ heap[u][v].status = "confirmed"
                                                 /\ heap[u][v].nonce = NonceOf(t)
                           /\ <<u, signed[u]>> \in mined
        BY DEF DroppedHasConfirmedTwin
    <2>1. /\ t \in Tx /\ store[t] # NoTx /\ heap[t][store[t]] = Object(t)
          /\ Object(t).status = "dropped"
        BY StoredObject DEF WithStatus, Stored
    <2>2. PICK u \in Tx \ {t} : /\ from[u] = from[t]
                                /\ Object(u).nonce = Object(t).nonce
                                /\ Object(u).status = "confirmed"
        BY <2>1 DEF LifeInv, TwinIsMined
    <2>3. <<u, signed[u]>> \in mined /\ chainOf[u] = chainOf[t]
        BY <2>1, <2>2 DEF LifeInv, NonceOnce, OneNetwork
    <2>4. ref[u] \in Version
        BY ObjectType
    <2> QED BY <2>1, <2>2, <2>3, <2>4 DEF Object, NonceOf
<1> QED BY <1>1, LockInvariant, LifeInvariant, PTL

=============================================================================

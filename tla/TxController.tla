---------------------------- MODULE TxController ----------------------------
(***************************************************************************)
(* The transaction pipeline of the background process:                     *)
(* TransactionController (controllers/transactions/index.js), the store    *)
(* (TxStateManager), the nonce mutexes (bohr-nonce-tracker), the pending   *)
(* check (pending-tx-tracker.js: updatePendingTxs), and what surrounds     *)
(* them: dapps waiting for an answer, UI windows with a delayed copy of    *)
(* the state, network switches, account resets, the debounced save and a   *)
(* crash of the background page, and the node behind app/api.              *)
(*                                                                         *)
(* JavaScript is single threaded: an action is a run of code between two   *)
(* awaits that wait for something outside the process (the node, the       *)
(* keyring, a mutex).  Continuations that only wait for resolved promises  *)
(* run in the same action.                                                 *)
(***************************************************************************)
EXTENDS TxStateManager, Sequences

CONSTANTS
    Handler,        \* concurrent _onLatestBlock calls
    CustomNonces,   \* nonces a user may type into the confirm screen
    MaxNonce,       \* bound: the node's account nonce stops here
    MaxReplace,     \* bound: speed-up and cancel transactions created
    MaxSwitch,      \* bound: network switches and account resets
    MaxCrash,       \* bound: crashes of the background page
    Global          \* the key of nonceTracker's global mutex

ASSUME GlobalAssumption == Global \notin Account
ASSUME AccountAssumption == NoAccount \notin Account
ASSUME HandlerAssumption == \A h \in Handler : h \notin Nat
ASSUME CustomAssumption == CustomNonces \subseteq Nat

VARIABLES
    \* the store (controllers/transactions/tx-state-manager.js)
    store, heap,
    \* per transaction: its sender, its chainId, the transaction it replaces
    from, chainOf, replaces,
    \* newUnapprovedTransaction: how far the request is, what the dapp was told
    stage, answer,
    \* boot-time gas estimations under way (_onBootCleanUp)
    regas,
    \* approveTransaction: where each call is, the txMeta it captured (line 505)
    pc, ref,
    \* nonceTracker.lockMap: waiting lists, the first entry holds the mutex
    queue,
    \* updatePendingTxs: what each call does, the txMeta objects it asks about
    hpc, asked,
    \* the node: account nonces, nonces in signed payloads, pool and chain
    nodeNonce, signed, pool, mined,
    \* provider and networkStore state
    chain, net,
    \* UI windows: the unapproved transactions each one shows
    view,
    \* what the last debounced save wrote
    disk,
    \* bounds: network switches and crashes so far
    switches, crashes

storeVars   == <<store, heap>>
requestVars == <<from, chainOf, replaces, stage, answer, regas>>
flowVars    == <<pc, ref, queue>>
trackerVars == <<hpc, asked>>
nodeVars    == <<nodeNonce, signed, pool, mined>>
netVars     == <<chain, net>>
outerVars   == <<view, disk, switches, crashes>>
vars == <<storeVars, requestVars, flowVars, trackerVars, nodeVars, netVars,
          outerVars>>

-----------------------------------------------------------------------------
Stages == {"new", "permission", "gas", "done"}

(***************************************************************************)
(* What the dapp's eth_sendTransaction call has come to.                   *)
(* none: nobody waits.  pending: the call is in addUnapprovedTransaction.  *)
(* waiting: it listens for `${id}:finished`.  hash, noHash: resolved with  *)
(* a hash, with undefined.  rejected, failed: the listener reported it.    *)
(* error: addUnapprovedTransaction threw.  lost: the page crashed first.   *)
(***************************************************************************)
Answers == {"none", "pending", "waiting", "hash", "noHash",
            "rejected", "failed", "error", "lost"}

\* A call holds the nonce lock and has taken its nonce.
Holding == {"account", "sign", "balance", "broadcast"}
\* The transaction is in inProcessOfSigning.
InProcess == {"global", "address"} \union Holding

Unused(t) == from[t] = NoAccount
NextId(t) == Unused(t) /\ \A u \in Tx : u < t => ~Unused(u)

\* transactionMatchesNetwork: every txMeta has a chainId, so it decides.
OnChain(ts, c) == {t \in ts : chainOf[t] = c}
Here(ts) == OnChain(ts, chain)

Meta0 == [t \in Tx |-> [v \in Version |-> FreshMeta]]

Init ==
    /\ store = [t \in Tx |-> NoTx] /\ heap = Meta0
    /\ from = [t \in Tx |-> NoAccount] /\ replaces = [t \in Tx |-> NoTx]
    /\ chain \in Chain /\ chainOf = [t \in Tx |-> chain]
    /\ stage = [t \in Tx |-> "new"] /\ answer = [t \in Tx |-> "none"]
    /\ regas = {}
    /\ pc = [t \in Tx |-> "idle"] /\ ref = [t \in Tx |-> Original]
    /\ queue = [k \in Account \union {Global} |-> <<>>]
    /\ hpc = [h \in Handler |-> "idle"]
    /\ asked = [h \in Handler |-> [t \in Tx |-> NoTx]]
    /\ nodeNonce = [a \in Account |-> 0] /\ signed = [t \in Tx |-> NoNonce]
    /\ pool = {} /\ mined = {}
    /\ net = "loading"
    /\ view = [w \in Window |-> [t \in Tx |-> "hidden"]]
    /\ disk = [held |-> {}, meta |-> [t \in Tx |-> FreshMeta], chain |-> chain]
    /\ switches = 0 /\ crashes = 0

-----------------------------------------------------------------------------
\* The dapp's request: newUnapprovedTransaction, addUnapprovedTransaction

(***************************************************************************)
(* The `${id}:finished` listener of newUnapprovedTransaction, for the      *)
(* transactions of fin, whose stored objects (st, hp) have just got a new  *)
(* status: only FinishedStates are announced, and only once.               *)
(***************************************************************************)
\* Mutations of Outcome: the dapp is told the bare status; every submission
\* counts as one with a hash.
OutcomeIsStatus(meta) == meta.status
OutcomeHasHash(meta) == IF meta.status = "submitted" THEN "hash" ELSE meta.status

Outcome(meta) ==
    CASE meta.status = "submitted" -> IF meta.hash THEN "hash" ELSE "noHash"
      [] meta.status = "rejected"  -> "rejected"
      [] OTHER                     -> "failed"

Told(st, hp, fin) ==
    [t \in Tx |-> IF /\ t \in fin /\ st[t] # NoTx /\ answer[t] = "waiting"
                     /\ hp[t][st[t]].status \in FinishedStates
                  THEN Outcome(hp[t][st[t]])
                  ELSE answer[t]]

\* Up to the first await.  While the network loads generateTxMeta throws and
\* the call leaves no trace.
Request(t, a) ==
    /\ NextId(t) /\ net = "up"
    /\ from' = [from EXCEPT ![t] = a]
    /\ chainOf' = [chainOf EXCEPT ![t] = chain]
    /\ stage' = [stage EXCEPT ![t] = "permission"]
    /\ answer' = [answer EXCEPT ![t] = "pending"]
    /\ UNCHANGED <<storeVars, replaces, regas, flowVars, trackerVars, nodeVars,
                   netVars, outerVars>>

\* getPermittedAccounts does not list the sender, or a lookup failed.
RequestDenied(t) ==
    /\ stage[t] = "permission"
    /\ stage' = [stage EXCEPT ![t] = "done"]
    /\ answer' = [answer EXCEPT ![t] = "error"]
    /\ UNCHANGED <<storeVars, from, chainOf, replaces, regas, flowVars,
                   trackerVars, nodeVars, netVars, outerVars>>

\* The transaction enters the store; its gas defaults are asked for.
AddUnapproved(t) ==
    /\ stage[t] = "permission"
    /\ store' = AddTransaction(store, heap, t)
    /\ heap' = [heap EXCEPT ![t][Original] = FreshMeta]
    /\ stage' = [stage EXCEPT ![t] = "gas"]
    /\ UNCHANGED <<from, chainOf, replaces, answer, regas, flowVars,
                   trackerVars, nodeVars, netVars, outerVars>>

(***************************************************************************)
(* addTxGasDefaults settles (ok: no error).  The transaction is looked up  *)
(* again: if it has left the store a TypeError reaches the dapp.  Only on  *)
(* success does the dapp start to listen.                                  *)
(***************************************************************************)
GasDefaults(t, ok) ==
    /\ stage[t] = "gas"
    /\ stage' = [stage EXCEPT ![t] = "done"]
    /\ IF store[t] = NoTx
       THEN /\ answer' = [answer EXCEPT ![t] = "error"]
            /\ heap' = heap
       ELSE /\ answer' = [answer EXCEPT ![t] = IF ok THEN "waiting" ELSE "error"]
            /\ heap' = [heap EXCEPT ![t][store[t]].loading = FALSE]
    /\ UNCHANGED <<store, from, chainOf, replaces, regas, flowVars,
                   trackerVars, nodeVars, netVars, outerVars>>

-----------------------------------------------------------------------------
\* The user: confirm, reject, speed up or cancel in a window

\* sendUpdate is debounced: a window learns of changes at some later time.
Refresh(w) ==
    /\ view' = [view EXCEPT ![w] = [t \in Tx |->
           IF @[t] = "clicked" THEN "clicked"
           ELSE IF t \in Here(WithStatus(store, heap, {"unapproved"}))
           THEN "shown" ELSE "hidden"]]
    /\ UNCHANGED <<storeVars, requestVars, flowVars, trackerVars, nodeVars,
                   netVars, disk, switches, crashes>>

Click(w, t) ==
    /\ view[w][t] = "shown"
    /\ view' = [view EXCEPT ![w][t] = "clicked"]

\* The copy a window sends back: as when the transaction was unapproved.
WindowCopy(t, custom) ==
    [heap[t][Original] EXCEPT !.status = "unapproved", !.nonce = NoNonce,
                              !.hash = FALSE, !.custom = custom]

\* approveTransaction up to its first await, on the store st and heap hp: the
\* guard on inProcessOfSigning, then status, captured txMeta, global mutex.
BeginApproval(st, hp, t) ==
    IF pc[t] \in InProcess
    THEN /\ heap' = hp
         /\ UNCHANGED flowVars
    ELSE /\ heap' = SetStatus(st, hp, {t}, "approved")
         /\ ref' = [ref EXCEPT ![t] = st[t]]
         /\ pc' = [pc EXCEPT ![t] = "global"]
         /\ queue' = [queue EXCEPT ![Global] = Append(@, t)]

\* updateAndApproveTransaction: the window's object replaces the stored one.
Approve(w, t, custom) ==
    /\ Click(w, t)
    /\ store' = Put(store, t, w)
    /\ BeginApproval(store', [heap EXCEPT ![t][w] = WindowCopy(t, custom)], t)
    /\ UNCHANGED <<requestVars, trackerVars, nodeVars, netVars, disk, switches,
                   crashes>>

\* cancelTransaction: setTxStatusRejected sets the status, then deletes.
Reject(w, t) ==
    /\ Click(w, t)
    /\ heap' = SetStatus(store, heap, {t}, "rejected")
    /\ answer' = Told(store, heap', {t})
    /\ store' = Delete(store, t)
    /\ UNCHANGED <<from, chainOf, replaces, stage, regas, flowVars, trackerVars,
                   nodeVars, netVars, disk, switches, crashes>>

ReplacementMeta(o) ==
    [FreshMeta EXCEPT !.status = "approved", !.loading = FALSE,
                      !.nonce = heap[o][store[o]].nonce, !.lastGasPrice = TRUE]

\* createSpeedUpTransaction and createCancelTransaction: a new transaction t,
\* born approved, for the pending transaction o.
Replace(o, t) ==
    /\ NextId(t) /\ net = "up"
    /\ Cardinality({u \in Tx : replaces[u] # NoTx}) < MaxReplace
    /\ o \in Here(WithStatus(store, heap, {"submitted"}))
    /\ from' = [from EXCEPT ![t] = from[o]]
    /\ chainOf' = [chainOf EXCEPT ![t] = chain]
    /\ replaces' = [replaces EXCEPT ![t] = o]
    /\ stage' = [stage EXCEPT ![t] = "done"]
    /\ store' = AddTransaction(store, heap, t)
    /\ BeginApproval(store', [heap EXCEPT ![t][Original] = ReplacementMeta(o)], t)
    /\ UNCHANGED <<answer, regas, trackerVars, nodeVars, netVars, outerVars>>

-----------------------------------------------------------------------------
\* approveTransaction, signTransaction, publishTransaction

HoldsMutex(k, x) == queue[k] # <<>> /\ Head(queue[k]) = x
HasNonceLock(t) == HoldsMutex(from[t], t)

\* Mutation of GlobalFree: the global mutex is taken and kept.
GlobalFreeKeeps(t) ==
    /\ pc[t] = "global" /\ HoldsMutex(Global, t)
    /\ queue' = [queue EXCEPT ![from[t]] = Append(@, t)]
    /\ pc' = [pc EXCEPT ![t] = "address"]
    /\ UNCHANGED <<storeVars, requestVars, ref, trackerVars, nodeVars, netVars,
                   outerVars>>

\* _globalMutexFree: the global mutex is taken and freed at once, then the
\* call queues for its sender's mutex.
GlobalFree(t) ==
    /\ pc[t] = "global" /\ HoldsMutex(Global, t)
    /\ queue' = [queue EXCEPT ![Global] = Tail(@),
                              ![from[t]] = Append(@, t)]
    /\ pc' = [pc EXCEPT ![t] = "address"]
    /\ UNCHANGED <<storeVars, requestVars, ref, trackerVars, nodeVars, netVars,
                   outerVars>>

\* The recorded nonces of address a in the given statuses on this network.
NoncesOf(a, statuses) ==
    {heap[t][store[t]].nonce :
        t \in {u \in Here(WithStatus(store, heap, statuses)) : from[u] = a}}

\* Mutation of NonceFor: transactions that are not mined yet are forgotten.
NonceForForgetful(t, meta) ==
    IF meta.custom # NoNonce THEN meta.custom
    ELSE IF meta.lastGasPrice THEN meta.nonce
    ELSE NextNonce(nodeNonce[from[t]], NoncesOf(from[t], {"confirmed"}), {})

\* customOrNonce: the user's nonce, the replaced transaction's, or the next.
NonceFor(t, meta) ==
    IF meta.custom # NoNonce THEN meta.custom
    ELSE IF meta.lastGasPrice THEN meta.nonce
    ELSE NextNonce(nodeNonce[from[t]],
                   NoncesOf(from[t], {"confirmed"}),
                   NoncesOf(from[t], {"submitted"}))

\* The node's account nonce arrives with the lock held: the nonce is computed
\* and written, the captured object put (back) into the store, and
\* signTransaction asks the node for the account again.
TakeNonce(t) ==
    /\ pc[t] = "address" /\ HasNonceLock(t)
    /\ NonceFor(t, heap[t][ref[t]]) # NoNonce
    /\ heap' = [heap EXCEPT ![t][ref[t]].nonce = NonceFor(t, heap[t][ref[t]])]
    /\ store' = Put(store, t, ref[t])
    /\ pc' = [pc EXCEPT ![t] = "account"]
    /\ UNCHANGED <<requestVars, ref, queue, trackerVars, nodeVars, netVars,
                   outerVars>>

\* ethTx.nonce = the account nonce of that second answer: this, and not the
\* recorded nonce, goes into the signed payload.
AccountAnswer(t) ==
    /\ pc[t] = "account"
    /\ signed' = [signed EXCEPT ![t] = nodeNonce[from[t]]]
    /\ pc' = [pc EXCEPT ![t] = "sign"]
    /\ UNCHANGED <<storeVars, requestVars, ref, queue, trackerVars, nodeNonce,
                   pool, mined, netVars, outerVars>>

\* The keyring signed.  A swap first asks for the balance, any other
\* transaction is sent to the node at once.
Sign(t) ==
    /\ pc[t] = "sign"
    /\ store' = Put(store, t, ref[t])
    /\ heap' = SetStatus(store', heap, {t}, "signed")
    /\ \E next \in {"balance", "broadcast"} : pc' = [pc EXCEPT ![t] = next]
    /\ UNCHANGED <<requestVars, ref, queue, trackerVars, nodeVars, netVars,
                   outerVars>>

SwapBalance(t) ==
    /\ pc[t] = "balance"
    /\ store' = Put(store, t, ref[t])
    /\ pc' = [pc EXCEPT ![t] = "broadcast"]
    /\ UNCHANGED <<heap, requestVars, ref, queue, trackerVars, nodeVars, netVars,
                   outerVars>>

\* Mutation of EndApproval: an exit without releaseLock.
EndApprovalKeepsLock(t) ==
    /\ pc' = [pc EXCEPT ![t] = "idle"]
    /\ UNCHANGED <<ref, queue>>

\* finally and releaseLock.
EndApproval(t) ==
    /\ queue' = [queue EXCEPT ![from[t]] = Tail(@)]
    /\ pc' = [pc EXCEPT ![t] = "idle"]
    /\ UNCHANGED ref

\* Mutation of FailApproval: a catch that only releases the lock.
FailApprovalSilently(t) == UNCHANGED <<heap, answer>> /\ EndApproval(t)

\* catch: the stored object fails if there is one; without one
\* setTxStatusFailed throws, which is logged.
FailApproval(t) ==
    /\ heap' = SetStatus(store, heap, {t}, "failed")
    /\ answer' = Told(store, heap', {t})
    /\ EndApproval(t)

\* Mutation of AwaitRejects: a publication that failed is tried again, and
\* signed again with the account nonce of that moment.
AwaitRejectsRetries(t) ==
    /\ pc[t] = "broadcast"
    /\ pc' = [pc EXCEPT ![t] = "account"]
    /\ UNCHANGED <<storeVars, requestVars, ref, queue, trackerVars, nodeVars,
                   netVars, outerVars>>

\* The call being awaited rejects: the node in getNonceLock, the node or the
\* keyring in signTransaction, the node in publishTransaction.
AwaitRejects(t) ==
    /\ pc[t] \in Holding \/ (pc[t] = "address" /\ HasNonceLock(t))
    /\ FailApproval(t)
    /\ UNCHANGED <<store, from, chainOf, replaces, stage, regas, trackerVars,
                   nodeVars, netVars, outerVars>>

\* broadcastRawTransaction answers.  A body without "result" gives no hash.
\* setTxHash looks the transaction up and throws when the store lost it.
Submitted(t, withHash) ==
    [heap EXCEPT ![t][store[t]].status = "submitted",
                 ![t][store[t]].hash = withHash]

BroadcastAnswer(t, withHash) ==
    /\ pc[t] = "broadcast"
    /\ withHash => <<t, signed[t]>> \in pool
    /\ IF store[t] = NoTx
       THEN FailApproval(t)
       ELSE /\ heap' = Submitted(t, withHash)
            /\ answer' = Told(store, heap', {t})
            /\ EndApproval(t)
    /\ UNCHANGED <<store, from, chainOf, replaces, stage, regas, trackerVars,
                   nodeVars, netVars, outerVars>>

-----------------------------------------------------------------------------
\* The node (external)

\* It accepts a payload whose nonce is not used up, answer or no answer.
NodeAccepts(t) ==
    /\ pc[t] = "broadcast" /\ signed[t] >= nodeNonce[from[t]]
    /\ <<t, signed[t]>> \notin pool
    /\ pool' = pool \union {<<t, signed[t]>>}
    /\ UNCHANGED <<storeVars, requestVars, flowVars, trackerVars, nodeNonce,
                   signed, mined, netVars, outerVars>>

\* An accepted payload with the account's next nonce enters a block.
Mine(t) ==
    /\ from[t] # NoAccount /\ nodeNonce[from[t]] < MaxNonce
    /\ <<t, nodeNonce[from[t]]>> \in pool
    /\ mined' = mined \union {<<t, nodeNonce[from[t]]>>}
    /\ nodeNonce' = [nodeNonce EXCEPT ![from[t]] = @ + 1]
    /\ UNCHANGED <<storeVars, requestVars, flowVars, trackerVars, signed, pool,
                   netVars, outerVars>>

\* So does a transaction the account sent from another wallet.
ForeignTransaction(a) ==
    /\ nodeNonce[a] < MaxNonce
    /\ nodeNonce' = [nodeNonce EXCEPT ![a] = @ + 1]
    /\ UNCHANGED <<storeVars, requestVars, flowVars, trackerVars, signed, pool,
                   mined, netVars, outerVars>>

-----------------------------------------------------------------------------
\* updatePendingTxs and confirmTransaction

NewBlock(h) ==
    /\ hpc[h] = "idle"
    /\ hpc' = [hpc EXCEPT ![h] = "waiting"]
    /\ queue' = [queue EXCEPT ![Global] = Append(@, h)]
    /\ UNCHANGED <<storeVars, requestVars, pc, ref, asked, nodeVars, netVars,
                   outerVars>>

NonceOf(t) == heap[t][store[t]].nonce

\* _checkIfNonceIsTaken
NonceTaken(t) ==
    \E u \in Here(WithStatus(store, heap, {"confirmed"})) \ {t} :
        from[u] = from[t] /\ NonceOf(u) = NonceOf(t)

\* With the global mutex: of the submitted transactions one without a hash
\* fails, one whose nonce is taken is dropped, and the node is asked about
\* each of the others at once.
CheckPending(h) ==
    LET pending == Here(WithStatus(store, heap, {"submitted"}))
        noHash  == {t \in pending : ~heap[t][store[t]].hash}
        taken   == {t \in pending \ noHash : NonceTaken(t)}
    IN  /\ hpc[h] = "waiting" /\ HoldsMutex(Global, h)
        /\ hpc' = [hpc EXCEPT ![h] = "checking"]
        /\ heap' = SetStatus(store, SetStatus(store, heap, noHash, "failed"),
                             taken, "dropped")
        /\ answer' = Told(store, heap', noHash)
        /\ asked' = [asked EXCEPT ![h] = [t \in Tx |->
               IF t \in pending \ (noHash \union taken) THEN store[t] ELSE NoTx]]
        /\ UNCHANGED <<store, from, chainOf, replaces, stage, regas, flowVars,
                       nodeVars, netVars, outerVars>>

\* Mutation of NonceDuplicates: the nonces are not compared.
SenderDuplicates(t) == {u \in Here(Stored(store)) \ {t} : from[u] = from[t]}

\* _markNonceDuplicatesDropped: every other transaction of this network with
\* the same sender and nonce, whatever its status.
NonceDuplicates(t) ==
    {u \in Here(Stored(store)) \ {t} :
        from[u] = from[t] /\ NonceOf(u) = NonceOf(t)}

Confirm(t) ==
    IF store[t] = NoTx
    THEN heap' = heap
    ELSE heap' = SetStatus(store, SetStatus(store, heap, {t}, "confirmed"),
                           NonceDuplicates(t), "dropped")

Answered(h, t) ==
    /\ hpc[h] = "checking" /\ asked[h][t] # NoTx
    /\ asked' = [asked EXCEPT ![h][t] = NoTx]

\* transactionResult has a blockNumber.
ResultMined(h, t) ==
    /\ Answered(h, t) /\ <<t, signed[t]>> \in mined
    /\ Confirm(t)
    /\ UNCHANGED <<store, requestVars, flowVars, hpc, nodeVars, netVars,
                   outerVars>>

\* It has none (a node may lag behind).
ResultPending(h, t) ==
    /\ Answered(h, t)
    /\ UNCHANGED <<storeVars, requestVars, flowVars, hpc, nodeVars, netVars,
                   outerVars>>

\* It failed: tx:warning writes the object this call was started with.
ResultError(h, t) ==
    /\ Answered(h, t)
    /\ store' = Put(store, t, asked[h][t])
    /\ UNCHANGED <<heap, requestVars, flowVars, hpc, nodeVars, netVars,
                   outerVars>>

\* Promise.all is through: the global mutex is released.
CheckDone(h) ==
    /\ hpc[h] = "checking" /\ \A t \in Tx : asked[h][t] = NoTx
    /\ hpc' = [hpc EXCEPT ![h] = "idle"]
    /\ queue' = [queue EXCEPT ![Global] = Tail(@)]
    /\ UNCHANGED <<storeVars, requestVars, pc, ref, asked, nodeVars, netVars,
                   outerVars>>

-----------------------------------------------------------------------------
\* Network changes, account reset, save, crash

\* _onBootCleanUp over store st and heap hp with chain c selected: approved
\* transactions fail, unapproved ones without gas are estimated again.
StuckSigning(st, hp, c) == OnChain(WithStatus(st, hp, {"approved"}), c)
WithoutGas(st, hp, c) ==
    {t \in OnChain(WithStatus(st, hp, {"unapproved"}), c) : hp[t][st[t]].loading}

BootCleanUp(st, hp, c) ==
    /\ heap' = SetStatus(st, hp, StuckSigning(st, hp, c), "failed")
    /\ answer' = Told(st, heap', StuckSigning(st, hp, c))
    /\ regas' = regas \union WithoutGas(st, hp, c)

\* The estimation of _onBootCleanUp settles; a failure fails the transaction.
BootGas(t, ok) ==
    /\ t \in regas
    /\ regas' = regas \ {t}
    /\ IF store[t] = NoTx
       THEN UNCHANGED <<heap, answer>>
       ELSE LET set == [heap EXCEPT ![t][store[t]].loading = FALSE] IN
            /\ heap' = IF ok THEN set ELSE SetStatus(store, set, {t}, "failed")
            /\ answer' = IF ok THEN answer ELSE Told(store, heap', {t})
    /\ UNCHANGED <<store, from, chainOf, replaces, stage, flowVars, trackerVars,
                   nodeVars, netVars, outerVars>>

\* _switchNetwork: networkWillChange clears the unapproved transactions, then
\* networkState "loading" runs the clean-up, the new chain already selected.
SwitchTo(st, c) ==
    /\ switches < MaxSwitch
    /\ switches' = switches + 1
    /\ store' = ClearUnapproved(st, heap)
    /\ chain' = c
    /\ net' = "loading"
    /\ BootCleanUp(store', heap, c)
    /\ UNCHANGED <<from, chainOf, replaces, stage, flowVars, trackerVars,
                   nodeVars, view, disk, crashes>>

SwitchNetwork(c) == SwitchTo(store, c)

\* resetAccount: wipe the account's transactions, then resetConnection.
ResetAccount(a) ==
    SwitchTo(Wipe(store, {t \in Here(Stored(store)) : from[t] = a}), chain)

\* lookupNetwork got a network version.
NetworkUp ==
    /\ net = "loading"
    /\ net' = "up"
    /\ BootCleanUp(store, heap, chain)
    /\ UNCHANGED <<store, from, chainOf, replaces, stage, flowVars, trackerVars,
                   nodeVars, chain, outerVars>>

\* The debounced write of the whole state to extension storage.
Saved ==
    [held |-> Stored(store), chain |-> chain,
     meta |-> [t \in Tx |-> IF t \in Stored(store) THEN heap[t][store[t]]
                            ELSE FreshMeta]]

Save ==
    /\ crashes < MaxCrash /\ disk # Saved
    /\ disk' = Saved
    /\ UNCHANGED <<storeVars, requestVars, flowVars, trackerVars, nodeVars,
                   netVars, view, switches, crashes>>

\* The page dies and starts again from the saved state; the constructor runs
\* the clean-up.  Dapps that were waiting lose their connection.
Crash ==
    /\ crashes < MaxCrash
    /\ crashes' = crashes + 1
    /\ store' = [t \in Tx |-> IF t \in disk.held THEN Original ELSE NoTx]
    /\ LET loaded == [t \in Tx |-> [v \in Version |-> disk.meta[t]]]
           stuck  == StuckSigning(store', loaded, disk.chain)
       IN  /\ heap' = SetStatus(store', loaded, stuck, "failed")
           /\ regas' = WithoutGas(store', loaded, disk.chain)
    /\ answer' = [t \in Tx |-> IF answer[t] \in {"pending", "waiting"}
                               THEN "lost" ELSE answer[t]]
    /\ stage' = [t \in Tx |-> IF stage[t] = "new" THEN "new" ELSE "done"]
    /\ pc' = [t \in Tx |-> "idle"] /\ ref' = [t \in Tx |-> Original]
    /\ queue' = [k \in Account \union {Global} |-> <<>>]
    /\ hpc' = [h \in Handler |-> "idle"]
    /\ asked' = [h \in Handler |-> [t \in Tx |-> NoTx]]
    /\ chain' = disk.chain /\ net' = "loading"
    /\ view' = [w \in Window |-> [t \in Tx |-> "hidden"]]
    /\ UNCHANGED <<from, chainOf, replaces, nodeVars, disk, switches>>

-----------------------------------------------------------------------------
RequestStep(t) ==
    \/ RequestDenied(t) \/ AddUnapproved(t)
    \/ \E ok \in BOOLEAN : GasDefaults(t, ok) \/ BootGas(t, ok)

UserStep ==
    \/ \E w \in Window : Refresh(w)
    \/ \E w \in Window, t \in Tx :
          \/ \E custom \in CustomNonces \union {NoNonce} : Approve(w, t, custom)
          \/ Reject(w, t)
    \/ \E o, t \in Tx : Replace(o, t)

ApprovalStep(t) ==
    \/ GlobalFree(t) \/ TakeNonce(t) \/ AccountAnswer(t) \/ Sign(t)
    \/ SwapBalance(t) \/ AwaitRejects(t)
    \/ \E withHash \in BOOLEAN : BroadcastAnswer(t, withHash)

CheckStep(h) ==
    \/ CheckPending(h) \/ CheckDone(h)
    \/ \E t \in Tx : ResultMined(h, t) \/ ResultPending(h, t) \/ ResultError(h, t)

NodeStep ==
    \/ \E t \in Tx : NodeAccepts(t) \/ Mine(t)
    \/ \E a \in Account : ForeignTransaction(a)

NetStep ==
    \/ NetworkUp
    \/ \E c \in Chain : SwitchNetwork(c)
    \/ \E a \in Account : ResetAccount(a)

Next ==
    \/ \E t \in Tx, a \in Account : Request(t, a)
    \/ \E t \in Tx : RequestStep(t) \/ ApprovalStep(t)
    \/ \E h \in Handler : NewBlock(h) \/ CheckStep(h)
    \/ UserStep \/ NodeStep \/ NetStep \/ Save \/ Crash

Spec == Init /\ [][Next]_vars

(***************************************************************************)
(* Fairness.  Every call to the node has a 100 s timeout (app/api/fetch.js)*)
(* and software keyrings sign without waiting for anybody, so each awaited *)
(* call settles one way or the other; promise continuations always run.    *)
(* Nothing is assumed of users, dapps, blocks or the node's answers.       *)
(***************************************************************************)
Fairness ==
    /\ \A t \in Tx : WF_vars(RequestStep(t)) /\ WF_vars(ApprovalStep(t))
    /\ \A h \in Handler : WF_vars(CheckStep(h))

FairSpec == Spec /\ Fairness

-----------------------------------------------------------------------------
\* Properties

QueueEntry == Tx \union Handler

StoreTypeOK == /\ store \in [Tx -> Version \union {NoTx}]
               /\ heap \in [Tx -> [Version -> Meta]]
RequestTypeOK ==
    /\ from \in [Tx -> Account \union {NoAccount}]
    /\ chainOf \in [Tx -> Chain] /\ replaces \in [Tx -> Tx \union {NoTx}]
    /\ stage \in [Tx -> Stages] /\ answer \in [Tx -> Answers]
    /\ regas \subseteq Tx
FlowTypeOK ==
    /\ pc \in [Tx -> {"idle"} \union InProcess] /\ ref \in [Tx -> Version]
    /\ queue \in [Account \union {Global} -> Seq(QueueEntry)]
TrackerTypeOK ==
    /\ hpc \in [Handler -> {"idle", "waiting", "checking"}]
    /\ asked \in [Handler -> [Tx -> Version \union {NoTx}]]
NodeTypeOK ==
    /\ nodeNonce \in [Account -> Nat] /\ signed \in [Tx -> Nat \union {NoNonce}]
    /\ pool \subseteq Tx \X Nat /\ mined \subseteq pool
OuterTypeOK ==
    /\ chain \in Chain /\ net \in {"loading", "up"}
    /\ view \in [Window -> [Tx -> {"hidden", "shown", "clicked"}]]
    /\ disk \in [held : SUBSET Tx, meta : [Tx -> Meta], chain : Chain]
    /\ switches \in Nat /\ crashes \in Nat

\* The type invariant of the pipeline's variables.
TypeOK == /\ StoreTypeOK /\ RequestTypeOK /\ FlowTypeOK
          /\ TrackerTypeOK /\ NodeTypeOK /\ OuterTypeOK

StatusOf(t) == heap[t][store[t]].status

(***************************************************************************)
(* The nonce lock is held from the moment a nonce is taken until the       *)
(* transaction is submitted or failed ("must set transaction to            *)
(* submitted/failed before releasing lock"), by one approval per sender,   *)
(* and no error path, switch or reset leaves it behind: whoever is in line *)
(* for it is a live approval of that sender, once.                         *)
(***************************************************************************)
NonceLockDiscipline ==
    /\ \A t \in Tx : pc[t] \in Holding => HasNonceLock(t)
    /\ \A a \in Account : \A i \in 1..Len(queue[a]) :
          /\ queue[a][i] \in Tx /\ from[queue[a][i]] = a
          /\ pc[queue[a][i]] \in {"address"} \union Holding
          /\ \A j \in 1..Len(queue[a]) : queue[a][i] = queue[a][j] => i = j

(***************************************************************************)
(* No transaction of the selected network is stuck as "approved" with      *)
(* nobody signing it: every way out of approveTransaction settles it, and  *)
(* the clean-up catches those a crash left behind, on this network at once *)
(* and on another one when it is selected.                                 *)
(***************************************************************************)
ApprovedIsInProcess ==
    \A t \in Here(WithStatus(store, heap, {"approved"})) : pc[t] \in InProcess

\* A nonce the tracker chose: neither typed by the user nor a replacement's.
Automatic(t) == LET meta == heap[t][store[t]] IN
    meta.custom = NoNonce /\ ~meta.lastGasPrice
NonceInUse(t) ==
    store[t] # NoTx /\ (StatusOf(t) = "submitted" \/ pc[t] \in Holding)

(***************************************************************************)
(* Two transactions of one sender never wait for the same automatic nonce, *)
(* though confirmations, drops and failures change the lists the tracker   *)
(* reads while a second approval waits for its turn.                       *)
(***************************************************************************)
AutomaticNoncesDiffer ==
    \A t, u \in Tx :
        (/\ t # u /\ from[t] = from[u] /\ chainOf[t] = chainOf[u]
         /\ NonceInUse(t) /\ NonceInUse(u) /\ Automatic(t) /\ Automatic(u))
        => NonceOf(t) # NonceOf(u)

(***************************************************************************)
(* What a dapp was told stays true of the transaction the user sees: one   *)
(* reported with its hash never turns into a failed or rejected one, one   *)
(* reported as failed is never submitted after all, and one the user       *)
(* rejected never reaches the node.                                        *)
(***************************************************************************)
AnswerStaysTrue ==
    \A t \in Tx :
        /\ answer[t] = "hash" /\ store[t] # NoTx =>
              StatusOf(t) \in {"submitted", "confirmed", "dropped"}
        /\ answer[t] = "failed" /\ store[t] # NoTx =>
              StatusOf(t) \in {"failed", "dropped"}
        /\ answer[t] = "rejected" =>
              store[t] = NoTx /\ pc[t] = "idle" /\ \A n \in 0..MaxNonce : <<t, n>> \notin pool

(***************************************************************************)
(* A dropped transaction was dropped for another one of its sender, with   *)
(* its nonce, on its own network, that a block really contains             *)
(* (shared/constants/transaction.js: "dropped due to a tx with same nonce  *)
(* being accepted").  The store may have forgotten that one meanwhile.     *)
(***************************************************************************)
DroppedHasConfirmedTwin ==
    \A t \in WithStatus(store, heap, {"dropped"}) :
        \E u \in Tx \ {t} :
            /\ from[u] = from[t] /\ chainOf[u] = chainOf[t]
            /\ \E v \in Version : /\ heap[u][v].status = "confirmed"
                                  /\ heap[u][v].nonce = NonceOf(t)
            /\ <<u, signed[u]>> \in mined

(***************************************************************************)
(* "states that can be considered final states" (lib/util.js): while the   *)
(* tracker chooses every nonce, a transaction that has a final status      *)
(* keeps a final one, and a confirmed one stays confirmed, in spite of     *)
(* _markNonceDuplicatesDropped and of setters that look at no status.      *)
(***************************************************************************)
FinalStatusIsFinal ==
    [][\A t \in Tx : store'[t] # NoTx =>
          /\ t \in WithStatus(store, heap, FinalStates) =>
                t \in WithStatus(store, heap, FinalStates)'
          /\ t \in WithStatus(store, heap, {"confirmed"}) =>
                t \in WithStatus(store, heap, {"confirmed"})']_vars

(***************************************************************************)
(* A transaction that was failed for being "stuck during signing" is not   *)
(* signed or submitted by the approval that was thought to be stuck.       *)
(***************************************************************************)
FailedIsNotSubmitted ==
    [][\A t \in WithStatus(store, heap, {"failed"}) :
          t \notin WithStatus(store, heap, {"signed", "submitted"})']_vars

(***************************************************************************)
(* A speed-up or cancel transaction competes with the transaction it       *)
(* replaces ("The new transaction contains the same nonce as the           *)
(* previous"): the node never executes both.                               *)
(***************************************************************************)
ReplacementCompetes ==
    \A t, o \in Tx : replaces[t] = o =>
        ~ \E m, n \in 0..MaxNonce : <<t, m>> \in mined /\ <<o, n>> \in mined

\* The user answered it in at most one window.
AnsweredOnce(t) ==
    \A v, w \in Window : view[v][t] = "clicked" /\ view[w][t] = "clicked" => v = w

(***************************************************************************)
(* The node gets what the user answered in one window: a transaction is    *)
(* sent with one payload nonce only, so that it cannot be executed twice,  *)
(* and one reported as rejected is not sent at all.  No failed             *)
(* publication, clean-up, network switch or reset leads to a second        *)
(* signature.  (A second window's stale answer or a restart does:          *)
(* index.js:477, background.js:237.)                                       *)
(***************************************************************************)
SentAsAnswered ==
    crashes = 0 =>
        \A t \in Tx : AnsweredOnce(t) =>
            /\ \A p, q \in pool : p[1] = t /\ q[1] = t => p = q
            /\ answer[t] = "rejected" => \A p \in pool : p[1] # t

\* Every approval comes to an end: no path holds a mutex for ever and no two
\* approvals or pending checks wait for each other.
ApprovalEnds == \A t \in Tx : pc[t] = "global" ~> pc[t] = "idle"

\* Every pending check gets the global mutex and gives it back.
CheckEnds == \A h \in Handler : hpc[h] = "waiting" ~> hpc[h] = "idle"

\* A dapp that listens while its transaction is being approved is answered.
ApprovedIsAnswered ==
    \A t \in Tx : (answer[t] = "waiting" /\ pc[t] \in InProcess)
                  ~> answer[t] # "waiting"
-----------------------------------------------------------------------------
\* The inductive invariants of TxControllerProofs

\* An id that is not in use yet appears nowhere.
UnusedIsAbsent ==
    \A t \in Tx : Unused(t) =>
        /\ store[t] = NoTx /\ t \notin disk.held
        /\ stage[t] = "new" /\ pc[t] = "idle"
        /\ \A h \in Handler : asked[h][t] = NoTx
        /\ \A w \in Window : view[w][t] = "hidden"

\* A pending check that talks to the node holds the global mutex, and an
\* approval that has its payload's nonce has a number.
CheckHoldsGlobal ==
    \A h \in Handler : hpc[h] = "checking" => HoldsMutex(Global, h)
PayloadHasNonce ==
    \A t \in Tx : pc[t] \in {"sign", "balance", "broadcast"} => signed[t] \in Nat

LockInv == TypeOK /\ UnusedIsAbsent /\ CheckHoldsGlobal /\ PayloadHasNonce
           /\ NonceLockDiscipline

\* A window's object is in use only after its one click.
ClickedOnce ==
    \A t \in Tx, w \in Window :
        (store[t] = w \/ ref[t] = w \/ \E h \in Handler : asked[h][t] = w)
        => view[w][t] = "clicked"

\* A pending check never holds an object that is being approved.
AskedIsNotApproved ==
    \A h \in Handler, t \in Tx :
        asked[h][t] # NoTx => heap[t][asked[h][t]].status # "approved"

ApprovalInv == ClickedOnce /\ AskedIsNotApproved /\ ApprovedIsInProcess

\* The user answered the transaction, or it is a speed-up or cancellation.
Handled(t) == replaces[t] # NoTx \/ \E w \in Window : view[w][t] = "clicked"

\* A speed-up or cancellation is never offered to the user.
ReplacementIsNotOffered ==
    \A t \in Tx : replaces[t] # NoTx =>
        /\ ~ Unused(t) /\ stage[t] = "done"
        /\ heap[t][Original].status # "unapproved"
        /\ \A w \in Window : view[w][t] = "hidden"

\* Nothing is sent for a transaction before it is handled, nor by an approval
\* that has not signed yet; what was sent was signed last.
SentIsSigned ==
    \A t \in Tx :
        /\ ~ Handled(t) => pc[t] = "idle" /\ \A p \in pool : p[1] # t
        /\ AnsweredOnce(t) =>
              /\ pc[t] \in {"global", "address", "account"} =>
                    \A p \in pool : p[1] # t
              /\ \A p \in pool : p[1] = t => p = <<t, signed[t]>>
              /\ answer[t] = "rejected" =>
                    pc[t] = "idle" /\ \A p \in pool : p[1] # t
        /\ answer[t] = "rejected" => Handled(t)

SentInv == crashes = 0 => ReplacementIsNotOffered /\ SentIsSigned
=============================================================================

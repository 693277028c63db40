--------------------------- MODULE TxStateManager ---------------------------
(***************************************************************************)
(* The transaction store of the extension                                  *)
(* (app/scripts/controllers/transactions/tx-state-manager.js) as pure      *)
(* operators; TxController owns the variables they are applied to.         *)
(*                                                                         *)
(* The store is a map from transaction ids to *live* JavaScript objects:   *)
(* code that holds a txMeta keeps reading and writing the same object      *)
(* after an await, and updateTransaction(txMeta) puts that very object     *)
(* back, even over another one or after a deletion.  Two pieces of state   *)
(* keep this apart:                                                        *)
(*   heap[t][v]  the fields of object v of transaction t,                  *)
(*   store[t]    which object of t the store holds, NoTx for none.         *)
(* A transaction has one object created by the controller (Original) and   *)
(* one per UI window that sends an edited copy back when it approves.      *)
(***************************************************************************)
EXTENDS NonceTracker

CONSTANTS
    NumTx,          \* transactions that may be created: ids are 1..NumTx
    Account,        \* sender addresses
    Chain,          \* chain ids the user can select
    Window,         \* open UI windows, each with its own copy of the state
    Original,       \* names the object made by generateTxMeta
    NoTx,           \* "the store has no entry"
    NoAccount,      \* an id that is not in use yet
    HistoryLimit    \* txHistoryLimit (40 in metamask-controller.js)

ASSUME NumTxAssumption == NumTx \in Nat \ {0}
ASSUME ObjectAssumption == /\ Original \notin Window
                           /\ NoTx \notin Window \union {Original} \union Nat
ASSUME HistoryAssumption == HistoryLimit \in Nat \ {0}

\* createId and time: ids grow with creation, so id order is time order.
Tx == 1..NumTx

Version == {Original} \union Window

Status == {"unapproved", "approved", "rejected", "signed",
           "submitted", "failed", "dropped", "confirmed"}

\* getFinalStates (lib/util.js)
FinalStates == {"rejected", "confirmed", "failed", "dropped"}

\* Mutation of FinishedStates: failures are not announced.
FinishedStatesNoFailure == {"submitted", "rejected"}

\* The statuses on which _setTransactionStatus emits `${id}:finished`.
FinishedStates == {"submitted", "rejected", "failed"}

(***************************************************************************)
(* A txMeta, reduced to the fields the control flow reads: the nonce in    *)
(* txParams, customNonceValue, whether hash is set, loadingDefaults, and   *)
(* lastGasPrice (set on speed-up and cancel transactions only).            *)
(***************************************************************************)
Meta == [status : Status, nonce : Nat \union {NoNonce},
         custom : Nat \union {NoNonce}, hash : BOOLEAN,
         loading : BOOLEAN, lastGasPrice : BOOLEAN]

\* What generateTxMeta returns for a fresh request.
FreshMeta == [status |-> "unapproved", nonce |-> NoNonce, custom |-> NoNonce,
              hash |-> FALSE, loading |-> TRUE, lastGasPrice |-> FALSE]

Stored(store) == {t \in Tx : store[t] # NoTx}

\* getTransactions with a status criterion, over every network.
WithStatus(store, heap, statuses) ==
    {t \in Stored(store) : heap[t][store[t]].status \in statuses}

(***************************************************************************)
(* _setTransactionStatus for every transaction of ts: a no-op for one the  *)
(* store does not hold, otherwise the stored object gets the new status    *)
(* whatever its old status was.                                            *)
(***************************************************************************)
SetStatus(store, heap, ts, status) ==
    [t \in Tx |-> [v \in Version |->
        IF t \in ts /\ v = store[t]
        THEN [heap[t][v] EXCEPT !.status = status]
        ELSE heap[t][v]]]

\* updateTransaction(txMeta): the store now holds object v of t.
Put(store, t, v) == [store EXCEPT ![t] = v]

\* _deleteTransaction
Delete(store, t) == [store EXCEPT ![t] = NoTx]

\* clearUnapprovedTxs: every network's unapproved transactions leave the store.
ClearUnapproved(store, heap) ==
    [t \in Tx |-> IF t \in WithStatus(store, heap, {"unapproved"})
                  THEN NoTx ELSE store[t]]

\* wipeTransactions(address), ts being that address's ids on this network.
Wipe(store, ts) == [t \in Tx |-> IF t \in ts THEN NoTx ELSE store[t]]

(***************************************************************************)
(* addTransaction: at the history limit the oldest transaction in a final  *)
(* state, if there is one, makes room; then the new object is stored.      *)
(***************************************************************************)
Evictable(store, heap) ==
    IF Cardinality(Stored(store)) > HistoryLimit - 1
    THEN {t \in WithStatus(store, heap, FinalStates) :
             \A u \in WithStatus(store, heap, FinalStates) : t <= u}
    ELSE {}

AddTransaction(store, heap, t) ==
    [u \in Tx |-> IF u = t THEN Original
                  ELSE IF u \in Evictable(store, heap) THEN NoTx
                  ELSE store[u]]
=============================================================================

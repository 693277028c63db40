---------------------------- MODULE PendingResubmit ----------------------------
(***************************************************************************)
(* What the TransactionController does on a new block after the pending    *)
(* check: resubmitPendingTxs and _resubmitTx (pending-tx-tracker.js), its  *)
(* listeners (transactions/index.js: _setupListeners) and the block        *)
(* listener that follows the pending list (_setupBlockTrackerListener).    *)
(* A handler works through a list it read once, waits for the node at each *)
(* republication, and overlaps with the handlers of later blocks.  The     *)
(* life of a transaction outside of this is TxController's, here only its  *)
(* status, its rawTx and whether approveTransaction is at work on it.      *)
(***************************************************************************)
EXTENDS BlockTracker

CONSTANTS
    Tx,
    Chain,       \* networks
    Nothing,     \* no transaction
    Handler,     \* _onLatestBlock calls that may be under way (a bound)
    MaxRetries,  \* bound: republications of a transaction
    MaxSwitch    \* bound: network changes

ASSUME ResubmitAssumption ==
    MaxRetries \in Nat /\ MaxSwitch \in Nat /\ Nothing \notin Tx

VARIABLES
    selected,    \* the selected network
    switches,    \* network changes so far
    status, chainOf,  \* of each transaction
    raw,         \* transactions with a rawTx
    signing,     \* inProcessOfSigning: "no", or what approveTransaction waits for
    first,       \* firstRetryBlockNumber, or NoBlock
    retries,     \* retryCount
    handler,     \* per call: block, stage, the transactions to go, the one at
                 \*   work; history: whether its block number was forgotten
    published    \* history: republications of calls whose number is not forgotten

txVars == <<status, chainOf, raw, signing, first, retries>>
handlerVars == <<handler, published>>
networkVars == <<selected, switches>>
vars == <<networkVars, trackerVars, txVars, handlerVars>>

Statuses == {"unapproved", "approved", "signed", "submitted", "failed", "done"}

Idle == [block |-> NoBlock, stage |-> "idle", rest |-> {}, at |-> Nothing, old |-> FALSE]

HandlerCall ==
    [block : Block \union {NoBlock}, rest : SUBSET Tx, at : Tx \union {Nothing},
     stage : {"idle", "check", "next", "publishing", "approving"}, old : BOOLEAN]

Of(st, s, c) == {t \in Tx : st[t] = s /\ chainOf[t] = c}

\* The state of a boot: stored transactions are unapproved or submitted.
Init ==
    /\ selected \in Chain /\ switches = 0
    /\ status \in [Tx -> {"unapproved", "submitted"}] /\ chainOf \in [Tx -> Chain]
    /\ \A t \in Tx : status[t] = "unapproved" => chainOf[t] = selected
    /\ raw = {t \in Tx : status[t] = "submitted"} /\ signing = [t \in Tx |-> "no"]
    /\ TrackerInit(Of(status, "submitted", selected) # {})
    /\ first = [t \in Tx |-> NoBlock] /\ retries = [t \in Tx |-> 0]
    /\ handler = [h \in Handler |-> Idle]
    /\ published = {}

\* updateSubscription with network c selected: who of ls listens when the
\* statuses are st.
Subscribed(st, c, ls) ==
    IF Of(st, "submitted", c) # {} THEN ls \union {Pending} ELSE ls \ {Pending}

\* tx:status-update: the statuses become st.
StatusUpdate(st) ==
    /\ status' = st
    /\ Listeners(Subscribed(st, selected, listening), loops)
    /\ UNCHANGED <<height, current>>

-----------------------------------------------------------------------------
\* approveTransaction, as far as this concerns it

\* The user confirms a transaction.  Unapproved ones do not outlive a network
\* change (networkWillChange), so it is one of the selected network.
Approve(t) ==
    /\ status[t] = "unapproved"
    /\ chainOf' = [chainOf EXCEPT ![t] = selected]
    /\ signing' = [signing EXCEPT ![t] = "keyring"]
    /\ StatusUpdate([status EXCEPT ![t] = "approved"])
    /\ UNCHANGED <<networkVars, raw, first, retries, handlerVars>>

\* signTransaction, and rawTx at the start of publishTransaction.
Signs(t) ==
    /\ signing[t] = "keyring"
    /\ signing' = [signing EXCEPT ![t] = "node"]
    /\ raw' = raw \union {t}
    /\ StatusUpdate([status EXCEPT ![t] = "signed"])
    /\ UNCHANGED <<networkVars, chainOf, first, retries, handlerVars>>

\* approveTransaction(t) returns to a handler that called it; a known error
\* (known = TRUE) ends that handler.
Returns(t, known) ==
    handler' = [h \in Handler |->
        IF handler[h].stage # "approving" \/ handler[h].at # t THEN handler[h]
        ELSE IF known THEN Idle
        ELSE [handler[h] EXCEPT !.stage = "next", !.at = Nothing]]

ApprovalEnds(t, st, known) ==
    /\ signing[t] # "no" /\ signing' = [signing EXCEPT ![t] = "no"]
    /\ StatusUpdate([status EXCEPT ![t] = st])
    /\ Returns(t, known)
    /\ UNCHANGED <<networkVars, chainOf, raw, first, retries, published>>

Submits(t) == signing[t] = "node" /\ ApprovalEnds(t, "submitted", FALSE)
ApprovalFails(t, known) == ApprovalEnds(t, "failed", known)

\* The pending check, or the confirmation of another transaction with the
\* nonce, ends it: confirmed, dropped, or failed for want of a hash.
Finishes(t, st) ==
    /\ status[t] = "submitted" /\ st \in {"done", "failed"}
    /\ StatusUpdate([status EXCEPT ![t] = st])
    /\ UNCHANGED <<networkVars, chainOf, raw, signing, first, retries, handlerVars>>

-----------------------------------------------------------------------------
\* _onLatestBlock

\* getPendingTransactions of the constructor: pending, then approved ones.
PendingTransactions ==
    Of(status, "submitted", selected) \union Of(status, "approved", selected)

Working == {h \in Handler : handler[h].stage # "idle"}

\* History: block numbers announced by now may be announced once more.
Forgotten == [h \in Handler |-> [handler[h] EXCEPT !.old = h \in Working]]

\* A loop gets an answer; a block that is announced starts a handler.
PollAnswer(l, n) ==
    /\ Answered(l, n)
    /\ IF Rises(n) /\ Pending \in listening
       THEN \E h \in Handler \ Working :
              handler' = [handler EXCEPT ![h] =
                             [Idle EXCEPT !.stage = "check", !.block = n]]
       ELSE UNCHANGED handler
    /\ UNCHANGED <<networkVars, txVars, published>>

StaleBlock ==
    /\ ResetCurrentBlock
    /\ handler' = Forgotten /\ published' = {}
    /\ UNCHANGED <<networkVars, txVars>>

\* A first block number is only noted (tx:block-update); later ones are tested.
BacksOff(t, b) == first[t] = NoBlock \/ b - first[t] <= 2 ^ retries[t] - 1

\* MUTANT: the status is asked, not the payload.
HasRawTxByStatus(t) == status[t] = "submitted"

HasRawTx(t) == t \in raw

\* _resubmitTx of t has to wait, for a publication or an approval.
Waits(h, t) ==
    /\ ~BacksOff(t, handler[h].block)
    /\ HasRawTx(t) \/ signing[t] = "no"

\* The loop of call h over rest passes over some transactions, in an order left
\* open, and ends or comes to one that makes it wait.
Passes(h, passed) ==
    /\ \A t \in passed : ~Waits(h, t)
    /\ first' = [t \in Tx |-> IF t \in passed /\ first[t] = NoBlock
                              THEN handler[h].block ELSE first[t]]

Stops(h, stage, t, rest) ==
    handler' = [handler EXCEPT ![h].stage = stage, ![h].at = t, ![h].rest = rest]

LoopEnds(h) ==
    /\ handler' = [handler EXCEPT ![h] = Idle]
    /\ UNCHANGED <<status, signing, trackerVars, published>>

Republishes(h, t, rest) ==
    /\ HasRawTx(t) /\ retries[t] < MaxRetries
    /\ Stops(h, "publishing", t, rest)
    /\ published' = IF handler[h].old THEN published
                    ELSE published \union {<<t, handler[h].block>>}
    /\ UNCHANGED <<status, signing, trackerVars>>

\* "Only auto-submit already-signed txs": any other is approved again, in
\* whatever status it is by now.
Reapproves(h, t, rest) ==
    /\ ~HasRawTx(t)
    /\ Stops(h, "approving", t, rest)
    /\ signing' = [signing EXCEPT ![t] = "keyring"]
    /\ StatusUpdate([status EXCEPT ![t] = "approved"])
    /\ UNCHANGED published

Resubmits(h, list) ==
    /\ \E passed \in SUBSET list :
          /\ Passes(h, passed)
          /\ \/ passed = list /\ LoopEnds(h)
             \/ \E t \in list \ passed :
                   LET rest == list \ (passed \union {t}) IN
                   Waits(h, t) /\ (Republishes(h, t, rest) \/ Reapproves(h, t, rest))
    /\ UNCHANGED <<networkVars, chainOf, raw>>

\* updatePendingTxs is through: the list is read.
CheckDone(h) ==
    /\ handler[h].stage = "check"
    /\ Resubmits(h, PendingTransactions)
    /\ UNCHANGED retries

\* The loop goes on after an approval.
GoesOn(h) ==
    /\ handler[h].stage = "next"
    /\ Resubmits(h, handler[h].rest)
    /\ UNCHANGED retries

\* The node answers sendRawTransaction: tx:retry.
Republished(h) ==
    /\ handler[h].stage = "publishing"
    /\ retries' = [retries EXCEPT ![handler[h].at] = @ + 1]
    /\ Resubmits(h, handler[h].rest)

\* It rejects: a known error ends the loop, others leave a warning.
RepublishFails(h, known) ==
    /\ handler[h].stage = "publishing"
    /\ Resubmits(h, IF known THEN {} ELSE handler[h].rest)
    /\ UNCHANGED retries
=============================================================================

-------------------------------- MODULE Blocks --------------------------------
(***************************************************************************)
(* Blocks and networks: the block tracker, the resubmission of pending     *)
(* transactions, and what NetworkController does to both.  A network       *)
(* change moves the listeners to a new tracker, and every network state    *)
(* that is set (NetworkLookup has its calls; here it may be set at any     *)
(* time) runs _onBootCleanUp, whose failed transactions are what may       *)
(* switch the block listener.                                              *)
(***************************************************************************)
EXTENDS PendingResubmit

\* _onBootCleanUp with network c selected.
CleanedUp(c) ==
    [t \in Tx |-> IF t \in Of(status, "approved", c) THEN "failed" ELSE status[t]]

\* Only a status update looks at the subscription.
Followed(c) ==
    IF Of(status, "approved", c) = {} THEN listening
    ELSE Subscribed(CleanedUp(c), c, listening)

NetworkChange ==
    /\ switches < MaxSwitch /\ switches' = switches + 1
    /\ selected' \in Chain
    /\ status' = CleanedUp(selected')
    /\ NewTracker(Followed(selected'))
    /\ handler' = Forgotten /\ published' = {}
    /\ UNCHANGED <<chainOf, raw, signing, first, retries>>

\* lookupNetwork sets the network state.
NetworkStateSet ==
    /\ Of(status, "approved", selected) # {}
    /\ StatusUpdate(CleanedUp(selected))
    /\ UNCHANGED <<networkVars, chainOf, raw, signing, first, retries, handlerVars>>

ListenerStep ==
    /\ NewHeight \/ \E x \in Listener : Listen(x) \/ Unlisten(x) \/ Relisten(x)
    /\ UNCHANGED <<networkVars, txVars, handlerVars>>

LoopStep(l) ==
    \/ \E n \in Block : PollAnswer(l, n)
    \/ (PollFails(l) \/ Wakes(l)) /\ UNCHANGED <<networkVars, txVars, handlerVars>>

ApprovalStep(t) ==
    \/ Signs(t) \/ Submits(t)
    \/ \E known \in BOOLEAN : ApprovalFails(t, known)

TxStep(t) == Approve(t) \/ \E st \in {"done", "failed"} : Finishes(t, st)

HandlerStep(h) ==
    \/ CheckDone(h) \/ GoesOn(h) \/ Republished(h)
    \/ \E known \in BOOLEAN : RepublishFails(h, known)

Next ==
    \/ NetworkChange \/ NetworkStateSet
    \/ ListenerStep \/ StaleBlock
    \/ \E l \in Loop : LoopStep(l)
    \/ \E t \in Tx : TxStep(t) \/ ApprovalStep(t)
    \/ \E h \in Handler : HandlerStep(h)

Spec == Init /\ [][Next]_vars

-----------------------------------------------------------------------------
TypeOK ==
    /\ TrackerTypeOK
    /\ selected \in Chain /\ switches \in 0..MaxSwitch
    /\ status \in [Tx -> Statuses] /\ chainOf \in [Tx -> Chain] /\ raw \subseteq Tx
    /\ signing \in [Tx -> {"no", "keyring", "node"}]
    /\ first \in [Tx -> Block \union {NoBlock}] /\ retries \in [Tx -> Nat]
    /\ handler \in [Handler -> HandlerCall]
    /\ published \subseteq Tx \X (Block \union {NoBlock})

(***************************************************************************)
(* Until the network changes, a pending transaction of the selected        *)
(* network has its block listener on, on a tracker that runs and polls:    *)
(* whatever else stops and restarts the tracker, fails a poll or finishes  *)
(* a transaction in the middle of an announcement.  After a change nothing *)
(* switches the listener on before the next status update.                 *)
(***************************************************************************)
PendingIsPolled ==
    (switches = 0 /\ Of(status, "submitted", selected) # {})
    => /\ Pending \in listening
       /\ running /\ \E l \in Loop : loops[l] # "off"

(***************************************************************************)
(* A transaction is republished once for a block at most, though the       *)
(* tracker may poll in two loops, nodes lag behind, and calls of several   *)
(* blocks are under way: until the tracker forgets its block, 20 s after   *)
(* it stopped, or is replaced by a network change.                         *)
(***************************************************************************)
OncePerBlock ==
    [][\A h \in Handler :
          (/\ handler'[h].stage = "publishing" /\ handler'[h].at # handler[h].at
           /\ ~handler[h].old)
          => <<handler'[h].at, handler'[h].block>> \notin published]_vars

(***************************************************************************)
(* "So that we do not increment nonce + resubmit something that is already *)
(* being incremented & signed" (approveTransaction): no transaction is     *)
(* signed a second time, with a new nonce, though a handler approves from  *)
(* a list it read earlier and may approve one that has failed meanwhile.   *)
(***************************************************************************)
SignedOnce ==
    [][\A t \in raw : signing[t] = "keyring" => signing'[t] # "node"]_vars
=============================================================================

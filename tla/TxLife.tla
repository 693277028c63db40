------------------------------- MODULE TxLife -------------------------------
(***************************************************************************)
(* The life of a transaction of TxController from its request to its final *)
(* status, as one object goes through it: the inductive invariants that    *)
(* the theorems of TxLifeProofs rest on, and the refinement mappings to    *)
(* NonceLedger and TxFlow.                                                 *)
(*                                                                         *)
(* They speak of an undisturbed life: the user answers a transaction in    *)
(* one window only, and there was no network switch, account reset or      *)
(* crash so far.  Each of these puts a second object in the place of the   *)
(* first, or takes the nonces away from under an approval.                 *)
(***************************************************************************)
EXTENDS TxController

\* The node's account nonces are naturals that stop at the bound.
ASSUME MaxNonceAssumption == MaxNonce \in Nat

Undisturbed ==
    /\ switches = 0 /\ crashes = 0
    /\ \A t \in Tx, v, w \in Window :
          view[v][t] = "clicked" /\ view[w][t] = "clicked" => v = w

\* The object an undisturbed transaction is about.
Object(t) == heap[t][ref[t]]

\* It takes part in the tracker's arithmetic, or will.
InUse(t) == pc[t] \in Holding \/ Object(t).status = "submitted"

\* Its nonce is the tracker's own: not typed, and not a replaced transaction's.
OfTracker(t) == Object(t).custom = NoNonce /\ ~Object(t).lastGasPrice

-----------------------------------------------------------------------------
\* Nothing but the first network was ever selected, and nothing was started
\* over: boot-time estimations belong to a page that had transactions.
OneNetwork ==
    /\ regas = {} /\ (net = "loading" => \A t \in Tx : Unused(t))
    /\ \A t \in Tx : chainOf[t] = chain

\* Before addUnapprovedTransaction stores it nobody has seen a transaction.
NotYetSeen ==
    \A t \in Tx :
        /\ stage[t] = "new" => answer[t] = "none"
        /\ stage[t] # "done" => replaces[t] = NoTx
        /\ stage[t] \in {"new", "permission"} =>
              /\ store[t] = NoTx
              /\ \A w \in Window : view[w][t] = "hidden"

\* A speed-up or cancellation never waits for a user or a dapp.
ReplacementIsSilent ==
    \A t \in Tx :
        /\ replaces[t] # NoTx =>
              /\ answer[t] = "none" /\ Object(t).status # "unapproved"
              /\ \A w \in Window : view[w][t] = "hidden"
        /\ Object(t).lastGasPrice => replaces[t] # NoTx

\* Until it is handled a transaction is the unapproved original.
UnhandledIsFresh ==
    \A t \in Tx : ~Handled(t) =>
        /\ pc[t] = "idle" /\ ref[t] = Original
        /\ Object(t).status = "unapproved"
        /\ Object(t).nonce = NoNonce /\ ~Object(t).hash
        /\ answer[t] \in {"none", "pending", "waiting", "error"}
        /\ \A p \in pool : p[1] # t

\* The store holds this object or none; a submitted one stays.
OneObject ==
    \A t \in Tx :
        /\ store[t] \in {NoTx, ref[t]}
        /\ Object(t).status = "submitted" => store[t] # NoTx

\* Whom a pending check asks about is submitted with a hash, unless another
\* answer of the same check dropped it.
AskedIsPending ==
    \A h \in Handler, t \in Tx : asked[h][t] # NoTx =>
        /\ hpc[h] = "checking" /\ asked[h][t] = ref[t]
        /\ Object(t).status \in {"submitted", "dropped"} /\ Object(t).hash
        /\ pc[t] = "idle"

\* An approval takes its nonce once; only mined transactions are confirmed.
NonceOnce ==
    \A t \in Tx :
        /\ pc[t] \in {"global", "address"} =>
              \/ Object(t).nonce = NoNonce
              \/ Object(t).lastGasPrice /\ Object(t).custom = NoNonce
        /\ pc[t] \in Holding => Object(t).nonce \in Nat
        /\ Object(t).status \in {"submitted", "confirmed"} => pc[t] = "idle"
        /\ Object(t).status \in {"submitted", "confirmed", "dropped"} =>
              Object(t).nonce \in Nat
        /\ Object(t).status = "confirmed" => <<t, signed[t]>> \in mined

\* AutomaticNoncesDiffer, of the objects.
NoncesDiffer ==
    \A t, u \in Tx :
        (/\ t # u /\ from[t] = from[u]
         /\ InUse(t) /\ InUse(u) /\ OfTracker(t) /\ OfTracker(u))
        => Object(t).nonce # Object(u).nonce

\* DroppedHasConfirmedTwin, of the objects.
TwinIsMined ==
    \A t \in Tx : Object(t).status = "dropped" =>
        \E u \in Tx \ {t} :
            /\ from[u] = from[t] /\ Object(u).nonce = Object(t).nonce
            /\ Object(u).status = "confirmed"

\* AnswerStaysTrue, of the objects.
AnswerIsTrue ==
    \A t \in Tx :
        /\ answer[t] = "hash" =>
              /\ Object(t).status \in {"submitted", "confirmed", "dropped"}
              /\ Object(t).hash /\ pc[t] = "idle"
        /\ answer[t] = "failed" =>
              /\ Object(t).status \in {"failed", "dropped"} /\ pc[t] = "idle"
              /\ \A h \in Handler : asked[h][t] = NoTx
        /\ answer[t] = "rejected" =>
              /\ store[t] = NoTx /\ pc[t] = "idle"
              /\ Object(t).status = "rejected"
              /\ \A h \in Handler : asked[h][t] = NoTx
              /\ \A p \in pool : p[1] # t

LifeInv == /\ OneNetwork /\ NotYetSeen /\ ReplacementIsSilent
           /\ UnhandledIsFresh /\ OneObject /\ AskedIsPending /\ NonceOnce
           /\ NoncesDiffer /\ TwinIsMined /\ AnswerIsTrue
-----------------------------------------------------------------------------
\* While the tracker chooses every nonce.

Plain == Undisturbed /\ \A t \in Tx : OfTracker(t)

\* Constants with which it does: one window, no typed nonce, no speed-up or
\* cancellation, no switch, reset or crash.  The others may have any value.
TrackerOnly ==
    /\ \A v, w \in Window : v = w
    /\ CustomNonces = {} /\ MaxReplace = 0 /\ MaxSwitch = 0 /\ MaxCrash = 0

StoredConfirmed(t) == store[t] # NoTx /\ Object(t).status = "confirmed"

\* A nonce in use is nobody else's, and not that of a stored confirmed one.
LiveNoncesDiffer ==
    \A t, u \in Tx :
        (/\ t # u /\ from[t] = from[u] /\ InUse(t)
         /\ InUse(u) \/ StoredConfirmed(u)) => Object(t).nonce # Object(u).nonce

\* So no pending check drops whom it asks about, nor whom a user waits for.
AskedIsSubmitted ==
    \A h \in Handler, t \in Tx :
        asked[h][t] # NoTx => Object(t).status = "submitted"
SigningIsNotFinal ==
    \A t \in Tx : pc[t] \in InProcess => Object(t).status \in {"approved", "signed"}

\* Nonces run ahead of the node by at most one per transaction.
Numbered == {t \in Tx : Object(t).nonce \in Nat}
NoncesAreBounded ==
    /\ \A a \in Account : nodeNonce[a] <= MaxNonce
    /\ \A t \in Numbered : Object(t).nonce < MaxNonce + Cardinality(Numbered)

PlainInv == /\ LiveNoncesDiffer /\ AskedIsSubmitted /\ SigningIsNotFinal
            /\ NoncesAreBounded

\* The order of an approval: the status says how far it is, its object stays
\* in the store, and only it has these statuses.  A transaction that was not
\* approved has no nonce, and what a window offers is in the store.
InOrder(t) ==
    /\ pc[t] \in {"global", "address", "account", "sign"} =>
          Object(t).status = "approved"
    /\ pc[t] \in {"balance", "broadcast"} => Object(t).status = "signed"
    /\ pc[t] \in InProcess => store[t] # NoTx
    /\ Object(t).status \in {"approved", "signed"} => pc[t] \in InProcess
    /\ Object(t).status \in {"unapproved", "rejected"} => Object(t).nonce = NoNonce
    /\ \A w \in Window : ~ Handled(t) /\ view[w][t] = "shown" => store[t] # NoTx
    /\ stage[t] # "done" => answer[t] \in {"none", "pending"}

FlowOrder == \A t \in Tx : InOrder(t)

-----------------------------------------------------------------------------
\* The refinement mappings.

\* The nonce in the captured txMeta of the approval that holds a's lock.
TakenNonce(a) ==
    LET holders == {t \in Tx : from[t] = a /\ pc[t] \in Holding} IN
    IF holders = {} THEN NoNonce
    ELSE LET t == CHOOSE u \in holders : TRUE IN heap[t][ref[t]].nonce

takenNonces   == [a \in Account |-> TakenNonce(a)]
pendingNonces == [a \in Account |-> NoncesOf(a, {"submitted"})]

Ledger == INSTANCE NonceLedger WITH
    NotTaken <- NoNonce, Nonce <- 0..(MaxNonce + NumTx),
    taken <- takenNonces, pending <- pendingNonces

(***************************************************************************)
(* The pipeline implements the ledger while nonces are the tracker's own,  *)
(* one network is selected and the page does not crash: approvals of one   *)
(* sender are serialised, and each gets a nonce nobody is waiting on.      *)
(***************************************************************************)
SerialNonces == Ledger!Spec

\* Nobody knows of an unapproved transaction that is not in the store.
flowStatus == [t \in Tx |->
    IF store[t] = NoTx /\ Object(t).status = "unapproved" THEN "none"
    ELSE Object(t).status]
flowTold == [t \in Tx |->
    IF answer[t] \in {"none", "pending", "waiting"} THEN "nothing" ELSE answer[t]]

Flow == INSTANCE TxFlow WITH status <- flowStatus, told <- flowTold

(***************************************************************************)
(* The pipeline follows the documented flow while nonces are the tracker's *)
(* own, one network is selected and the page does not crash: no step skips *)
(* a status or goes back, whichever object of the transaction it writes,   *)
(* and a dapp is told of a status when it is reached and once.             *)
(***************************************************************************)
FollowsFlow == Flow!Spec
=============================================================================

------------------------------- MODULE TxFlow -------------------------------
(***************************************************************************)
(* The flow that docs/transaction-flow.png and the statuses of             *)
(* shared/constants/transaction.js promise: which way a transaction may    *)
(* go, and what its dapp is told on the way, without locks, objects,       *)
(* windows or a node.  Several transactions may move in one step.  Two     *)
(* arrows are the code's only: what was approved may fail at any time      *)
(* until it has a hash, and a failed transaction may be dropped as a       *)
(* duplicate.                                                              *)
(* TxController is checked to implement this (TxLife!FollowsFlow), and     *)
(* proved to in TxLedgerProofs.                                            *)
(***************************************************************************)
CONSTANT Tx

VARIABLES status,   \* per transaction: its status, or "none" before it is added
          told      \* what its eth_sendTransaction call was answered, if it was

Init == /\ status = [t \in Tx |-> "none"]
        /\ told = [t \in Tx |-> "nothing"]

Arrows == {<<"none", "unapproved">>, <<"unapproved", "approved">>,
           <<"unapproved", "rejected">>, <<"approved", "signed">>,
           <<"signed", "submitted">>, <<"submitted", "confirmed">>}
          \union {"approved", "signed", "submitted"} \X {"failed"}
          \union {"submitted", "failed"} \X {"dropped"}

\* What a dapp may be told when its transaction gets to status s.
Report(s) == CASE s = "submitted" -> {"hash", "noHash"}
               [] s \in {"rejected", "failed"} -> {s}
               [] OTHER -> {}

\* It stays where it is; the request may end in an error.
Stays(t) == /\ status'[t] = status[t]
            /\ \/ told'[t] = told[t]
               \/ told[t] = "nothing" /\ told'[t] = "error"

\* It takes an arrow.  The dapp is told once; what it has a hash of does not
\* fail; and who is dropped loses against one that is confirmed.
Goes(t) ==
    /\ <<status[t], status'[t]>> \in Arrows
    /\ \/ told'[t] = told[t]
       \/ told[t] = "nothing" /\ told'[t] \in Report(status'[t])
    /\ status'[t] = "failed" => told[t] # "hash"
    /\ status'[t] = "dropped" => \E u \in Tx \ {t} : status'[u] = "confirmed"

Next == /\ \A t \in Tx : Stays(t) \/ Goes(t)
        /\ DOMAIN status' = Tx /\ DOMAIN told' = Tx

Spec == Init /\ [][Next]_<<status, told>>
=============================================================================

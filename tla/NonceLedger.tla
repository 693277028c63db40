---------------------------- MODULE NonceLedger -----------------------------
(***************************************************************************)
(* What nonceTracker promises its users, without saying how: per sender,   *)
(* nonces are handed out one at a time; a nonce is handed out only if no   *)
(* pending transaction has it; it becomes pending or is given back before  *)
(* the next one is handed out; and pending nonces otherwise only go away.  *)
(* TxController, with its mutex queues, its store and its lists, is        *)
(* checked to implement this (TxLife!SerialNonces), and proved to in       *)
(* TxLedgerProofs.                                                         *)
(***************************************************************************)
CONSTANTS Account,
          Nonce,       \* the nonces there are
          NotTaken     \* not a nonce: none of this sender is handed out

VARIABLES taken,       \* per sender: the nonce handed out, if any
          pending      \* per sender: the nonces of submitted transactions

Init == /\ taken = [a \in Account |-> NotTaken]
        /\ pending = [a \in Account |-> {}]

Take(a, n) == /\ taken[a] = NotTaken /\ n \notin pending[a]
              /\ taken' = [taken EXCEPT ![a] = n]
              /\ UNCHANGED pending

Commit(a) == /\ taken[a] # NotTaken
             /\ pending' = [pending EXCEPT ![a] = @ \union {taken[a]}]
             /\ taken' = [taken EXCEPT ![a] = NotTaken]

GiveBack(a) == /\ taken[a] # NotTaken
               /\ taken' = [taken EXCEPT ![a] = NotTaken]
               /\ UNCHANGED pending

\* Confirmed, dropped or failed: possibly several at once, of any sender.
Settle == /\ pending' \in [Account -> SUBSET Nonce]
          /\ \A a \in Account : pending'[a] \subseteq pending[a]
          /\ UNCHANGED taken

Next == \/ \E a \in Account : \/ \E n \in Nonce : Take(a, n)
                              \/ Commit(a) \/ GiveBack(a)
        \/ Settle

Spec == Init /\ [][Next]_<<taken, pending>>
=============================================================================

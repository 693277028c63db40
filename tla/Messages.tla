------------------------------- MODULE Messages -------------------------------
(***************************************************************************)
(* The message managers: messages that dapps want signed or decrypted, or  *)
(* public keys they ask for, wait for the user, then for the keyring.  The *)
(* five managers differ in how a failure of the keyring is treated:        *)
(*   "plain"   eth_sign and personal_sign: not at all                      *)
(*   "key"     eth_getEncryptionPublicKey: errored, but not finished       *)
(*   "typed"   eth_signTypedData and eth_decrypt: errored and finished     *)
(* Any window may confirm or reject any message that was ever shown.  All  *)
(* messages are for the account Seed.                                      *)
(***************************************************************************)
EXTENDS Keyrings

CONSTANTS
    Message,     \* messages
    MaxSigning   \* confirmations of one message under way at once (a bound)

ASSUME MaxSigningIsPositive == MaxSigning \in Nat \ {0}

VARIABLES
    kind,        \* which manager the message belongs to
    status,      \* its status; "cleared": deleted from the list
    signing,     \* calls of the keyring under way for it
    answer       \* what the promise the dapp waits for has come to

messageVars == <<kind, status, signing, answer>>

Kind      == {"plain", "key", "typed"}
MsgStatus == {"none", "unapproved", "approved", "signed", "rejected", "errored",
              "cleared"}

MessagesInit ==
    /\ kind = [m \in Message |-> "plain"]
    /\ status = [m \in Message |-> "none"]
    /\ signing = [m \in Message |-> 0]
    /\ answer = [m \in Message |-> "none"]

\* MUTANT: the managers of typed data and decryption emit as the others do.
FinishesSilently(k) == {"signed", "rejected"}

\* The statuses for which _setMsgStatus emits the finished event.
Finishes(k) == {"signed", "rejected"} \union IF k = "typed" THEN {"errored"} ELSE {}

\* _setMsgStatus: the promise listens once.
SetMsgStatus(m, s) ==
    /\ status' = [status EXCEPT ![m] = s]
    /\ answer' = [answer EXCEPT ![m] =
                    IF @ = "waiting" /\ s \in Finishes(kind[m]) THEN s ELSE @]

\* _setMsgStatus throws when the message is not in the list.
Listed(m) == status[m] \notin {"none", "cleared"}

-----------------------------------------------------------------------------
\* addUnapprovedMessageAsync
NewMessage(m, k) ==
    /\ status[m] = "none"
    /\ kind' = [kind EXCEPT ![m] = k]
    /\ status' = [status EXCEPT ![m] = "unapproved"]
    /\ answer' = [answer EXCEPT ![m] = "waiting"]
    /\ UNCHANGED signing

\* What becomes of a message whose keyring call rejects.
Failed(m) ==
    IF kind[m] = "plain" THEN UNCHANGED <<status, answer>>
                         ELSE SetMsgStatus(m, "errored")

\* signMessage and its siblings: approved at once; a keyring that is not
\* there rejects at once, another one takes its time.
ApproveMessage(m) ==
    /\ Listed(m)
    /\ Seed \in keyrings
    /\ signing[m] < MaxSigning
    /\ SetMsgStatus(m, "approved")
    /\ signing' = [signing EXCEPT ![m] = @ + 1]
    /\ UNCHANGED kind

ApproveWithoutKeyring(m) ==
    /\ Listed(m)
    /\ Seed \notin keyrings
    /\ IF kind[m] = "plain"
       THEN SetMsgStatus(m, "approved")
       ELSE SetMsgStatus(m, "errored")
    /\ UNCHANGED <<kind, signing>>

\* MUTANT: a keyring may answer twice.
SigningEndsAgain(m) == signing' = [signing EXCEPT ![m] = @ - 1]

\* The keyring's promise settles, once.
SigningEnds(m) ==
    /\ signing[m] > 0
    /\ signing' = [signing EXCEPT ![m] = @ - 1]

Signed(m) ==
    /\ SigningEnds(m)
    /\ SetMsgStatus(m, "signed")
    /\ UNCHANGED kind

SigningFails(m) ==
    /\ SigningEnds(m)
    /\ Failed(m)
    /\ UNCHANGED kind

\* cancelMessage and its siblings
RejectMessage(m) ==
    /\ Listed(m)
    /\ SetMsgStatus(m, "rejected")
    /\ UNCHANGED <<kind, signing>>

\* clearUnapproved, called when the network is about to change: no event.
ClearUnapproved ==
    /\ status' = [m \in Message |->
                    IF status[m] = "unapproved" THEN "cleared" ELSE status[m]]
    /\ UNCHANGED <<kind, signing, answer>>

-----------------------------------------------------------------------------
MessagesTypeOK ==
    /\ kind \in [Message -> Kind]
    /\ status \in [Message -> MsgStatus]
    /\ signing \in [Message -> 0..MaxSigning]
    /\ answer \in [Message -> {"none", "waiting", "signed", "rejected", "errored"}]

(***************************************************************************)
(* A dapp waits only for the user, for a keyring, or because of one of the *)
(* three leaks of the code: its message was cleared, or the keyring failed *)
(* a message of a manager that does not report it.  In particular no       *)
(* sequence of confirmations and rejections from several windows leaves a  *)
(* typed message unanswered.                                               *)
(***************************************************************************)
WaitingHasReason ==
    \A m \in Message : answer[m] = "waiting" =>
        \/ status[m] \in {"unapproved", "cleared"}
        \/ signing[m] > 0
        \/ kind[m] = "plain" /\ status[m] = "approved"
        \/ kind[m] = "key"   /\ status[m] = "errored"
=============================================================================

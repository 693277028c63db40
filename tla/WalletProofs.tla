----------------------------- MODULE WalletProofs -----------------------------
(***************************************************************************)
(* The safety properties of Wallet for any number of imported accounts,    *)
(* origins, calls, messages, networks, overlapping saves and password      *)
(* submissions.                                                            *)
(***************************************************************************)
EXTENDS Wallet, TLAPS

\* A step of the keyrings, whatever else it does.
AnyKeyringStep ==
    \/ \E s \in Submission : SubmitPassword(s) \/ Decrypted(s) \/ DecryptFails(s)
    \/ SetLocked
    \/ \E a \in Imported, p \in Persist : AddNewKeyring(a, p) \/ RemoveAccount(a, p)
    \/ \E p \in Persist : AddNewAccount(p) \/ Encrypted(p)
    \/ UNCHANGED keyringVars

\* Every step of the wallet is such a step.
LEMMA StepsOfKeyrings ==
    ASSUME [Next]_vars PROVE AnyKeyringStep
BY DEF Next, vars, AnyKeyringStep, Unlock, Remove, KeyringStep, keyringVars

(***************************************************************************)
(* Where the seed is.  While the wallet was never unlocked twice, the      *)
(* seed is in every vault that is read or written and, unlocked, in the    *)
(* keyrings; identities follow the keyrings except during a save.          *)
(***************************************************************************)
SeedInv ==
    ~reentered =>
        /\ Seed \in vault
        /\ \A p \in Persist : encrypting[p] # Nothing => Seed \in encrypting[p].keys
        /\ \A s \in Submission : decrypting[s] # Nothing => Seed \in decrypting[s]
        /\ password => Seed \in keyrings

SettledInv == ~Unsettled => identities = keyrings

LockedInv ==
    /\ password = unlocked
    /\ ~unlocked => Seed \notin keyrings

KeyringInv == KeyringsTypeOK /\ SeedInv /\ SettledInv /\ LockedInv

\* Types of the keyrings' state.
LEMMA KeyringTypeStep ==
    ASSUME KeyringsTypeOK, AnyKeyringStep PROVE KeyringsTypeOK'
<1> USE DEF KeyringsTypeOK
<1>1. ASSUME NEW s \in Submission, SubmitPassword(s) PROVE KeyringsTypeOK'
    BY <1>1 DEF SubmitPassword
<1>2. ASSUME NEW s \in Submission, Decrypted(s) PROVE KeyringsTypeOK'
    <2>1. decrypting[s] \subseteq Account
        BY <1>2 DEF Decrypted
    <2>2. keyrings' \subseteq Account /\ identities' \subseteq Account
        BY <1>2, <2>1 DEF Decrypted, SyncedWith
    <2> QED BY <1>2, <2>2 DEF Decrypted
<1>3. ASSUME NEW s \in Submission, DecryptFails(s) PROVE KeyringsTypeOK'
    BY <1>3 DEF DecryptFails
<1>4. CASE SetLocked
    BY <1>4 DEF SetLocked, SyncedWith
<1>5. ASSUME NEW p \in Persist, NEW b \in BOOLEAN, StartPersist(p, b),
             keyrings' \subseteq Account
      PROVE  encrypting' \in [Persist -> {Nothing} \union Snapshot]
    BY <1>5 DEF StartPersist, Snapshot
<1>6. ASSUME NEW a \in Imported, NEW p \in Persist, AddNewKeyring(a, p)
      PROVE  KeyringsTypeOK'
    <2>1. keyrings' \subseteq Account
        BY <1>6 DEF AddNewKeyring, Account
    <2> QED BY <1>5, <1>6, <2>1 DEF AddNewKeyring
<1>7. ASSUME NEW a \in Imported, NEW p \in Persist, RemoveAccount(a, p)
      PROVE  KeyringsTypeOK'
    BY <1>5, <1>7 DEF RemoveAccount
<1>8. ASSUME NEW p \in Persist, AddNewAccount(p) PROVE KeyringsTypeOK'
    BY <1>5, <1>8 DEF AddNewAccount
<1>9. ASSUME NEW p \in Persist, Encrypted(p) PROVE KeyringsTypeOK'
    <2>1. encrypting[p] \in Snapshot
        BY <1>9 DEF Encrypted
    <2> QED BY <1>9, <2>1 DEF Encrypted, SyncedWith, Snapshot
<1>10. CASE UNCHANGED keyringVars
    BY <1>10 DEF keyringVars
<1> QED BY <1>1, <1>2, <1>3, <1>4, <1>6, <1>7, <1>8, <1>9, <1>10 DEF AnyKeyringStep

\* Lock and password go together, and a locked wallet has no seed.
LEMMA LockedStep ==
    ASSUME KeyringsTypeOK, LockedInv, AnyKeyringStep PROVE LockedInv'
<1> USE DEF LockedInv
<1>1. ASSUME NEW s \in Submission, SubmitPassword(s) \/ Decrypted(s) \/ DecryptFails(s)
      PROVE  LockedInv'
    BY <1>1 DEF SubmitPassword, Decrypted, DecryptFails
<1>2. CASE SetLocked
    BY <1>2 DEF SetLocked
<1>3. ASSUME NEW a \in Imported, NEW p \in Persist,
             AddNewKeyring(a, p) \/ RemoveAccount(a, p)
      PROVE  LockedInv'
    BY <1>3, SeedIsNotImported DEF AddNewKeyring, RemoveAccount
<1>4. ASSUME NEW p \in Persist, AddNewAccount(p) \/ Encrypted(p) PROVE LockedInv'
    BY <1>4 DEF AddNewAccount, Encrypted
<1>5. CASE UNCHANGED keyringVars
    BY <1>5 DEF keyringVars
<1> QED BY <1>1, <1>2, <1>3, <1>4, <1>5 DEF AnyKeyringStep

\* A save that starts holds the keyrings of the moment after the step.
LEMMA StartPersistEffect ==
    ASSUME KeyringsTypeOK, KeyringsTypeOK', NEW p \in Persist, NEW b \in BOOLEAN,
           StartPersist(p, b)
    PROVE  /\ \A q \in Persist : \/ encrypting'[q] = encrypting[q]
                                 \/ encrypting'[q].keys = keyrings' /\ password
           /\ password => encrypting'[p] # Nothing
<1>1. CASE password
    <2> DEFINE new == [keys |-> keyrings', importing |-> b]
    <2>1. encrypting' = [encrypting EXCEPT ![p] = new]
        BY <1>1 DEF StartPersist
    <2>2. new # Nothing /\ new.keys = keyrings'
        BY NothingIsNoSnapshot DEF Snapshot, KeyringsTypeOK
    <2> HIDE DEF new
    <2> QED BY <1>1, <2>1, <2>2 DEF KeyringsTypeOK
<1>2. CASE ~password
    BY <1>2 DEF StartPersist
<1> QED BY <1>1, <1>2

\* The seed stays where it has to be.
LEMMA SeedStep ==
    ASSUME KeyringInv, AnyKeyringStep PROVE SeedInv'
<1> USE DEF KeyringInv
<1> SUFFICES ASSUME ~reentered' PROVE SeedInv'
    BY DEF SeedInv
<1>1. ~reentered
    BY DEF AnyKeyringStep, SubmitPassword, Decrypted, DecryptFails, SetLocked,
           AddNewKeyring, RemoveAccount, AddNewAccount, Encrypted, keyringVars,
           KeyringsTypeOK
<1> USE <1>1 DEF SeedInv, KeyringsTypeOK
<1>2. ASSUME NEW s \in Submission, SubmitPassword(s) PROVE SeedInv'
    BY <1>2 DEF SubmitPassword
<1>3. ASSUME NEW s \in Submission, Decrypted(s) \/ DecryptFails(s) PROVE SeedInv'
    BY <1>3 DEF Decrypted, DecryptFails
<1>4. CASE SetLocked
    BY <1>4 DEF SetLocked
<1>5. ASSUME NEW a \in Imported, NEW p \in Persist, AddNewKeyring(a, p) PROVE SeedInv'
    BY <1>5, StartPersistEffect, KeyringTypeStep DEF AddNewKeyring
<1>6. ASSUME NEW a \in Imported, NEW p \in Persist, RemoveAccount(a, p) PROVE SeedInv'
    BY <1>6, StartPersistEffect, KeyringTypeStep, SeedIsNotImported DEF RemoveAccount
<1>7. ASSUME NEW p \in Persist, AddNewAccount(p) PROVE SeedInv'
    BY <1>7, StartPersistEffect, KeyringTypeStep DEF AddNewAccount
<1>8. ASSUME NEW p \in Persist, Encrypted(p) PROVE SeedInv'
    BY <1>8 DEF Encrypted
<1>9. CASE UNCHANGED keyringVars
    BY <1>9 DEF keyringVars
<1> QED BY <1>2, <1>3, <1>4, <1>5, <1>6, <1>7, <1>8, <1>9 DEF AnyKeyringStep

\* With no save under way, the identities of an unlocked wallet are its keyrings.
LEMMA SettledStep ==
    ASSUME KeyringInv, AnyKeyringStep PROVE SettledInv'
<1> USE DEF KeyringInv
<1> SUFFICES ASSUME ~Unsettled' PROVE identities' = keyrings'
    BY DEF SettledInv
<1>0. unlocked' /\ ~reentered' /\ \A p \in Persist : encrypting'[p] = Nothing
    BY DEF Unsettled
<1>1. ~reentered
    BY <1>0 DEF AnyKeyringStep, SubmitPassword, Decrypted, DecryptFails, SetLocked,
           AddNewKeyring, RemoveAccount, AddNewAccount, Encrypted, keyringVars,
           KeyringsTypeOK
<1>2. ASSUME unlocked, \A p \in Persist : encrypting[p] = Nothing
      PROVE  identities = keyrings
    BY <1>1, <1>2 DEF SettledInv, Unsettled
<1> USE <1>0, <1>1 DEF LockedInv
<1>3. ASSUME NEW s \in Submission, SubmitPassword(s) PROVE identities' = keyrings'
    BY <1>3 DEF SubmitPassword
<1>4. ASSUME NEW s \in Submission, Decrypted(s) PROVE identities' = keyrings'
    BY <1>4 DEF Decrypted, SyncedWith, SeedInv
<1>5. ASSUME NEW s \in Submission, DecryptFails(s) PROVE identities' = keyrings'
    BY <1>2, <1>5 DEF DecryptFails
<1>6. CASE SetLocked
    BY <1>6 DEF SetLocked
<1>7. ASSUME NEW p \in Persist, NEW b \in BOOLEAN, StartPersist(p, b), unlocked
      PROVE  FALSE
    BY <1>7, StartPersistEffect, KeyringTypeStep
<1>8. ASSUME NEW a \in Imported, NEW p \in Persist, AddNewKeyring(a, p)
      PROVE  identities' = keyrings'
    BY <1>7, <1>8 DEF AddNewKeyring
<1>9. ASSUME NEW a \in Imported, NEW p \in Persist, RemoveAccount(a, p)
      PROVE  identities' = keyrings'
    BY <1>2, <1>7, <1>9 DEF RemoveAccount
<1>10. ASSUME NEW p \in Persist, AddNewAccount(p) PROVE identities' = keyrings'
    BY <1>7, <1>10 DEF AddNewAccount
<1>11. ASSUME NEW p \in Persist, Encrypted(p) PROVE identities' = keyrings'
    <2>1. Seed \in keyrings /\ keyrings' = keyrings
        BY <1>11 DEF Encrypted, SeedInv
    <2> QED BY <1>11, <2>1 DEF Encrypted, SyncedWith
<1>12. CASE UNCHANGED keyringVars
    BY <1>2, <1>12 DEF keyringVars
<1> QED BY <1>3, <1>4, <1>5, <1>6, <1>8, <1>9, <1>10, <1>11, <1>12 DEF AnyKeyringStep

\* The invariant of the keyrings holds of every reachable state.
THEOREM KeyringInvariant == Spec => []KeyringInv
<1>1. Init => KeyringInv
    BY SeedIsNotImported DEF Init, KeyringsInit, KeyringInv, KeyringsTypeOK, SeedInv,
       SettledInv, LockedInv, Unsettled, Account
<1>2. KeyringInv /\ [Next]_vars => KeyringInv'
    BY StepsOfKeyrings, KeyringTypeStep, LockedStep, SeedStep, SettledStep
       DEF KeyringInv
<1> QED BY <1>1, <1>2, PTL DEF Spec

(***************************************************************************)
(* persistAllKeyrings never writes a vault without the seed, and none is   *)
(* on its way, unless a password was submitted while unlocked.             *)
(***************************************************************************)
THEOREM SeedIsAlwaysKept == Spec => []SeedIsKept
<1>1. KeyringInv => SeedIsKept
    BY DEF KeyringInv, SeedInv, SeedIsKept
<1> QED BY <1>1, KeyringInvariant, PTL

\* setLocked leaves neither password nor seed, whatever is still under way.
THEOREM LockedNeverHasSeed == Spec => []LockedHasNoSeed
<1>1. KeyringInv => LockedHasNoSeed
    BY DEF KeyringInv, LockedInv, LockedHasNoSeed
<1> QED BY <1>1, KeyringInvariant, PTL

-----------------------------------------------------------------------------
(***************************************************************************)
(* Connections.  The steps that touch them are an unlock, a removal, and   *)
(* their own.                                                              *)
(***************************************************************************)
LEMMA StepsOfConnections ==
    ASSUME [Next]_vars
    PROVE  \/ \E s \in Submission : Decrypted(s) /\ ReleaseWaiters
           \/ \E a \in Imported : RemoveAllAccountPermissions(a) /\ unlocked' = unlocked
           \/ ConnectionStep /\ UNCHANGED keyringVars
           \/ UNCHANGED connectionVars /\ (unlocked' => unlocked)
BY DEF Next, vars, Unlock, Remove, KeyringStep, keyringVars, SubmitPassword, DecryptFails,
       SetLocked, AddNewKeyring, RemoveAccount, AddNewAccount, Encrypted

ConnectionInv == ConnectionsTypeOK /\ WaitersAreReleased

\* Answering a call that asks, or asking for more, wakes nobody.
LEMMA AskingKeepsWaiters ==
    ASSUME ConnectionsTypeOK, WaitersAreReleased, NEW o \in Origin, NEW c \in Call,
           stage[o][c] # "unlock", NEW w \in Ended \union {"asking"},
           stage' = [stage EXCEPT ![o][c] = w], processing' = processing,
           unlocked' = unlocked
    PROVE  WaitersAreReleased'
BY DEF ConnectionsTypeOK, WaitersAreReleased, SomeoneIs, Ended

LEMMA ConnectionsStep ==
    ASSUME KeyringsTypeOK, ConnectionInv, [Next]_vars PROVE ConnectionInv'
<1> USE DEF ConnectionInv
<1>1. ASSUME NEW s \in Submission, Decrypted(s), ReleaseWaiters PROVE ConnectionInv'
    <2>1. ConnectionsTypeOK'
        BY <1>1 DEF ReleaseWaiters, Proceeded, ConnectionsTypeOK, Waiting, Ended
    <2>2. \A o \in Origin : ~SomeoneIs(o, "unlock")' /\ ~processing'[o]
        BY <1>1 DEF ReleaseWaiters, Proceeded, SomeoneIs
    <2> QED BY <2>1, <2>2 DEF WaitersAreReleased
<1>2. ASSUME NEW a \in Imported, RemoveAllAccountPermissions(a), unlocked' = unlocked
      PROVE  ConnectionInv'
    BY <1>2 DEF RemoveAllAccountPermissions, ConnectionsTypeOK, WaitersAreReleased,
                SomeoneIs
<1>3. ASSUME NEW o \in Origin, NEW c \in Call, RequestAccounts(o, c),
             UNCHANGED keyringVars
      PROVE  ConnectionInv'
    <2> DEFINE wait == permitted[o] # {} /\ ~unlocked
               next == IF processing[o] THEN "idle"
                       ELSE IF wait THEN "unlock"
                       ELSE Proceeded(o, Exposed(permitted[o], keyrings, identities))
    <2>1. /\ stage[o][c] \in Ended
          /\ stage' = [stage EXCEPT ![o][c] = next]
          /\ processing' = [processing EXCEPT ![o] = @ \/ next = "unlock"]
          /\ permitted' = permitted /\ unlocked' = unlocked
        BY <1>3 DEF RequestAccounts, keyringVars
    <2>2. next \in {"idle", "unlock", "asking"}
        BY DEF Proceeded
    <2>3. next = "unlock" => ~unlocked
        BY DEF Proceeded
    <2> HIDE DEF next
    <2>4. ConnectionsTypeOK'
        BY <2>1, <2>2 DEF ConnectionsTypeOK, Waiting, Ended
    <2>5. CASE next = "unlock"
        <3>1. stage'[o][c] = "unlock" /\ processing'[o] = TRUE
            BY <2>1, <2>5 DEF ConnectionsTypeOK
        <3>2. \A q \in Origin \ {o} : stage'[q] = stage[q] /\ processing'[q] = processing[q]
            BY <2>1 DEF ConnectionsTypeOK
        <3> QED BY <2>1, <2>3, <2>4, <2>5, <3>1, <3>2 DEF WaitersAreReleased, SomeoneIs
    <2>6. CASE next # "unlock"
        <3>1. processing' = processing
            BY <2>1, <2>6 DEF ConnectionsTypeOK
        <3>2. stage[o][c] # "unlock"
            BY <2>1 DEF Ended
        <3>3. next \in Ended \union {"asking"}
            BY <2>2, <2>6 DEF Ended
        <3> QED BY <2>1, <2>4, <3>1, <3>2, <3>3, AskingKeepsWaiters
    <2> QED BY <2>5, <2>6
<1>4. ASSUME NEW o \in Origin, NEW c \in Call, NEW accounts \in SUBSET Account,
             Approve(o, c, accounts), UNCHANGED keyringVars
      PROVE  ConnectionInv'
    <2>1. PICK w \in Ended : stage' = [stage EXCEPT ![o][c] = w]
        BY <1>4 DEF Approve, Ended
    <2>2. permitted' \in [Origin -> SUBSET Account]
        BY <1>4 DEF Approve, ConnectionsTypeOK
    <2>3. stage[o][c] # "unlock" /\ processing' = processing /\ unlocked' = unlocked
        BY <1>4 DEF Approve, keyringVars
    <2>4. ConnectionsTypeOK'
        BY <2>1, <2>2, <2>3 DEF ConnectionsTypeOK
    <2> QED BY <2>1, <2>3, <2>4, AskingKeepsWaiters
<1>5. ASSUME NEW o \in Origin, NEW c \in Call, RejectRequest(o, c), UNCHANGED keyringVars
      PROVE  ConnectionInv'
    <2>1. ConnectionsTypeOK'
        BY <1>5 DEF RejectRequest, ConnectionsTypeOK, Ended
    <2>2. /\ stage[o][c] # "unlock" /\ processing' = processing
          /\ unlocked' = unlocked /\ "idle" \in Ended
          /\ stage' = [stage EXCEPT ![o][c] = "idle"]
        BY <1>5 DEF RejectRequest, keyringVars, Ended
    <2> QED BY <2>1, <2>2, AskingKeepsWaiters
<1>6. ASSUME NEW o \in Origin, NEW a \in Account,
             AddPermittedAccount(o, a) \/ RemovePermittedAccount(o, a),
             UNCHANGED keyringVars
      PROVE  ConnectionInv'
    <2>1. permitted' \in [Origin -> SUBSET Account]
        BY <1>6 DEF AddPermittedAccount, RemovePermittedAccount, ConnectionsTypeOK
    <2> QED BY <1>6, <2>1 DEF AddPermittedAccount, RemovePermittedAccount, keyringVars,
                ConnectionsTypeOK, WaitersAreReleased, SomeoneIs
<1>7. ASSUME NEW os, RemovePermissionsFor(os), UNCHANGED keyringVars
      PROVE  ConnectionInv'
    BY <1>7 DEF RemovePermissionsFor, keyringVars, ConnectionsTypeOK,
                WaitersAreReleased, SomeoneIs
<1>8. CASE UNCHANGED connectionVars /\ (unlocked' => unlocked)
    BY <1>8 DEF connectionVars, ConnectionsTypeOK, WaitersAreReleased, SomeoneIs
<1> QED BY StepsOfConnections, <1>1, <1>2, <1>3, <1>4, <1>5, <1>6, <1>7, <1>8
           DEF ConnectionStep

LEMMA ConnectionInvariant == Spec => []ConnectionInv
<1>1. Init => ConnectionInv
    BY DEF Init, KeyringsInit, ConnectionsInit, ConnectionInv, ConnectionsTypeOK,
           WaitersAreReleased, SomeoneIs, Ended, Account
<1>2. KeyringInv /\ ConnectionInv /\ [Next]_vars => ConnectionInv'
    BY ConnectionsStep DEF KeyringInv
<1> QED BY <1>1, <1>2, KeyringInvariant, PTL DEF Spec

(***************************************************************************)
(* handleUnlock releases everyone, and eth_requestAccounts never leaves    *)
(* its flag behind, for any number of origins and calls.                   *)
(***************************************************************************)
THEOREM WaitersAreAlwaysReleased == Spec => []WaitersAreReleased
<1>1. ConnectionInv => WaitersAreReleased
    BY DEF ConnectionInv
<1> QED BY <1>1, ConnectionInvariant, PTL

(***************************************************************************)
(* The branch that "should never happen" needs a locked wallet, a second   *)
(* unlock or a save under way: else the granted accounts are identities,   *)
(* these are the keyrings' accounts, and some of them are exposed.         *)
(***************************************************************************)
THEOREM UnexpectedIsAlwaysExplained == Spec => UnexpectedIsExplained
<1> DEFINE A == \A o \in Origin, c \in Call :
                   stage[o][c] = "asking" /\ stage'[o][c] = "unexpected" => Unsettled
<1>1. ASSUME KeyringInv, ConnectionInv, [Next]_vars PROVE [A]_connectionVars
    <2> SUFFICES ASSUME NEW o \in Origin, NEW c \in Call, stage[o][c] = "asking",
                        stage'[o][c] = "unexpected", ~Unsettled
                 PROVE  FALSE
        OBVIOUS
    <2>1. identities = keyrings
        BY <1>1 DEF KeyringInv, SettledInv
    <2>2. stage # stage'
        OBVIOUS
    <2>3. ASSUME NEW d \in Call, NEW q \in Origin, NEW w,
                 stage' = [stage EXCEPT ![q][d] = w], w # "unexpected"
          PROVE  FALSE
        BY <1>1, <2>3 DEF ConnectionInv, ConnectionsTypeOK
    <2>4. ~ReleaseWaiters
        BY DEF ReleaseWaiters
    <2>5. PICK d \in Call, q \in Origin : \/ RequestAccounts(q, d)
                                          \/ RejectRequest(q, d)
                                          \/ \E accounts \in SUBSET Account : Approve(q, d, accounts)
        BY <1>1, <2>2, <2>4, StepsOfConnections
           DEF RemoveAllAccountPermissions, ConnectionStep, AddPermittedAccount,
               RemovePermittedAccount, RemovePermissionsFor, connectionVars
    <2>6. CASE RequestAccounts(q, d)
        BY <2>3, <2>6 DEF RequestAccounts, Proceeded
    <2>7. CASE RejectRequest(q, d)
        BY <2>3, <2>7 DEF RejectRequest
    <2>8. ASSUME NEW accounts \in SUBSET Account, Approve(q, d, accounts) PROVE FALSE
        <3>1. ASSUME Valid(accounts) PROVE Exposed(accounts, keyrings, identities) # {}
            BY <2>1, <3>1 DEF Valid, Exposed
        <3>2. PICK w : w # "unexpected" /\ stage' = [stage EXCEPT ![q][d] = w]
            BY <2>8, <3>1 DEF Approve
        <3> QED BY <2>3, <3>2
    <2> QED BY <2>5, <2>6, <2>7, <2>8
<1> QED BY <1>1, KeyringInvariant, ConnectionInvariant, PTL DEF Spec, UnexpectedIsExplained

-----------------------------------------------------------------------------
(***************************************************************************)
(* Messages.  A waiting dapp's message is unapproved or cleared, or        *)
(* approved and with a keyring (or plain), or a key request that failed.   *)
(* WaitingHasReason alone is not inductive: a failing keyring must not     *)
(* find another status.                                                    *)
(***************************************************************************)
WaitInv ==
    \A m \in Message : answer[m] = "waiting" =>
        \/ status[m] \in {"unapproved", "cleared"}
        \/ status[m] = "approved" /\ (signing[m] > 0 \/ kind[m] = "plain")
        \/ status[m] = "errored" /\ kind[m] = "key"

MessageInv == MessagesTypeOK /\ WaitInv

LEMMA StepsOfMessages ==
    ASSUME [Next]_vars
    PROVE  MessageStep \/ ClearUnapproved \/ UNCHANGED messageVars
BY DEF Next, vars, Unlock, Remove, KeyringStep, NetworkStep

\* A step of one message leaves the others alone.
LEMMA OneMessage ==
    ASSUME MessageInv, MessagesTypeOK', NEW m \in Message,
           \A n \in Message \ {m} :
              /\ status'[n] = status[n] /\ answer'[n] = answer[n]
              /\ signing'[n] = signing[n] /\ kind'[n] = kind[n],
           answer'[m] = "waiting" =>
              \/ status'[m] \in {"unapproved", "cleared"}
              \/ status'[m] = "approved" /\ (signing'[m] > 0 \/ kind'[m] = "plain")
              \/ status'[m] = "errored" /\ kind'[m] = "key"
    PROVE  MessageInv'
BY DEF MessageInv, WaitInv

LEMMA SetMsgStatusEffect ==
    ASSUME MessagesTypeOK, NEW m \in Message,
           NEW s \in {"approved", "signed", "rejected", "errored"}, SetMsgStatus(m, s)
    PROVE  /\ status' \in [Message -> MsgStatus] /\ status'[m] = s
           /\ answer' \in [Message -> {"none", "waiting", "signed", "rejected", "errored"}]
           /\ answer'[m] = "waiting" => answer[m] = "waiting" /\ s \notin Finishes(kind[m])
           /\ \A n \in Message \ {m} : status'[n] = status[n] /\ answer'[n] = answer[n]
BY DEF MessagesTypeOK, SetMsgStatus, MsgStatus, Finishes

LEMMA MessagesStep ==
    ASSUME MessageInv, [Next]_vars PROVE MessageInv'
<1> USE DEF MessageInv
<1>0. MaxSigning \in Nat
    BY MaxSigningIsPositive
<1>1. ASSUME NEW m \in Message, NEW k \in Kind, NewMessage(m, k) PROVE MessageInv'
    <2>1. MessagesTypeOK'
        BY <1>1 DEF NewMessage, MessagesTypeOK, MsgStatus
    <2> QED BY <1>1, <2>1, OneMessage DEF NewMessage, MessagesTypeOK
<1>2. ASSUME NEW m \in Message, ApproveMessage(m) PROVE MessageInv'
    <2>1. signing[m] \in Nat /\ signing[m] < MaxSigning
        BY <1>2 DEF ApproveMessage, MessagesTypeOK
    <2>2. /\ signing' \in [Message -> 0..MaxSigning] /\ signing'[m] > 0
          /\ \A n \in Message \ {m} : signing'[n] = signing[n]
        BY <1>0, <1>2, <2>1 DEF ApproveMessage, MessagesTypeOK
    <2>3. SetMsgStatus(m, "approved") /\ kind' = kind
        BY <1>2 DEF ApproveMessage
    <2>4. MessagesTypeOK'
        BY <2>2, <2>3, SetMsgStatusEffect DEF MessagesTypeOK
    <2> QED BY <2>2, <2>3, <2>4, SetMsgStatusEffect, OneMessage
<1>3. ASSUME NEW m \in Message, ApproveWithoutKeyring(m) PROVE MessageInv'
    <2>1. PICK s \in {"approved", "errored"} :
             SetMsgStatus(m, s) /\ (s = "approved" <=> kind[m] = "plain")
        BY <1>3 DEF ApproveWithoutKeyring
    <2>2. kind' = kind /\ signing' = signing
        BY <1>3 DEF ApproveWithoutKeyring
    <2>3. MessagesTypeOK'
        BY <2>1, <2>2, SetMsgStatusEffect DEF MessagesTypeOK
    <2>4. kind[m] \in Kind
        BY DEF MessagesTypeOK
    <2> QED BY <2>1, <2>2, <2>3, <2>4, SetMsgStatusEffect, OneMessage DEF Finishes, Kind
<1>4. ASSUME NEW m \in Message, SigningEnds(m)
      PROVE  /\ signing' \in [Message -> 0..MaxSigning]
             /\ \A n \in Message \ {m} : signing'[n] = signing[n]
    <2>1. signing[m] \in 0..MaxSigning /\ signing[m] > 0
        BY <1>4 DEF SigningEnds, MessagesTypeOK
    <2>2. signing[m] - 1 \in 0..MaxSigning
        BY <1>0, <2>1
    <2> QED BY <1>4, <2>2 DEF SigningEnds, MessagesTypeOK
<1>5. ASSUME NEW m \in Message, Signed(m) PROVE MessageInv'
    <2>1. SigningEnds(m) /\ SetMsgStatus(m, "signed") /\ kind' = kind
        BY <1>5 DEF Signed
    <2>2. MessagesTypeOK'
        BY <1>4, <2>1, SetMsgStatusEffect DEF MessagesTypeOK
    <2> QED BY <1>4, <2>1, <2>2, SetMsgStatusEffect, OneMessage DEF Finishes
<1>6. ASSUME NEW m \in Message, SigningFails(m) PROVE MessageInv'
    <2>1. SigningEnds(m) /\ Failed(m) /\ kind' = kind
        BY <1>6 DEF SigningFails
    <2>2. CASE kind[m] = "plain"
        <3>1. status' = status /\ answer' = answer
            BY <2>1, <2>2 DEF Failed
        <3>2. MessagesTypeOK'
            BY <1>4, <2>1, <3>1 DEF MessagesTypeOK
        <3> QED BY <1>4, <2>1, <2>2, <3>1, <3>2, OneMessage DEF WaitInv
    <2>3. CASE kind[m] # "plain"
        <3>1. SetMsgStatus(m, "errored")
            BY <2>1, <2>3 DEF Failed
        <3>2. MessagesTypeOK'
            BY <1>4, <2>1, <3>1, SetMsgStatusEffect DEF MessagesTypeOK
        <3>3. kind[m] \in Kind
            BY DEF MessagesTypeOK
        <3> QED BY <1>4, <2>1, <2>3, <3>1, <3>2, <3>3, SetMsgStatusEffect, OneMessage
                   DEF Finishes, Kind
    <2> QED BY <2>2, <2>3
<1>7. ASSUME NEW m \in Message, RejectMessage(m) PROVE MessageInv'
    <2>1. SetMsgStatus(m, "rejected") /\ kind' = kind /\ signing' = signing
        BY <1>7 DEF RejectMessage
    <2>2. MessagesTypeOK'
        BY <2>1, SetMsgStatusEffect DEF MessagesTypeOK
    <2> QED BY <2>1, <2>2, SetMsgStatusEffect, OneMessage DEF Finishes
<1>8. CASE ClearUnapproved
    BY <1>8 DEF ClearUnapproved, MessagesTypeOK, MsgStatus, WaitInv
<1>9. CASE UNCHANGED messageVars
    BY <1>9 DEF messageVars, MessagesTypeOK, WaitInv
<1> QED BY StepsOfMessages, <1>1, <1>2, <1>3, <1>5, <1>6, <1>7, <1>8, <1>9
           DEF MessageStep

LEMMA MessageInvariant == Spec => []MessageInv
<1>1. Init => MessageInv
    BY MaxSigningIsPositive DEF Init, MessagesInit, MessageInv, MessagesTypeOK, WaitInv,
       Kind, MsgStatus
<1> QED BY <1>1, MessagesStep, PTL DEF Spec

(***************************************************************************)
(* A dapp that waits for a signature waits for the user or a keyring, or   *)
(* fell into one of the three leaks: every way a typed message can end     *)
(* answers it.                                                             *)
(***************************************************************************)
THEOREM WaitingAlwaysHasReason == Spec => []WaitingHasReason
<1>1. MessageInv => WaitingHasReason
    BY DEF MessageInv, WaitInv, WaitingHasReason
<1> QED BY <1>1, MessageInvariant, PTL

(***************************************************************************)
(* The network state: LookupInv of NetworkLookup is inductive.             *)
(***************************************************************************)
LEMMA SwitchStep ==
    ASSUME LookupInv, NEW c \in Chain, SwitchTo(c), previous' \in Chain
    PROVE  LookupInv'
<1> USE LookupAssumption DEF LookupInv, LookupTypeOK
<1>1. LookupTypeOK'
    BY DEF SwitchTo, NetVersionCall
<1>2. ASSUME ~overtaken'
      PROVE  net' = Loading /\ \A l \in InFlight' : lookups'[l].of = selected'
    <2>1. \A l \in Lookup : lookups[l] = NoCall
        BY <1>2 DEF SwitchTo, InFlight
    <2>2. PICK k \in Lookup :
             lookups' = [lookups EXCEPT ![k] = [of |-> c, initial |-> Loading]]
        BY DEF SwitchTo
    <2>3. \A l \in InFlight' : l = k
        BY <2>1, <2>2 DEF InFlight
    <2> QED BY <2>2, <2>3 DEF SwitchTo, InFlight
<1> QED BY <1>1, <1>2

LEMMA LookupAnswerStep ==
    ASSUME LookupInv, NEW l \in Lookup, NEW ok \in BOOLEAN, LookupAnswer(l, ok)
    PROVE  LookupInv'
<1> USE DEF LookupInv, LookupTypeOK
<1>1. lookups[l] \in NetVersionCall /\ l \in InFlight
    BY DEF LookupAnswer, InFlight
<1>2. net' \in {net, Loading, lookups[l].of} /\ lookups[l].of \in Chain
    BY <1>1 DEF LookupAnswer, NetVersionCall
<1>3. LookupTypeOK'
    BY <1>2 DEF LookupAnswer
<1>4. \A k \in InFlight' : k \in InFlight /\ lookups'[k] = lookups[k]
    BY DEF LookupAnswer, InFlight
<1> QED BY <1>1, <1>2, <1>3, <1>4 DEF LookupAnswer

LEMMA LookupInvariant == Spec => []LookupInv
<1>1. Init => LookupInv
    <2> SUFFICES ASSUME LookupInit PROVE LookupInv
        BY DEF Init
    <2>1. PICK two \in SUBSET Lookup : lookups =
             [l \in Lookup |->
                IF l \in two THEN [of |-> selected, initial |-> Loading] ELSE NoCall]
        BY DEF LookupInit
    <2>2. selected \in Chain /\ previous = selected /\ net = Loading
          /\ switches = 0 /\ overtaken = FALSE
        BY DEF LookupInit
    <2>3. LookupTypeOK
        <3>1. [of |-> selected, initial |-> Loading] \in NetVersionCall
            BY <2>2 DEF NetVersionCall
        <3>2. lookups \in [Lookup -> {NoCall} \union NetVersionCall]
            BY <2>1, <3>1
        <3>3. switches \in 0..MaxSwitch
            BY <2>2, LookupAssumption
        <3>4. {selected, previous} \subseteq Chain /\ net \in Chain \union {Loading}
            BY <2>2
        <3> QED BY <2>2, <3>2, <3>3, <3>4, Zenon DEF LookupTypeOK
    <2>4. \A l \in InFlight : lookups[l].of = selected
        BY <2>1 DEF InFlight
    <2> QED BY <2>2, <2>3, <2>4 DEF LookupInv
<1>2. LookupInv /\ [Next]_vars => LookupInv'
    <2> SUFFICES ASSUME LookupInv, [Next]_vars PROVE LookupInv'
        OBVIOUS
    <2>1. NetworkStep \/ UNCHANGED lookupVars
        BY DEF Next, vars, Unlock, Remove
    <2>2. ASSUME NEW c \in Chain, SetProviderConfig(c) PROVE LookupInv'
        BY <2>2, SwitchStep DEF SetProviderConfig, LookupInv, LookupTypeOK
    <2>3. CASE RollbackToPreviousProvider
        BY <2>3, SwitchStep DEF RollbackToPreviousProvider, LookupInv, LookupTypeOK
    <2>4. CASE UNCHANGED lookupVars
        BY <2>4 DEF lookupVars, LookupInv, LookupTypeOK, InFlight
    <2> QED BY <2>1, <2>2, <2>3, <2>4, LookupAnswerStep DEF NetworkStep
<1> QED BY <1>1, <1>2, PTL DEF Spec

(***************************************************************************)
(* The network state is "loading" or the selected network's version, for   *)
(* any number of lookups, unless a network change overtook one.            *)
(***************************************************************************)
THEOREM VersionIsAlwaysSelected == Spec => []VersionIsSelected
<1>1. LookupInv => VersionIsSelected
    BY DEF LookupInv, VersionIsSelected
<1> QED BY <1>1, LookupInvariant, PTL

\* Every variable of the wallet keeps its type.
THEOREM WalletTypeCorrect == Spec => []TypeOK
<1>1. KeyringInv /\ ConnectionInv /\ MessageInv /\ LookupInv => TypeOK
    BY DEF KeyringInv, ConnectionInv, MessageInv, LookupInv, TypeOK
<1> QED BY <1>1, KeyringInvariant, ConnectionInvariant, MessageInvariant,
           LookupInvariant, PTL
=============================================================================

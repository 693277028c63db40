-------------------------------- MODULE Wallet --------------------------------
(***************************************************************************)
(* The wallet behind a dapp's calls: keyrings and their lock, connections, *)
(* messages, networks.  They meet where MetamaskController wires them: an  *)
(* unlock releases the calls that wait for it, a removed account loses its *)
(* permissions first, a message is taken only from a page that sees the    *)
(* account, signing needs the keyring to be there at that moment, and      *)
(* networkWillChange clears the unapproved messages.                       *)
(***************************************************************************)
EXTENDS Connections, Messages, NetworkLookup

vars == <<keyringVars, connectionVars, messageVars, lookupVars>>

Init == KeyringsInit /\ ConnectionsInit /\ MessagesInit /\ LookupInit

-----------------------------------------------------------------------------
Unlock(s) ==
    /\ Decrypted(s)
    /\ ReleaseWaiters
    /\ UNCHANGED <<messageVars, lookupVars>>

\* removeAccount: validatePermittedAccounts throws for an unknown account.
Remove(a, p) ==
    /\ RemoveAccount(a, p)
    /\ RemoveAllAccountPermissions(a)
    /\ UNCHANGED <<messageVars, lookupVars>>

KeyringStep ==
    \/ SetLocked
    \/ \E s \in Submission : SubmitPassword(s) \/ DecryptFails(s)
    \/ \E a \in Imported, p \in Persist : AddNewKeyring(a, p)
    \/ \E p \in Persist : AddNewAccount(p) \/ Encrypted(p)

ConnectionStep ==
    \/ \E o \in Origin, c \in Call :
          \/ RequestAccounts(o, c)
          \/ \E accounts \in SUBSET Account : Approve(o, c, accounts)
          \/ RejectRequest(o, c)
    \/ \E o \in Origin, a \in Account :
          AddPermittedAccount(o, a) \/ RemovePermittedAccount(o, a)
    \/ \E os \in {{o} : o \in Origin} \union {Origin} : RemovePermissionsFor(os)

\* getAccounts of the provider: nothing is exposed while locked.
SeesAccount(o) == unlocked /\ Seed \in Exposed(permitted[o], keyrings, identities)

MessageStep ==
    \/ \E m \in Message, k \in Kind :
          (\E o \in Origin : SeesAccount(o)) /\ NewMessage(m, k)
    \/ \E m \in Message :
          \/ ApproveMessage(m) \/ ApproveWithoutKeyring(m) \/ RejectMessage(m)
          \/ Signed(m) \/ SigningFails(m)

NetworkStep ==
    \/ /\ (\E c \in Chain : SetProviderConfig(c)) \/ RollbackToPreviousProvider
       /\ ClearUnapproved
    \/ /\ \E l \in Lookup, ok \in BOOLEAN : LookupAnswer(l, ok)
       /\ UNCHANGED messageVars

Next ==
    \/ \E s \in Submission : Unlock(s)
    \/ \E a \in Imported, p \in Persist : Remove(a, p)
    \/ KeyringStep /\ UNCHANGED <<connectionVars, messageVars, lookupVars>>
    \/ ConnectionStep /\ UNCHANGED <<keyringVars, messageVars, lookupVars>>
    \/ MessageStep /\ UNCHANGED <<keyringVars, connectionVars, lookupVars>>
    \/ NetworkStep /\ UNCHANGED <<keyringVars, connectionVars>>

Spec == Init /\ [][Next]_vars

TypeOK == KeyringsTypeOK /\ ConnectionsTypeOK /\ MessagesTypeOK /\ LookupTypeOK
=============================================================================

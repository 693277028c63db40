------------------------------- MODULE Keyrings -------------------------------
(***************************************************************************)
(* KeyringController: the private keys in memory, the encrypted vault they *)
(* are saved to, and the lock.  Keyrings are abstracted to the accounts    *)
(* they hold: Seed stands for the HD keyring made from the seed phrase,    *)
(* Imported are the simple keyrings.  The only waits that other handlers   *)
(* can use are the encryptor's: a password being checked against the vault *)
(* as it was read (decrypting), and a save of the keyrings as they were    *)
(* (encrypting).  Both may be many and end in any order.                   *)
(***************************************************************************)
EXTENDS Integers, FiniteSets

CONSTANTS
    Seed,        \* the account of the HD keyring
    Imported,    \* accounts that can be imported
    Submission,  \* calls of submitPassword under way at once (a bound)
    Persist,     \* calls of persistAllKeyrings under way at once (a bound)
    Nothing      \* no vault read, no snapshot taken

Account == {Seed} \union Imported

ASSUME SeedIsNotImported == Seed \notin Imported
Snapshot == [keys : SUBSET Account, importing : BOOLEAN]

ASSUME NothingIsNoVault == \A v \in SUBSET Account : Nothing # v
ASSUME NothingIsNoSnapshot == \A v \in Snapshot : Nothing # v

VARIABLES
    vault,       \* store.vault: the accounts in the encrypted vault
    keyrings,    \* this.keyrings
    password,    \* this.password is a string
    unlocked,    \* memStore.isUnlocked
    shown,       \* memStore.keyrings
    identities,  \* PreferencesController.identities
    decrypting,  \* the vault each submitPassword is decrypting
    encrypting,  \* what each persistAllKeyrings is encrypting, and for whom
    reentered    \* history: submitPassword was called while unlocked

keyringVars == <<vault, keyrings, password, unlocked, shown, identities,
                 decrypting, encrypting, reentered>>

\* A restart of the extension with a vault that holds the seed only.
KeyringsInit ==
    /\ vault = {Seed}
    /\ keyrings = {}
    /\ password = FALSE
    /\ unlocked = FALSE
    /\ shown = {}
    /\ identities = {Seed}
    /\ decrypting = [s \in Submission |-> Nothing]
    /\ encrypting = [p \in Persist |-> Nothing]
    /\ reentered = FALSE

\* What the store's listener makes of its keyrings: none, no change.
SyncedWith(ks) == IF ks = {} THEN identities ELSE ks

-----------------------------------------------------------------------------
\* submitPassword, up to the decryption.  The keyrings are gone from here on.
SubmitPassword(s) ==
    /\ decrypting[s] = Nothing
    /\ decrypting' = [decrypting EXCEPT ![s] = vault]
    /\ keyrings' = {}
    /\ shown' = {}
    /\ reentered' = (reentered \/ password)
    /\ UNCHANGED <<vault, password, unlocked, identities, encrypting>>

\* The right password: what was in the vault is pushed onto the keyrings.
Decrypted(s) ==
    /\ decrypting[s] # Nothing
    /\ keyrings' = keyrings \union decrypting[s]
    /\ shown' = keyrings'
    /\ identities' = SyncedWith(keyrings')
    /\ password' = TRUE
    /\ unlocked' = TRUE
    /\ decrypting' = [decrypting EXCEPT ![s] = Nothing]
    /\ UNCHANGED <<vault, encrypting, reentered>>

\* A wrong password: nothing puts the keyrings back.
DecryptFails(s) ==
    /\ decrypting[s] # Nothing
    /\ decrypting' = [decrypting EXCEPT ![s] = Nothing]
    /\ UNCHANGED <<vault, keyrings, password, unlocked, shown, identities,
                   encrypting, reentered>>

\* MUTANT: the password survives the lock.
SetLockedKeepsPassword ==
    /\ unlocked' = FALSE
    /\ identities' = SyncedWith(shown)
    /\ keyrings' = {}
    /\ shown' = {}
    /\ UNCHANGED <<vault, password, decrypting, encrypting, reentered>>

SetLocked ==
    /\ password' = FALSE
    /\ unlocked' = FALSE
    /\ identities' = SyncedWith(shown)
    /\ keyrings' = {}
    /\ shown' = {}
    /\ UNCHANGED <<vault, decrypting, encrypting, reentered>>

-----------------------------------------------------------------------------
\* MUTANT: the check of the password is lost.
StartPersistUnchecked(p, importing) ==
    /\ encrypting[p] = Nothing
    /\ encrypting' = [encrypting EXCEPT ![p] =
                         [keys |-> keyrings', importing |-> importing]]

\* persistAllKeyrings rejects without a password; else it saves the keyrings
\* of this moment.
StartPersist(p, importing) ==
    IF password
    THEN /\ encrypting[p] = Nothing
         /\ encrypting' = [encrypting EXCEPT ![p] =
                              [keys |-> keyrings', importing |-> importing]]
    ELSE UNCHANGED encrypting

\* addNewKeyring for an imported key, locked or not.
AddNewKeyring(a, p) ==
    /\ a \in Imported \ keyrings
    /\ keyrings' = keyrings \union {a}
    /\ StartPersist(p, TRUE)
    /\ UNCHANGED <<vault, password, unlocked, shown, identities, decrypting,
                   reentered>>

\* addNewAccount: the HD keyring derives the key it already has.
AddNewAccount(p) ==
    /\ Seed \in keyrings
    /\ password
    /\ keyrings' = keyrings
    /\ StartPersist(p, FALSE)
    /\ UNCHANGED <<vault, password, unlocked, shown, identities, decrypting,
                   reentered>>

\* removeAccount: preferences first, then the keyring, which may be missing.
RemoveAccount(a, p) ==
    /\ a \in Imported \intersect identities
    /\ identities' = identities \ {a}
    /\ keyrings' = keyrings \ {a}
    /\ IF a \in keyrings THEN StartPersist(p, FALSE) ELSE UNCHANGED encrypting
    /\ UNCHANGED <<vault, password, unlocked, shown, decrypting, reentered>>

\* A save ends: the last one to end wins, whichever began last.  An import
\* goes on to setAddresses, also when a lock has emptied the keyrings.
Encrypted(p) ==
    /\ encrypting[p] # Nothing
    /\ vault' = encrypting[p].keys
    /\ encrypting' = [encrypting EXCEPT ![p] = Nothing]
    /\ shown' = keyrings
    /\ identities' = IF encrypting[p].importing THEN keyrings
                                               ELSE SyncedWith(keyrings)
    /\ UNCHANGED <<keyrings, password, unlocked, decrypting, reentered>>

-----------------------------------------------------------------------------
KeyringsTypeOK ==
    /\ vault \subseteq Account
    /\ keyrings \subseteq Account
    /\ password \in BOOLEAN
    /\ unlocked \in BOOLEAN
    /\ shown \subseteq Account
    /\ identities \subseteq Account
    /\ decrypting \in [Submission -> {Nothing} \union SUBSET Account]
    /\ encrypting \in [Persist -> {Nothing} \union Snapshot]
    /\ reentered \in BOOLEAN

(***************************************************************************)
(* The vault is the only place the seed is kept when the extension stops.  *)
(* Imports, removals, overlapping saves, locks and failed passwords never  *)
(* write a vault without it, nor is such a write on its way, unless a      *)
(* password was submitted while the extension was unlocked.                *)
(***************************************************************************)
SeedIsKept ==
    ~reentered =>
        /\ Seed \in vault
        /\ \A p \in Persist : encrypting[p] # Nothing => Seed \in encrypting[p].keys

(***************************************************************************)
(* setLocked "deallocates all secrets": whatever saves and unlocks are     *)
(* still under way, a locked wallet has neither password nor seed in       *)
(* memory.  (A key imported while locked does stay in memory.)             *)
(***************************************************************************)
LockedHasNoSeed == ~unlocked => ~password /\ Seed \notin keyrings

(***************************************************************************)
(* Violated: that the vault only ever loses keys the user removed.  The    *)
(* doc of addNewKeyring promises to add "to the vault"; after a password   *)
(* was submitted while unlocked the keyrings are empty, and the import     *)
(* replaces the vault by one that holds the imported key alone.            *)
(***************************************************************************)
SeedStaysInVault == [][(Seed \in vault) => (Seed \in vault')]_keyringVars
=============================================================================

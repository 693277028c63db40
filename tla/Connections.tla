------------------------------ MODULE Connections ------------------------------
(***************************************************************************)
(* The connections of dapps to the wallet: eth_requestAccounts, which may  *)
(* wait for the user to unlock and then for the user's approval, and the   *)
(* accounts each origin is permitted to see.  One page per origin.         *)
(* ApprovalController and rpc-cap are libraries: of them only what the     *)
(* code relies on is kept, one pending approval per origin.                *)
(***************************************************************************)
EXTENDS Keyrings

CONSTANTS
    Origin,      \* origins of the connected pages
    Call         \* calls of eth_requestAccounts a page may have open (a bound)

VARIABLES
    stage,       \* per call: where it is; or ended unexpectedly
    processing,  \* isProcessingRequestAccounts of the origin's middleware
    permitted    \* the accounts in the origin's eth_accounts permission

connectionVars == <<stage, processing, permitted>>

Waiting == {"unlock", "asking"}
Ended   == {"idle", "unexpected"}

ConnectionsInit ==
    /\ stage = [o \in Origin |-> [c \in Call |-> "idle"]]
    /\ processing = [o \in Origin |-> FALSE]
    /\ permitted \in [Origin -> {{}, {Seed}}]

(***************************************************************************)
(* What eth_accounts answers: the keyrings' accounts that the origin is    *)
(* permitted to see, or none if sorting them, which compares every one of  *)
(* two or more, meets an account without identity.                         *)
(***************************************************************************)
Exposed(allowed, ks, ids) ==
    IF \E a \in ks \ ids : ks # {a} THEN {} ELSE allowed \intersect ks

SomeoneIs(o, where) == \E c \in Call : stage[o][c] = where

\* From "just try to get accounts" on: answered, or the user is asked, unless
\* the origin has a pending approval already.
Proceeded(o, accounts) ==
    IF accounts = {} /\ ~SomeoneIs(o, "asking") THEN "asking" ELSE "idle"

-----------------------------------------------------------------------------
RequestAccounts(o, c) ==
    LET wait == permitted[o] # {} /\ ~unlocked
        next == IF processing[o] THEN "idle"
                ELSE IF wait THEN "unlock"
                ELSE Proceeded(o, Exposed(permitted[o], keyrings, identities))
    IN /\ stage[o][c] \in Ended
       /\ stage' = [stage EXCEPT ![o][c] = next]
       /\ processing' = [processing EXCEPT ![o] = @ \/ next = "unlock"]
       /\ UNCHANGED permitted

\* MUTANT: the waiting call is resolved, the flag of its middleware is not reset.
ReleaseKeepsFlag ==
    /\ stage' = [o \in Origin |-> [c \in Call |->
                   IF stage[o][c] # "unlock" THEN stage[o][c]
                   ELSE Proceeded(o, Exposed(permitted[o], keyrings', identities'))]]
    /\ UNCHANGED <<processing, permitted>>

\* handleUnlock: everyone who waits is released.
ReleaseWaiters ==
    /\ stage' = [o \in Origin |-> [c \in Call |->
                   IF stage[o][c] # "unlock" THEN stage[o][c]
                   ELSE Proceeded(o, Exposed(permitted[o], keyrings', identities'))]]
    /\ processing' = [o \in Origin |-> FALSE]
    /\ UNCHANGED permitted

-----------------------------------------------------------------------------
\* MUTANT: accounts are not looked up among the identities.
ValidUnlooked(accounts) == accounts # {}

\* validatePermittedAccounts
Valid(accounts) == accounts # {} /\ accounts \subseteq identities

\* approvePermissionsRequest: finalizing fails or grants; the call then asks
\* for the accounts again.
Approve(o, c, accounts) ==
    LET granted == IF Valid(accounts) THEN accounts ELSE permitted[o]
        seen    == Exposed(granted, keyrings, identities)
    IN /\ stage[o][c] = "asking"
       /\ permitted' = [permitted EXCEPT ![o] = granted]
       /\ stage' = [stage EXCEPT ![o][c] =
                      IF Valid(accounts) /\ seen = {} THEN "unexpected" ELSE "idle"]
       /\ UNCHANGED processing

\* rejectPermissionsRequest
RejectRequest(o, c) ==
    /\ stage[o][c] = "asking"
    /\ stage' = [stage EXCEPT ![o][c] = "idle"]
    /\ UNCHANGED <<processing, permitted>>

AddPermittedAccount(o, a) ==
    /\ permitted[o] # {} /\ a \in identities \ permitted[o]
    /\ permitted' = [permitted EXCEPT ![o] = @ \union {a}]
    /\ UNCHANGED <<stage, processing>>

RemovePermittedAccount(o, a) ==
    /\ a \in permitted[o] \intersect identities
    /\ permitted' = [permitted EXCEPT ![o] = @ \ {a}]
    /\ UNCHANGED <<stage, processing>>

\* removePermissionsFor; clearPermissions is this for every origin.
RemovePermissionsFor(os) ==
    /\ permitted' = [o \in Origin |-> IF o \in os THEN {} ELSE permitted[o]]
    /\ UNCHANGED <<stage, processing>>

\* removeAllAccountPermissions, the first step of removeAccount.
RemoveAllAccountPermissions(a) ==
    /\ permitted' = [o \in Origin |-> permitted[o] \ {a}]
    /\ UNCHANGED <<stage, processing>>

-----------------------------------------------------------------------------
ConnectionsTypeOK ==
    /\ stage \in [Origin -> [Call -> Waiting \union Ended]]
    /\ processing \in [Origin -> BOOLEAN]
    /\ permitted \in [Origin -> SUBSET Account]

(***************************************************************************)
(* No wakeup is lost: whoever waits for the unlock waits in a locked       *)
(* wallet, and an origin's further calls are turned away exactly while one *)
(* of its calls waits.                                                     *)
(***************************************************************************)
WaitersAreReleased ==
    \A o \in Origin :
        /\ processing[o] <=> SomeoneIs(o, "unlock")
        /\ processing[o] => ~unlocked

\* The states in which keyrings and identities may disagree.
Unsettled == ~unlocked \/ reentered \/ \E p \in Persist : encrypting[p] # Nothing

(***************************************************************************)
(* The branch whose comment says "this should never happen", in which the  *)
(* user has approved and the dapp is told that the accounts are            *)
(* unexpectedly unavailable, is taken only if the wallet is locked, was    *)
(* unlocked twice, or is saving its keyrings.                              *)
(***************************************************************************)
UnexpectedIsExplained ==
    [][\A o \in Origin, c \in Call :
          stage[o][c] = "asking" /\ stage'[o][c] = "unexpected" => Unsettled
      ]_connectionVars
=============================================================================

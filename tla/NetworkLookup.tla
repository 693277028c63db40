---------------------------- MODULE NetworkLookup ----------------------------
(***************************************************************************)
(* NetworkController (controllers/network/network.js): the selected        *)
(* network, the network state (the net_version of the selected network, or *)
(* "loading"), and the net_version calls that are under way.  Each call    *)
(* asks the provider of its day and remembers the network state it was     *)
(* made in; its answer is dropped if the state is another one by then.     *)
(***************************************************************************)
EXTENDS Naturals, FiniteSets, FiniteSetsExt

CONSTANTS
    Chain,       \* networks; a network stands for its own net_version too
    Loading,     \* the network state "loading"
    NoCall,      \* no net_version call
    Lookup,      \* net_version calls that may be under way (a bound)
    MaxSwitch    \* bound: network changes

ASSUME LookupAssumption ==
    /\ \A c \in Chain : Loading # c
    /\ \A c \in Chain, i \in Chain \union {Loading} :
           NoCall # [of |-> c, initial |-> i]
    /\ MaxSwitch \in Nat

VARIABLES
    selected,    \* providerStore
    previous,    \* previousProviderStore
    net,         \* networkStore
    lookups,     \* per call: the network asked and the initial network state
    switches,    \* network changes so far
    overtaken    \* history: the network changed with a call under way

lookupVars == <<selected, previous, net, lookups, switches, overtaken>>

NetVersionCall == [of : Chain, initial : Chain \union {Loading}]

InFlight == {l \in Lookup : lookups[l] # NoCall}

\* Two calls at the start, initializeProvider's and the MetamaskController's,
\* as far as the bound has room for them.
LookupInit ==
    /\ selected \in Chain /\ previous = selected
    /\ net = Loading
    /\ \E two \in SUBSET Lookup :
          /\ Cardinality(two) = Min({2, Cardinality(Lookup)})
          /\ lookups = [l \in Lookup |->
                IF l \in two THEN [of |-> selected, initial |-> Loading] ELSE NoCall]
    /\ switches = 0 /\ overtaken = FALSE

\* MUTANT: networkDidChange is emitted before the new provider is configured.
SwitchToLooksUpFirst(c) ==
    /\ switches < MaxSwitch /\ switches' = switches + 1
    /\ selected' = c
    /\ net' = Loading
    /\ \E l \in Lookup \ InFlight :
          lookups' = [lookups EXCEPT ![l] = [of |-> selected, initial |-> Loading]]
    /\ overtaken' = (overtaken \/ InFlight # {})

\* _switchNetwork: the state is "loading", then networkDidChange looks up the
\* new network with a new provider.
SwitchTo(c) ==
    /\ switches < MaxSwitch /\ switches' = switches + 1
    /\ selected' = c
    /\ net' = Loading
    /\ \E l \in Lookup \ InFlight :
          lookups' = [lookups EXCEPT ![l] = [of |-> c, initial |-> Loading]]
    /\ overtaken' = (overtaken \/ InFlight # {})

\* setProviderConfig: setRpcTarget, setProviderType; resetConnection for c = selected.
SetProviderConfig(c) == SwitchTo(c) /\ previous' = selected

RollbackToPreviousProvider == SwitchTo(previous) /\ UNCHANGED previous

\* The callback's test of the state the call was made in.
Accepted(l) == lookups[l].initial = net

\* The answer of call l: a version, or an error (ok = FALSE).
LookupAnswer(l, ok) ==
    /\ l \in InFlight
    /\ lookups' = [lookups EXCEPT ![l] = NoCall]
    /\ net' = IF ~Accepted(l) THEN net ELSE IF ok THEN lookups[l].of ELSE Loading
    /\ UNCHANGED <<selected, previous, switches, overtaken>>

-----------------------------------------------------------------------------
LookupTypeOK ==
    /\ {selected, previous} \subseteq Chain /\ net \in Chain \union {Loading}
    /\ lookups \in [Lookup -> {NoCall} \union NetVersionCall]
    /\ switches \in 0..MaxSwitch /\ overtaken \in BOOLEAN

(***************************************************************************)
(* The wallet never shows, or fills into a transaction, the version of a   *)
(* network other than the selected one, in spite of lookups that fail,     *)
(* answer late or answer twice, as long as no network change overtook one: *)
(* the test of the initial state in lookupNetwork cannot tell two calls    *)
(* apart that were both made while the network was loading.                *)
(***************************************************************************)
VersionIsSelected == ~overtaken => net \in {Loading, selected}

\* Inductive: without such a change every call under way asks the selected network.
LookupInv ==
    /\ LookupTypeOK
    /\ ~overtaken => /\ net \in {Loading, selected}
                     /\ \A l \in InFlight : lookups[l].of = selected
=============================================================================

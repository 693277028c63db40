----------------------------- MODULE BlockTracker -----------------------------
(***************************************************************************)
(* The block tracker (bohr-block-tracker: BaseBlockTracker and             *)
(* PollingBlockTracker) behind NetworkController's proxy.  It polls while  *)
(* anybody listens.  A polling loop only looks at isRunning when it wakes  *)
(* up, so a tracker that stopped and started again meanwhile has two.      *)
(***************************************************************************)
EXTENDS Naturals

CONSTANTS
    Listener,    \* who may listen: Pending is the TransactionController,
    Pending,     \*   Once stands for the calls of getLatestBlock
    Once,
    Loop,        \* polling loops of a tracker (a bound)
    MaxHeight,   \* bound: the last block
    NoBlock      \* no current block

ASSUME TrackerAssumption ==
    /\ Pending \in Listener /\ Once \in Listener /\ Pending # Once
    /\ MaxHeight \in Nat \ {0} /\ NoBlock \notin Nat

VARIABLES
    height,      \* the node's last block (external)
    listening,   \* listeners of "latest" on the proxy
    running,     \* _isRunning
    current,     \* _currentBlock
    loops,       \* per loop of the running tracker: "off", "asking", "asleep"
    resetting    \* _blockResetTimeout is set

trackerVars == <<height, listening, running, current, loops, resetting>>

Block == 1..MaxHeight
Free == {l \in Loop : loops[l] = "off"}

\* After boot AccountTracker and getLatestBlock wait for a first block, and the
\* TransactionController listens if pending transactions were loaded.
TrackerInit(pending) ==
    /\ height = 1
    /\ listening = {Once} \union (IF pending THEN {Pending} ELSE {})
    /\ running = TRUE /\ current = NoBlock /\ resetting = FALSE
    /\ \E l \in Loop : loops = [k \in Loop |-> IF k = l THEN "asking" ELSE "off"]

NewHeight ==
    /\ height < MaxHeight /\ height' = height + 1
    /\ UNCHANGED <<listening, running, current, loops, resetting>>

(***************************************************************************)
(* _maybeStart and _maybeEnd, when the listeners become ls on a tracker    *)
(* whose loops are lps.                                                    *)
(***************************************************************************)
Listeners(ls, lps) ==
    /\ listening' = ls
    /\ running' = (ls # {})
    /\ resetting' = IF running' = running THEN resetting ELSE running
    /\ IF running' /\ ~running
       THEN \E l \in Free : loops' = [lps EXCEPT ![l] = "asking"]
       ELSE loops' = lps

\* getLatestBlock without a current block, AccountTracker.start, .stop.
Listen(x) ==
    /\ x \notin listening /\ x # Pending
    /\ x = Once => current = NoBlock
    /\ Listeners(listening \union {x}, loops)
    /\ UNCHANGED <<height, current>>

Unlisten(x) ==
    /\ x \in listening \ {Pending, Once}
    /\ Listeners(listening \ {x}, loops)
    /\ UNCHANGED <<height, current>>

\* start() of a tracker that listens already removes its listener first: if it
\* was the only one, the polling ends and starts again at once.
Relisten(x) ==
    /\ listening = {x} /\ x \notin {Pending, Once}
    /\ \E l \in Free : loops' = [loops EXCEPT ![l] = "asking"]
    /\ UNCHANGED <<height, listening, running, current, resetting>>

-----------------------------------------------------------------------------
\* MUTANT: a block number that was seen already is announced again.
RisesAgain(n) == current = NoBlock \/ n >= current

\* _newPotentialLatest
Rises(n) == current = NoBlock \/ n > current

\* _updateLatestBlock: block n is the new one, and is announced, if it rises.
\* A node may lag behind by a block.  Left out: a body with neither a result
\* nor a message, which is read as "0xNaN".
Answered(l, n) ==
    LET asleep == [loops EXCEPT ![l] = "asleep"] IN
    /\ loops[l] = "asking"
    /\ n \in {height - 1, height} \intersect Block
    /\ IF Rises(n)
       THEN current' = n /\ Listeners(listening \ {Once}, asleep)
       ELSE loops' = asleep /\ UNCHANGED <<listening, running, current, resetting>>
    /\ UNCHANGED height

\* MUTANT: an error ends the loop.
PollFailsEnds(l) ==
    /\ loops[l] = "asking"
    /\ loops' = [loops EXCEPT ![l] = "off"]
    /\ UNCHANGED <<height, listening, running, current, resetting>>

\* The call fails: the loop sleeps for the retry timeout.
PollFails(l) ==
    /\ loops[l] = "asking"
    /\ loops' = [loops EXCEPT ![l] = "asleep"]
    /\ UNCHANGED <<height, listening, running, current, resetting>>

\* The sleep is over: while (this._isRunning).
Wakes(l) ==
    /\ loops[l] = "asleep"
    /\ loops' = [loops EXCEPT ![l] = IF running THEN "asking" ELSE "off"]
    /\ UNCHANGED <<height, listening, running, current, resetting>>

ResetCurrentBlock ==
    /\ resetting
    /\ current' = NoBlock /\ resetting' = FALSE
    /\ UNCHANGED <<height, listening, running, loops>>

\* A network change: the proxy moves the listeners, of whom ls are left, to a
\* new tracker.  Loops of the old one end unheard.
NewTracker(ls) ==
    /\ listening' = ls /\ running' = (ls # {})
    /\ current' = NoBlock /\ resetting' = FALSE
    /\ IF ls = {}
       THEN loops' = [k \in Loop |-> "off"]
       ELSE \E l \in Loop : loops' = [k \in Loop |-> IF k = l THEN "asking" ELSE "off"]
    /\ UNCHANGED height
-----------------------------------------------------------------------------
TrackerTypeOK ==
    /\ height \in Nat /\ listening \subseteq Listener /\ running \in BOOLEAN
    /\ current \in Block \union {NoBlock} /\ resetting \in BOOLEAN
    /\ loops \in [Loop -> {"off", "asking", "asleep"}]

\* Inductive: the tracker runs exactly while somebody listens, and then it polls.
TrackerInv ==
    /\ running = (listening # {})
    /\ running => \E l \in Loop : loops[l] # "off"
=============================================================================

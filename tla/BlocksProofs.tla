----------------------------- MODULE BlocksProofs -----------------------------
(***************************************************************************)
(* Proofs about Blocks, for any number of transactions, handlers, polling  *)
(* loops, networks, blocks and network changes: type correctness, that a   *)
(* pending transaction is polled for, that nothing is signed twice and     *)
(* that nothing is republished twice for one block.                        *)
(***************************************************************************)
EXTENDS Blocks, TLAPS

Asleep == {"off", "asking", "asleep"}

\* The listeners of the tracker may change at any step, its loops start at most one.
LEMMA ListenersTyped ==
    ASSUME TrackerTypeOK, NEW ls, ls \subseteq Listener,
           NEW lps \in [Loop -> Asleep], Listeners(ls, lps)
    PROVE  /\ listening' \subseteq Listener /\ running' \in BOOLEAN
           /\ resetting' \in BOOLEAN /\ loops' \in [Loop -> Asleep]
<1>1. listening' \subseteq Listener
    BY DEF Listeners
<1>2. running' \in BOOLEAN /\ resetting' \in BOOLEAN
    BY DEF Listeners, TrackerTypeOK
<1>3. loops' \in [Loop -> Asleep]
    BY DEF Listeners, Asleep, Free
<1> QED BY <1>1, <1>2, <1>3

\* A running tracker keeps a loop, a starting one gets one.
LEMMA ListenersPoll ==
    ASSUME TrackerTypeOK, NEW ls, NEW lps \in [Loop -> Asleep], Listeners(ls, lps),
           running => \E l \in Loop : lps[l] # "off"
    PROVE  TrackerInv'
<1>1. running' = (ls # {}) /\ listening' = ls
    BY DEF Listeners
<1>2. CASE running' /\ ~running
    <2>1. PICK l \in Free : loops' = [lps EXCEPT ![l] = "asking"]
        BY <1>2 DEF Listeners
    <2>2. l \in Loop /\ loops'[l] = "asking"
        BY <2>1 DEF Free
    <2> QED BY <1>1, <2>2 DEF TrackerInv
<1>3. CASE ~(running' /\ ~running)
    <2>1. loops' = lps
        BY <1>3 DEF Listeners
    <2> QED BY <1>1, <1>3, <2>1 DEF TrackerInv
<1> QED BY <1>2, <1>3

LEMMA SubscribedTyped ==
    ASSUME TrackerAssumption, NEW st, NEW c, NEW ls, ls \subseteq Listener
    PROVE  /\ Subscribed(st, c, ls) \subseteq Listener
           /\ Pending \in Subscribed(st, c, ls) <=> Of(st, "submitted", c) # {}
BY DEF Subscribed, TrackerAssumption

\* A status update keeps the types and what the tracker does.
LEMMA StatusUpdateTyped ==
    ASSUME TrackerAssumption, TrackerTypeOK,
           NEW st \in [Tx -> Statuses], StatusUpdate(st)
    PROVE  TrackerTypeOK' /\ status' \in [Tx -> Statuses]
<1> DEFINE ls == Subscribed(st, selected, listening)
<1>1. ls \subseteq Listener /\ loops \in [Loop -> Asleep]
    BY SubscribedTyped DEF TrackerTypeOK, Asleep
<1>2. Listeners(ls, loops) /\ UNCHANGED <<height, current>> /\ status' = st
    BY DEF StatusUpdate
<1> HIDE DEF ls
<1>3. /\ listening' \subseteq Listener /\ running' \in BOOLEAN
      /\ resetting' \in BOOLEAN /\ loops' \in [Loop -> Asleep]
    BY <1>1, <1>2, ListenersTyped
<1> QED BY <1>2, <1>3 DEF TrackerTypeOK, Asleep

LEMMA StatusUpdatePolls ==
    ASSUME TrackerAssumption, TrackerTypeOK, TrackerInv,
           NEW st, StatusUpdate(st)
    PROVE  /\ TrackerInv'
           /\ Pending \in listening' <=> Of(st, "submitted", selected) # {}
<1> DEFINE ls == Subscribed(st, selected, listening)
<1>1. /\ loops \in [Loop -> Asleep]
      /\ running => \E l \in Loop : loops[l] # "off"
    BY DEF TrackerTypeOK, Asleep, TrackerInv
<1>2. Listeners(ls, loops)
    BY DEF StatusUpdate
<1>3. Pending \in ls <=> Of(st, "submitted", selected) # {}
    BY SubscribedTyped DEF TrackerTypeOK
<1>4. listening' = ls
    BY <1>2 DEF Listeners
<1> HIDE DEF ls
<1>5. TrackerInv'
    BY <1>1, <1>2, ListenersPoll
<1> QED BY <1>3, <1>4, <1>5

-----------------------------------------------------------------------------
\* Types, and who listens

\* Until the network changes the TransactionController listens exactly while a
\* transaction of the selected network is pending.
Follows ==
    switches = 0 => (Pending \in listening <=> Of(status, "submitted", selected) # {})

PollInv == TypeOK /\ TrackerInv /\ Follows

LEMMA InitPolls ==
    ASSUME TrackerAssumption, ResubmitAssumption, Init
    PROVE  PollInv
<1> USE DEF Init, TrackerInit
<1>1. PICK l \in Loop : loops = [k \in Loop |-> IF k = l THEN "asking" ELSE "off"]
    OBVIOUS
<1>2. TrackerTypeOK
    <2>1. listening \subseteq Listener
        BY DEF TrackerAssumption
    <2> QED BY <1>1, <2>1 DEF TrackerTypeOK
<1>3. switches \in 0..MaxSwitch
    BY DEF ResubmitAssumption
<1>4. status \in [Tx -> Statuses]
    BY DEF Statuses
<1>5. /\ selected \in Chain /\ chainOf \in [Tx -> Chain] /\ raw \subseteq Tx
      /\ signing \in [Tx -> {"no", "keyring", "node"}]
      /\ first \in [Tx -> Block \union {NoBlock}] /\ retries \in [Tx -> Nat]
      /\ published \subseteq Tx \X (Block \union {NoBlock})
    OBVIOUS
<1>6. handler \in [Handler -> HandlerCall]
    BY DEF Idle, HandlerCall
<1>7. TypeOK
    BY <1>2, <1>3, <1>4, <1>5, <1>6 DEF TypeOK
<1>8. loops[l] # "off"
    BY <1>1
<1>9. running = (listening # {})
    OBVIOUS
<1>10. Follows
    BY DEF Follows, TrackerAssumption
<1> QED BY <1>7, <1>8, <1>9, <1>10 DEF PollInv, TrackerInv

\* A step that changes neither the lists nor who of them listens.
LEMMA SameFollowers ==
    ASSUME Follows, UNCHANGED <<status, chainOf, selected, switches>>,
           Pending \in listening' <=> Pending \in listening
    PROVE  Follows'
BY DEF Follows, Of

LEMMA ListenerPolls ==
    ASSUME TrackerAssumption, PollInv, ListenerStep
    PROVE  PollInv'
<1> USE DEF trackerVars, txVars, networkVars, handlerVars
<1>1. TrackerTypeOK /\ TrackerInv /\ Follows /\ loops \in [Loop -> Asleep]
    BY DEF PollInv, TypeOK, TrackerTypeOK, Asleep
<1>2. running => \E l \in Loop : loops[l] # "off"
    BY <1>1 DEF TrackerInv
<1>3. UNCHANGED <<networkVars, txVars, handlerVars>>
    BY DEF ListenerStep
<1>4. SUFFICES ASSUME TrackerTypeOK', TrackerInv',
                      Pending \in listening' <=> Pending \in listening
               PROVE  PollInv'
    <2>1. CASE NewHeight
        <3>1. TrackerTypeOK'
            BY <1>1, <2>1 DEF NewHeight, TrackerTypeOK, Block
        <3> QED BY <1>1, <1>4, <2>1, <3>1 DEF NewHeight, TrackerInv
    <2>2. ASSUME NEW x \in Listener, Listen(x)
          PROVE  PollInv'
        <3> DEFINE ls == listening \union {x}
        <3>1. Listeners(ls, loops) /\ UNCHANGED <<height, current>> /\ x # Pending
            BY <2>2 DEF Listen
        <3>2. ls \subseteq Listener
            BY <1>1 DEF TrackerTypeOK
        <3>3. Pending \in ls <=> Pending \in listening
            BY <3>1
        <3>4. listening' = ls
            BY <3>1 DEF Listeners
        <3> HIDE DEF ls
        <3>5. /\ listening' \subseteq Listener /\ running' \in BOOLEAN
              /\ resetting' \in BOOLEAN /\ loops' \in [Loop -> Asleep]
            BY <1>1, <3>1, <3>2, ListenersTyped
        <3>6. TrackerTypeOK'
            BY <1>1, <3>1, <3>5 DEF TrackerTypeOK, Asleep
        <3>7. TrackerInv'
            BY <1>1, <1>2, <3>1, ListenersPoll
        <3> QED BY <1>4, <3>3, <3>4, <3>6, <3>7
    <2>3. ASSUME NEW x \in Listener, Unlisten(x)
          PROVE  PollInv'
        <3> DEFINE ls == listening \ {x}
        <3>1. Listeners(ls, loops) /\ UNCHANGED <<height, current>> /\ x # Pending
            BY <2>3 DEF Unlisten
        <3>2. ls \subseteq Listener
            BY <1>1 DEF TrackerTypeOK
        <3>3. Pending \in ls <=> Pending \in listening
            BY <3>1
        <3>4. listening' = ls
            BY <3>1 DEF Listeners
        <3> HIDE DEF ls
        <3>5. /\ listening' \subseteq Listener /\ running' \in BOOLEAN
              /\ resetting' \in BOOLEAN /\ loops' \in [Loop -> Asleep]
            BY <1>1, <3>1, <3>2, ListenersTyped
        <3>6. TrackerTypeOK'
            BY <1>1, <3>1, <3>5 DEF TrackerTypeOK, Asleep
        <3>7. TrackerInv'
            BY <1>1, <1>2, <3>1, ListenersPoll
        <3> QED BY <1>4, <3>3, <3>4, <3>6, <3>7
    <2>4. ASSUME NEW x \in Listener, Relisten(x)
          PROVE  PollInv'
        <3>1. PICK l \in Free : loops' = [loops EXCEPT ![l] = "asking"]
            BY <2>4 DEF Relisten
        <3>2. UNCHANGED <<height, listening, running, current, resetting>>
            BY <2>4 DEF Relisten
        <3>3. l \in Loop /\ loops'[l] = "asking" /\ loops' \in [Loop -> Asleep]
            BY <1>1, <3>1 DEF Free, Asleep
        <3>4. TrackerTypeOK'
            BY <1>1, <3>2, <3>3 DEF TrackerTypeOK, Asleep
        <3>5. TrackerInv'
            BY <1>1, <3>2, <3>3 DEF TrackerInv
        <3> QED BY <1>4, <3>2, <3>4, <3>5
    <2> QED BY <2>1, <2>2, <2>3, <2>4 DEF ListenerStep
<1>5. TypeOK'
    BY <1>3, <1>4 DEF PollInv, TypeOK
<1>6. Follows'
    BY <1>1, <1>3, <1>4, SameFollowers
<1> QED BY <1>4, <1>5, <1>6 DEF PollInv

LEMMA PollAnswerPolls ==
    ASSUME TrackerAssumption, PollInv,
           NEW l \in Loop, NEW n \in Block, PollAnswer(l, n)
    PROVE  PollInv'
<1> USE DEF txVars, networkVars
<1> DEFINE asleep == [loops EXCEPT ![l] = "asleep"]
           ls == listening \ {Once}
<1>1. TrackerTypeOK /\ TrackerInv /\ Follows
    BY DEF PollInv, TypeOK
<1>2. Answered(l, n) /\ UNCHANGED <<networkVars, txVars, published>>
    BY DEF PollAnswer
<1>3. asleep \in [Loop -> Asleep] /\ asleep[l] = "asleep"
    BY <1>1 DEF TrackerTypeOK, Asleep
<1>4. ls \subseteq Listener /\ (Pending \in ls <=> Pending \in listening)
    BY <1>1 DEF TrackerTypeOK, TrackerAssumption
<1>5. TrackerTypeOK' /\ TrackerInv' /\ (Pending \in listening' <=> Pending \in listening)
    <2>1. CASE Rises(n)
        <3>1. Listeners(ls, asleep) /\ current' = n /\ height' = height
            BY <1>2, <2>1 DEF Answered
        <3>2. listening' = ls
            BY <3>1 DEF Listeners
        <3>3. (Pending \in listening' <=> Pending \in listening)
            BY <1>4, <3>2
        <3> HIDE DEF ls, asleep
        <3>4. /\ listening' \subseteq Listener /\ running' \in BOOLEAN
              /\ resetting' \in BOOLEAN /\ loops' \in [Loop -> Asleep]
            BY <1>1, <1>3, <1>4, <3>1, ListenersTyped
        <3>5. running => \E k \in Loop : asleep[k] # "off"
            BY <1>3
        <3>6. TrackerInv'
            BY <1>1, <1>3, <3>1, <3>5, ListenersPoll
        <3>7. TrackerTypeOK'
            BY <1>1, <3>1, <3>4 DEF TrackerTypeOK, Asleep
        <3> QED BY <3>3, <3>6, <3>7
    <2>2. CASE ~Rises(n)
        <3>1. /\ loops' = asleep /\ height' = height
              /\ UNCHANGED <<listening, running, current, resetting>>
            BY <1>2, <2>2 DEF Answered
        <3>2. loops' \in [Loop -> Asleep] /\ loops'[l] # "off"
            BY <1>3, <3>1
        <3>3. TrackerTypeOK'
            BY <1>1, <3>1, <3>2 DEF TrackerTypeOK, Asleep
        <3>4. TrackerInv'
            BY <1>1, <3>1, <3>2 DEF TrackerInv
        <3> QED BY <3>1, <3>3, <3>4
    <2> QED BY <2>1, <2>2
<1>6. handler' \in [Handler -> HandlerCall]
    <2>1. handler \in [Handler -> HandlerCall]
        BY DEF PollInv, TypeOK
    <2>2. [Idle EXCEPT !.stage = "check", !.block = n] \in HandlerCall
        BY DEF Idle, HandlerCall
    <2>3. CASE Rises(n) /\ Pending \in listening
        <3>1. PICK h \in Handler \ Working : handler' = [handler EXCEPT ![h] =
                             [Idle EXCEPT !.stage = "check", !.block = n]]
            BY <2>3 DEF PollAnswer
        <3> QED BY <2>1, <2>2, <3>1
    <2>4. CASE ~(Rises(n) /\ Pending \in listening)
        BY <2>1, <2>4 DEF PollAnswer
    <2> QED BY <2>3, <2>4
<1>7. TypeOK'
    BY <1>2, <1>5, <1>6 DEF PollInv, TypeOK
<1>8. Follows'
    BY <1>1, <1>2, <1>5, SameFollowers
<1> QED BY <1>5, <1>7, <1>8 DEF PollInv

LEMMA LoopPolls ==
    ASSUME TrackerAssumption, PollInv, NEW l \in Loop, LoopStep(l)
    PROVE  PollInv'
<1> USE DEF txVars, networkVars, handlerVars
<1>1. CASE \E n \in Block : PollAnswer(l, n)
    BY <1>1, PollAnswerPolls
<1>2. CASE (PollFails(l) \/ Wakes(l)) /\ UNCHANGED <<networkVars, txVars, handlerVars>>
    <2>1. TrackerTypeOK /\ TrackerInv /\ Follows
        BY DEF PollInv, TypeOK
    <2>2. UNCHANGED <<height, listening, running, current, resetting>>
        BY <1>2 DEF PollFails, Wakes
    <2>3. loops' \in [Loop -> Asleep] /\ (running => loops'[l] # "off")
        BY <1>2, <2>1 DEF PollFails, Wakes, TrackerTypeOK, Asleep
    <2>4. TrackerTypeOK'
        BY <2>1, <2>2, <2>3 DEF TrackerTypeOK, Asleep
    <2>5. TrackerInv'
        BY <2>1, <2>2, <2>3 DEF TrackerInv
    <2>6. TypeOK'
        BY <1>2, <2>4 DEF PollInv, TypeOK
    <2>7. Follows'
        BY <1>2, <2>1, <2>2, SameFollowers
    <2> QED BY <2>5, <2>6, <2>7 DEF PollInv
<1> QED BY <1>1, <1>2 DEF LoopStep

LEMMA ForgottenTyped ==
    ASSUME handler \in [Handler -> HandlerCall]
    PROVE  Forgotten \in [Handler -> HandlerCall]
<1>1. ASSUME NEW h \in Handler
      PROVE  [handler[h] EXCEPT !.old = h \in Working] \in HandlerCall
    <2>1. handler[h] \in HandlerCall /\ (h \in Working) \in BOOLEAN
        OBVIOUS
    <2> HIDE DEF Working
    <2> QED BY <2>1 DEF HandlerCall
<1> QED BY <1>1 DEF Forgotten

LEMMA StaleBlockPolls ==
    ASSUME PollInv, StaleBlock
    PROVE  PollInv'
<1> USE DEF txVars, networkVars
<1>1. TrackerTypeOK /\ TrackerInv /\ Follows /\ Forgotten \in [Handler -> HandlerCall]
    BY ForgottenTyped DEF PollInv, TypeOK
<1>2. /\ UNCHANGED <<height, listening, running, loops, networkVars, txVars>>
      /\ current' = NoBlock /\ resetting' = FALSE
      /\ handler' = Forgotten /\ published' = {}
    BY DEF StaleBlock, ResetCurrentBlock
<1>3. TrackerTypeOK'
    BY <1>1, <1>2 DEF TrackerTypeOK, Block
<1>4. TypeOK'
    BY <1>1, <1>2, <1>3 DEF PollInv, TypeOK
<1>5. TrackerInv'
    BY <1>1, <1>2 DEF TrackerInv
<1>6. Follows'
    BY <1>1, <1>2, SameFollowers
<1> QED BY <1>4, <1>5, <1>6 DEF PollInv

LEMMA CleanedUpTyped ==
    ASSUME TypeOK, NEW c
    PROVE  CleanedUp(c) \in [Tx -> Statuses]
BY DEF CleanedUp, TypeOK, Statuses

LEMMA NetworkChangePolls ==
    ASSUME TrackerAssumption, ResubmitAssumption, PollInv, NetworkChange
    PROVE  PollInv'
<1> DEFINE c == selected'
           ls == Followed(c)
<1>1. TypeOK /\ TrackerTypeOK /\ c \in Chain
    BY DEF PollInv, TypeOK, NetworkChange
<1>2. ls \subseteq Listener
    <2>1. listening \subseteq Listener
        BY <1>1 DEF TrackerTypeOK
    <2> QED BY <2>1, SubscribedTyped DEF Followed
<1>3. NewTracker(ls) /\ status' = CleanedUp(c)
    BY DEF NetworkChange
<1>4. status' \in [Tx -> Statuses] /\ Forgotten \in [Handler -> HandlerCall]
    BY <1>1, <1>3, CleanedUpTyped, ForgottenTyped DEF TypeOK
<1>5. switches' \in 1..MaxSwitch
    BY DEF NetworkChange, PollInv, TypeOK, ResubmitAssumption
<1> HIDE DEF ls
<1>6. TrackerTypeOK' /\ TrackerInv'
    <2>1. /\ height' = height /\ listening' = ls /\ running' = (ls # {})
          /\ current' = NoBlock /\ resetting' = FALSE
        BY <1>3 DEF NewTracker
    <2>2. loops' \in [Loop -> Asleep]
        BY <1>3 DEF NewTracker, Asleep
    <2>3. running' => \E l \in Loop : loops'[l] # "off"
        BY <1>3, <2>1 DEF NewTracker
    <2>4. TrackerTypeOK'
        BY <1>1, <1>2, <2>1, <2>2 DEF TrackerTypeOK, Asleep, Block
    <2> QED BY <2>1, <2>3, <2>4 DEF TrackerInv
<1>7. /\ handler' = Forgotten /\ published' = {}
      /\ UNCHANGED <<chainOf, raw, signing, first, retries>>
    BY DEF NetworkChange
<1>8. TypeOK'
    BY <1>1, <1>4, <1>5, <1>6, <1>7 DEF TypeOK
<1>9. Follows'
    BY <1>5 DEF Follows
<1> QED BY <1>6, <1>8, <1>9 DEF PollInv

\* A step whose status update is heard, and whose other changes leave alone
\* which transactions are pending.
LEMMA StatusStepPolls ==
    ASSUME TrackerAssumption, PollInv, NEW st \in [Tx -> Statuses],
           StatusUpdate(st), UNCHANGED networkVars,
           \A t \in Tx : st[t] = "submitted" => chainOf'[t] = chainOf[t]
    PROVE  TrackerTypeOK' /\ TrackerInv' /\ Follows' /\ status' \in [Tx -> Statuses]
<1>1. TrackerTypeOK /\ TrackerInv
    BY DEF PollInv, TypeOK
<1>2. TrackerTypeOK' /\ status' \in [Tx -> Statuses]
    BY <1>1, StatusUpdateTyped
<1>3. TrackerInv' /\ (Pending \in listening' <=> Of(st, "submitted", selected) # {})
    BY <1>1, StatusUpdatePolls
<1>4. status' = st /\ selected' = selected
    BY DEF StatusUpdate, networkVars
<1>5. Of(status, "submitted", selected)' = Of(st, "submitted", selected)
    BY <1>4 DEF Of
<1> QED BY <1>2, <1>3, <1>5 DEF Follows

LEMMA ApprovalPolls ==
    ASSUME TrackerAssumption, PollInv, NEW t \in Tx, TxStep(t) \/ ApprovalStep(t)
    PROVE  PollInv'
<1> USE DEF networkVars
<1> DEFINE S(s) == [status EXCEPT ![t] = s]
<1>1. TypeOK
    BY DEF PollInv
<1>2. \A s \in Statuses : S(s) \in [Tx -> Statuses] /\ S(s)[t] = s
    BY <1>1 DEF TypeOK
<1>3. ASSUME NEW s \in Statuses, NEW known \in BOOLEAN, ApprovalEnds(t, s, known)
      PROVE  PollInv'
    <2>1. /\ StatusUpdate(S(s)) /\ Returns(t, known)
          /\ UNCHANGED <<networkVars, chainOf, raw, first, retries, published>>
          /\ signing' = [signing EXCEPT ![t] = "no"]
        BY <1>3 DEF ApprovalEnds
    <2>2. TrackerTypeOK' /\ TrackerInv' /\ Follows' /\ status' \in [Tx -> Statuses]
        <3> HIDE DEF S
        <3> QED BY <1>2, <2>1, StatusStepPolls
    <2>3. handler' \in [Handler -> HandlerCall]
        <3>1. ASSUME NEW h \in Handler
              PROVE  [handler[h] EXCEPT !.stage = "next", !.at = Nothing] \in HandlerCall
            <4>1. handler[h] \in HandlerCall
                BY <1>1 DEF TypeOK
            <4> QED BY <4>1 DEF HandlerCall
        <3>2. Idle \in HandlerCall
            BY DEF Idle, HandlerCall
        <3>3. handler \in [Handler -> HandlerCall]
            BY <1>1 DEF TypeOK
        <3> QED BY <2>1, <3>1, <3>2, <3>3 DEF Returns
    <2>4. signing' \in [Tx -> {"no", "keyring", "node"}]
        BY <1>1, <2>1 DEF TypeOK
    <2>5. TypeOK'
        BY <1>1, <2>1, <2>2, <2>3, <2>4 DEF TypeOK
    <2> QED BY <2>2, <2>5 DEF PollInv
<1>4. CASE Approve(t)
    <2>1. /\ StatusUpdate(S("approved"))
          /\ chainOf' = [chainOf EXCEPT ![t] = selected]
          /\ signing' = [signing EXCEPT ![t] = "keyring"]
          /\ UNCHANGED <<networkVars, raw, first, retries, handlerVars>>
        BY <1>4 DEF Approve
    <2>2. "approved" \in Statuses
        BY DEF Statuses
    <2>3. S("approved") \in [Tx -> Statuses] /\ S("approved")[t] # "submitted"
        BY <1>2, <2>2
    <2>4. \A u \in Tx : S("approved")[u] = "submitted" => chainOf'[u] = chainOf[u]
        BY <1>1, <2>1, <2>3 DEF TypeOK
    <2>5. TrackerTypeOK' /\ TrackerInv' /\ Follows' /\ status' \in [Tx -> Statuses]
        <3> HIDE DEF S
        <3> QED BY <2>1, <2>3, <2>4, StatusStepPolls
    <2>6. TypeOK'
        BY <1>1, <2>1, <2>5 DEF TypeOK, handlerVars
    <2> QED BY <2>5, <2>6 DEF PollInv
<1>5. CASE Signs(t)
    <2>1. /\ StatusUpdate(S("signed"))
          /\ raw' = raw \union {t}
          /\ signing' = [signing EXCEPT ![t] = "node"]
          /\ UNCHANGED <<networkVars, chainOf, first, retries, handlerVars>>
        BY <1>5 DEF Signs
    <2>2. S("signed") \in [Tx -> Statuses]
        BY <1>2 DEF Statuses
    <2>3. TrackerTypeOK' /\ TrackerInv' /\ Follows' /\ status' \in [Tx -> Statuses]
        <3> HIDE DEF S
        <3> QED BY <2>1, <2>2, StatusStepPolls
    <2>4. TypeOK'
        BY <1>1, <2>1, <2>3 DEF TypeOK, handlerVars
    <2> QED BY <2>3, <2>4 DEF PollInv
<1>6. ASSUME NEW s \in {"done", "failed"}, Finishes(t, s)
      PROVE  PollInv'
    <2>1. /\ StatusUpdate(S(s))
          /\ UNCHANGED <<networkVars, chainOf, raw, signing, first, retries, handlerVars>>
        BY <1>6 DEF Finishes
    <2>2. S(s) \in [Tx -> Statuses]
        BY <1>2 DEF Statuses
    <2>3. TrackerTypeOK' /\ TrackerInv' /\ Follows' /\ status' \in [Tx -> Statuses]
        <3> HIDE DEF S
        <3> QED BY <2>1, <2>2, StatusStepPolls
    <2>4. TypeOK'
        BY <1>1, <2>1, <2>3 DEF TypeOK, handlerVars
    <2> QED BY <2>3, <2>4 DEF PollInv
<1>7. "submitted" \in Statuses /\ "failed" \in Statuses
    BY DEF Statuses
<1> QED BY <1>3, <1>4, <1>5, <1>6, <1>7 DEF TxStep, ApprovalStep, Submits, ApprovalFails

LEMMA NetworkStatePolls ==
    ASSUME TrackerAssumption, PollInv, NetworkStateSet
    PROVE  PollInv'
<1>1. TypeOK /\ CleanedUp(selected) \in [Tx -> Statuses]
    BY CleanedUpTyped DEF PollInv
<1>2. /\ StatusUpdate(CleanedUp(selected))
      /\ UNCHANGED <<networkVars, chainOf, raw, signing, first, retries, handlerVars>>
    BY DEF NetworkStateSet
<1>3. TrackerTypeOK' /\ TrackerInv' /\ Follows' /\ status' \in [Tx -> Statuses]
    BY <1>1, <1>2, StatusStepPolls
<1>4. TypeOK'
    BY <1>1, <1>2, <1>3 DEF TypeOK, networkVars, handlerVars
<1> QED BY <1>3, <1>4 DEF PollInv

\* The loop of a handler, whatever it does with retries.
LEMMA ResubmitsPolls ==
    ASSUME TrackerAssumption, PollInv, NEW h \in Handler, h \in Working,
           NEW list, list \subseteq Tx, Resubmits(h, list),
           retries' \in [Tx -> Nat]
    PROVE  PollInv'
<1> USE DEF networkVars
<1>1. /\ TypeOK /\ TrackerTypeOK /\ TrackerInv /\ Follows
      /\ UNCHANGED <<networkVars, chainOf, raw>>
    BY DEF PollInv, TypeOK, Resubmits
<1>2. PICK passed \in SUBSET list :
          /\ Passes(h, passed)
          /\ \/ passed = list /\ LoopEnds(h)
             \/ \E t \in list \ passed :
                   LET rest == list \ (passed \union {t}) IN
                   Waits(h, t) /\ (Republishes(h, t, rest) \/ Reapproves(h, t, rest))
    BY DEF Resubmits
<1>3. handler[h] \in HandlerCall /\ handler \in [Handler -> HandlerCall]
    BY <1>1 DEF TypeOK
<1>4. first' \in [Tx -> Block \union {NoBlock}]
    <2>1. handler[h].block \in Block \union {NoBlock}
        BY <1>3 DEF HandlerCall
    <2> QED BY <1>1, <1>2, <2>1 DEF Passes, TypeOK
<1>5. CASE LoopEnds(h)
    <2>1. handler' = [handler EXCEPT ![h] = Idle]
          /\ UNCHANGED <<status, signing, trackerVars, published>>
        BY <1>5 DEF LoopEnds
    <2>2. handler' \in [Handler -> HandlerCall]
        BY <1>3, <2>1 DEF Idle, HandlerCall
    <2>3. TrackerTypeOK' /\ TrackerInv'
        BY <1>1, <2>1 DEF trackerVars, TrackerTypeOK, TrackerInv
    <2>4. TypeOK'
        BY <1>1, <1>4, <2>1, <2>2, <2>3 DEF TypeOK
    <2>5. Follows'
        BY <1>1, <2>1, SameFollowers DEF trackerVars
    <2> QED BY <2>3, <2>4, <2>5 DEF PollInv
<1>6. ASSUME NEW t \in list, NEW rest \in SUBSET list,
             NEW stage \in {"publishing", "approving"}, Stops(h, stage, t, rest)
      PROVE  handler' \in [Handler -> HandlerCall]
    <2>1. handler' = [handler EXCEPT ![h] =
                         [handler[h] EXCEPT !.stage = stage, !.at = t, !.rest = rest]]
        BY <1>3, <1>6 DEF Stops, HandlerCall
    <2>2. [handler[h] EXCEPT !.stage = stage, !.at = t, !.rest = rest] \in HandlerCall
        BY <1>3 DEF HandlerCall
    <2> QED BY <1>3, <2>1, <2>2
<1>7. ASSUME NEW t \in list, NEW rest \in SUBSET list, Republishes(h, t, rest)
      PROVE  PollInv'
    <2>1. /\ Stops(h, "publishing", t, rest)
          /\ UNCHANGED <<status, signing, trackerVars>>
        BY <1>7 DEF Republishes
    <2>2. handler' \in [Handler -> HandlerCall]
        BY <1>6, <2>1
    <2>3. published' \subseteq Tx \X (Block \union {NoBlock})
        BY <1>1, <1>3, <1>7 DEF Republishes, TypeOK, HandlerCall
    <2>4. TrackerTypeOK' /\ TrackerInv'
        BY <1>1, <2>1 DEF trackerVars, TrackerTypeOK, TrackerInv
    <2>5. TypeOK'
        BY <1>1, <1>4, <2>1, <2>2, <2>3, <2>4 DEF TypeOK
    <2>6. Follows'
        BY <1>1, <2>1, SameFollowers DEF trackerVars
    <2> QED BY <2>4, <2>5, <2>6 DEF PollInv
<1>8. ASSUME NEW t \in list, NEW rest \in SUBSET list, Reapproves(h, t, rest)
      PROVE  PollInv'
    <2> DEFINE st == [status EXCEPT ![t] = "approved"]
    <2>1. /\ Stops(h, "approving", t, rest) /\ UNCHANGED published
          /\ signing' = [signing EXCEPT ![t] = "keyring"] /\ StatusUpdate(st)
        BY <1>8 DEF Reapproves
    <2>2. handler' \in [Handler -> HandlerCall]
        BY <1>6, <2>1
    <2>3. st \in [Tx -> Statuses]
        BY <1>1 DEF TypeOK, Statuses
    <2>4. TrackerTypeOK' /\ TrackerInv' /\ Follows' /\ status' \in [Tx -> Statuses]
        <3> HIDE DEF st
        <3> QED BY <1>1, <2>1, <2>3, StatusStepPolls
    <2>5. TypeOK'
        BY <1>1, <1>4, <2>1, <2>2, <2>4 DEF TypeOK
    <2> QED BY <2>4, <2>5 DEF PollInv
<1> QED BY <1>2, <1>5, <1>7, <1>8

LEMMA HandlerPolls ==
    ASSUME TrackerAssumption, PollInv, NEW h \in Handler, HandlerStep(h)
    PROVE  PollInv'
<1>1. TypeOK /\ handler[h] \in HandlerCall /\ retries \in [Tx -> Nat]
    BY DEF PollInv, TypeOK
<1>2. handler[h].rest \subseteq Tx /\ PendingTransactions \subseteq Tx
    BY <1>1 DEF HandlerCall, PendingTransactions, Of
<1>3. CASE CheckDone(h)
    <2>1. /\ h \in Working /\ Resubmits(h, PendingTransactions)
          /\ retries' \in [Tx -> Nat]
        BY <1>1, <1>3 DEF CheckDone, Working
    <2> QED BY <1>2, <2>1, ResubmitsPolls
<1>4. CASE GoesOn(h)
    <2>1. /\ h \in Working /\ Resubmits(h, handler[h].rest)
          /\ retries' \in [Tx -> Nat]
        BY <1>1, <1>4 DEF GoesOn, Working
    <2> QED BY <1>2, <2>1, ResubmitsPolls
<1>5. CASE Republished(h)
    <2>1. h \in Working /\ Resubmits(h, handler[h].rest)
        BY <1>1, <1>5 DEF Republished, Working
    <2>2. PICK t : retries' = [retries EXCEPT ![t] = retries[t] + 1]
        BY <1>5 DEF Republished
    <2>3. retries' \in [Tx -> Nat]
        <3>1. CASE t \in Tx
            BY <1>1, <2>2, <3>1
        <3>2. CASE t \notin Tx
            <4>1. retries' = retries
                BY <1>1, <2>2, <3>2
            <4> QED BY <1>1, <4>1
        <3> QED BY <3>1, <3>2
    <2> QED BY <1>2, <2>1, <2>3, ResubmitsPolls
<1>6. ASSUME NEW known \in BOOLEAN, RepublishFails(h, known)
      PROVE  PollInv'
    <2> DEFINE list == IF known THEN {} ELSE handler[h].rest
    <2>1. /\ h \in Working /\ Resubmits(h, list) /\ list \subseteq Tx
          /\ retries' \in [Tx -> Nat]
        BY <1>1, <1>2, <1>6 DEF RepublishFails, Working
    <2> HIDE DEF list
    <2> QED BY <2>1, ResubmitsPolls
<1> QED BY <1>3, <1>4, <1>5, <1>6 DEF HandlerStep

LEMMA StutterPolls ==
    ASSUME PollInv, UNCHANGED vars
    PROVE  PollInv'
<1> USE DEF vars, networkVars, trackerVars, txVars, handlerVars
<1>1. TypeOK'
    BY DEF PollInv, TypeOK, TrackerTypeOK
<1>2. TrackerInv' /\ Follows'
    BY SameFollowers DEF PollInv, TrackerInv
<1> QED BY <1>1, <1>2 DEF PollInv

(***************************************************************************)
(* The listeners, the tracker that runs while there are any, and its loops *)
(* agree in every state.                                                   *)
(***************************************************************************)
THEOREM TrackerFollows == Spec => []PollInv
<1>1. Init => PollInv
    BY TrackerAssumption, ResubmitAssumption, InitPolls
<1>2. PollInv /\ [Next]_vars => PollInv'
    <2> SUFFICES ASSUME PollInv, [Next]_vars PROVE PollInv'
        OBVIOUS
    <2> USE TrackerAssumption
    <2>1. CASE NetworkChange
        BY <2>1, ResubmitAssumption, NetworkChangePolls
    <2>2. CASE NetworkStateSet
        BY <2>2, NetworkStatePolls
    <2>3. CASE ListenerStep
        BY <2>3, ListenerPolls
    <2>4. CASE StaleBlock
        BY <2>4, StaleBlockPolls
    <2>5. ASSUME NEW l \in Loop, LoopStep(l) PROVE PollInv'
        BY <2>5, LoopPolls
    <2>6. ASSUME NEW t \in Tx, TxStep(t) \/ ApprovalStep(t) PROVE PollInv'
        BY <2>6, ApprovalPolls
    <2>7. ASSUME NEW h \in Handler, HandlerStep(h) PROVE PollInv'
        BY <2>7, HandlerPolls
    <2>8. CASE UNCHANGED vars
        BY <2>8, StutterPolls
    <2> QED BY <2>1, <2>2, <2>3, <2>4, <2>5, <2>6, <2>7, <2>8 DEF Next
<1> QED BY <1>1, <1>2, PTL DEF Spec

\* Type correctness of the composition of tracker, resubmission and networks.
THEOREM BlocksTypeCorrect == Spec => []TypeOK
BY TrackerFollows, PTL DEF PollInv

\* Until a network change, pending transactions of the network are polled for.
THEOREM PendingIsAlwaysPolled == Spec => []PendingIsPolled
<1>1. PollInv => PendingIsPolled
    BY DEF PollInv, Follows, TrackerInv, PendingIsPolled
<1> QED BY <1>1, TrackerFollows, PTL

-----------------------------------------------------------------------------
\* Signing

\* Who waits for the keyring has not been signed, nor has an unapproved one.
SigningInv ==
    \A t \in Tx :
        /\ status[t] = "unapproved" => t \notin raw /\ signing[t] = "no"
        /\ signing[t] = "keyring" => t \notin raw

LEMMA SigningKept ==
    ASSUME TypeOK, SigningInv, NEW t \in Tx, NEW s \in {"no", "keyring", "node"},
           s = "keyring" => t \notin raw, UNCHANGED raw,
           signing' = [signing EXCEPT ![t] = s],
           \A u \in Tx : status'[u] = "unapproved" => status[u] = "unapproved" /\ u # t
    PROVE  SigningInv'
BY DEF SigningInv, TypeOK

LEMMA SigningSame ==
    ASSUME SigningInv, UNCHANGED <<raw, signing>>,
           \A u \in Tx : status'[u] = "unapproved" => status[u] = "unapproved"
    PROVE  SigningInv'
BY DEF SigningInv

\* The loop of a handler approves only what has no rawTx.
LEMMA ResubmitsSigning ==
    ASSUME TypeOK, SigningInv, NEW h \in Handler,
           NEW list, list \subseteq Tx, Resubmits(h, list)
    PROVE  SigningInv'
<1>1. UNCHANGED raw
    BY DEF Resubmits
<1>2. CASE UNCHANGED <<status, signing>>
    BY <1>1, <1>2, SigningSame
<1>3. ASSUME NEW t \in list, NEW rest, Reapproves(h, t, rest)
      PROVE  SigningInv'
    <2>1. /\ t \in Tx /\ t \notin raw
          /\ signing' = [signing EXCEPT ![t] = "keyring"]
          /\ status' = [status EXCEPT ![t] = "approved"]
        BY <1>3 DEF Reapproves, HasRawTx, StatusUpdate
    <2>2. \A u \in Tx : status'[u] = "unapproved" => status[u] = "unapproved" /\ u # t
        BY <2>1 DEF TypeOK
    <2> QED BY <1>1, <2>1, <2>2, SigningKept
<1> QED BY <1>2, <1>3 DEF Resubmits, LoopEnds, Republishes

LEMMA ApprovalSigning ==
    ASSUME TypeOK, SigningInv, NEW t \in Tx, TxStep(t) \/ ApprovalStep(t)
    PROVE  SigningInv'
<1>1. CASE Approve(t)
    <2>1. /\ t \notin raw /\ UNCHANGED raw
          /\ signing' = [signing EXCEPT ![t] = "keyring"]
          /\ status' = [status EXCEPT ![t] = "approved"]
        BY <1>1 DEF Approve, StatusUpdate, SigningInv
    <2>2. \A u \in Tx : status'[u] = "unapproved" => status[u] = "unapproved" /\ u # t
        BY <2>1 DEF TypeOK
    <2> QED BY <2>1, <2>2, SigningKept
<1>2. CASE Signs(t)
    <2>1. /\ raw' = raw \union {t}
          /\ signing' = [signing EXCEPT ![t] = "node"]
          /\ status' = [status EXCEPT ![t] = "signed"]
        BY <1>2 DEF Signs, StatusUpdate
    <2> QED BY <2>1 DEF SigningInv, TypeOK
<1>3. ASSUME NEW s \in {"submitted", "failed"}, NEW known, ApprovalEnds(t, s, known)
      PROVE  SigningInv'
    <2>1. /\ UNCHANGED raw /\ signing' = [signing EXCEPT ![t] = "no"]
          /\ status' = [status EXCEPT ![t] = s]
        BY <1>3 DEF ApprovalEnds, StatusUpdate
    <2>2. \A u \in Tx : status'[u] = "unapproved" => status[u] = "unapproved" /\ u # t
        BY <2>1 DEF TypeOK
    <2> QED BY <2>1, <2>2, SigningKept
<1>4. ASSUME NEW s \in {"done", "failed"}, Finishes(t, s)
      PROVE  SigningInv'
    <2>1. /\ UNCHANGED <<raw, signing>> /\ status' = [status EXCEPT ![t] = s]
        BY <1>4 DEF Finishes, StatusUpdate
    <2>2. \A u \in Tx : status'[u] = "unapproved" => status[u] = "unapproved"
        BY <2>1 DEF TypeOK
    <2> QED BY <2>1, <2>2, SigningSame
<1> QED BY <1>1, <1>2, <1>3, <1>4 DEF TxStep, ApprovalStep, Submits, ApprovalFails

LEMMA CleaningSigning ==
    ASSUME TypeOK, SigningInv, NEW c, status' = CleanedUp(c), UNCHANGED <<raw, signing>>
    PROVE  SigningInv'
<1>1. \A u \in Tx : status'[u] = "unapproved" => status[u] = "unapproved"
    BY DEF CleanedUp, TypeOK
<1> QED BY <1>1, SigningSame

LEMMA SigningStep ==
    ASSUME TypeOK, SigningInv, [Next]_vars
    PROVE  SigningInv'
<1>1. CASE NetworkChange
    BY <1>1, CleaningSigning DEF NetworkChange
<1>2. CASE NetworkStateSet
    BY <1>2, CleaningSigning DEF NetworkStateSet, StatusUpdate
<1>3. CASE UNCHANGED txVars
    BY <1>3, SigningSame DEF txVars
<1>4. ASSUME NEW h \in Handler, HandlerStep(h) PROVE SigningInv'
    <2>1. handler[h].rest \subseteq Tx /\ PendingTransactions \subseteq Tx
        <3>1. handler[h] \in HandlerCall
            BY DEF TypeOK
        <3> QED BY <3>1 DEF HandlerCall, PendingTransactions, Of
    <2>2. PICK list \in SUBSET Tx : Resubmits(h, list)
        BY <1>4, <2>1 DEF HandlerStep, CheckDone, GoesOn, Republished, RepublishFails
    <2> QED BY <2>2, ResubmitsSigning
<1>5. ASSUME NEW t \in Tx, TxStep(t) \/ ApprovalStep(t) PROVE SigningInv'
    BY <1>5, ApprovalSigning
<1>6. ListenerStep \/ StaleBlock \/ (\E l \in Loop : LoopStep(l)) \/ UNCHANGED vars
      => UNCHANGED txVars
    BY DEF ListenerStep, StaleBlock, LoopStep, PollAnswer, vars
<1> QED BY <1>1, <1>2, <1>3, <1>4, <1>5, <1>6 DEF Next

THEOREM SigningInvariant == Spec => []SigningInv
<1>1. Init => SigningInv
    BY DEF Init, SigningInv
<1>2. TypeOK /\ SigningInv /\ [Next]_vars => SigningInv'
    BY SigningStep
<1> QED BY <1>1, <1>2, BlocksTypeCorrect, PTL DEF Spec

\* No transaction is signed twice, whatever handlers approve from an old list.
THEOREM AlwaysSignedOnce == Spec => SignedOnce
<1>1. TypeOK /\ SigningInv /\ [Next]_vars
      => [\A t \in raw : signing[t] = "keyring" => signing'[t] # "node"]_vars
    BY DEF SigningInv, TypeOK
<1> QED BY <1>1, SigningInvariant, BlocksTypeCorrect, PTL DEF Spec, SignedOnce

-----------------------------------------------------------------------------
\* Once per block

\* Calls at work whose block number the tracker has not forgotten.
Counted(h) == handler[h].stage # "idle" /\ ~handler[h].old

(***************************************************************************)
(* Calls that count have blocks of their own, none above the current one,  *)
(* so a new block is nobody's; what a call has republished is not among    *)
(* the transactions it has left.                                           *)
(***************************************************************************)
BlocksDiffer ==
    \A h \in Handler : Counted(h) =>
        /\ handler[h].block \in Block /\ current \in Block
        /\ handler[h].block <= current
        /\ \A g \in Handler \ {h} : Counted(g) => handler[g].block # handler[h].block

PublishedIsPast ==
    \A t \in Tx, b \in Block \union {NoBlock} : <<t, b>> \in published =>
        b \in Block /\ current \in Block /\ b <= current

PublishedIsDone ==
    \A h \in Handler, t \in Tx :
        Counted(h) /\ <<t, handler[h].block>> \in published
        => handler[h].stage # "check" /\ t \notin handler[h].rest

OnceInv ==
    /\ BlocksDiffer /\ PublishedIsPast /\ PublishedIsDone
    /\ \A h \in Handler : handler[h].stage = "idle" => ~handler[h].old

\* What the property forbids, of one call.
PublishesAgain(h) ==
    /\ handler'[h].stage = "publishing" /\ handler'[h].at # handler[h].at
    /\ ~handler[h].old
    /\ <<handler'[h].at, handler'[h].block>> \in published

LEMMA OnceSame ==
    ASSUME OnceInv, UNCHANGED <<current, handler, published>>
    PROVE  OnceInv' /\ \A h \in Handler : ~PublishesAgain(h)
BY DEF OnceInv, BlocksDiffer, PublishedIsPast, PublishedIsDone, Counted, Block, PublishesAgain

LEMMA OnceForgotten ==
    ASSUME TypeOK, handler' = Forgotten, published' = {}
    PROVE  OnceInv' /\ \A h \in Handler : ~PublishesAgain(h)
<1>1. ASSUME NEW h \in Handler
      PROVE  /\ handler'[h].stage = handler[h].stage /\ handler'[h].at = handler[h].at
             /\ handler'[h].old = (handler[h].stage # "idle")
    <2>1. handler'[h] = [handler[h] EXCEPT !.old = h \in Working]
        BY DEF Forgotten
    <2>2. handler[h] \in HandlerCall
        BY DEF TypeOK
    <2>3. (h \in Working) = (handler[h].stage # "idle")
        BY DEF Working
    <2> QED BY <2>1, <2>2, <2>3 DEF HandlerCall
<1>2. \A h \in Handler : ~Counted(h)'
    BY <1>1 DEF Counted
<1>3. BlocksDiffer' /\ PublishedIsPast' /\ PublishedIsDone'
    BY <1>2 DEF BlocksDiffer, PublishedIsPast, PublishedIsDone
<1>4. \A h \in Handler : handler'[h].stage = "idle" => ~handler'[h].old
    BY <1>1
<1> QED BY <1>1, <1>3, <1>4 DEF OnceInv, PublishesAgain

\* Calls that end, or go on with what they have left.
LEMMA OnceShrinks ==
    ASSUME TypeOK, OnceInv, UNCHANGED <<current, published>>,
           \A h \in Handler :
               \/ handler'[h] = Idle
               \/ /\ handler'[h].block = handler[h].block
                  /\ handler'[h].old = handler[h].old
                  /\ handler'[h].stage \notin {"check", "idle", "publishing"}
                  /\ handler[h].stage # "idle"
                  /\ \A t \in handler'[h].rest : Counted(h) =>
                         <<t, handler[h].block>> \notin published
               \/ handler'[h] = handler[h]
    PROVE  OnceInv' /\ \A h \in Handler : ~PublishesAgain(h)
<1>1. \A h \in Handler : Counted(h)' =>
          Counted(h) /\ handler'[h].block = handler[h].block
    BY DEF Counted, Idle
<1>2. BlocksDiffer'
    BY <1>1 DEF OnceInv, BlocksDiffer, Block
<1>3. PublishedIsPast'
    BY DEF OnceInv, PublishedIsPast, Block
<1>4. PublishedIsDone'
    <2> SUFFICES ASSUME NEW h \in Handler, NEW t \in Tx, Counted(h)',
                        <<t, handler'[h].block>> \in published'
                 PROVE  handler'[h].stage # "check" /\ t \notin handler'[h].rest
        BY DEF PublishedIsDone
    <2>1. Counted(h) /\ <<t, handler[h].block>> \in published
        BY <1>1
    <2>2. handler[h].stage # "check" /\ t \notin handler[h].rest
        BY <2>1 DEF OnceInv, PublishedIsDone
    <2>3. handler'[h] # Idle
        BY DEF Counted, Idle
    <2> QED BY <2>1, <2>2, <2>3
<1>5. \A h \in Handler : handler'[h].stage = "idle" => ~handler'[h].old
    BY DEF OnceInv, Idle
<1>6. \A h \in Handler : ~PublishesAgain(h)
    BY DEF PublishesAgain, Idle
<1> QED BY <1>2, <1>3, <1>4, <1>5, <1>6 DEF OnceInv

\* A republication: the call's block and what it has left are known to be new.
LEMMA OnceRepublishes ==
    ASSUME TypeOK, OnceInv, NEW h \in Handler, h \in Working,
           NEW list \in SUBSET Tx, NEW t \in list, NEW rest \in SUBSET list, t \notin rest,
           Counted(h) => \A u \in list : <<u, handler[h].block>> \notin published,
           Republishes(h, t, rest)
    PROVE  OnceInv' /\ \A g \in Handler : ~PublishesAgain(g)
<1>1. handler \in [Handler -> HandlerCall] /\ handler[h] \in HandlerCall
    BY DEF TypeOK
<1>2. /\ \A g \in Handler \ {h} : handler'[g] = handler[g]
      /\ handler'[h].stage = "publishing" /\ handler'[h].rest = rest
      /\ handler'[h].at = t /\ handler'[h].old = handler[h].old
      /\ handler'[h].block = handler[h].block
    <2>1. handler' = [handler EXCEPT ![h] =
                 [handler[h] EXCEPT !.stage = "publishing", !.at = t, !.rest = rest]]
        BY <1>1 DEF Republishes, Stops, HandlerCall
    <2> QED BY <1>1, <2>1 DEF HandlerCall
<1>3. /\ current' = current
      /\ published' = IF handler[h].old THEN published
                      ELSE published \union {<<t, handler[h].block>>}
    BY DEF Republishes, trackerVars
<1>4. Counted(h)' <=> ~handler[h].old
    BY <1>2 DEF Counted
<1>5. Counted(h) <=> ~handler[h].old
    BY DEF Counted, Working
<1>6. \A g \in Handler : Counted(g)' <=> Counted(g)
    BY <1>2, <1>4, <1>5 DEF Counted
<1>7. \A g \in Handler : handler'[g].block = handler[g].block
    BY <1>2
<1>8. BlocksDiffer'
    <2>1. BlocksDiffer
        BY DEF OnceInv
    <2> QED BY <1>3, <1>6, <1>7, <2>1 DEF BlocksDiffer, Block
<1>9. PublishedIsPast'
    <2> SUFFICES ASSUME NEW u \in Tx, NEW b \in Block \union {NoBlock},
                        <<u, b>> \in published'
                 PROVE  b \in Block /\ current \in Block /\ b <= current
        BY <1>3 DEF PublishedIsPast, Block
    <2>1. CASE <<u, b>> \in published
        BY <2>1 DEF OnceInv, PublishedIsPast
    <2>2. CASE <<u, b>> \notin published
        <3>1. ~handler[h].old /\ b = handler[h].block
            BY <1>3, <2>2
        <3> QED BY <1>5, <3>1 DEF OnceInv, BlocksDiffer
    <2> QED BY <2>1, <2>2
<1>10. PublishedIsDone'
    <2> SUFFICES ASSUME NEW g \in Handler, NEW u \in Tx, Counted(g)',
                        <<u, handler[g].block>> \in published'
                 PROVE  handler'[g].stage # "check" /\ u \notin handler'[g].rest
        BY <1>7 DEF PublishedIsDone
    <2>1. CASE g = h
        <3>1. Counted(h) /\ (<<u, handler[h].block>> \in published \/ u = t)
            BY <1>3, <1>6, <2>1
        <3>2. u \notin rest
            BY <3>1
        <3> QED BY <1>2, <2>1, <3>2
    <2>2. CASE g # h
        <3>1. Counted(g) /\ handler'[g] = handler[g]
            BY <1>2, <1>6, <2>2
        <3>2. ~handler[h].old => handler[g].block # handler[h].block
            BY <1>5, <2>2, <3>1 DEF OnceInv, BlocksDiffer
        <3>3. <<u, handler[g].block>> \in published
            BY <1>3, <3>2
        <3> QED BY <3>1, <3>3 DEF OnceInv, PublishedIsDone
    <2> QED BY <2>1, <2>2
<1>11. \A g \in Handler : handler'[g].stage = "idle" => ~handler'[g].old
    BY <1>2 DEF OnceInv
<1>12. \A g \in Handler : ~PublishesAgain(g)
    <2>1. ~PublishesAgain(h)
        BY <1>2, <1>5 DEF PublishesAgain
    <2>2. \A g \in Handler \ {h} : ~PublishesAgain(g)
        BY <1>2 DEF PublishesAgain
    <2> QED BY <2>1, <2>2
<1> QED BY <1>8, <1>9, <1>10, <1>11, <1>12 DEF OnceInv

LEMMA OnceResubmits ==
    ASSUME TypeOK, OnceInv, NEW h \in Handler, h \in Working,
           NEW list \in SUBSET Tx, Resubmits(h, list),
           Counted(h) => \A u \in list : <<u, handler[h].block>> \notin published
    PROVE  OnceInv' /\ \A g \in Handler : ~PublishesAgain(g)
<1>1. handler \in [Handler -> HandlerCall] /\ handler[h] \in HandlerCall
    BY DEF TypeOK
<1>2. CASE LoopEnds(h)
    <2>1. /\ UNCHANGED <<current, published>>
          /\ \A g \in Handler : handler'[g] = Idle \/ handler'[g] = handler[g]
        BY <1>1, <1>2 DEF LoopEnds, trackerVars
    <2> QED BY <2>1, OnceShrinks
<1>3. ASSUME NEW t \in list, NEW rest \in SUBSET list, Reapproves(h, t, rest)
      PROVE  OnceInv' /\ \A g \in Handler : ~PublishesAgain(g)
    <2>1. handler' = [handler EXCEPT ![h] =
                 [handler[h] EXCEPT !.stage = "approving", !.at = t, !.rest = rest]]
        BY <1>1, <1>3 DEF Reapproves, Stops, HandlerCall
    <2>2. UNCHANGED <<current, published>>
        BY <1>3 DEF Reapproves, StatusUpdate
    <2>3. /\ \A g \in Handler \ {h} : handler'[g] = handler[g]
          /\ handler'[h].stage = "approving" /\ handler'[h].rest = rest
          /\ handler'[h].old = handler[h].old /\ handler'[h].block = handler[h].block
        BY <1>1, <2>1 DEF HandlerCall
    <2>4. handler[h].stage # "idle"
        BY DEF Working
    <2>5. \A u \in handler'[h].rest : Counted(h) => <<u, handler[h].block>> \notin published
        BY <2>3
    <2> QED BY <2>2, <2>3, <2>4, <2>5, OnceShrinks
<1>4. PICK passed \in SUBSET list :
          \/ passed = list /\ LoopEnds(h)
          \/ \E t \in list \ passed :
                 LET rest == list \ (passed \union {t}) IN
                 Waits(h, t) /\ (Republishes(h, t, rest) \/ Reapproves(h, t, rest))
    BY DEF Resubmits
<1>5. ASSUME NEW t \in list \ passed, Republishes(h, t, list \ (passed \union {t}))
      PROVE  OnceInv' /\ \A g \in Handler : ~PublishesAgain(g)
    <2> DEFINE rest == list \ (passed \union {t})
    <2>1. rest \in SUBSET list /\ t \notin rest /\ Republishes(h, t, rest)
        BY <1>5
    <2> HIDE DEF rest
    <2> QED BY <2>1, OnceRepublishes
<1> QED BY <1>2, <1>3, <1>4, <1>5

LEMMA OnceStarts ==
    ASSUME TrackerAssumption, TypeOK, OnceInv,
           NEW l \in Loop, NEW n \in Block, PollAnswer(l, n)
    PROVE  OnceInv' /\ \A h \in Handler : ~PublishesAgain(h)
<1>1. Answered(l, n) /\ UNCHANGED published /\ handler \in [Handler -> HandlerCall]
    BY DEF PollAnswer, TypeOK
<1>2. CASE ~Rises(n)
    BY <1>1, <1>2, OnceSame DEF PollAnswer, Answered
<1>3. CASE Rises(n)
    <2>1. current' = n /\ n \in Nat /\ (current \in Block => current < n)
          /\ NoBlock \notin Block
        BY <1>1, <1>3 DEF Answered, Rises, Block, TrackerAssumption
    <2>2. /\ \A h \in Handler : Counted(h) => handler[h].block \in Block /\ handler[h].block < n
          /\ \A t \in Tx, b \in Block \union {NoBlock} :
                 <<t, b>> \in published => b \in Block /\ b < n
        BY <2>1 DEF OnceInv, BlocksDiffer, PublishedIsPast, Block
    <2>3. \A h \in Handler :
              \/ handler'[h] = handler[h]
              \/ /\ handler'[h].block = n /\ handler'[h].stage = "check"
                 /\ handler'[h].rest = {} /\ ~handler'[h].old /\ ~Counted(h)
        <3>1. CASE Pending \in listening
            <4>1. PICK g \in Handler \ Working : handler' = [handler EXCEPT ![g] =
                             [Idle EXCEPT !.stage = "check", !.block = n]]
                BY <1>3, <3>1 DEF PollAnswer
            <4>2. ~Counted(g) /\ handler'[g] = [Idle EXCEPT !.stage = "check", !.block = n]
                BY <1>1, <4>1 DEF Counted, Working
            <4>3. \A h \in Handler \ {g} : handler'[h] = handler[h]
                BY <1>1, <4>1
            <4> QED BY <4>2, <4>3 DEF Idle
        <3>2. CASE Pending \notin listening
            BY <3>2 DEF PollAnswer
        <3> QED BY <3>1, <3>2
    <2>4. \A h, g \in Handler :
              handler'[h] # handler[h] /\ handler'[g] # handler[g] => h = g
        BY <1>1 DEF PollAnswer
    <2>5. BlocksDiffer'
        <3> SUFFICES ASSUME NEW h \in Handler, Counted(h)'
                     PROVE  /\ handler'[h].block \in Block /\ current' \in Block
                            /\ handler'[h].block <= current'
                            /\ \A g \in Handler \ {h} :
                                   Counted(g)' => handler'[g].block # handler'[h].block
            BY DEF BlocksDiffer, Block
        <3>1. CASE handler'[h] = handler[h]
            <4>1. Counted(h)
                BY <3>1 DEF Counted
            <4>2. ASSUME NEW g \in Handler \ {h}, Counted(g)'
                  PROVE  handler'[g].block # handler'[h].block
                <5>1. CASE handler'[g] = handler[g]
                    <6>1. Counted(g)
                        BY <4>2, <5>1 DEF Counted
                    <6> QED BY <3>1, <4>1, <5>1, <6>1 DEF OnceInv, BlocksDiffer
                <5>2. CASE handler'[g] # handler[g]
                    BY <2>1, <2>2, <2>3, <3>1, <4>1, <5>2 DEF Block
                <5> QED BY <5>1, <5>2
            <4> QED BY <2>1, <2>2, <3>1, <4>1, <4>2 DEF Block
        <3>2. CASE handler'[h] # handler[h]
            <4>1. handler'[h].block = n
                BY <2>3, <3>2
            <4>2. ASSUME NEW g \in Handler \ {h}, Counted(g)'
                  PROVE  handler'[g].block # n
                <5>1. handler'[g] = handler[g]
                    BY <2>4, <3>2
                <5>2. Counted(g)
                    BY <4>2, <5>1 DEF Counted
                <5> QED BY <2>1, <2>2, <5>1, <5>2 DEF Block
            <4> QED BY <2>1, <4>1, <4>2 DEF Block
        <3> QED BY <3>1, <3>2
    <2>6. PublishedIsPast'
        BY <1>1, <2>1, <2>2 DEF PublishedIsPast, Block
    <2>7. PublishedIsDone'
        <3> SUFFICES ASSUME NEW h \in Handler, NEW t \in Tx, Counted(h)',
                            <<t, handler'[h].block>> \in published
                     PROVE  handler'[h].stage # "check" /\ t \notin handler'[h].rest
            BY <1>1 DEF PublishedIsDone
        <3>1. CASE handler'[h] = handler[h]
            <4>1. Counted(h)
                BY <3>1 DEF Counted
            <4> QED BY <3>1, <4>1 DEF OnceInv, PublishedIsDone
        <3>2. CASE handler'[h] # handler[h]
            <4>1. handler'[h].block = n /\ n \in Block
                BY <2>3, <3>2
            <4> QED BY <2>1, <2>2, <4>1 DEF Block
        <3> QED BY <3>1, <3>2
    <2>8. \A h \in Handler : handler'[h].stage = "idle" => ~handler'[h].old
        BY <2>3 DEF OnceInv
    <2>9. \A h \in Handler : ~PublishesAgain(h)
        BY <2>3 DEF PublishesAgain
    <2> QED BY <2>5, <2>6, <2>7, <2>8, <2>9 DEF OnceInv
<1> QED BY <1>2, <1>3

LEMMA OnceApproves ==
    ASSUME TypeOK, OnceInv, NEW t \in Tx, TxStep(t) \/ ApprovalStep(t)
    PROVE  OnceInv' /\ \A h \in Handler : ~PublishesAgain(h)
<1>1. UNCHANGED <<current, published>>
    BY DEF TxStep, ApprovalStep, Approve, Signs, Submits, ApprovalFails, ApprovalEnds,
           Finishes, StatusUpdate, handlerVars
<1>2. CASE UNCHANGED handler
    BY <1>1, <1>2, OnceSame
<1>3. ASSUME NEW s, NEW known \in BOOLEAN, ApprovalEnds(t, s, known)
      PROVE  OnceInv' /\ \A h \in Handler : ~PublishesAgain(h)
    <2>1. ASSUME NEW h \in Handler
          PROVE  \/ handler'[h] = Idle
                 \/ /\ handler'[h].block = handler[h].block
                    /\ handler'[h].old = handler[h].old
                    /\ handler'[h].stage \notin {"check", "idle", "publishing"}
                    /\ handler[h].stage # "idle"
                    /\ \A u \in handler'[h].rest : Counted(h) =>
                           <<u, handler[h].block>> \notin published
                 \/ handler'[h] = handler[h]
        <3>1. handler[h] \in HandlerCall
            BY DEF TypeOK
        <3>2. handler'[h] =
                  IF handler[h].stage # "approving" \/ handler[h].at # t THEN handler[h]
                  ELSE IF known THEN Idle
                  ELSE [handler[h] EXCEPT !.stage = "next", !.at = Nothing]
            BY <1>3 DEF ApprovalEnds, Returns
        <3>3. CASE handler'[h] = [handler[h] EXCEPT !.stage = "next", !.at = Nothing]
                   /\ handler[h].stage = "approving"
            <4>1. /\ handler'[h].block = handler[h].block
                  /\ handler'[h].old = handler[h].old
                  /\ handler'[h].stage = "next" /\ handler'[h].rest = handler[h].rest
                BY <3>1, <3>3 DEF HandlerCall
            <4>2. handler[h].rest \subseteq Tx
                BY <3>1 DEF HandlerCall
            <4>3. \A u \in Tx : Counted(h) /\ <<u, handler[h].block>> \in published
                               => u \notin handler[h].rest
                BY DEF OnceInv, PublishedIsDone
            <4> QED BY <3>3, <4>1, <4>2, <4>3
        <3> QED BY <3>2, <3>3
    <2> QED BY <1>1, <2>1, OnceShrinks
<1> QED BY <1>2, <1>3
        DEF TxStep, ApprovalStep, Approve, Signs, Submits, ApprovalFails, Finishes, handlerVars

LEMMA OnceHandles ==
    ASSUME TypeOK, OnceInv, NEW h \in Handler, HandlerStep(h)
    PROVE  OnceInv' /\ \A g \in Handler : ~PublishesAgain(g)
<1>1. handler[h].rest \in SUBSET Tx /\ PendingTransactions \in SUBSET Tx
    <2>1. handler[h] \in HandlerCall
        BY DEF TypeOK
    <2> QED BY <2>1 DEF HandlerCall, PendingTransactions, Of
<1>2. \A u \in Tx : Counted(h) /\ <<u, handler[h].block>> \in published
                   => handler[h].stage # "check" /\ u \notin handler[h].rest
    BY DEF OnceInv, PublishedIsDone
<1>3. ASSUME NEW list \in SUBSET Tx, Resubmits(h, list), h \in Working,
             list = {} \/ list = handler[h].rest \/ handler[h].stage = "check"
      PROVE  OnceInv' /\ \A g \in Handler : ~PublishesAgain(g)
    <2>1. Counted(h) => \A u \in list : <<u, handler[h].block>> \notin published
        BY <1>2, <1>3
    <2> QED BY <1>3, <2>1, OnceResubmits
<1>4. CASE CheckDone(h)
    BY <1>1, <1>3, <1>4 DEF CheckDone, Working
<1>5. CASE GoesOn(h)
    BY <1>1, <1>3, <1>5 DEF GoesOn, Working
<1>6. CASE Republished(h)
    BY <1>1, <1>3, <1>6 DEF Republished, Working
<1>7. ASSUME NEW known \in BOOLEAN, RepublishFails(h, known)
      PROVE  OnceInv' /\ \A g \in Handler : ~PublishesAgain(g)
    BY <1>1, <1>3, <1>7 DEF RepublishFails, Working
<1> QED BY <1>4, <1>5, <1>6, <1>7 DEF HandlerStep

LEMMA OnceStep ==
    ASSUME TypeOK, OnceInv, [Next]_vars
    PROVE  OnceInv' /\ \A h \in Handler : ~PublishesAgain(h)
<1>1. CASE NetworkChange
    BY <1>1, OnceForgotten DEF NetworkChange
<1>2. CASE NetworkStateSet
    BY <1>2, OnceSame DEF NetworkStateSet, StatusUpdate, handlerVars
<1>3. CASE ListenerStep
    BY <1>3, OnceSame DEF ListenerStep, NewHeight, Listen, Unlisten, Relisten, handlerVars
<1>4. CASE StaleBlock
    BY <1>4, OnceForgotten DEF StaleBlock
<1>5. ASSUME NEW l \in Loop, LoopStep(l)
      PROVE  OnceInv' /\ \A h \in Handler : ~PublishesAgain(h)
    <2>1. CASE \E n \in Block : PollAnswer(l, n)
        BY <2>1, TrackerAssumption, OnceStarts
    <2>2. CASE (PollFails(l) \/ Wakes(l)) /\ UNCHANGED handlerVars
        BY <2>2, OnceSame DEF PollFails, Wakes, handlerVars
    <2> QED BY <1>5, <2>1, <2>2 DEF LoopStep
<1>6. ASSUME NEW t \in Tx, TxStep(t) \/ ApprovalStep(t)
      PROVE  OnceInv' /\ \A h \in Handler : ~PublishesAgain(h)
    BY <1>6, OnceApproves
<1>7. ASSUME NEW h \in Handler, HandlerStep(h)
      PROVE  OnceInv' /\ \A g \in Handler : ~PublishesAgain(g)
    BY <1>7, OnceHandles
<1>8. CASE UNCHANGED vars
    BY <1>8, OnceSame DEF vars, trackerVars, handlerVars
<1> QED BY <1>1, <1>2, <1>3, <1>4, <1>5, <1>6, <1>7, <1>8 DEF Next

\* Calls at work have different blocks, and nothing left that they published.
THEOREM OnceInvariant == Spec => []OnceInv
<1>1. Init => OnceInv
    BY DEF Init, Idle, OnceInv, BlocksDiffer, PublishedIsPast, PublishedIsDone, Counted
<1>2. TypeOK /\ OnceInv /\ [Next]_vars => OnceInv'
    BY OnceStep
<1> QED BY <1>1, <1>2, BlocksTypeCorrect, PTL DEF Spec

\* No transaction is republished twice for a block the tracker remembers.
THEOREM AlwaysOncePerBlock == Spec => OncePerBlock
<1>1. TypeOK /\ OnceInv /\ [Next]_vars
      => [\A h \in Handler :
            (/\ handler'[h].stage = "publishing" /\ handler'[h].at # handler[h].at
             /\ ~handler[h].old)
            => <<handler'[h].at, handler'[h].block>> \notin published]_vars
    BY OnceStep DEF PublishesAgain
<1> QED BY <1>1, OnceInvariant, BlocksTypeCorrect, PTL DEF Spec, OncePerBlock
=============================================================================

----------------------------- MODULE SwapsProofs -----------------------------
(***************************************************************************)
(* What holds of the quote polling for any number of parameters, requests  *)
(* and gas estimates.  The argument: a timer is armed only by the newest   *)
(* request when it ends, and every request clears it when it starts, so a  *)
(* timer never fires beside the newest request; hence each polled request  *)
(* is counted before the next one, and none is overtaken by a timer.       *)
(***************************************************************************)
EXTENDS Swaps, TLAPS

\* What setInitialGasEstimate holds on to, and the handle it implies.
Estimates ==
    \A e \in Estimate : estimating[e] # Nothing =>
        /\ estimating[e].quotes # Nothing
        /\ estimating[e].quotes = estimating[e].fetchParams
        /\ timeout # "never"

\* A request can only be overtaken by a page's.
NoneByTimer == \A c \in UnderWay : call[c].overtaken # "timer"

\* Polls are counted one by one: an armed timer has a poll to spare.
Counted ==
    /\ polls <= POLL_COUNT_LIMIT
    /\ timeout = "armed" => polls < pollCount /\ pollCount <= POLL_COUNT_LIMIT
    /\ newest # Nothing => polls <= pollCount /\ pollCount <= POLL_COUNT_LIMIT
    /\ newest # Nothing /\ call[newest].by = "page" => pollCount = 0
    /\ pollCount > 0 => timeout # "never"

SwapsInv ==
    /\ TypeOK
    /\ OneTimer /\ QuotesMatchParams /\ RefetchNeverFires
    /\ Estimates /\ NoneByTimer /\ Counted

-----------------------------------------------------------------------------
LEMMA SwapsInitially == Init => SwapsInv
<1> SUFFICES ASSUME Init PROVE SwapsInv
  OBVIOUS
<1>1. swapsState \in Snapshot /\ swapsState.quotes = Nothing
      /\ swapsState.fetchParams = Nothing
  BY DEF Init, NoQuotes, Snapshot
<1>2. call \in [Call -> {Nothing} \union Request] /\ UnderWay = {}
  BY DEF Init, UnderWay
<1>3. TypeOK
  <2>1. pollCount \in 0..(POLL_COUNT_LIMIT + 1) /\ polls \in 0..(POLL_COUNT_LIMIT + 1)
    BY SMT DEF Init, POLL_COUNT_LIMIT
  <2>2. estimating \in [Estimate -> {Nothing} \union Snapshot]
    BY DEF Init
  <2>3. newest \in {Nothing} \union UnderWay /\ timeout \in {"never", "armed", "spent"}
        /\ loading \in BOOLEAN /\ loose \in BOOLEAN
    BY DEF Init
  <2> QED
    BY <1>1, <1>2, <2>1, <2>2, <2>3 DEF TypeOK
<1>4. OneTimer /\ QuotesMatchParams /\ RefetchNeverFires
  BY <1>1 DEF Init, OneTimer, QuotesMatchParams, RefetchNeverFires
<1>5. Estimates /\ NoneByTimer
  BY <1>2 DEF Init, Estimates, NoneByTimer
<1>6. Counted
  BY SMT DEF Init, Counted, POLL_COUNT_LIMIT
<1> QED
  BY <1>3, <1>4, <1>5, <1>6 DEF SwapsInv

\* How a request begins, whoever makes it and whatever it does to the count.
LEMMA StartKeeps ==
  ASSUME SwapsInv, NEW c \in Call, NEW p \in Params, NEW by \in Caller,
         Starts(c, p, by), by = "timer" => newest = Nothing
  PROVE  /\ swapsState' \in Snapshot
         /\ timeout' \in {"never", "spent"}
         /\ timeout' = "never" => timeout = "never"
         /\ loose' \in BOOLEAN
         /\ newest' \in UnderWay' /\ newest' = c
         /\ call' \in [Call -> {Nothing} \union Request]
         /\ call'[c].by = by
         /\ estimating' \in [Estimate -> {Nothing} \union Snapshot]
         /\ OneTimer' /\ QuotesMatchParams' /\ RefetchNeverFires'
         /\ Estimates' /\ NoneByTimer'
<1> DEFINE new == [params |-> p, by |-> by, overtaken |-> "no"]
<1>1. new \in Request /\ new # Nothing
  BY NothingIsNoRequest DEF Request, Caller
<1>2. timeout' \in {"never", "spent"} /\ (timeout' = "never" => timeout = "never")
      /\ (timeout # "never" => timeout' # "never")
  BY DEF Starts, Cleared, SwapsInv, TypeOK
<1>3. \A d \in Call : d # c /\ d = newest /\ call[d] # Nothing =>
          Overtaken(call[d], by) \in Request
  BY DEF SwapsInv, TypeOK, Request, Caller, Overtaken
<1>4. newest # Nothing => newest \in Call /\ call[newest] # Nothing
  BY DEF SwapsInv, TypeOK, UnderWay
<1>5. call' \in [Call -> {Nothing} \union Request]
  <2>1. ASSUME NEW d \in Call PROVE call'[d] \in {Nothing} \union Request
    <3>1. CASE d = c
      BY <3>1, <1>1 DEF Starts
    <3>2. CASE d # c /\ d = newest
      <4>1. d # Nothing
        BY NothingIsNoCall
      <4>2. call[d] # Nothing
        BY <3>2, <4>1, <1>4
      <4> QED
        BY <3>2, <4>2, <1>3 DEF Starts
    <3>3. CASE d # c /\ d # newest
      BY <3>3 DEF Starts, SwapsInv, TypeOK
    <3> QED
      BY <3>1, <3>2, <3>3
  <2>2. \E f : call' = [d \in Call |-> f[d]]
    <3> WITNESS [d \in Call |->
                  IF d = c THEN [params |-> p, by |-> by, overtaken |-> "no"]
                  ELSE IF d = newest THEN Overtaken(call[d], by)
                  ELSE call[d]]
    <3> QED
      BY DEF Starts
  <2> QED
    BY <2>1, <2>2
<1>6. call'[c] = new /\ newest' = c /\ c # Nothing
  BY NothingIsNoCall DEF Starts
<1>7. NoneByTimer'
  <2> SUFFICES ASSUME NEW d \in Call, call'[d] # Nothing
               PROVE  call'[d].overtaken # "timer"
    BY DEF NoneByTimer, UnderWay
  <2>1. CASE d = c
    BY <2>1, <1>6
  <2>2. CASE d # c /\ d = newest
    <3>1. by # "timer"
      BY <2>2, NothingIsNoCall
    <3>2. call[d] \in Request
      BY <2>2, <1>4, NothingIsNoCall DEF SwapsInv, TypeOK
    <3>3. call'[d] = Overtaken(call[d], by)
      BY <2>2 DEF Starts
    <3> QED
      BY <3>1, <3>2, <3>3 DEF Request, Overtaken
  <2>3. CASE d # c /\ d # newest
    BY <2>3 DEF Starts, SwapsInv, NoneByTimer, UnderWay
  <2> QED
    BY <2>1, <2>2, <2>3
<1>8. UNCHANGED <<swapsState, estimating, loose>>
  BY DEF Starts
<1>9. OneTimer' /\ QuotesMatchParams' /\ RefetchNeverFires' /\ Estimates'
  BY <1>2, <1>8 DEF SwapsInv, OneTimer, QuotesMatchParams, RefetchNeverFires, Estimates
<1> QED
  BY <1>1, <1>2, <1>5, <1>6, <1>7, <1>8, <1>9 DEF SwapsInv, TypeOK, UnderWay

LEMMA PageAsksKeeps ==
  ASSUME SwapsInv, NEW c \in Call, NEW p \in Params, PageAsks(c, p)
  PROVE  SwapsInv'
<1>1. Starts(c, p, "page") /\ "page" \in Caller
  BY DEF PageAsks, Caller
<1> QED
  BY <1>1, StartKeeps, SMT DEF PageAsks, SwapsInv, TypeOK, Counted, POLL_COUNT_LIMIT

LEMMA TimerFiresKeeps ==
  ASSUME SwapsInv, NEW c \in Call, TimerFires(c)
  PROVE  SwapsInv'
<1>1. newest = Nothing /\ polls < pollCount /\ pollCount <= POLL_COUNT_LIMIT
  BY DEF TimerFires, SwapsInv, OneTimer, Counted
<1>2. swapsState.fetchParams \in Params
  BY DEF TimerFires, SwapsInv, TypeOK, Snapshot
<1>3. Starts(c, swapsState.fetchParams, "timer") /\ "timer" \in Caller
  BY DEF TimerFires, Caller
<1>4. polls' = polls + 1 /\ UNCHANGED <<pollCount, loading>>
  BY <1>1, SMT DEF TimerFires, SwapsInv, TypeOK, POLL_COUNT_LIMIT
<1> QED
  BY <1>1, <1>2, <1>3, <1>4, StartKeeps, SMT DEF SwapsInv, TypeOK, Counted, POLL_COUNT_LIMIT

-----------------------------------------------------------------------------
\* How a request ends, whatever it does to the rest.
LEMMA LeaveKeeps ==
  ASSUME SwapsInv, NEW c \in Call, Leaves(c)
  PROVE  /\ newest' \in {Nothing} \union UnderWay'
         /\ newest' # Nothing => newest' = newest /\ call'[newest'] = call[newest]
         /\ call' \in [Call -> {Nothing} \union Request]
         /\ NoneByTimer'
<1>1. call' \in [Call -> {Nothing} \union Request]
      /\ \A d \in Call : call'[d] = IF d = c THEN Nothing ELSE call[d]
  BY DEF Leaves, SwapsInv, TypeOK
<1>2. newest' # Nothing => newest' = newest /\ newest # c /\ newest \in UnderWay
  BY DEF Leaves, SwapsInv, TypeOK
<1> QED
  BY <1>1, <1>2 DEF SwapsInv, NoneByTimer, UnderWay

LEMMA FailureKeeps ==
  ASSUME SwapsInv, NEW c \in Call, Rejects(c) \/ Conflicts(c)
  PROVE  SwapsInv'
<1>1. Leaves(c) /\ loading' \in BOOLEAN
  BY DEF Rejects, Conflicts, Answers, SwapsInv, TypeOK
<1>2. UNCHANGED <<swapsState, pollCount, timeout, estimating, loose, polls>>
  BY DEF Rejects, Conflicts
<1> QED
  BY <1>1, <1>2, LeaveKeeps
  DEF SwapsInv, TypeOK, OneTimer, QuotesMatchParams, RefetchNeverFires, Estimates, Counted

LEMMA FetchedKeeps ==
  ASSUME SwapsInv, NEW c \in Call, NEW some \in BOOLEAN, Fetched(c, some)
  PROVE  SwapsInv'
<1> DEFINE p == call[c].params
<1>1. Leaves(c) /\ loading' \in BOOLEAN /\ UNCHANGED <<estimating, polls>>
  BY DEF Fetched, Answers, SwapsInv, TypeOK
<1>2. newest = c /\ c # Nothing /\ newest' = Nothing
  BY NothingIsNoCall DEF Fetched, IsNewest, Leaves
<1>3. p \in Params /\ p # Nothing
  BY NothingIsNoParams DEF Fetched, IsNewest, SwapsInv, TypeOK, Request
<1>4. timeout # "armed"
  BY <1>2 DEF SwapsInv, OneTimer
<1>5. polls <= pollCount /\ pollCount <= POLL_COUNT_LIMIT /\ pollCount' = pollCount + 1
  BY <1>2 DEF Fetched, SwapsInv, Counted
<1>6. pollCount \in Nat /\ polls \in Nat
  BY SMT DEF SwapsInv, TypeOK, POLL_COUNT_LIMIT
<1>7. CASE PollsOn(pollCount')
  <2>1. swapsState' = [quotes |-> IF some THEN p ELSE Nothing, fetchParams |-> p]
        /\ timeout' = "armed" /\ loose' = (loose \/ timeout = "armed")
    BY <1>7 DEF Fetched
  <2>2. ~loose'
    BY <2>1, <1>4 DEF SwapsInv, OneTimer
  <2>3. swapsState' \in Snapshot /\ swapsState'.fetchParams = p
        /\ swapsState'.quotes \in {p, Nothing}
    BY <2>1, <1>3 DEF Snapshot
  <2>4. pollCount' <= POLL_COUNT_LIMIT /\ polls' < pollCount' /\ polls' <= POLL_COUNT_LIMIT
        /\ pollCount' \in 0..(POLL_COUNT_LIMIT + 1)
    BY <1>1, <1>5, <1>6, <1>7, SMT DEF PollsOn, POLL_COUNT_LIMIT
  <2>5. OneTimer' /\ QuotesMatchParams' /\ RefetchNeverFires'
    BY <2>1, <2>2, <2>3, <1>2, <1>3 DEF OneTimer, QuotesMatchParams, RefetchNeverFires
  <2>6. Estimates'
    BY <2>1, <1>1 DEF SwapsInv, Estimates
  <2>7. Counted'
    BY <2>1, <2>4, <1>2 DEF Counted
  <2>8. TypeOK'
    BY <1>1, <1>2, <2>1, <2>2, <2>3, <2>4, LeaveKeeps DEF SwapsInv, TypeOK
  <2> QED
    BY <1>1, <2>5, <2>6, <2>7, <2>8, LeaveKeeps DEF SwapsInv
<1>8. CASE ~PollsOn(pollCount')
  <2>1. swapsState' = PostFetch(p) /\ timeout' = Cleared /\ UNCHANGED loose
    BY <1>8 DEF Fetched
  <2>2. timeout' = timeout
    BY <2>1, <1>4 DEF Cleared
  <2>3. swapsState' \in Snapshot /\ swapsState'.quotes = Nothing
    BY <2>1, <1>3 DEF PostFetch, Snapshot
  <2>4. pollCount = POLL_COUNT_LIMIT /\ pollCount' \in 0..(POLL_COUNT_LIMIT + 1)
    BY <1>5, <1>6, <1>8, SMT DEF PollsOn, POLL_COUNT_LIMIT
  <2>5. timeout # "never"
    BY <2>4, <1>6, SMT DEF SwapsInv, Counted, POLL_COUNT_LIMIT
  <2>6. OneTimer' /\ QuotesMatchParams' /\ RefetchNeverFires'
    BY <2>1, <2>2, <2>3, <2>5, <1>4 DEF SwapsInv, OneTimer, QuotesMatchParams, RefetchNeverFires
  <2>7. Estimates'
    BY <2>2, <1>1 DEF SwapsInv, Estimates
  <2>9. Counted'
    BY <2>2, <2>5, <1>1, <1>2, <1>4 DEF SwapsInv, Counted
  <2>8. TypeOK'
    BY <1>1, <2>1, <2>2, <2>3, <2>4, LeaveKeeps DEF SwapsInv, TypeOK
  <2> QED
    BY <1>1, <2>6, <2>7, <2>8, <2>9, LeaveKeeps DEF SwapsInv
<1> QED
  BY <1>7, <1>8

-----------------------------------------------------------------------------
LEMMA EstimateKeeps ==
  ASSUME SwapsInv, NEW e \in Estimate, SetInitialGasEstimate(e) \/ Estimated(e)
  PROVE  SwapsInv'
<1>1. UNCHANGED <<pollCount, timeout, newest, call, loading, loose, polls>>
  BY DEF SetInitialGasEstimate, Estimated
<1>2. UnderWay' = UnderWay
  BY <1>1 DEF UnderWay
<1>3. NoneByTimer' /\ Counted'
  BY <1>1, <1>2 DEF SwapsInv, NoneByTimer, Counted
<1>4. CASE SetInitialGasEstimate(e)
  <2>1. swapsState.quotes = swapsState.fetchParams /\ swapsState.quotes # Nothing
        /\ timeout # "never"
    BY <1>4 DEF SetInitialGasEstimate, SwapsInv, QuotesMatchParams, RefetchNeverFires
  <2>2. \A d \in Estimate : estimating'[d] = IF d = e THEN swapsState ELSE estimating[d]
    BY <1>4 DEF SetInitialGasEstimate, SwapsInv, TypeOK
  <2>3. Estimates'
    BY <2>1, <2>2, <1>1 DEF SwapsInv, Estimates
  <2> QED
    BY <2>3, <1>1, <1>2, <1>3, <1>4
    DEF SetInitialGasEstimate, SwapsInv, TypeOK, OneTimer, QuotesMatchParams, RefetchNeverFires
<1>5. CASE Estimated(e)
  <2>1. swapsState' = estimating[e] /\ swapsState' \in Snapshot
    BY <1>5 DEF Estimated, SwapsInv, TypeOK
  <2>2. swapsState'.quotes = swapsState'.fetchParams /\ swapsState'.quotes # Nothing
        /\ timeout # "never"
    BY <2>1, <1>5 DEF Estimated, SwapsInv, Estimates
  <2>3. \A d \in Estimate : estimating'[d] = IF d = e THEN Nothing ELSE estimating[d]
    BY <1>5 DEF Estimated, SwapsInv, TypeOK
  <2>4. Estimates'
    BY <2>3, <1>1 DEF SwapsInv, Estimates
  <2>5. estimating' \in [Estimate -> {Nothing} \union Snapshot]
    BY <1>5 DEF Estimated, SwapsInv, TypeOK
  <2> QED
    BY <2>1, <2>2, <2>4, <2>5, <1>1, <1>2, <1>3
    DEF SwapsInv, TypeOK, OneTimer, QuotesMatchParams, RefetchNeverFires
<1> QED
  BY <1>4, <1>5

\* The steps that neither start nor end a wait.
LEMMA PageKeeps ==
  ASSUME SwapsInv,
         NavigateBack \/ ResetPostFetchState \/ ResetSwapsState \/ StopPollingForQuotes
  PROVE  SwapsInv'
<1> USE DEF NavigateBack, ResetPostFetchState, ResetSwapsState, StopPollingForQuotes
<1>1. UNCHANGED <<pollCount, newest, call, estimating, loose, polls>>
  OBVIOUS
<1>2. UnderWay' = UnderWay
  BY <1>1 DEF UnderWay
<1>3. timeout' \in {timeout, Cleared} /\ loading' \in BOOLEAN
  BY DEF SwapsInv, TypeOK
<1>4. /\ timeout' \in {"never", "armed", "spent"}
      /\ timeout' = "never" <=> timeout = "never"
      /\ timeout' = "armed" => timeout = "armed" /\ swapsState' = swapsState
  BY DEF SwapsInv, TypeOK, Cleared
<1>5. /\ swapsState' \in Snapshot
      /\ swapsState' = swapsState \/ swapsState'.quotes = Nothing
      /\ swapsState'.fetchParams # Nothing => swapsState.fetchParams # Nothing
  <2>1. swapsState \in Snapshot
    BY DEF SwapsInv, TypeOK
  <2>2. CASE swapsState' = swapsState
    BY <2>1, <2>2
  <2>3. CASE swapsState' = PostFetch(swapsState.fetchParams)
    BY <2>1, <2>3 DEF PostFetch, Snapshot
  <2>4. CASE swapsState' = NoQuotes
    BY <2>4 DEF NoQuotes, Snapshot
  <2> QED
    BY <2>2, <2>3, <2>4
<1>6. TypeOK'
  BY <1>1, <1>2, <1>3, <1>4, <1>5 DEF SwapsInv, TypeOK
<1>7. OneTimer' /\ QuotesMatchParams' /\ RefetchNeverFires'
  BY <1>1, <1>4, <1>5 DEF SwapsInv, OneTimer, QuotesMatchParams, RefetchNeverFires
<1>8. Estimates' /\ NoneByTimer' /\ Counted'
  BY <1>1, <1>2, <1>4 DEF SwapsInv, Estimates, NoneByTimer, Counted
<1> QED
  BY <1>6, <1>7, <1>8 DEF SwapsInv

LEMMA SwapsStep == SwapsInv /\ [Next]_swapsVars => SwapsInv'
<1> SUFFICES ASSUME SwapsInv, [Next]_swapsVars PROVE SwapsInv'
  OBVIOUS
<1>1. ASSUME NEW c \in Call, NEW p \in Params, PageAsks(c, p) PROVE SwapsInv'
  BY <1>1, PageAsksKeeps
<1>2. ASSUME NEW c \in Call, TimerFires(c) PROVE SwapsInv'
  BY <1>2, TimerFiresKeeps
<1>3. ASSUME NEW c \in Call, FetchEnds(c) PROVE SwapsInv'
  BY <1>3, FailureKeeps, FetchedKeeps DEF FetchEnds
<1>4. ASSUME NEW e \in Estimate, SetInitialGasEstimate(e) \/ Estimated(e) PROVE SwapsInv'
  BY <1>4, EstimateKeeps
<1>5. CASE NavigateBack \/ ResetPostFetchState \/ ResetSwapsState \/ StopPollingForQuotes
  BY <1>5, PageKeeps
<1>6. CASE UNCHANGED swapsVars
  BY <1>6 DEF swapsVars, SwapsInv, TypeOK, OneTimer, QuotesMatchParams, RefetchNeverFires,
              Estimates, NoneByTimer, Counted, UnderWay
<1> QED
  BY <1>1, <1>2, <1>3, <1>4, <1>5, <1>6 DEF Next, PageStep

-----------------------------------------------------------------------------
(***************************************************************************)
(* The inductive invariant of the quote polling: types, one timer, quotes  *)
(* under their own parameters, and polls that are counted one by one.      *)
(***************************************************************************)
THEOREM SwapsInvariant == Spec => []SwapsInv
<1>1. Init => SwapsInv
  BY SwapsInitially
<1>2. SwapsInv /\ [Next]_swapsVars => SwapsInv'
  BY SwapsStep
<1> QED
  BY <1>1, <1>2, PTL DEF Spec

(***************************************************************************)
(* A new request clears the pending poll: no two timers are ever armed,    *)
(* nor one beside the newest request (fetchAndSetQuotes).                  *)
(***************************************************************************)
THEOREM AlwaysOneTimer == Spec => []OneTimer
<1>1. SwapsInv => OneTimer
  BY DEF SwapsInv
<1> QED
  BY <1>1, SwapsInvariant, PTL

(***************************************************************************)
(* At most three polled requests follow a page's, however many overlap.    *)
(***************************************************************************)
THEOREM PollsAreAlwaysLimited == Spec => []PollsAreLimited
<1>1. SwapsInv => PollsAreLimited
  BY DEF SwapsInv, Counted, PollsAreLimited
<1> QED
  BY <1>1, SwapsInvariant, PTL

(***************************************************************************)
(* Whatever setInitialGasEstimate puts back, quotes are never in the store *)
(* under the parameters of another swap.                                   *)
(***************************************************************************)
THEOREM QuotesAlwaysMatchParams == Spec => []QuotesMatchParams
<1>1. SwapsInv => QuotesMatchParams
  BY DEF SwapsInv
<1> QED
  BY <1>1, SwapsInvariant, PTL

(***************************************************************************)
(* A page that bails out because of a newer request never bails out for    *)
(* the timer's, which would answer no page.                                *)
(***************************************************************************)
THEOREM BailIsAlwaysSafe == Spec => []BailIsSafe
<1>1. SwapsInv => BailIsSafe
  BY DEF SwapsInv, NoneByTimer, BailIsSafe
<1> QED
  BY <1>1, SwapsInvariant, PTL

(***************************************************************************)
(* The request that ends polling, and answers null, is never a page's.     *)
(***************************************************************************)
THEOREM PageAlwaysGetsQuotes == Spec => []PageGetsQuotes
<1>1. SwapsInv => PageGetsQuotes
  BY SMT DEF SwapsInv, Counted, PageGetsQuotes, PollsOn, POLL_COUNT_LIMIT
<1> QED
  BY <1>1, SwapsInvariant, PTL

(***************************************************************************)
(* safeRefetchQuotes never finds what it waits for.                        *)
(***************************************************************************)
THEOREM RefetchNeverEverFires == Spec => []RefetchNeverFires
<1>1. SwapsInv => RefetchNeverFires
  BY DEF SwapsInv
<1> QED
  BY <1>1, SwapsInvariant, PTL
=============================================================================

-------------------------------- MODULE Swaps --------------------------------
(***************************************************************************)
(* SwapsController: the quotes of a swap, asked for by a page and then     *)
(* polled by a timer.  A request waits for the trades, the allowance, gas  *)
(* estimates and the gas price; it reads and writes nothing in between, so *)
(* it is one wait here, however many awaits it has.  Requests overlap, and *)
(* setInitialGasEstimate puts back the whole swapsState it took before its *)
(* own wait.  Quotes are abstracted to what they were asked for; the error *)
(* key, the selected quote and other data for display are left out.        *)
(***************************************************************************)
EXTENDS Integers

CONSTANTS
    Params,    \* what a page can ask quotes for
    Call,      \* requests for quotes under way at once (a bound)
    Estimate,  \* calls of setInitialGasEstimate under way at once (a bound)
    Nothing    \* no quotes, no parameters, no call

ASSUME NothingIsNoCall == Nothing \notin Call
ASSUME NothingIsNoParams == Nothing \notin Params

VARIABLES
    swapsState,  \* what the quotes are for, and fetchParams
    pollCount,
    timeout,     \* pollingTimeout: never set, armed, or fired or cleared
    newest,      \* the call with indexOfNewestCallInFlight, if it is under way
    call,        \* per request: its parameters, who made it; history: who made
                 \*   the first newer one
    estimating,  \* per setInitialGasEstimate: the swapsState it took
    loading,     \* fetchingQuotes of the page (one window)
    loose,       \* history: a timer was armed while another one was
    polls        \* history: polled requests since a page asked, up to one too many

swapsVars == <<swapsState, pollCount, timeout, newest, call, estimating,
              loading, loose, polls>>

POLL_COUNT_LIMIT == 3

Snapshot == [quotes : Params \union {Nothing}, fetchParams : Params \union {Nothing}]

NoQuotes == [quotes |-> Nothing, fetchParams |-> Nothing]

Caller == {"page", "timer"}

Request == [params : Params, by : Caller, overtaken : Caller \union {"no"}]

ASSUME NothingIsNoRequest == Nothing \notin Request

Overtaken(r, by) == [params |-> r.params, by |-> r.by, overtaken |-> by]

UnderWay == {c \in Call : call[c] # Nothing}

Init ==
    /\ swapsState = NoQuotes
    /\ pollCount = 0 /\ polls = 0
    /\ timeout = "never" /\ loose = FALSE
    /\ loading = FALSE
    /\ newest = Nothing
    /\ call = [c \in Call |-> Nothing]
    /\ estimating = [e \in Estimate |-> Nothing]

\* MUTANT: the handle of a cleared timer is forgotten.
ClearedAway == IF timeout = "armed" THEN "never" ELSE timeout

\* clearTimeout leaves pollingTimeout as it is.
Cleared == IF timeout = "armed" THEN "spent" ELSE timeout

-----------------------------------------------------------------------------
\* MUTANT: a pending poll is not cleared.
StartsBesideTimer(c, p, by) ==
    /\ call[c] = Nothing
    /\ newest' = c
    /\ call' = [d \in Call |->
                  IF d = c THEN [params |-> p, by |-> by, overtaken |-> "no"]
                  ELSE IF d = newest THEN Overtaken(call[d], by)
                  ELSE call[d]]
    /\ UNCHANGED <<swapsState, timeout, estimating, loose>>

\* fetchAndSetQuotes up to its first await.
Starts(c, p, by) ==
    /\ call[c] = Nothing
    /\ newest' = c
    /\ call' = [d \in Call |->
                  IF d = c THEN [params |-> p, by |-> by, overtaken |-> "no"]
                  ELSE IF d = newest THEN Overtaken(call[d], by)
                  ELSE call[d]]
    /\ timeout' = Cleared
    /\ UNCHANGED <<swapsState, estimating, loose>>

\* MUTANT: a page's request goes on with the old count.
PageAsksCountsOn(c, p) ==
    /\ Starts(c, p, "page")
    /\ polls' = 0
    /\ loading' = TRUE
    /\ UNCHANGED pollCount

PageAsks(c, p) ==
    /\ Starts(c, p, "page")
    /\ pollCount' = 0 /\ polls' = 0
    /\ loading' = TRUE

\* MUTANT: a polled request starts the count again, as a page's does.
TimerFiresAnew(c) ==
    /\ timeout = "armed" /\ swapsState.fetchParams # Nothing
    /\ Starts(c, swapsState.fetchParams, "timer")
    /\ polls' = IF polls > POLL_COUNT_LIMIT THEN polls ELSE polls + 1
    /\ pollCount' = 0
    /\ UNCHANGED loading

\* The timer's callback asks for what is in the store now.
TimerFires(c) ==
    /\ timeout = "armed" /\ swapsState.fetchParams # Nothing
    /\ Starts(c, swapsState.fetchParams, "timer")
    /\ polls' = IF polls > POLL_COUNT_LIMIT THEN polls ELSE polls + 1
    /\ UNCHANGED <<pollCount, loading>>

-----------------------------------------------------------------------------
\* What resetPostFetchState leaves of swapsState.
PostFetch(fetchParams) == [quotes |-> Nothing, fetchParams |-> fetchParams]

\* MUTANT: one more poll than there should be.
PollsOnceMore(n) == n <= POLL_COUNT_LIMIT + 1

PollsOn(n) == n < POLL_COUNT_LIMIT + 1

Leaves(c) ==
    /\ call' = [call EXCEPT ![c] = Nothing]
    /\ newest' = IF newest = c THEN Nothing ELSE newest

\* The page is told: of quotes, or of an error.
Answers(c) == loading' = (loading /\ call[c].by # "page")

\* The trades, the allowance or the gas price cannot be had; the error of an
\* overtaken request is told too.
Rejects(c) ==
    /\ call[c] # Nothing
    /\ Leaves(c) /\ Answers(c)
    /\ UNCHANGED <<swapsState, pollCount, timeout, estimating, loose, polls>>

\* A newer call has been made; the page is not to react to this error.
Conflicts(c) ==
    /\ call[c] # Nothing /\ newest # c
    /\ Leaves(c)
    /\ UNCHANGED <<swapsState, pollCount, timeout, estimating, loading, loose, polls>>

\* MUTANT: an overtaken call is not told apart.
IsNewestOrNot(c) == call[c] # Nothing

IsNewest(c) == call[c] # Nothing /\ newest = c

\* A call that is still the newest ends with quotes (some = TRUE) or with none.
Fetched(c, some) ==
    /\ IsNewest(c)
    /\ Leaves(c) /\ Answers(c)
    /\ pollCount' = pollCount + 1
    /\ LET p == call[c].params IN
       IF PollsOn(pollCount')
       THEN /\ swapsState' = [quotes |-> IF some THEN p ELSE Nothing, fetchParams |-> p]
            /\ timeout' = "armed"
            /\ loose' = (loose \/ timeout = "armed")
       ELSE /\ swapsState' = PostFetch(p)
            /\ timeout' = Cleared
            /\ UNCHANGED loose
    /\ UNCHANGED <<estimating, polls>>

-----------------------------------------------------------------------------
\* setInitialGasEstimate of a quote in the store: the state is taken ...
SetInitialGasEstimate(e) ==
    /\ swapsState.quotes # Nothing
    /\ estimating[e] = Nothing
    /\ estimating' = [estimating EXCEPT ![e] = swapsState]
    /\ UNCHANGED <<swapsState, pollCount, timeout, newest, call, loading, loose, polls>>

\* MUTANT: the quotes are put back into the state of now.
EstimatedInto(e) ==
    /\ estimating[e] # Nothing
    /\ swapsState' = [swapsState EXCEPT !.quotes = estimating[e].quotes]
    /\ estimating' = [estimating EXCEPT ![e] = Nothing]
    /\ UNCHANGED <<pollCount, timeout, newest, call, loading, loose, polls>>

\* ... and put back, whatever is there by now.
Estimated(e) ==
    /\ estimating[e] # Nothing
    /\ swapsState' = estimating[e]
    /\ estimating' = [estimating EXCEPT ![e] = Nothing]
    /\ UNCHANGED <<pollCount, timeout, newest, call, loading, loose, polls>>

\* The page goes back to the form: requests under way go on.
NavigateBack ==
    /\ loading /\ loading' = FALSE
    /\ UNCHANGED <<swapsState, pollCount, timeout, newest, call, estimating, loose, polls>>

\* MUTANT: the request under way is cancelled by making its index old.
ResetCancels ==
    /\ swapsState' = PostFetch(swapsState.fetchParams)
    /\ timeout' = Cleared
    /\ newest' = Nothing
    /\ loading' \in {loading, FALSE}
    /\ UNCHANGED <<pollCount, call, estimating, loose, polls>>

\* Called by the form, which leaves the flag alone, and to try again.
ResetPostFetchState ==
    /\ swapsState' = PostFetch(swapsState.fetchParams)
    /\ timeout' = Cleared
    /\ loading' \in {loading, FALSE}
    /\ UNCHANGED <<pollCount, newest, call, estimating, loose, polls>>

\* The user leaves the swap.
ResetSwapsState ==
    /\ swapsState' = NoQuotes
    /\ timeout' = Cleared
    /\ loading' = FALSE
    /\ UNCHANGED <<pollCount, newest, call, estimating, loose, polls>>

\* The user signs the swap.
StopPollingForQuotes ==
    /\ timeout' = Cleared
    /\ UNCHANGED <<swapsState, pollCount, newest, call, estimating, loading, loose, polls>>

-----------------------------------------------------------------------------
FetchEnds(c) == Rejects(c) \/ Conflicts(c) \/ \E some \in BOOLEAN : Fetched(c, some)

PageStep ==
    \/ \E c \in Call, p \in Params : PageAsks(c, p)
    \/ \E e \in Estimate : SetInitialGasEstimate(e)
    \/ NavigateBack \/ ResetPostFetchState \/ ResetSwapsState
    \/ StopPollingForQuotes

Next ==
    \/ PageStep
    \/ \E c \in Call : TimerFires(c) \/ FetchEnds(c)
    \/ \E e \in Estimate : Estimated(e)

Spec == Init /\ [][Next]_swapsVars

\* The timer fires, and the service is asked with a timeout.
Fairness ==
    /\ WF_swapsVars(\E c \in Call : TimerFires(c))
    /\ \A c \in Call : WF_swapsVars(FetchEnds(c))

FairSpec == Spec /\ Fairness

-----------------------------------------------------------------------------
TypeOK ==
    /\ swapsState \in Snapshot
    /\ pollCount \in 0..(POLL_COUNT_LIMIT + 1) /\ polls \in 0..(POLL_COUNT_LIMIT + 1)
    /\ timeout \in {"never", "armed", "spent"}
    /\ loading \in BOOLEAN /\ loose \in BOOLEAN
    /\ newest \in {Nothing} \union UnderWay
    /\ call \in [Call -> {Nothing} \union Request]
    /\ estimating \in [Estimate -> {Nothing} \union Snapshot]

(***************************************************************************)
(* "If there are any pending poll requests, clear them so that they don't  *)
(* get called while this new fetch is in process": never are two timers    *)
(* armed, nor one beside the newest request, though overtaken requests go  *)
(* on and end later; and a timer that fires finds parameters to ask with.  *)
(***************************************************************************)
OneTimer ==
    /\ ~loose
    /\ timeout = "armed" => newest = Nothing /\ swapsState.fetchParams # Nothing

(***************************************************************************)
(* "We only want to do up to a maximum of three requests from polling":    *)
(* since a page last asked, whatever overlaps, fails, is reset or put back.*)
(***************************************************************************)
PollsAreLimited == polls <= POLL_COUNT_LIMIT

(***************************************************************************)
(* Quotes are shown with the parameters they were asked for: a gas         *)
(* estimate that ends after a newer request or a reset brings back old     *)
(* quotes, but brings back their parameters too, so the user never sees    *)
(* the quotes of one swap under the tokens and amount of another.          *)
(***************************************************************************)
QuotesMatchParams ==
    swapsState.quotes # Nothing => swapsState.quotes = swapsState.fetchParams

(***************************************************************************)
(* "A newer swap request is running, so simply bail and let the newer      *)
(* request respond" (fetchQuotesAndSetQuoteState): a page whose request is *)
(* overtaken leaves its loading screen up, which is right only if the      *)
(* newer request is a page's too.  It is never the timer's.                *)
(***************************************************************************)
BailIsSafe ==
    \A c \in UnderWay : call[c].by = "page" => call[c].overtaken # "timer"

(***************************************************************************)
(* fetchAndSetQuotes resolves to null when polling is over, and a page     *)
(* takes its result apart as a pair: the request that ends polling is      *)
(* never a page's, whatever requests are counted in the meantime.          *)
(***************************************************************************)
PageGetsQuotes ==
    newest # Nothing /\ call[newest].by = "page" => PollsOn(pollCount + 1)

(***************************************************************************)
(* safeRefetchQuotes asks again if there are parameters and no             *)
(* pollingTimeout.  That never happens: where there are parameters the     *)
(* handle has been set, and clearing a timer does not reset it.  So the    *)
(* quote page, which calls it for expired quotes, gets no new ones by it,  *)
(* and this module needs no action for it.                                 *)
(***************************************************************************)
RefetchNeverFires == swapsState.fetchParams # Nothing => timeout # "never"

(***************************************************************************)
(* "Turning polling off" when the extension is left idle: polling dies out *)
(* unless pages ask for quotes again and again.                            *)
(***************************************************************************)
PagesKeepAsking == []<><<\E c \in Call, p \in Params : PageAsks(c, p)>>_swapsVars

Quiet == UnderWay = {} /\ timeout # "armed"
PollingEnds == []<>Quiet \/ PagesKeepAsking

(***************************************************************************)
(* The loading screen comes to an end: the page is told of the quotes or   *)
(* an error by its newest request, though it ignores overtaken ones, and   *)
(* requests are reset, polled and put back meanwhile.                      *)
(***************************************************************************)
LoadingEnds == []<>~loading \/ PagesKeepAsking
=============================================================================

# Verification of the BOHR browser extension

The extension is a wallet that lives in one background page of the browser. Web
pages (dapps) ask it to send transactions or sign messages, the user confirms or
rejects in extension windows, and the background page signs, talks to a node over
HTTP and keeps its state in extension storage. This directory holds TLA+ modules
that model its core, the *transaction pipeline*, and the parts around it that
wait for something: block polling and resubmission, keyrings and their lock,
connections of pages, messages to sign, the network lookup and the polling of swap
quotes; the TLC runs that check them; and proofs that the TLA+ proof system TLAPS
checks.

All paths below are relative to `src/app/scripts` unless they start with `src/`.

## 1. Inventory

JavaScript is single threaded, so nothing here is a data race. All the difficulty
is in what may happen *between* two pieces of code: every `await` on the node, a
keyring or a mutex lets any other handler run, and most objects are shared by
reference across such waits.

| Part | State it keeps | Operations | Talks to | Hard behaviour | What makes it correct |
|---|---|---|---|---|---|
| TransactionController, `controllers/transactions/index.js` | `inProcessOfSigning`, in-flight calls | request, gas defaults, approve, sign, publish, confirm, drop duplicates, speed up, cancel, clean-up | all parts below | four awaits under the nonce lock, each may fail; captured `txMeta` objects; clean-up on every network change | settled exactly once; lock always returned; dapp told the truth |
| TxStateManager, `tx-state-manager.js` | the transactions, their status | add, update, set status, wipe, clear, delete | events to the controller | setters look at no old status; update re-inserts a deleted object | final statuses are final |
| Nonce tracker, `bohr-nonce-tracker/index.js` | a mutex per sender and a global one | `getNonceLock`, `getGlobalLock` | node, store | two locks, asynchronous waiting lists | no nonce twice, no gap, no deadlock |
| PendingTransactionTracker, `pending-tx-tracker.js` | none of its own | check and resubmit pending transactions | node, store, controller events | parallel answers, snapshots across awaits, backoff | confirmed only if mined; dropped only for a reason |
| NetworkController, `controllers/network` | provider, network version | switch, reset, lookup | everything that depends on the network | late answers of an earlier network | the version belongs to the selected network |
| Block trackers, `bohr-block-tracker` | current block, running flag | start, stop, poll | listeners | stop and restart during a sleep leaves a second loop; listeners that leave in the middle of an announcement | polls while somebody listens; announces a block once |
| Persistence, `background.js`, `lib/local-store.js` | the saved state | debounced save, load, migrate | every store | a crash between change and save | nothing is left approved with nobody working on it |
| Windows, `src/ui` | a delayed copy of the state | confirm, reject, speed up | background, over streams | stale copies, two windows | what the user rejected is not sent |
| Message managers, `lib/*-message-manager.js` | messages and statuses | add, approve, sign, reject, clear | dapps wait for `finished` | several windows act on one message; clearing emits no event; a keyring may fail | a dapp is answered, or there is a reason why not |
| Permissions, `controllers/permissions` | pending approvals, permitted accounts | request, approve, reject, change accounts | rpc-cap, dapps | two waits, for an unlock and for the user; accounts change meanwhile | no page is locked out; an approval yields accounts |
| Keyrings, `bohrKeyringController` | keyrings, lock state, encrypted vault | create, unlock, lock, add account, persist | vault storage | unlocks, saves and locks interleave; the keyrings are cleared before a password is checked | the seed stays in the vault; a locked wallet holds no secret |
| AppState, `controllers/app-state.js` | callers waiting for an unlock, timer | wait, unlock, auto-lock | keyrings, dapps | unlock during auto-lock | every waiter is released |
| Swaps, `controllers/swaps.js`, `src/ui/app/ducks/swaps` | quotes and their parameters, a timer, a poll count, the page's loading flag | ask, poll, reset, estimate gas, stop | quote service, node, page | requests overlap; a state captured before a wait is put back | one timer, a bounded number of polls, quotes of the right swap, a page that is answered |
| Others: incoming transactions, account tracker, preferences, 3Box, token rates, metrics, ENS, migrations, streams, build tools | see `PROJECT.json` | | | | |

A transaction's way: a dapp's `eth_sendTransaction` is a call of
`newUnapprovedTransaction`. It checks permissions, puts an *unapproved*
transaction in the store, estimates gas, then listens for the event
`${id}:finished`. Windows show unapproved transactions. On confirm the window
sends its edited copy back; `approveTransaction` waits for the nonce lock,
computes a nonce, signs, publishes and releases the lock. On every new block the
pending tracker takes the global lock, fails submitted transactions without a
hash, drops those whose nonce a confirmed one has, and asks the node about the
rest. Network switches clear unapproved transactions and run the same clean-up as
a restart.

The section "hazards" of `PROJECT.json` lists, line by line, what can go wrong in
this code that tests hardly reach, with the properties that cover it, or why none
does.

## 2. Modules

| Module | What it is |
|---|---|
| `TxStateManager` | The store as operators on two functions. `heap[t][v]` is object `v` of transaction `t`, `store[t]` says which object the store holds. This split is the point of the model: code holds *live* objects across awaits and puts them back. Extends `NonceTracker`. |
| `NonceTracker` | The nonce arithmetic: `NextNonce(network, confirmed, pending)`. |
| `TxController` | The pipeline: requests, windows, approvals, mutexes, pending checks, node, network switches, save and crash. |
| `TxLife` | Extends `TxController`: the life of a transaction as one object (`Object(t)`, the captured `txMeta`), the inductive invariants about it, and the refinement mappings to `NonceLedger` and `TxFlow`. |
| `NonceLedger` | Abstract specification of the nonce tracker: per sender, one nonce out at a time, never one that is pending. |
| `TxFlow` | Abstract specification of a transaction: the statuses it may go through, as documented, and what its dapp is told on the way. |
| `NonceLists` | The lists `NextNonce` is computed from, changing over time in every way the pipeline can change them, and the code's nonce loop as a recursive function. |
| `BlockTracker` | The polling block tracker with its listeners and loops. |
| `PendingResubmit` | Extends `BlockTracker`: what happens on a new block after the pending check, with overlapping handlers, and the listener that follows the pending list. |
| `Blocks` | Composes these with network changes and the clean-up they run. |
| `Keyrings` | Keyrings, vault, lock, with unlocks and saves under way. |
| `Connections` | Extends `Keyrings`: `eth_requestAccounts`, the queue for an unlock, permitted accounts. |
| `Messages` | Extends `Keyrings`: the five message managers. |
| `NetworkLookup` | The selected network and the `net_version` calls under way. |
| `Wallet` | Composes the four as `MetamaskController` wires them. |
| `Swaps` | SwapsController and the page that waits for its quotes. |
| `MCTxController`, `MCWallet`, `MCBlocks` | TLC instances: symmetry. `NonceLists` and `Swaps` are checked as they are. |
| `NonceTrackerProofs`, `NonceListsProofs`, `TxControllerProofs`, `TxLifeProofs`, `TxLedgerProofs`, `BlocksProofs`, `WalletProofs`, `SwapsProofs` | Theorems and proofs. |

In every module an action is the code between two waits for something outside the
process. Continuations that only wait for resolved promises belong to the action
before. Operators marked MUTANT are plausible bugs that no specification uses; each
is the mutated form of the definition that follows it, and `PROJECT.json` names the property
it breaks.

### TxController and the code

| State | Code |
|---|---|
| `store`, `heap` | `TransactionController` store; objects by identity |
| `from`, `chainOf`, `replaces` | `txParams.from`, `chainId`; which transaction a speed-up was made for |
| `stage`, `answer` | where `newUnapprovedTransaction` is; what the dapp's promise has come to |
| `regas` | estimations started by `_onBootCleanUp` |
| `pc`, `ref` | where `approveTransaction` is (`idle`: not in `inProcessOfSigning`); the `txMeta` it captured |
| `queue` | `lockMap`: waiting lists of async-mutex, first in, first out, head holds it |
| `hpc`, `asked` | where each `updatePendingTxs` is; the objects still being asked about |
| `nodeNonce`, `signed`, `pool`, `mined` | the node: account nonces, nonces in signed payloads, accepted and executed payloads |
| `chain`, `net` | selected network; `loading` or a version |
| `view` | what each window shows, and whether its button was used |
| `disk` | what the last debounced save wrote |

`approveTransaction` runs through `pc`:
`global` (waiting for the global mutex, `BeginApproval`), `address` (in the
sender's waiting list, `GlobalFree`; then with the lock, waiting for the node's
answer), `account` (`TakeNonce`: nonce written, second question to the node),
`sign` (`AccountAnswer`: payload nonce fixed), `balance` for a swap, `broadcast`
(`Sign`), `idle` (`BroadcastAnswer` or `AwaitRejects`). The `catch` and `finally`
blocks are inside those two actions. A dropped connection after the node accepted
a payload is `NodeAccepts` followed by `AwaitRejects`.

`CheckPending` is the synchronous start of `Promise.all` over the pending list
(fail, drop or ask), `ResultMined`, `ResultPending` and `ResultError` are the
answers in any order, `CheckDone` the release. `ResultMined` contains
`confirmTransaction` with `_markNonceDuplicatesDropped`.

`SwitchNetwork`, `ResetAccount` and `NetworkUp` include the synchronous listeners:
`clearUnapprovedTxs` and `_onBootCleanUp`. `Crash` reloads from `disk` and runs
the constructor's clean-up.

External to the sources: `NodeAccepts`, `Mine`, `ForeignTransaction`, modelled from
how the code reads the node.

### Blocks and the code

| State | Code |
|---|---|
| `listening`, `running`, `current` | listeners of `latest` on the proxy, `_isRunning`, `_currentBlock` |
| `loops` | every `_synchronize` that has not left its `while`: asking the node or asleep |
| `resetting` | `_blockResetTimeout` of a stopped tracker |
| `status`, `chainOf`, `raw`, `signing` | what resubmission sees of a transaction: status, network, `rawTx`, and where `approveTransaction` is |
| `first`, `retries` | `firstRetryBlockNumber`, `retryCount` |
| `handler` | each `resubmitPendingTxs` under way: its block, the rest of the list it read, the transaction at work |
| `published`, `handler[h].old` | history, for the properties |

`Answered` is one poll with its announcement, during which listeners may come and go;
`Wakes` is the end of a sleep, where alone a loop looks at `_isRunning`. `Waits`,
`Republishes` and `Reapproves` are the three ways through `_resubmitTx`;
`Republished` and `RepublishFails` its answers, the latter with the early return of
a known transaction. `NetworkChange` puts the listeners on a new tracker;
`NetworkStateSet` is the store update that runs `_onBootCleanUp`.

### Wallet and the code

| State | Code |
|---|---|
| `vault`, `keyrings`, `password`, `unlocked`, `shown`, `identities` | `store.vault`, `this.keyrings`, `this.password`, `memStore.isUnlocked`, `memStore.keyrings`, the identities of PreferencesController |
| `decrypting`, `encrypting` | `submitPassword` and `persistAllKeyrings` waiting for the encryptor, with what they read before |
| `stage`, `processing`, `permitted` | each `eth_requestAccounts`, the origin's flag `isProcessingRequestAccounts`, the permission `eth_accounts` |
| `kind`, `status`, `signing`, `answer` | a message's manager, status, keyring calls under way, and the promise the dapp waits for |
| `selected`, `previous`, `net`, `lookups` | provider stores, network store, `net_version` calls with the network they ask and the state they were made in |
| `reentered`, `overtaken` | history: a password was submitted while unlocked; a network changed with a call under way |

Keyrings are the accounts they hold; `Seed` stands for the HD keyring, `Imported` for
simple ones. `SubmitPassword` clears the keyrings and starts to decrypt, as
`unlockKeyrings` does; `Decrypted` is the whole unlock with the release of all
waiters; `AddNewKeyring` pushes and starts a save, or is rejected after the push
when locked; `Encrypted` ends a save.

### Swaps and the code

`call[c]` is a `fetchAndSetQuotes` between its first and last await (it touches no
shared state in between that a later decision depends on), `newest` the call that has
`indexOfNewestCallInFlight`, `timeout` the handle `pollingTimeout`, which
`clearTimeout` leaves set. `Fetched` is everything after the last await: quotes,
count, timer or end of polling. `Rejects` and `Conflicts` are its failures, the
second the error that makes the page bail out. `SetInitialGasEstimate` takes
`swapsState`, `Estimated` puts it back. `ResetSwapsState`, `ResetPostFetchState`,
`NavigateBack` and `StopPollingForQuotes` are the page's calls, with what the page
does to its own `fetchingQuotes`. `safeRefetchQuotes` needs no action, which is
itself a property (`RefetchNeverFires`).

### Abstractions

- A `txMeta` is its status, nonce, custom nonce, whether it has a hash, whether
  gas is loading, and whether it has `lastGasPrice`. Amounts, gas values, history
  and wording are left out; so is the approval's `replacedBy` field.
- A hash identifies a payload: an answer with a hash means the node has it.
- A window's click sends the copy it took while the transaction was unapproved.
  A window may lag for any time; the code's 200 ms debounce has no upper bound in
  the model. That over-approximates, see section 6.
- One node for all networks: `src/app/api` has one fixed base URL.
- Ids grow with creation, so `Tx` is `1..NumTx` and id order is time order.
- `Blocks` has no nonces, hashes or gas; a transaction's life outside of resubmission
  is reduced to its status. `TxController` has no resubmission. The two meet in
  `approveTransaction`, which both have. The order in which a handler works through
  its list is left open. Answers without a block number are left out.
- `Wallet`: passwords are right or wrong; deriving and encrypting are steps with an
  outcome. rpc-cap and the approval controller are libraries, of which only one pending
  approval per origin is kept.
- `Swaps`: quotes are what they were asked for. The page's `fetchQuotesAndSetQuoteState`
  begins in one step, so a failing `addToken` before the request, which would leave the
  loading screen up, is left out. One window.

## 3. Runs and bounds

| Run | Instance | Question |
|---|---|---|
| `pipeline` | 2 transactions, 1 sender, 1 window, 1 block handler, node nonce up to 2 | Types, lock discipline, distinct automatic nonces, answers that stay true, final statuses, refinement of `NonceLedger` and of `TxFlow` |
| `replacement` | the same with one speed-up or cancel, the typed nonce 0, node nonce up to 1, history limit 1 | Automatic nonces still differ; a dropped transaction has a confirmed twin |
| `disturbed` | 1 transaction, 2 windows, 2 networks, one switch or reset, and one crash or a node nonce up to 1 (`MiningOrSaving`) | Lock discipline and `ApprovedIsInProcess` with stale windows, a changing network and a restart from any saved state; what the user answered once is sent with one nonce, or not at all if it was rejected |
| `live` | 2 transactions, node nonce fixed | Every approval and check ends, the dapp is answered |
| `nonces` | nonces up to 3, all lists | The computed nonce is free and leaves no gap; the declarative definition is the loop |
| `blocks` | 2 transactions, 2 handlers, 2 loops, 3 listeners, node height up to 2, 2 retries, 2 networks, one change | Polling goes on while it is needed; once per block; signed once |
| `wallet` | 2 unlocks, 2 saves, one imported key, 1 page with 2 calls | The seed stays in the vault; a lock leaves no secret; no call is left waiting |
| `messages` | 1 message of any manager with 2 keyring calls, 1 unlock, 1 save, 2 networks, 3 `net_version` calls, one change | Answers of messages; the network version shown is the selected network's |
| `swaps` | 3 requests, 2 swaps, 1 gas estimate | One timer, bounded polls, right quotes, the page is answered, polling dies out |
| `v_replace`, `v_switch`, `v_vault` | small | the findings of section 5 |

Why these bounds are enough to be interesting. Two transactions of one sender
are what competes for a lock, a nonce or a drop (approvals of different senders
share only the global mutex, which the pending check contends for as well); the
node nonce 2 lets both be mined, or one after a foreign transaction took its
nonce; `HistoryLimit` 1 in `replacement` makes the second transaction evict the first
one if it is finished, its nonce with it. In `disturbed` the switch and the crash may
come in either order and in the middle of an approval; once the node's nonce has moved,
nothing is saved and nothing crashes, as `SentAsAnswered` is about an undisturbed page
and the other two properties do not look at the node's nonce. Two polling loops are the
smallest case in which a block is fetched twice at once, three listeners the smallest
with a tracker that stops while one is about to be added; two handlers overlap, and two
retries are past the first doubling of the distance. Two unlocks are what makes one
overtake the other, two saves what ends in the wrong order. Three lookups are a current
one, a stale one and one of a third network state. Three requests for quotes are
a newest one and two that it overtook, of which one overtook the other.

`MaxNonce`, `MaxReplace`, `MaxSwitch`, `MaxCrash`, `MaxHeight`, `MaxRetries` and
`MaxSigning`, and the numbers of calls under way (`Call`, `Submission`, `Persist`,
`Lookup`, `Handler`, `Loop`, `Estimate`) occur only in guards or as the places that calls can take, and are bounds of the
model, not of the program. No run disables the deadlock check: windows refresh, blocks arrive
and users click for ever. Symmetry (interchangeable transactions where their ids carry no order, calls,
networks, windows) is used in safety runs only.

What the properties say, beyond one assignment:

- `NonceLockDiscipline`: from the taking of a nonce to submitted or failed the lock
  is held, and everyone in line for a sender's lock is a live approval of that
  sender, once. An exit that forgets the lock, releases it twice or lets in an
  approval of another sender breaks it.
- `ApprovedIsInProcess`: on the selected network nothing is approved with nobody
  working on it, after failures, crashes, stale windows, and network switches.
- `AutomaticNoncesDiffer`, `SerialNonces`: two approvals never wait for the same
  tracker-chosen nonce although confirmations, drops and failures change the lists
  while one of them waits. `SerialNonces` says so by refinement.
- `AnswerStaysTrue`: what a dapp was told (hash, failed, rejected) agrees with what
  becomes of the transaction.
- `SentAsAnswered`: the node gets one payload nonce of a transaction that was answered
  in one window, and none of a rejected one. No failed publication, clean-up,
  switch or reset, and no stale second window, leads to a second signature, which a
  node might execute as well. It ends with a crash, which forgets answers.
- `FollowsFlow`: the documented flow, by refinement. Every transaction goes along its
  arrows whichever of its objects code writes to; a hash that a dapp was told never
  belongs to a failed transaction; a drop has a confirmed opponent; a dapp is answered once.
- `ContinuousIsTheLoop`: the `while` loop of `_getHighestContinuousFrom` computes what the
  definition says, for every list and starting point.
- `FinalStatusIsFinal`: no sequence of checks, duplicates and late approvals brings
  a finished transaction back, while the tracker chooses all nonces. With a
  replacement it fails for the reason of finding 1: the replaced transaction is
  dropped although it is mined too.
- `DroppedHasConfirmedTwin`: only real duplicates are dropped: of a transaction of the
  same sender and nonce that was confirmed, and that a block really contains. It does
  not ask for the confirmed one to be in the store. It may not be: with three
  transactions the request for the third evicts the finished one by `HistoryLimit`
  while the one that was dropped for it stays. The run's two transactions are too few
  for this, three too many for a complete run; the theorem covers it.
- `PendingIsPolled`: until a network change, a pending transaction has its listener on
  a tracker that polls, whoever else starts, stops and restarts it. After a change
  nothing turns the listener on before the next status update; that is the code's
  behaviour and bounds the property.
- `OncePerBlock`, `SignedOnce`: two loops, lagging nodes and overlapping handlers
  neither publish a transaction twice for one block nor sign one again with a new
  nonce, though a handler works on a list that is out of date.
- `SeedIsKept`: no order of unlocks, failed passwords, locks, imports, removals and
  saves writes a vault without the seed, unless a password is submitted while the
  wallet is unlocked (finding 3).
- `LockedHasNoSeed`: what continues after a lock brings neither password nor seed back.
- `WaitersAreReleased`, `UnexpectedIsExplained`: a page is never turned away for ever,
  and an approval that yields no accounts happens only while locked or unsettled.
- `WaitingHasReason`: a dapp waits for a message because of the user, the keyring, or
  one of the three ways in which the code forgets it (a failing `eth_sign`, an errored
  request for a public key, a clearing), and for nothing else.
- `VersionIsSelected`: a late `net_version` is not shown for another network, unless
  a change overtook a call that was made while loading.
- `OneTimer`, `PollsAreLimited`, `PageGetsQuotes`, `BailIsSafe`: an overtaken request
  for quotes arms no second timer, polling ends after three polls and never with a
  page's request, and a page only bails out for another request of a page.
- `QuotesMatchParams`: a gas estimate may bring back old quotes, but never puts them
  under the tokens and the amount of another swap.
- `PollingEnds`, `LoadingEnds`: unless pages ask again and again, polling dies out, and the loading screen goes away
  although requests are neither cancelled by a reset nor answered when overtaken.

### Fairness

`live` uses weak fairness of each request's, each approval's and each pending
check's steps. It is justified by the code: every call to the node has a timeout of
100 s (`src/app/api/fetch.js:10`), after which the promise rejects; the keyrings
sign in software without asking anybody; promise continuations always run. The
mutex queues are first in, first out, so no stronger fairness is needed. Nothing
is assumed of users, dapps, blocks, the node's answers, saves or crashes, and
the run has no crash.

`swaps` uses weak fairness of the timer and of the end of each request: timers
fire, the quote service is asked with a timeout of 15 s
(`src/ui/app/pages/swaps/swaps.util.js:245-249`), gas estimates end after 5 s
(`controllers/swaps.js:346`), and the two remaining calls to the node have its client's
timeout. Nothing is assumed of pages, of their gas estimates, or of which way a
request ends. The other runs check safety only.

## 4. Proofs

TLAPS proves, for every value of the constants that satisfies the named assumptions
(marker constants distinct from real values, bounds natural numbers):

- *Lock of the nonce tracker.* `TypeCorrect`, `NonceLockIsDisciplined`,
  `NonceLockExcludes`, all from `LockInvariant`. `NonceLockDiscipline` is not inductive
  alone. `LockInv` adds the types; that an unused id occurs nowhere, or else a fresh
  request could change the sender of a queued approval (`UnusedIsAbsent`); that a
  running check holds the global mutex, or else its release could remove somebody else
  (`CheckHoldsGlobal`); and that payloads have a number for a nonce
  (`PayloadHasNonce`). The proof has one step per action; the lemmas
  `BeginDiscipline`, `EndDiscipline` and `GlobalFreeDiscipline` are about the three
  ways the queues change.
- *Approvals.* `ApprovedIsAlwaysInProcess`, from `LockInv` and `ApprovalInv`. The added
  facts are that a window's object is in use only after its single click
  (`ClickedOnce`), so that approving in a window never brings an old object back, and
  that a pending check holds no object that is being approved (`AskedIsNotApproved`),
  so that a late `tx:warning` cannot either.
- *Sending.* `AlwaysSentAsAnswered`, from `SentInv`: nothing is sent for a transaction
  that nobody answered, or by an approval that has not signed yet; what was sent is the
  last signed nonce; and a rejected transaction has no approval. Unlike the results on a
  transaction's life below it needs neither one network nor one object: a step begins an
  approval only where a window was used or a speed-up created (`ClicksAreKept`,
  `OnlyUserRejects`), every other step leaves the pool alone or sends what is signed
  (`SendEffect`), and with one answer there is one beginning.
- *Nonces.* `NextNonceAlwaysFree` and `NextNonceNeverLeavesGap` for all lists, from
  `ListsAlwaysOK` and the lemma that the definition by `CHOOSE` picks the first
  free number (`ContinuousIsFirstFree`). `ContinuousIsAlwaysTheLoop`: the definition solves the
  equation of the loop (`LoopEquation`), and no other solution differs from it below the
  first free number, by descent to the least place where one could.
- *Polling.* `TrackerFollows`: `PollInv` joins the types, that the tracker runs and has
  a loop exactly while somebody listens (`TrackerInv`), and that the transaction
  listener follows the pending list until a network change (`Follows`).
  `PendingIsAlwaysPolled` follows.
- *Resubmission.* `AlwaysSignedOnce` from `SigningInv`: a transaction with a `rawTx` is
  never before its signature. `AlwaysOncePerBlock` from `OnceInv`: calls at work have
  blocks of their own, none above the tracker's, and what was published for a block is
  behind its handler.
- *Keyrings.* `SeedIsAlwaysKept` and `LockedNeverHasSeed` from `KeyringInv`: the seed is
  in the vault, in every copy of it that is being decrypted, and in every set of
  keyrings that is being encrypted; `SettledInv` says when the identities are the
  keyrings, which `UnexpectedIsAlwaysExplained` needs.
- *Connections, messages, network.* `WaitersAreAlwaysReleased`, `WaitingAlwaysHasReason`,
  `VersionIsAlwaysSelected`, `WalletTypeCorrect`: each from the types and one invariant of
  its own module, over the steps of the others that leave its variables alone.
- *Swaps.* Six properties from `SwapsInvariant`. `OneTimer` needs that only the newest
  request arms a timer and that every request clears it at its start; then polls are
  counted one by one (`Counted`), no request is overtaken by a timer's (`NoneByTimer`),
  and what a gas estimate holds are quotes with their own parameters (`Estimates`).

- *A transaction's life.* `TrackerNoncesDiffer`, `AnswersStayTrue` and
  `DroppedForAConfirmed`, all from `LifeInvariant`. The obstacle is that code holds live
  objects across waits: nothing follows unless the object in the store, the one an
  approval captured and those a pending check asks about are the same one. `LifeInv`
  says so (`OneObject`, `AskedIsPending`) together with what makes it last: an unseen
  transaction is nobody's (`NotYetSeen`), a replacement waits for nobody
  (`ReplacementIsSilent`), an unanswered one is the unapproved original
  (`UnhandledIsFresh`), an approval takes its nonce once (`NonceOnce`). The parts need
  each other, so they are proved together. Going action by action through ten facts
  would repeat itself; the proof goes through *effects* instead. A step leaves a
  transaction at rest, or it is added, begun, refused, moved on, takes a nonce, ends,
  is dropped, lost or confirmed. `StepEffect` shows this of every action, the
  preservation lemmas are about effects alone, and so are the proofs of the next item.
- *Nonces chosen by the tracker.* `PlainInvariant`: a nonce in use is nobody else's, nor
  that of a stored confirmed transaction (`LiveNoncesDiffer`), so pending checks drop
  nobody who is asked about or being approved; and nonces run ahead of the node by one
  per transaction at most (`NoncesAreBounded`). `NextNonceIsFirstFree` says what
  `NextNonce` yields and gives both. `FinalStaysFinal` follows.
- *Refinement.* `NoncesAreSerial`: `TxController` implements `NonceLedger` with
  `taken[a]` the nonce in the object of the approval that holds `a`'s lock and
  `pending[a]` the nonces of `a`'s submitted transactions. `TakeStep` maps the taking of
  a nonce to `Take`, `EndStep` the end of an approval to `Commit` or `GiveBack`,
  `SettleStep` everything else to `Settle` (which contains stuttering). The lock
  discipline makes the approval unique.
- *The documented flow.* `FlowIsFollowed`: `TxController` implements `TxFlow` with the
  status of the captured object, or "none" while an unapproved one is not stored.
  `EffectIsArrow` maps each effect to an arrow or to none. `ApprovalsAreInOrder` is the
  invariant it needs (`FlowOrder`): the status says how far the approval is, nobody else has
  the status of an approval under way, its object never leaves the store, and what a
  window offers is stored, or else an approval could start from nothing.

The scope of the last four is part of their statements.

- `Undisturbed` (all of them): so far no transaction was answered in two windows, and
  there was no switch, reset or crash. Any number of windows, senders, transactions,
  handlers, typed nonces, speed-ups and cancellations is allowed. Each exception puts a
  second object in the place of the first, or takes nonces away from under an approval,
  and makes at least one of the properties false (finding 2, section 6).
- `Plain` (`PlainInvariant`, `FinalStaysFinal`, `NoncesAreSerial`, `ApprovalsAreInOrder`,
  `FlowIsFollowed`): also no nonce is
  typed or taken over from a replaced transaction. The user may type a nonce that is in
  use, and a speed-up has one by intention, so these properties cannot hold then.
  `TrackerChooses` shows that the hypothesis is not empty: with one window, and `MaxReplace`,
  `MaxSwitch`, `MaxCrash` and the typed nonces as in `pipeline`, `Plain` always holds,
  whatever the other constants are. `TrackerOnlyIsSerial` puts these together.

Most properties were agreed to by TLC before they were proved, the inductive
invariants `LifeInv` and `PlainInv` on the instances of `pipeline` and `replacement`,
`FlowOrder` on `pipeline`, `SentInv` on `replacement` and `disturbed`.
`DroppedHasConfirmedTwin` in an earlier form asked for a stored twin; no run
contradicted it, the proof did, and TLC then showed the eviction in an instance
with three transactions.

Only model-checked: the liveness properties (`ApprovalEnds`, `CheckEnds`,
`ApprovedIsAnswered`, `PollingEnds`, `LoadingEnds`), as liveness under fairness is outside
the prover's reach. Every other property of a passing run is stated by a theorem.

## 5. Findings

1. `v_replace`: `signTransaction` overwrites the nonce with the account's current
   one (`controllers/transactions/index.js:573`), so a speed-up or cancel need not
   carry the nonce of the transaction it replaces. If the original is mined first,
   both are executed. The documentation promises the same nonce
   (lines 388-389, 424-425).
2. `v_switch`: the clean-up also runs on each network change and fails running
   approvals as "possibly stuck during signing"; they then sign and submit, so the
   dapp was told of a failure (lines 124, 795).
3. `v_vault`: `unlockKeyrings` clears the keyrings before it decrypts
   (`bohrKeyringController/BohrKeyringController.js:568`). An import between a password
   that is submitted while unlocked and its decryption replaces the vault by one with
   the imported key alone, though `addNewKeyring` is said to add to the vault
   (line 188).

Behaviours that are plain from the code and need no run: a transaction saved as
*signed* is looked for by nobody after a restart; `safeRefetchQuotes` takes the handle of a cleared timer for a
running one and never asks (`RefetchNeverFires` proves it); messages and
unapproved transactions that a network change clears leave their dapp unanswered.

## 6. Limits

- `AnswerStaysTrue` is checked with one window and proved for one that answers. With two, a window that never
  refreshes can approve what the other rejected, and its copy returns to the
  store. The model does not bound staleness, so this is listed as a hazard, not as
  a finding.
- `AnswerStaysTrue`, `FinalStatusIsFinal` and `DroppedHasConfirmedTwin` are checked
  and proved without switches: a confirmation that arrives after a switch searches duplicates
  on the newly selected network, and finding 2 breaks answers.
- `OncePerBlock` is stated until the tracker forgets its block, 20 s after it stopped, or
  is replaced by a network change.
- Lost updates of imported keys (two saves that end in the wrong order) are possible
  in `Wallet` and are no violation of what is stated: `SeedIsKept` is about the seed.
- In `Swaps` a second window that asks for quotes makes the first one bail out and keep
  its loading screen; the model has one window's flag.

## 7. Not modelled

- *Vault creation and restore, key export, hardware keyrings* of the keyring controller:
  each is one exclusive flow of a page, or device input and output. `EthKeyringController`
  and the `eth-*` keyrings are not imported by the running program.
- *verifyNetwork* of NetworkController and *SubscribeBlockTracker*: nothing calls or uses them.
- *Activity log, domain metadata and accountsChanged* of PermissionsController: a log
  and notifications, read by nothing that decides.
- *Token lists and token detection, incoming transactions, account balances, token
  rates*: periodic reads of a service whose answer goes into a store for display. The
  answers may be stored under an account or network that was selected later; nothing
  in the code or its docs promises otherwise, so there is no property to state. As
  listeners of the block tracker the account tracker and incoming transactions are in `BlockTracker`.
- *3Box, metrics, ENS*: third-party services; pure input and output.
- *Migrations*: a sequential loop before anything else runs; an error stops it and
  keeps the old state.
- *JSON-RPC middleware, streams, content scripts*: transport. Its delay is the stale
  windows of `TxController`, its loss the crash.
- *React components and selectors*: rendering. The two flows that wait for the
  background, the confirm screen and the quotes page, are in `TxController` and `Swaps`.
- *`bohr.es6.js`*: a vendored, bundled library. *Build tools*: not part of the program.

Extensions that would be worth most: bounding a window's staleness, which would let
`AnswerStaysTrue` be stated for two windows that answer; a refinement of `Blocks`'
abstract transaction life by `TxController`; and a version of `LifeInv` that survives a
switch or a restart, for the properties that do.

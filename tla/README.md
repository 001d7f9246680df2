# TLA+ models of Routeweiler

Routeweiler is a Python client that pays for HTTP requests.  A request goes out
through httpx; when the server answers 402, the client chooses one of the payment
rails that the response offers, reserves the price in a local budget, pays, sends
the request again with the proof of payment, and settles the reservation.  All state
that survives a process is in one SQLite file and one directory of keys.

The models are translated from `src/src/routeweiler` (paths below are relative to
it).  `PROJECT.json` maps every definition to the lines it stands for.

## 1. The system

| Part | State | Operations | Modules |
|---|---|---|---|
| Draw ledger: `budgets/_draw.py`, `budgets/_reaper.py`, `budgets/local.py` | rows of `draws`, one per idempotency key; `envelopes.status` | `draw_sync`, `confirm_sync`, `rollback_sync`, `reap_sync` | BudgetLedger |
| Auth flow: `_auth.py` | locals of one generator per request: attempt, excluded rails, receipt | `async_auth_flow`: route, gate, draw, pay, roll back or retry, confirm | PaymentFlow |
| Credentials: `credentials/store.py`, `recovery.py`, `manifest_strategy.py` | rows of `credentials`: state, hold reason | `persist`, `transition`, `mark_redeemed`, `attempt_recovery` | CredentialLifecycle, CredentialStateMachine |
| FMV snapshot: `budgets/local.py`, `_snapshot.py` | one row of rates per envelope | capture at creation, two refresh tasks | FmvSnapshot |
| FMV providers: `budgets/fmv_provider.py`, `ecb_provider.py` | a cached rate, a cached table of a day | `fetch_btc_to`, `fetch_rate` | FmvProviders |
| FMV conversion: `budgets/fmv.py` | none | `amount_to_envelope_minor_units`, `fmv_for_trace` | FmvConversion |
| Router, policy, sticky cache: `routing/`, `policy/` | the cached rail of a key and its expiry | `decide`, `evaluate`, `remember`, `lookup`, `forget` | Routing |
| Envelope creation: `budgets/local.py`, `keystore.py`, `client.py` | a key file, a row of `envelopes`, what each client has bound | construction, `start`, `envelopes.create`, `create_envelope`, `create_envelope_if_absent`, `aclose` | EnvelopeCreation |
| Shared connection: `budgets/local.py`, `_storage.py`, `_draw.py` | one autocommit SQLite connection, one asyncio lock, worker threads, the open transaction | every statement of `draw_sync`, `confirm_sync`, `rollback_sync`, `reap_sync`; `aclose` | AtomicStore, StoreConnection |
| Rails: `rails/`, `normalized.py` | per payment: challenge, signed payload, Tempo's nonce | `can_handle`, `parse`, `match_funding`, `pay`, `confirm` | RailChallenges, RailPayments |
| Funding: `funding/` | external wallets and nodes | `pay_invoice`, sign, mint a token | RailPayments; as outcomes in PaymentFlow and CallTrace |
| Receipts: `budgets/receipts.py` | none | sign, verify | contents in BudgetLedger |
| Trace: `trace/` | rows of `trace_events` | `emit_*` | CallTrace |
| Client: `client.py` | the parts above and the bound envelope | construction, `start`, `aclose`, a call (`_traced`) | the envelope in EnvelopeCreation, a call in CallTrace |
| Recovery manifests: `credentials/manifests/` | static data | path templates | none; the outcome of a replay in CredentialLifecycle |

How they interact.  `Routeweiler._traced` and `async_auth_flow` run on one event
loop; the flow of a request calls the router, the store, the rail's adapter and the
recoverer, and each of these calls is awaited, so flows of other requests run
between them.  The store serialises its operations with one `asyncio.Lock` and runs
each in a worker thread, in one SQLite transaction.  Beside the flows run the reaper
task, two refresh tasks for the snapshots, and anything else that opens the same
file.  The sticky cache is shared by all flows and is only touched between awaits.

What is hard, and what correctness means there:

- *Budget.* Draws compete for a cap; a draw has a lifetime after which the reaper
  frees it, although its payment may still be under way.  The cap must bound what is
  reserved and settled up to exactly that case, settled draws must never change,
  receipts must be reproducible, and reservations must end.
- *Payment.* A payment may fail before or after funds leave, and on some rails the
  two cannot be told apart.  What is spent must be in the ledger, what was given up
  must not be charged, and nothing is paid twice for one request if that can be known.
- *Credentials.* Recovery reads a row, awaits, and moves it later; other callers and
  crashes come in between, and failing writes are swallowed.  Rows must follow the
  state machine and tell the truth about service and holds.
- *Creation.* An envelope is a key file and a row, written one after the other by
  clients that do not wait for each other.  The key that signs must stay, clients must
  agree, and no key may be left behind that refuses the envelope for ever.
- *Snapshots.* Two tasks read, await and rewrite the same row, and the caches they read
  are shared by tasks whose requests overtake each other.  No rate may be lost, reset
  or older than its cache allows.
- *Connection.* An operation is several statements in a thread that a cancelled caller
  leaves running after it has released the lock.  Until that happens operations are
  atomic; afterwards transactions must still end and settlements stand.
- *Rails.* What is parsed, quoted, signed and spent are four things, and the money is
  moved by someone else, later.  The quote must cover what is spent, and a failed
  attempt must cost nothing, then or later.
- *Routing.* Candidates are filtered, ranked and tried in turn while other requests
  change the stickiness.  No payable rail may be forgotten, and the order must be the
  documented one.
- *Traces.* Events are written from five places around a call, and each may fail.  A
  call must not be judged twice, its events must not contradict the money, and
  bookkeeping must not cost the caller a response that was paid for.

## 2. Modules

**BudgetLedger** is the ledger of one envelope.  The rows are a function from
idempotency keys (`UNIQUE (envelope_id, idempotency_key)`), and each operation is one
action, since it is one transaction under the lock; what the code refuses leaves the
database alone.  The receipt is signed after COMMIT, hence the three outcomes of an
insertion (`DrawReserves`, `DrawLosesReceipt`, `DrawFailsVerification`).
`receipts` holds what callers have been given and `late` which draws were settled
after a rollback; `late` is a history variable.

**PaymentFlow** extends it with the flows of several requests that share the
envelope.  An action is the code between two awaits.  `Route` is the abstraction of
the router: any rail not yet excluded may win, with any quote or none; the policy's
per-call limit is part of that action.  `FundsLeave` separates the moment at which
the wallet is debited from the answer of `adapter.pay`, so that each exception of
`pay` can be raised on either side of it, where the rail allows that
(`AmbiguousRails`).  `Cancel` and `CancelDraw` end a flow at any await.  PaymentFlow
is a refinement of BudgetLedger: every behaviour of the flows is a behaviour of
`LedgerSpec` (theorem `FlowImplementsLedger`), which carries the ledger's theorems over.

**CredentialStateMachine** is the abstract specification of the states of a
credential; **CredentialLifecycle** is the flow's part (persist, retry, redeem or
recover) and any number of other callers of `attempt_recovery`, with one action per
awaited step, failing transitions, crashes and expiry.  It implements the state
machine (`FollowsStateMachine`, an instance of the abstract specification).

**AtomicStore** is what the store promises of its rows: each operation at once or not at
all.  **StoreConnection** is the code below it, a statement a step: a caller enters the
lock, its thread runs `BEGIN IMMEDIATE`, the look at the key, the two sums, the INSERT, the
COMMIT, and the signing and verification of the receipt; the other operations are single
statements outside a transaction.  `view` is what the connection sees and `durable` what
is on disk, which is `view` or, in a transaction, what a ROLLBACK would restore.
`CancelWithin` is the cancellation of a caller inside `to_thread`: the lock is released and
the thread runs on.  `guests` and `stray` are history variables that say whether a call
found or wrote rows in a transaction of another, or ended it.  `AtomicUntilCancelled` is the refinement: the
steps of `durable` are those of AtomicStore as long as nobody has been cancelled.

**FmvProviders** holds the caches of `CoinGeckoProvider` and `LiveEcbProvider`.  A rate is the
time at which it was quoted, which is what tells a fresh rate from a stale one.  Both
providers read their cache before the await and overwrite it after, so that answers of
different tasks may come in any order; the ECB table is stored under the day that was
read before the request.  A request lasts no longer than `MaxLatency`, since httpx's
timeouts end it.  **FmvSnapshot** extends it with the snapshot of one envelope: `create_envelope`
fetches its rates, and each refresher reads the row, awaits a provider for every leg and
upserts the row.  A rate of 0 is the constant of the offline table.  Tasks for other
envelopes use the providers at any time (`BtcOthers`, `EcbOthers`).

**RailChallenges** has the adapters' pure part: which adapter handles a 402, the price,
expiry and network each parser finds (Lightning invoices, x402's list of accepted
payments, MPP's `Payment` headers with the fields they require) and the funding source that fits.  **RailPayments** runs
attempts to pay through it, one action per await of `pay`, beside the parties that move the
money: the Lightning node, which may pay for a caller that is gone; the server, which may
collect an x402 authorisation, broadcast a Tempo transaction or use a token at once, late
or never; and the chain, which mines one transaction per nonce.  A receipt names a challenge and,
apart from it, a reference, each its own or another payment's; the code compares the first and
records the second, or its own proof if there is no receipt (`Settled`).  `spent` is the history
of what left a wallet.

**EnvelopeCreation** is the creation of one envelope and its binding by several clients:
by `start` of a client with a spec, by the constructor of a client with an id (`ById`), or
by `envelopes.create`, which binds nothing (`Direct`).  The check for the row, the key file, the
rates, the INSERT, the deletion of the key after an IntegrityError and the binding are
actions of their own; the INSERT and the upsert of the snapshot after it are two commits, and
`SnapshotFails` is the failure of the second: the lock is released between check and creation, other processes never held it, and the file system is
outside every transaction.  `Cut` stands for a crash, a cancellation or any error other
than an IntegrityError; an INSERT that was cancelled goes on in its thread
(`InsertDetached`).  A client of `Unprovided` uses a `BudgetStore` without FMV provider,
which raises after the key was written; `Routeweiler` itself always has one.

**FmvConversion** holds the two conversions of prices as operators on integers (a rate
is so many `RateScale`-ths, `Decimal` rounding is exact), and the reference they are
compared with.

**Routing** is `Router.decide` with the first rule that matches, the conversion of the
prices, and the sticky cache, for several requests of one sticky key.  An offer says
what the adapter finds in the 402 (it does not handle it, cannot parse it, has no
funding), which rules match the challenge, and its price.  Looking up the cache,
deciding and appending the attempt is one action, because no await that yields lies
between them; so are a failed payment's `forget`, the next `lookup` and the next
decision.

**CallTrace** is one call from `client.get` to the return of `_traced`, with the events
it leaves.  It has the flow's control in full (failover, payment before or after the
commit, persistence, retry, recovery, receipt), but the outcome of each component is an
input, since the other modules say which outcomes there are; an event keeps its kind,
its rail, the rail it fell back from and whether it claims delivery.  `Cut` ends the call
outside the flow: a cancellation, or an error of httpx around it, such as a body that
cannot be read after the flow has returned.  `committed` and `missed` are history
variables: where funds have left, and whether an event that was due is missing.

MCPaymentFlow, MCEnvelopeCreation, MCRouting, MCStoreConnection and MCRailPayments give
constants their values.  PaymentFlowProofs (which begins with the ledger), CredentialProofs,
EnvelopeCreationProofs, CallTraceProofs, FmvSnapshotProofs, StoreConnectionProofs,
RoutingProofs (with the conversions) and RailPaymentsProofs hold the proofs.

## 3. Runs

| Run | Module | Shows |
|---|---|---|
| `ledger` | BudgetLedger | cap, receipts, finality, and that reservations end, over all orders of operations |
| `flow` | MCPaymentFlow | spend is recorded, given up draws are not charged, repetition and authorisation |
| `credentials` | CredentialLifecycle | state machine, service, reasons, and that calls end |
| `creation` | MCEnvelopeCreation | keys stay, clients agree, left keys are explained, creations end |
| `snapshot` | FmvSnapshot | no leg is set back or filled with a stale rate, with either refresher or both; none is lost or reset, with one |
| `connection` | MCStoreConnection | atomic until a caller is cancelled; transactions have owners, settlements stand, checks exclude each other, everyone is answered |
| `rails` | MCRailPayments | prices cover spending, failures cost nothing, spending ends with the challenge, nonces, receipts are the challenge's |
| `routing` | MCRouting | order, completeness, stickiness, conversions |
| `trace` | CallTrace | one verdict, true events, service reaches the caller, nothing is lost silently, calls return |
| `flow_rollback`, `snapshot_both`, `routing_yen` | | the three divergences of section 6 |

The type invariants of the ledger, the flow, the credentials, the creation, the snapshot and
the trace and the connection are theorems and are not run; `routing` checks its own.

Bounds, and why they are enough:

- `ledger`: three keys with amounts 1 and 2 and a cap of 3, so that the cap is filled
  by two draws or by three, and one draw can take the capacity that another has just
  lost.  A draw lives for one tick and the envelope for two, so that expiry happens
  inside and after the envelope's life; the clock runs two ticks further so that the
  last draw can be reaped.
- `flow`: two requests and two rails are the smallest system with both concurrency
  and failover.  One rail is listed by the envelope and limited per call, the other is
  neither and is ambiguous.  Draws expire at once, so that the reaper can race every
  step.  Requests are symmetric: only their identity distinguishes them.
- `credentials`: one credential, since no operation touches two, and three callers:
  the flow and two others, which is what it takes for two stale reads.
- `creation`: two clients with specs that differ, one of them with a directory of its own,
  so that two keys meet at the row; a third that names the id, a fourth that creates
  directly, so that a creation can meet a row it has not looked for; and a caller that
  lacks its provider.  Each may create twice, which is what it takes to start after one's
  own failure.
- `snapshot`: either refresher and both; the satoshi leg and one cross leg, since a refresh
  treats all its cross legs alike (the run `snapshot_both` has two, one of them unknown to the
  offline table as jpy->eur is, and the theorems hold for any); one other task per provider,
  which is what it takes for two answers to overtake each other.  The clock passes a midnight,
  so that a table is asked for before it and answered after it, and outlasts a cached rate and
  the request that overtakes it, so that a rate can be too old.
- `connection`: three calls, since a third one's ROLLBACK can end a transaction that two
  others fight over, on three keys and a cap of two: one draw is there already, and two
  compete for what it leaves or is freed.  Two callers may be cancelled, the shortest way
  to three threads at once.
- `rails`: two attempts, which is what it takes for two nonces or receipts to be mixed up,
  with responses at the edges of each parser: amounts below a satoshi, in pico or
  missing, invoices that are cut off, offers that cannot be signed, negative amounts,
  challenges without an expiry, two challenges in one header.  Challenges last up to three
  ticks, and so does the clock.  Attempts are symmetric.
- `routing`: three rails; the first request meets every combination of four offers (a
  cheap one, a dearer preferred one, one that cannot be converted, a denied one), and
  one rail alone with each kind of price in each currency at eight amounts around the
  rounding boundaries; the second request makes rails sticky.  Lifetimes are shorter
  and longer than the cache's ttl, and the clock outlasts both.  Minor units are
  tenths, not hundredths, to keep the boundaries close together.
- `trace`: one call, because events of two calls do not meet, over all four rails, so
  that failover can meet every kind of rail in every order.

`CHECK_DEADLOCK FALSE` where all requests and calls may come to their end and nothing
is left to do.

## 4. Fairness

- `FairLedgerSpec`: weak fairness of `Reap` and `Tick`.  The reaper's loop wakes at a
  fixed interval for as long as the store is open and catches every exception
  (`local.py`, `_reap_loop`), and time passes.  No caller owes anything.
- `FairSpec` of CallTrace: weak fairness of the call's next step.  The event loop resumes
  what can run, and every awaited call returns or raises, having a timeout.  Nothing is
  assumed about which outcome it has.
- `FairSpec` of CredentialLifecycle: the same for calls that no crash has cut off; jobs
  need not start.
- `FairSpec` of EnvelopeCreation: the steps of a creation that has begun; nobody has to
  begin one.
- `FairConnectionSpec`: weak fairness of entering the free lock, since `asyncio.Lock` wakes
  its waiters, and of the next statement of a worker thread.

The other specifications state safety only and assume nothing.

## 5. Proofs

TLAPS checks the following for every value of the constants under the named
assumptions of the modules (finite sets of keys and rails, natural amounts, keys being
pairs of request and attempt, `None` being none of the values it stands beside).  The
assumptions of Routing and RailPayments are about inputs: rates and scales are positive
where the code's tables are, a currency is worth itself in a snapshot (as
`capture_fmv_snapshot` writes it), adapters are registered once each, and what a server asks
for is a number, which the router never sees negative.  Every safety property that a run
checks is now a theorem as well.

- **PaymentFlowProofs, the ledger.** `LedgerTypeCorrect`; `CapIsRespected`: what is reserved and
  settled exceeds the cap by no more than what was settled late.  The bound is not
  inductive alone, since the confirmation of a draw counted as late would change
  `LateSettled`; `CapInv` adds the types and that late draws are settled.  Each step is
  then an exchange of summands, for which the first part of the module proves that a sum over a
  finite set changes by the difference of the one summand that changed (`SumUpdate`).
  `ReceiptsAreReproducible` rests on the fact that no operation changes the terms of an
  existing row (`RowsKeepTheirTerms`).  `SettlementIsFinal` is an action property.
- **PaymentFlowProofs, the flow.** `FlowImplementsLedger` by one lemma per step; therefore
  `FlowsRespectCap`.  The other four invariants follow from `FlowInv`, which says of
  each place in the flow which draw, receipt and payment the request has: rows of
  later attempts are absent, a held receipt is that of the current attempt, payments of
  the current attempt exist only after `FundsLeave`, and earlier payments were made on
  rails that have been excluded since.  None of the four is inductive without it.
- **CredentialProofs.** `ImplementsStateMachine` is the refinement.  `RowsTellService`
  needs `ServiceInv`, which relates the place of a call to what has been served, and
  `HoldsHaveReasons` needs `ReasonInv`, which says that a call about to hold a
  credential as expired has seen it expired.
- **EnvelopeCreationProofs.** `SigningKeysSurvive`, `TermsAreShared` and
  `LeftKeysAreExplained`, for any number of clients and directories.  They rest on
  `CreationInv`: between its key and its row a client owns the file in its directory
  (`OwnKey`), keys are numbered by their start, and a client that is about to bind has
  seen the row (`Bindable`); a client that names the id is never in the middle of a
  creation.  A step of one client disturbs another only by writing a file or the row, hence
  the lemma for all steps that write neither (`Quiet`).
- **CallTraceProofs.** `CallsAreJudgedOnce`, `TracesTellTheTruth`, `PaidServiceArrives`
  and `SilenceIsExplained`, for every offer.  `TraceInv` adds to the four what has been
  traced and answered at each place of the call (`Traced`): nothing before the retry is
  answered, no verdict before `EmitPaid`, and an untagged answer only where nothing was
  paid; and where the money is and which rails have failed (`Spent`).
- **FmvSnapshotProofs.** `RefreshKeepsLegs` and `RefreshGetsFreshRates`, action properties,
  for any legs, tasks and lifetimes, and for stores with either refresher or both.  That no leg
  is lost or reset is part of the first for stores with one refresher only; with both it is
  false (section 6).  They rest on `SnapshotInv`: a refresher may not know that its own legs were
  dropped or reset, but it has every live rate that is still there, since nobody else writes those
  (`BtcRefreshes`, `EcbRefreshes`), and what it has collected so far covers every leg it will write; no
  request is older than its timeout (`ProvidersInv`); and a rate in use is newer than the one
  in the cache by the length of one request at most (`BtcBacked`, `EcbBacked`), so that the
  next answer, from the cache or the server, is not much older, whoever writes it.
- **StoreConnectionProofs.** `ConnectionIsAtomic` is the refinement of AtomicStore until a
  caller is cancelled, for any number of calls and statements in any order;
  `TransactionsAreOwned`, `SettlementsLast` and `DrawsExcludeEachOther` hold after
  cancellations too.  `ConnectionInv` has one part for each.  For the refinement: nobody else's
  thread runs while one holds the lock (`Locked`), hence what a draw has read is still what the
  rows hold, up to its INSERT (`Learnt`), and the transaction differs from what it saved by that
  one row (`Alone`).  For the settlements: a row on disk is never absent from the view
  (`RowsRemain`), and a settlement of a call that was no guest is in both (`Standing`).  For the
  exclusion: who is between BEGIN and COMMIT owns the transaction, unless a stray ROLLBACK or
  the closing ended it (`OpenAreOwners`).
- **RoutingProofs.** `RoutingInv` says of each attempt that its rail was feasible after the
  attempts before it, and first in the ranking of those left unless it was sticky (`Went`);
  the properties speak of pairs of attempts and are not inductive.  `FailoverIsRanked` needs
  that the order of ranks is lexicographic and has a first element among any rails that are left
  (`PrecedesIsLexicographic`, `FirstKey`, `WinnerIsFirst`), which rests on distinct positions of
  adapters.  `StickyRailsPaid` needs that the cache's entry repeats the last payment and expires
  no later than it allows (`StickyOK`).  The conversions are proved for every amount, rate and
  scale: rounding up loses nothing and adds less than a unit (`RoundingUpCovers`), so a quote
  covers the worth and exceeds it by 5 % and a unit at the most (`PriceIsCovered`), and the
  rounding to the nearest in the trace stays below (`TraceStaysWithin`).  `QuotesCover` has the
  hypothesis `OffersSameCents`, that fiat prices are in currencies with as many minor units as the
  envelope's; without it the theorem is false, and the run `routing_yen` is its counterexample.
- **RailPaymentsProofs.** `PricesCover`, `FailuresAreFree`, `SpendingEnds`, `NoncesAreSkipped` and
  `ReceiptsSettleOwn`, for any number of payments.  `RailsInv` adds to them what parse returned
  (`ParsedOK`), what a credential allows once it has been handed out (`SignedOK`), that the node
  only tries for a caller that is still sending, left without a verdict or cancelled (`NodeOK`),
  and that whatever an attempt saw on the chain has been sent with another nonce (`Avoids`).  Last
  needs that the pending count is no nonce of the pool (`PendingNonce`), a counting argument: a
  pool of n transactions cannot use n + 1 nonces.  Every step of an attempt is an instance of one
  lemma, which says what an attempt may become without disturbing the others (`AttemptStep`).

Only model-checked: the liveness properties (`ReservationsEnd`, `CallsEnd`, `StartsEnd`,
`CallsReturn`, `EveryoneIsAnswered`), because liveness under fairness is beyond the provers'
reach here, and the parsers of RailChallenges, whose filters of sequences are recursive: the
proofs take what a filter returns as given and assume of it that its amounts are numbers.

## 6. Where code and documentation disagree

- `flow_rollback`.  Every exception other than `PostCommitPaymentError` counts as
  unpaid, but LND's stream can end without a verdict: the draw is rolled back and the
  next rail paid after funds have left.
- `snapshot_both`.  With both refreshers, each erases what the other wrote.
- `routing_yen`.  Between a currency with minor units and the yen, a fiat price is
  converted a power of ten too high or too low.

Behaviour that the models contain and the documentation does not describe, or describes
otherwise; the properties are stated so that they hold beside it, and the notes on the hazards in
`PROJECT.json` say which outcome a property permits:

- *Credentials.* A served credential whose REDEEMED could not be written may be held by another
  caller later.
- *Creation.* `create_envelope_if_absent` checks and creates separately: of two clients that
  start at once, one raises, although the envelope is "created idempotently"
  (`client.py:153`).  `envelopes.create` documents `sqlite3.IntegrityError` for an envelope
  that exists; a caller with the same directory of keys gets `KeystoreAlreadyExistsError`.
  `fetch_rate` lets the XML parser's error through, though its docstring promises
  `FmvUnavailableError` (`ecb_provider.py:36`): a creation is aborted and leaves its key.  If the
  snapshot cannot be written after the INSERT, the caller gets an error and the envelope exists.
- *Providers.* An ECB table that lacks a currency makes it unavailable for the rest of the
  day.
- *Connection.* Once a caller was cancelled, another call's settlement may run inside its
  draw's transaction, and the ROLLBACK of that draw takes the settlement with it.
- *Rails.* A pico invoice is priced 0, though `_bolt11.py:26` says it is rejected, and the
  node pays it; parts of a satoshi are not counted.  The x402 price is that of the first
  exact entry, and the SDK may sign another.  Expiry of a macaroon or challenge is not
  looked at again before the payment.  A cancelled `pay_invoice`, and one whose stream
  ended, leave the node paying.  Several `Payment` challenges in one header are merged.
  x402's settlement goes by the `PAYMENT-RESPONSE` header, whatever the status.  An MPP
  receipt's `reference` is recorded without being compared with anything (`_mpp_http.py:386`), so a
  receipt for the right challenge may carry another payment's; `ReceiptsSettleTheirChallenge` is
  about the challenge only.  A negative
  Tempo amount is accepted and fails at the signature.  `pay` on two attempts at once may
  sign the same Tempo nonce.
- *Traces.* "Every call ... produces exactly one" event (`trace/schema.py:74`), but one whose
  first request fails in the transport leaves none; a refused receipt costs a paid call
  its event, and a hold adds a second one, even if the hold could not be written.
- *Client.* A client with a spec that is used without `start()` has nothing bound and makes
  no draws.

## 7. Not modelled

- Signatures, hashes and encodings (receipts, EIP-712, macaroons, RLP, base64, JSON) are
  abstracted to the values they carry; the syntax of headers likewise.
- The SQL of the refreshers and of the creation on the shared connection: it writes other
  tables, in single statements, and none of the properties of StoreConnection is about them.
- The values of rates: FmvConversion takes any, FmvProviders keeps only their age.
- Recovery manifests are static data with path templates; which URL a replay addresses is
  part of its outcome.
- The wiring of a client's adapters, stores and sinks, and the closing of its pools.
- Tempo's offline mode, in which an empty `rpc_url` makes every nonce 0.
- Logging, and the matching of URLs and networks to a rule (an input of Routing).

A spend whose confirm
failed or whose request was cancelled between payment and confirm is missing from the
ledger; the code promises nothing else, the model contains both, and `SpendIsRecorded`
is stated for flows that ran to their end.

## 8. Plan

1. Done: all components that decide over money or keep state that survives a call, with a
   proof of every safety property.
2. Proofs: that AtomicStore's steps are those of BudgetLedger, so that the cap carries over to
   the connection; that Routing's choices are among those of PaymentFlow's `Route`.
3. Models: a client used before `start()`, with its flow; the verification of receipts; the
   refreshers' statements on the shared connection.

# Formal verification of the Stellar Kraal backend

TLA+ models of the parts of this repository that keep state and can go wrong
in an order nobody wrote a test for, TLC configurations that check them on
small instances, and proofs checked by TLAPS (tlapm 1.4.5) that hold for every
value of the constants. `PROJECT.json` maps every definition to the lines it
models and lists runs, mutants, findings, hazards and theorems.

Run a check with `tlc -config <file>.cfg <module>`, and the proofs with
`tlapm <Module>Proofs.tla`.

## 1. The system and its parts

| Part | State it keeps | Operations | Talks to | Modelled in |
|---|---|---|---|---|
| Lending contract (`contracts/stellarkraal/src/lib.rs`): control plane | admin and nominee, pause flag/expiry/duration, liquidator list and its count, code hash and pending upgrade | initialize, pause, unpause, set_pause_duration, propose_new_admin, accept_admin_role, add/remove_liquidator, propose/execute/cancel_upgrade | the other entry points read `is_paused_raw`, the admin, the list | `KraalGovernance` |
| Lending contract: price feed | oracle registry and quorum, last price and its time, running sum, count and average | update_oracle, add/remove_oracle, submit_price, submit_oracle_prices | lending entry points read the effective price | `KraalOracle` |
| Lending contract: loans | collateral and loan records, risk and fee parameters, token balances | register_livestock, update_appraisal, request_loan, repay_loan, liquidate, emergency_withdraw, the setters | token contract, price feed, pause | `KraalLending` |
| transfer_collateral | none | a stub | nothing | no: it changes no state |
| Carbon credit token, carbon oracle, marketplace (`contracts/carbon_*`) | balances, allowances; registry and prices with an age | mint, burn, transfer, approve; submit_price, get_median_price; purchase cost | marketplace reads the oracle | no, see 7. `carbon_credit/src/lib.rs:158` does not parse as Rust |
| Oracle bridge (`oracle-bridge/src`) | `state.json` per instance, shared `latest.json`, memory | submission, backup and standby loops; the `promote`, `backup`, `restore` commands | the network, the shared backup volume, other processes on the same files | `OracleBridge` |
| Bridge resilience library (Python) | none | one delay formula | nothing uses it | no |
| Loan indexer (`src/services/soroban.service.ts`) | cursor in memory, Loan and Livestock rows | pollEvents, handleLoanCreated, handleLoanStatusChange | Soroban RPC, database | `LoanIndexer` |
| Bulk retirement (`src/controllers/retirements.controller.ts`) | Loan rows | bulkRetireLoans, retireLoansOnChain | the contract, the indexer's rows | `LoanIndexer` |
| Idempotency (`src/middleware/idempotency.ts`) | stored answers and processing marks | the middleware before bulk retirement | database | `Sessions` |
| Livestock and loan requests (`src/controllers`) | Livestock rows, the promises of mints | registerLivestock with its background mint, updateLivestock, requestLoan, getLoanById, getMyKraal, getMarketLoans | the contract, the indexer's rows | `LivestockRequests` |
| Authentication (`src/services/auth.service.ts`) | pending challenges, users, JWT secrets | challenge, login, rotation, requireAuth | every route | `Sessions` |
| requireRole, rate limiter, error handler | a library's counters | guards of requests | | no |
| Price events (`src/services/price-events.service.ts`) | registered SSE clients, price rows | publish, stream, history, latest price | database, browsers | `PriceFeed` |
| Oracle aggregation, appraisal (`src/services`) | none | median, outlier rejection, tables, multipliers | registration | `Appraisal` |
| Monitoring (`src/monitoring`) | stream statistics, samples, windows, times of alerts | stream, four rules, dispatch, webhook, /health | Horizon, webhook | `Monitoring` |
| Server, app, config, logging, secrets | none of their own | wiring and I/O | | no |
| Wallet manager (`frontend/src/lib/wallet`) with its hooks, modal and provider | page state, saved session, active WalletConnect session | initialize, connect, disconnect, switchWallet, signTransaction | four wallets, localStorage | `Wallets` |
| Frontend components; ABI gate; scripts | none | rendering; single-pass tools | | no |

What is hard in each part, line by line, is the `hazards` list of
`PROJECT.json`. In short: on the contract calls are atomic, so the difficulty
is long *sequences* of legal calls, rounding, and values read at different
times; in the bridge two processes write one file; in the backend every
`await` lets other requests and polls in; in all of them a restart keeps the
disk and loses the memory.

What makes the parts correct: the contract's books balance and its parameters
cannot be turned against an open loan; a bridge instance serves only when it was
made primary and counts only what was accepted; a mirror row never runs ahead of
the chain; an animal is minted once and a rejection is true of it; a challenge
is used once, and a token outlives a rotation; a request answered before is not
run again; a price client misses no event once its chart is drawn; an alert is
spaced by its cooldown; the wallet shown is the wallet saved and the one that
signs.

## 2. Modules

```
KraalGovernance <- KraalOracle <- KraalLending <- KraalLendingProperties
      |                |              (INSTANCE LoanLedger WITH book, pool)
      |                |                     |-- MCKraalLending
      |                |                     `---------.
      |                `-- KraalOracleHistory --------- KraalContractProofs
      `-- KraalGovernanceHistory ---------------------'
OracleBridge <- OracleBridgeHistory <- OracleBridgeProofs
LoanIndexer  <- LoanIndexerHistory  <- LoanIndexerProofs
Appraisal <- LivestockRequests <- LivestockRequestsHistory
                                    |-- MCLivestockRequests
                                    `-- LivestockRequestsProofs
Sessions   <- SessionsHistory   <- SessionsProofs
Wallets    <- WalletsHistory    <- MCWallets, WalletsProofs
PriceFeed  <- PriceFeedHistory  <- MCPriceFeed, PriceFeedProofs
Monitoring <- MonitoringHistory <- MCMonitoring, MonitoringProofs
```

A `...History` module adds variables that no code reads (who nominated, how
long a hash has been pending, which samples are in the average, who was ever
promoted, which events were given up, when a key was last alerted) and states the properties with them.
Operators called "Mutant of X" are plausible bugs of X; each property is
violated when the X named in `PROJECT.json` is replaced by its mutant.

**KraalGovernance, KraalOracle, KraalLending.** A Soroban invocation either
returns `Ok` and keeps its writes or fails and keeps none. So one entry point
is one action, enabled exactly when it returns `Ok`; a failed call is
stuttering. `now` is the ledger timestamp and moves between invocations.
Records are written in the invocation that draws their id, so the counters are
lengths of sequences. Authentication (`require_auth`) is the caller parameter.
`KraalLending` takes the pause, the admin, the whitelist and the price from the
modules below it and moves together with them: its `Next` is any step of any
of the three. The control plane alone is `ControlSpec` of
`KraalGovernanceHistory`; with the price feed, but without loans, it is
`FeedSpec` of `KraalOracleHistory`. The median of a submission is
defined by order statistics: `SortedAt(prices, k)` is the price with fewer than
k prices below it and at least k not above it, which is what stands at place k
after the contract's sort. Storage TTL, published events and read-only queries are left out,
and amounts stay far below i128, so overflow is not modelled.

**LoanLedger** is what lending promises whatever collateral and prices do: the
pool pays out only to open a loan or to be emptied; debt falls only against
tokens received; a loan closes exactly when its debt is gone, and stays closed.
`KraalLending` implements it under `book <- Book` (what each loan owes, and
whether it is Active) and `pool <- balance[Contract]`.

**OracleBridge.** A Node process runs to its next await without interruption,
but `npm run promote` is a process of its own. A bridge process takes one step
per read or write of its `state.json`; a promotion takes one step up to its
await of the signing key and one after. A state is reduced to role and cursor.
`MayPromote` is the runbook's condition (nobody is serving) and is external. The
`restore` command, half-written files, health endpoints and secrets are left out.

**LoanIndexer.** Code is atomic up to its next await: a handler reads the loan
in one step and writes it in a later one. Three simplifications: the borrower
and the livestock are looked up in the step that writes the loan; a chunk's
landing and its confirmation are one step unless it counts as failed; one
retirement request reads its list once. Events are in the order of their
ledgers, so a poll takes the stretch of the event log between
`Before(cursor)` and `Before(ledger)`, cut to a page. The chain is external and is the
contract *this service expects*: it waits for `LoanCreated`, `LoanRepaid` and
`AssetLiquidated` and calls `retire_loan`, whereas `contracts/stellarkraal`
publishes other topics (`loan`/`requested`, `loan_repaid`, ...) and has no
`retire_loan`. Against that contract no event would be recognised.

**Appraisal, LivestockRequests.** `Appraisal` is arithmetic in whole numbers:
tenths of a cent per kilogram, multipliers in twentieths, values in cents with
the code's two roundings. The market feed of the source is a stub that answers
null, so the module also takes the answers of a feed that works. One of them
shows that two feeds which disagree by more than `MAX_DEVIATION_PCT` of their
mean are *both* outliers, and that the code's `median([])` then throws: such a
registration fails (`RegisterFails`). In `LivestockRequests` every request is a
step per await; a mint is a promise that goes on after its request was answered
and reads, in this order, the account, the network and the row. `Market` is the
list of active loans by `createdAt`, newest first: `Newest(k)` is the one with
k - 1 active loans after it. Transactions,
ledgers and the loans of the contract are external; the writes of the indexer
to the two tables are one action here and are modelled in `LoanIndexer`.

**Sessions.** One public key and one idempotency key, since neither shares
state with another. `pending` is the in-memory map of challenges, `env` what the
process was started with, `printed` what the rotation script printed: deploying
it later means less of the overlap is left. A request of the idempotency
middleware is at one of its four awaits; its two last writes are not awaited by
anyone and land, fail or get lost in a crash on their own. A failing read
passes for "nothing stored", as the service's catch clauses have it, and a
failing mark leaves the request without an answer.

**Wallets.** One page and its reloads. The manager's operations are steps per
await; operators named after the adapters' methods say what each wallet answers
in the browser's present state, so that a difference between adapters
(Freighter's `detect` and empty address, WalletConnect's active and restored
sessions) is a difference between two definitions. Users, extensions and phones
act at any time.

**PriceFeed.** A publication takes its time, writes its row and then broadcasts;
a stream reads the latest price, then greets and registers, then lives until
its timer or its close. `publishPriceEvent` has no caller yet and the routes are
not mounted in `app.ts`; the module says what they do once they are.

**Monitoring.** Between two messages JavaScript runs an invocation through the
rules without interruption, except where an alert is sent. So at most one
invocation is in a rule (`Busy`) and any number are waiting for the webhook.

## 3. Runs

| Run | Instance | What it shows |
|---|---|---|
| `governance` | 2 addresses, 3 hashes, time 1..5 | The whitelist count is exact; a nomination dies with the admin who made it; a pause is bounded whatever set_pause_duration does, and ends by itself; code changes only to a hash pending for the whole timelock. |
| `oracle` | 3 addresses, up to 3 oracles, 4 prices, time 1..4 | The registry fits the sorting buffer without duplicates; the average lies between the samples since its restart; a minority cannot move the median out of the majority's range. |
| `lending_shared` | 2 collaterals, 2 loans, one farmer, every id list of length 1 and 2 (doubled ids included) | Records stay well typed; status and debt agree; `loan_id` is the latest pledge; lending implements `LoanLedger`. |
| `lending_parameters` | 1 loan, every setter, pauses, a price, two appraisals | Repayment is never blocked; a loan is healthy when made; health falls only with the market or the threshold; only a close factor of one lets a liquidation close a loan. |
| `bridge` | a primary and a standby, 3 submissions, 2 in flight | A backup is a primary's; nobody becomes primary without a promotion; cursors never count what was not accepted; a running primary counts forward; a flipped role is noticed. |
| `indexer` | 2 loans, 3 ledgers, 1 poll, 1 request in two chunks, 1 restart | A row never claims what the chain has not done; between polls the mirror is right about what the cursor has passed; a closed row stays closed through replays; the poller is never stuck. |
| `livestock` | 1 animal registered twice by 2 farmers, 1 other request, 2 polls per mint, a transaction valid for 1 pause, 1 foreign transaction, 2 feed answers, restarts, market pages of 1 and 2 loans | Only one registration is minted; a rejection by timeout stays true; what requests answer is backed by the chain; verifications are not undone; every mint settles. |
| `sessions` | 2 challenges, 2 logins, 3 secrets, 3 requests with one key, overlap 1, tokens of 2 ticks | One login per challenge; a deployed rotation logs nobody out who used the secret in force; a repeat of an answered request runs nothing. |
| `wallet` | 4 wallets, browsers with none or one extension, 1 address, 2 WalletConnect sessions, 2 calls | The wallet that is shown is the one saved, and a WalletConnect page signs with the address it shows. |
| `price_feed` | 4 events of 2 credits, 2 of them oracle updates, 1 client, history of 2 rows | A client with a chart misses no event; a client that left during its greeting is ended. |
| `monitoring` | 2 invocations at once, 4 kinds of operations, 3 instants, windows of one tick | Alerts of one key are a cooldown apart. |
| `collateral_lock` | the constants of `lending_shared` | Expected to fail: a disagreement between the code and its own comment; see 6. |

**Bounds.** `MaxTime`, `MaxSamples`, `MaxCollaterals`, `MaxLoans`,
`MaxInFlight`, `MaxAccepted`, `MaxLedger`, `MaxRestarts` and, in `Pause`, the
conjunct that keeps the expiry inside the explored time, only cut the
exploration. Inputs are small sets (`Prices`, `Amounts`, ...). They are chosen
so that the interesting case happens: the clock passes a full timelock and the
longest pause; a gap longer than the window follows an average of two samples;
a pledged collateral is pledged again; amounts are below, at and above the debt;
with BPS = 4 one division in two rounds; a promotion is overtaken by the primary
it makes; a restart replays both events of both loans during a retirement. The
units of BPS, YEAR and the durations are scaled down, which changes no guard.
In `lending_parameters` one loan on one collateral is enough because its
properties speak of one loan at a time; sharing is the other run's question.

In `livestock` the poll attempts (2) outlast the validity of a transaction (1
pause) as 20 polls of 3 seconds outlast 30 seconds: this order, and not the
numbers, is what `RejectedIsNotMinted` needs. Page limits of 1 and 2 make a last
page that is full and one that is not. Two registrations of one animal
and one free request are the smallest instance in which each await of one can be
overtaken by another. In `sessions` three secrets allow a second rotation inside
the overlap of the first, and three requests a first, a repeat and a later one.
In `wallet` two calls overlap at every await; browsers have at most one
extension beside WalletConnect to keep the run short (with Freighter and Lobstr in one
browser both properties hold as well, over 3.3 million states), and one browser
answers for Freighter without having it. The second topic has no accounts, so a
session without an address is there. In `price_feed` one client is enough, since
clients share only the bus, and three events of its credit overflow a history of
two rows. In `monitoring` a large value trips three rules at once, and the
cooldown of two ticks fits once into the time.

`SYMMETRY` is used in runs without liveness properties only: `sessions` (challenges, logins,
requests) and `wallet` (calls).

`indexer` has one poll at a time, which the code does not guarantee; with
two (`Poll = {p, q}`) TLC finds `TerminalStays` violated: see 6. Its page holds every event: with
`PageLimit` smaller than a ledger's events `MirrorAgrees` fails, because the
cursor steps over the rest of a ledger whose first events filled a page
(`soroban.service.ts:439`). The same invariant leaves out loans an event of
which was given up (a failing database, an unregistered borrower) and loans
created and closed in one ledger, whose closing event is taken for a replay;
the code promises nothing for these, and the exclusions say where it fails.
`CHECK_DEADLOCK FALSE` appears where the bounded instance can be finished:
everything polled (`indexer`), every animal registered (`livestock`), every
login and request made (`sessions`), every event published (`price_feed`).

**Fairness.** Five liveness properties. `PauseEnds` assumes only that time
passes (`Tick`); nobody is obliged to call the contract. `FlippedRoleIsNoticed`
assumes that a standby's timer fires and its tick ends, as `setInterval` in a
live process does; starting, stopping and promoting are not fair.
`EventsAreReached` assumes the poll timer and the settling of the handler's
promises; the chain, registration, retirement, restarts and failures are not
fair. `MintSettles` assumes that pauses pass and that each mint's next step
comes, an answer or an error: `setTimeout` and promises of a live process. It
holds without any fairness of the network because the polls are counted.
`LeftoversEnd` assumes only the timer of a registered client. `sessions`,
`wallet` and `monitoring` state safety only. All are weak fairness per process: each of these actions stays enabled
until taken, or another step of the same process replaces it.

## 4. Proofs

Proved by TLAPS for every value of the constants that satisfies the named
assumptions (`GovAssumption`, `OracleAssumption`, `LendingAssumption`,
`BridgeAssumption`, `IndexerAssumption`, `RequestsAssumption`,
`SessionsAssumption`, `WalletsAssumption`, `PriceFeedAssumption`, `MonitoringAssumption`), without any bound on addresses,
loans, amounts, requests or time beyond the constants. The assumptions say that
numbers are numbers, that inputs are of their types, and that "nothing" is not
something. Those with content are: `MIN_LTV`, `MAX_FEE` and the first parameters
lie where the contract's checks put them; four wallets; and `TX_TIMEOUT <=
MaxAttempts` in requests, since a transaction is valid for 30 seconds, ten
pauses, and is polled twenty times. Each invariant used below was first checked
by TLC on the instance of its run.

**The contract**, one module, `KraalContractProofs`, whose parts rest on each other.

* The control plane: `TypeCorrect`, `WhitelistCountCorrect`,
  `NominationCorrect`, `PauseBounded`, `TimelockHolds`, `PauseEndIsFixed`. `ControlInv` conjoins the type
  invariant, the first two properties and two strengthenings. `PauseInv` relates
  expiry, declaration and cap also when the pause is over, since an expired
  pause leaves its flag and expiry behind. `UpgradeInv` says that hash and clock
  are present together and that the clock never starts before the hash was
  proposed, which is what a later execute relies on.
* The price feed: `OracleTypeCorrect`, `AverageCorrect`, `MedianIsRobust`.
  The average is a rounded quotient, so `MeanInv` keeps the sum between
  `lowest * count` and `highest * count`, and the division comes last.
  For the median, places are counted: the honest prices are a majority of the
  submission, so one of them stands at or below the middle and one at or above
  it (`MajorityHoldsPlace`, `MajorityHoldsMedian`); that a sorted place exists
  at all is shown with a least natural number (`LeastNat`) and not by running a sort.
* Loans: `LendingTypeCorrect`, `StatusCorrect`,
  `LiquidationLeavesDebtCorrect`, `LendingImplementsLedger`, `HealthyWhenMade`,
  `HealthFollowsMarket`, `LocksNameNewestLoan`, `RepaymentsAreAccepted`. `IInv` has three parts. `BooksInv` is
  types and `StatusFollowsDebt`: types alone are not inductive, since that a
  repayment never drives principal below zero needs interest-before-principal
  (`RepaymentSplits`), and that a partial liquidation keeps the debt positive
  needs the rounding lemma `Share` with a positive debt. `PricesInv` is taken
  over from the feed's proof, and `BackedInv` says that every loan lists
  collateral that exists. The refinement maps request_loan to `Open`, repay_loan
  and liquidate to `Collect`, emergency_withdraw to `Drain` and every other step
  to a stutter. For health, the sum over a list (`SumFunction` of the community
  modules, a recursion) is shown to be natural, positive and monotone by looking
  at a smallest set of places for which it is not (`Sums`); then
  `WorthInv`, every list has a positive value, removes the fallback of
  `HealthFactor`, and two lemmas on rounded quotients (`OriginationRatio`,
  `RatioGrows`) finish: a loan within its ratio is healthy at a threshold not
  below it, and more value or less debt is never less health. `LocksInv` follows
  `loan_id`: it names the newest loan that lists the collateral, so a later loan
  takes the lock over (see 6) and no repayment or liquidation gives it back.
  `RepaymentsAreAccepted` goes through the guards of `repay_loan` and the
  balances that its two transfers need.

**The oracle bridge.** `OracleBridgeProofs`: `BridgeTypeCorrect`,
`BackupCorrect`, `CursorsCorrect`, `PromotionNeeded`, `PrimaryForward`. None of
these is inductive alone. `CountsInv` leaves room in a cursor for the
submissions accepted and not yet reported back, and says that only a primary has
any. `RoleInv` says that a primary is one in memory and on disk. `OriginInv`
follows the primary's role through memory, disk and promotions back to the
configuration or a promotion. `FlippedRoleLasts` rests on the same invariants: a
restored backup is a primary's, and a standby has no submission whose answer
could be written over the flipped role.

**The backend.**

* `LoanIndexerProofs`: `IndexerTypes`, `MirrorIsBehind`, for any number of
  overlapping polls, requests and restarts. `EventsInv` orders the event log and
  says that the contract stands by each event; `PollInv` ties batches and cursor
  to closed ledgers; `RowInv` ages the rows; `RetireInv` follows a request's chunks.
  `TerminalRowsStay` and `MirrorIsRight` assume a single poll at a time (`Poll =
  {s}`), without which they are false, see 6. The first adds `WriteInv`: a poll about
  to write a creation found no row. `MirrorIsRight` adds where the poll stands
  (`ReachedInv`): the events before its place are settled in the mirror, its
  batch is the next stretch of the log, and what comes later lies beyond the
  cursor. With `ClosedInv` and `ActiveInv` that gives `MirrorAgrees` whenever a
  page holds what waits in closed ledgers (`MirrorIsRightPaged`, where this is a
  hypothesis on the behaviour). `MirrorIsRight` removes that hypothesis for
  pages of two events per loan: the contract creates a loan once and closes it
  once (`OnceInv`), which bounds the log by two injections into the loans.
  `PollsGetOn` needs no such hypothesis: for any number of polls and any page size.
* `LivestockRequestsProofs`: `RequestsTypes`, `MintsAreTrue`,
  `VerificationIsFinal`, `AnswersAreTrue`. `Follows` is the heart of it: while a
  transaction can still land, its pauses left and the polls already made add up
  to at most `TX_TIMEOUT`, so a mint that gives up has a dead transaction.
  `RowInv` lets one registration of an animal insert its row; `DoneInv` keeps
  what a finished mint wrote true while edits and other registrations go on;
  `VerifiedInv` and `CallInv` say that what a request read before an await still
  holds after it. For the market pages `RankIsOnto` shows that "the loan with k
  later ones" exists for every k up to their number, and a division lemma
  (`PlaceOnce`) gives each place exactly one page.
  Of `Appraisal`: `TwoSourcesAgreeOrNone` computes the sorted places, the median
  and the outliers of the two answers in closed form, `MarketMovesPriceLittle`
  draws the conclusion for the price, and `LoansFollowAppraisals` carries the
  value of a registration through rows, edits and reads to the parameters of a
  loan; `AppraisedInv` says that a row's value and owner are those of one
  registration that inserted it. `MintsRunDown` gives each mint a rank of at most
  `MaxAttempts + 4`.
* `SessionsProofs`: `OneLoginPerChallenge`, `RepeatsAreAnswered`,
  `RotationKeepsSessions`. `ChallengeInv`: a challenge that a login went past is
  pending no more. `PrintedInv`: what the rotation printed carries the secret in
  use. `StoredInv`: repeats exist only while an answer is stored.
* `PriceFeedProofs`: `ChartsAreComplete`. `RowsInv` gives an event one row, so
  that a history no longer than its limit is read whole; `OpenInv` keeps a client
  that is there and greeted registered, whoever publishes or closes meanwhile.
  `LeftoversAreTimed`: who is registered has been greeted (`TimedInv`).
* `MonitoringProofs`: `AlertsAreSpaced`, for any rules, windows and number of
  invocations. The times that the code keeps and the times that alerts really
  went out are one function, because a key is marked before the await.

**The wallets.** `WalletsProofs`: `ShownIsSaved`, `ShownSigns`, with any number
of overlapping calls. `StartInv` says that nothing is shown or under way before
`initialize` is done, and `SignInv` that a WalletConnect page shows the account
of the active session.

Every safety property that a run checks is thus stated by a theorem, except
`RepayNeverBlocked`. Only model-checked are that property, which is about ENABLED,
and liveness under fairness (`PauseEnds`, `FlippedRoleIsNoticed`,
`EventsAreReached`, `MintSettles`, `LeftoversEnd`): both are out of the prover's
reach. What is left to TLC there is small, since the part that is neither ENABLED nor
fairness is proved:

| Property | Proved | Left to TLC |
|---|---|---|
| `RepayNeverBlocked` | `RepaymentsAreAccepted`: every guard and balance that `repay_loan` asks for is there | that the action, its guards true, is enabled |
| `PauseEnds` | `PauseEndIsFixed`: nothing moves the end of a pause, and its moment is its end | that time passes |
| `FlippedRoleIsNoticed` | `FlippedRoleLasts`: nothing takes the flipped role back, and the next tick acts on it | that the timer fires |
| `EventsAreReached` | `PollsGetOn`: an idle poll has events to fetch, handlers lower a rank, the cursor passes what they leave behind | that timers fire and promises settle |
| `MintSettles` | `MintsRunDown`: each step of a mint lowers a bounded rank | that each mint's next step comes |
| `LeftoversEnd` | `LeftoversAreTimed`: the timer of every registered client runs, and only its end and the next event remove a leftover | that the timer fires |

Of `AppraiseLivestock`, what follows the price (weight, age and health
multipliers and the rounding) is proved to give a natural number and is
otherwise the reader's to compare with the code.

## 5. Reading the properties

* `HealthyAtOrigination` assumes `ltv <= liqThr`, which `initialize` checks and
  the two setters later do not: with a threshold set below the ratio a new loan
  can be liquidated at once.
* `HealthFactor` falls back on the value at origination when the collateral
  counts for nothing (`lib.rs:1544`). The proofs show that this never happens:
  appraisals and counts are positive when they are accepted and stay so, and so is
  the cap on a value that a positive price gives. Health always follows the market.
* `FlippedRoleIsNoticed` speaks of a standby *between* two ticks. A promotion
  that lands inside a tick, after the role was read, is overwritten by the sync
  and lost; the run explores that and the property leaves it out.
* `OnlyPromotionMakesPrimary` bounds who can be primary, not how many: see 6.
* `RepeatsRunNothing` speaks of repeats sent while the answer is stored. The
  answer is sent before its row is written, so a repeat sent at once runs again,
  and so do two requests that overlap.
* `SessionsSurviveRotation` speaks of tokens under the secret in force. A second
  rotation within the overlap of the first loses those of the oldest secret, and
  every deployment forgets the pending challenges.
* `SavedIsShown` leaves out calls made before `initialize` is done and
  `clearExpiredSession` acting on what it read at mount: a restore that lands
  after a connect shows the old wallet and keeps the new one saved.
* `NothingMissed` needs a history no longer than its limit, since
  `getPriceHistory` returns the *oldest* rows; the price of the greeting may
  itself be out of date.
* `VerificationStays` and `MintsAreSound` leave out mints whose answer was lost:
  the catch of `registerLivestock` takes a failed update, or a poll that threw,
  for a failed mint and rejects an animal that is on the chain.
* `ParametersAreBacked` does not say that only one loan is requested for an animal: two
  requests at once can both be given parameters. `ListsAreBacked` is about one moment: a loan made
  while a client turns pages moves the others on, as with any page counted by offset.
* `MAX_PAUSE_DURATION` is 518,400 s, which is six days; the comment beside it
  says about thirty. The model takes the number.

## 6. Where code and documents disagree

`collateral_lock` is a run that TLC ends with a counterexample: `request_loan`
lends again on collateral locked to an active loan (`lib.rs:577`, against the
comment at `lib.rs:157`). The rest was met while modelling; each is a behaviour
of the models that no property forbids:

* the average keeps samples older than the TWAP window as long as prices keep
  arriving (`lib.rs:1328`, against `lib.rs:237`), and `submit_price` accepts
  prices at and above `MAX_PRICE` (`lib.rs:1320`, against `lib.rs:68`);
* a promotion takes effect on disk before the key is resolved (`promote.ts:33`,
  against `docs/ops/oracle-bridge-dr.md:123`), and a recovered primary comes up
  as a second primary (`state.ts:62`, against line 127);
* overlapping polls roll a REPAID loan back to ACTIVE (`soroban.service.ts:399`,
  against the guard's comment at 484);
* the modal reads an `isConnected` that its context does not provide, so the
  wallet in use is never left before another is connected; `useWallet.connect`
  never connects a lone extension, since WalletConnect always counts as
  installed; after a reload a WalletConnect page has no active session, so that
  it shows an address, cannot sign, and leaves the phone's session behind when
  it disconnects;
* `monitoring/types.ts:47` says that rules are fed every invocation in order;
  rules after an alert that is being sent see them out of order. An alert that
  fails counts as sent. `/health` goes by the lag of the last event and not by
  its age (`monitoring/config.ts:80`): a silent stream stays healthy.

## 7. Not modelled

* The carbon credit token does not compile. The carbon oracle and marketplace
  are atomic calls over one price list; a purchase computes a cost and moves
  nothing.
* `transfer_collateral`, the Python resilience formula, the ABI gate and the
  scripts other than the rotation: no state, or one pass over text.
* The table, pagination and status components of the frontend: one synchronous
  state each. The network mismatch hook, the test hook of the wallets, and two tabs
  that share one storage.
* Rate limiter, error handler, requireRole, profile reads and updates, single
  reads of a loan or an animal: a library's state, or none.
* Signatures, XDR, JSON and the database engine: taken to work, with their
  failures as actions where the code handles them. Half-written bridge files.
* Storage TTL and i128 overflow of the contract; `aggregate` and `isStale` of
  the oracle aggregation, which nothing calls.
* In `LoanIndexer`, a page smaller than a ledger's events is a constant away and
  not a run; in `Monitoring`, the decoding of operations is an input.

## 8. Next

* The liveness properties as theorems, once the prover handles ENABLED: their
  well-founded and invariant halves are there (section 4).
* Token conservation over all accounts: the sum of a function over a set is a
  recursion, about which only what a smallest counterexample gives (as in `Sums`)
  can be proved.
* A page smaller than a ledger's events and overlapping polls as expected
  violations of the indexer, once a document states what should hold for them.

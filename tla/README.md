# MyCryptoCoin backend: a verification project

TLA+ models of the payment platform in `src/backend`, model-checked with TLC on
small instances, and theorems about them proved with TLAPS for every value of
the constants. The code read is `src/backend/src/**`, the Prisma schema
`src/backend/prisma/schema.prisma`, and the claims the repository makes about
itself in `src/README.md`, `src/docs/**` and the comments of the code. The
repository has no tests of this code.

Contents

1. The system: parts, state, interactions, what is hard
2. The modules, and how their state and actions correspond to the code
3. What each run checks, its bounds and what it shows
4. Fairness
5. What is proved
6. Where the code and what is said of it disagree
7. What is only model-checked, what is abstracted, what is not modelled

## 1. The system

Merchants receive cryptocurrency: a customer pays to a generated address, a
monitor sees the transaction and its confirmations, the platform takes its fee,
credits the merchant's wallet (converting to USDT where asked), and calls the
merchant's webhooks. Merchants withdraw from the wallet; large withdrawals wait
for the administrators of a multi-signature approval. Everything is an Express
server, run as three replicas over one PostgreSQL database (through Prisma) and
one Redis. There are two engines for the background work: timers inside the
server (`server.ts` starts `paymentService.startMonitoring` every 30 s and
`withdrawalService.startProcessing` every 10 s), and BullMQ workers under
`workers/`, whose start functions are exported and called by nothing in `src`.
Were both started they would work on the same rows; as the program stands they
never meet, and the models keep them apart.

All handlers are `async` functions. JavaScript runs the code between two
`await`s without interruption, but at every `await` any other request of this
process or of another replica may run; a lock or a transaction has to be asked
for, and mostly is not. That is where nearly everything hard in this code is.

| Component (under `src/backend/src`) | State it keeps | Operations | Talks to | What is hard | What makes it correct |
|---|---|---|---|---|---|
| **Withdrawal approval** `services/withdrawal-approval.service.ts` | approval fields of `withdrawals`, rows of `withdrawal_approvals` (unique per withdrawal, administrator and action), Redis key `withdrawal:cooling:<id>` with a TTL | submitForApproval, approveWithdrawal, rejectWithdrawal, emergencyApprove, updateThresholds | pushes on `withdrawal:queue`, increments the wallet | status and count are read several awaits before they are written; a request can die between any two writes | an approval is backed by enough administrators; a rejection refunds once; the cooling period holds; decisions are carried out |
| **Withdrawal request and payout** `services/withdrawal.service.ts`, `services/wallet.service.ts` | status of `withdrawals`, wallet balance, Redis list `withdrawal:queue` | requestWithdrawal, processWithdrawalQueue, executeWithdrawal, debitBalance | chain, webhooks, approval service | concurrent debits; failures before and after the broadcast end in one catch clause; RPOP removes before executing; the timer overlaps itself | no overdraft; each withdrawal is sent or refunded, once; reserved funds are settled |
| **Withdrawal worker** `workers/withdrawal.worker.ts` | Redis lock (10 min) and nonce counter per chain, BullMQ attempts, dead letters | lock, verify, nonce, sign and broadcast, record, monitor; catch clause | chain, the queue library | a blocked run wakes up next to its successor; retries after the broadcast; the counter is seeded by whoever finds it new | what was given up is not broadcast any more |
| **Payment monitoring** `services/payment.service.ts` | status of `payments`, rows of `transactions`, `conversions`, `fee_records`, Redis sets of monitored and of confirming payments, pending balances | createPayment, verifyPayment, checkPendingPayments, checkConfirmingPayments, checkExpiredPayments, processConfirmedPayment | fees, conversion, webhooks | three replicas poll the same payments; read, then update unguarded | credited once; a paid payment does not expire; fee recorded |
| **Payment worker** `workers/payment.worker.ts` | Redis lock (24 h) and credited mark, dead letters | job per payment: check, confirm, credit, mark, notify | the queue library, payments | the lock outlives its run; a job handed out twice | credited once; credited, turned down or in the dead-letter queue |
| **Webhook worker** `workers/webhook.worker.ts` | attempts, dead letters | job per call | merchants | the handler counts attempts BullMQ counts as well | what is given up is in the dead-letter queue |
| **Conversion** `services/conversion.service.ts`, `workers/conversion.worker.ts` | status of `conversions`, fee disbursements | sweep, swap, settle, disburse; the batch | exchanges | chain of jobs and batch call the same functions; a link of the chain is lost | what the exchange should sell is completed only if sold; every conversion ends |
| **Refunds** `services/refund.service.ts` | rows of `refunds`, status of the payment | createRefund, processRefund | wallet, webhooks | sums before it creates; one catch clause before and after the debit | refunds within the payment |
| **Webhook delivery** `services/webhook.service.ts` | Redis list, failureCount, isActive, timers | dispatch, processDeliveryQueue, deliver, updateWebhook, deleteWebhook | merchants | nobody waits for runs and retries; a shared counter | deliveries end; only exhausted deliveries disable |
| **Deposit addresses** `services/wallet.service.ts` | wallets, Redis counter per wallet | getOrCreateWallet, generatePaymentAddress | payments | count, then create; INCR, then seed; indices per currency, paths shared by several | addresses in one currency are distinct |
| **Hot and cold wallets** `services/wallet-management.service.ts` | recorded balances | sweepToCold, autoSweepCheck | chain | balance read minutes before it is used | sweeps are recorded as they happened |
| **Circuit breaker** `utils/circuitBreaker.ts` | state, counters, last failure | execute, trip, reset | calls to nodes | results that arrive in a later state | opens and closes only when earned |
| **Rate limiters** `middleware/advancedRateLimiter.ts` | sorted sets in Redis | burst check, sliding window | HTTP layer | scripts run in another order than their times, and the sets expire | the limit holds in the current window |
| **Exchange rates** `services/exchanges/rate-aggregator.ts` | cached rates | getRate | exchanges | few sources, outliers | no single source decides |
| **Settings** `services/settings.service.ts`, and the same pattern in the approval thresholds and the fraud rules | one row, a copy in Redis that expires | get, update | administrators | an update merges into a copy and writes the whole document | updates are kept; the copy converges to the row |
| **WhatsApp session** `services/whatsapp.service.ts` | socket, isConnected, reconnect timer and count | initialize, connection.update, disconnect | WhatsApp | closes, timers and requests overlap | reconnects or gives up |
| **Start and shutdown** `server.ts` | HTTP server, connections, intervals, force timer | startServer, shutdown | everything | a signal during the start; clients that never leave | the shutdown ends; no request without a database |
| Fees, discounts, invoices, emergency freeze, one-time codes, administrator sessions, Lightning, reconciliation, compliance, fraud checks, cluster mode, HTTP layer, authentication, notifications, configuration, front ends | rows and keys of their own | | | see section 7 | |

The parts in bold have a module. `PROJECT.json` lists every component with its
status, and under `hazards` the places where this code is hard to test, each with
the properties that cover it.

### The seam between the services

The repository is in the middle of a migration from one `crypto` identifier to
a `(network, token)` pair. `withdrawal.service.ts` calls
`walletService.debitBalance(merchantId, network, token, amount)` while
`wallet.service.ts` declares `(merchantId, crypto, amount)`; the data of
`prisma.withdrawal.create` lacks the required `crypto` column;
`cryptoService.sendTransaction` looks up a symbol that no caller passes;
`creditBalance` and `generatePaymentAddress` are called with a network and a token
where they declare one crypto, and the latter counts payments by `crypto`. Read to
the letter, every one of these calls throws, and a type check refuses them. The
models take each call for what its declaration and comments say it does
(`debitBalance` and `creditBalance` are modelled from their bodies) and keep "it
throws" as one of the outcomes. Where the mismatch is in a value the database
compares, nothing throws and the model follows the value: the credit of a conversion
looks for a wallet of the currency `USDT` (section 6).

## 2. The modules

| Module | Models |
|---|---|
| `WithdrawalRecords` | what the withdrawal services share: rows, one settlement wallet, `withdrawal:queue` |
| `WithdrawalApproval` | `withdrawal-approval.service.ts` |
| `ApprovalHistory` | `WithdrawalApproval` with a record of which requests overlapped and which died |
| `ApprovalGate` | the promise of the approval service, without requests, counts, or queue |
| `WithdrawalPayout` | `withdrawal.service.ts` and `debitBalance` |
| `WithdrawalSystem` | both services over the same records |
| `PaymentMonitor` | `payment.service.ts` and the credit of `conversionService.executeConversion` |
| `JobQueue` | a BullMQ job as a worker sees it: `config/queue.ts` and the library (external) |
| `PaymentWorker`, `WithdrawalWorker`, `WebhookWorker`, `Conversion` | `workers/*.ts` and `conversion.service.ts` |
| `Workers` | the four in one process, over `JobQueue` |
| `CircuitBreaker`, `WebhookDelivery`, `PaymentAddress`, `Refunds`, `HotWallet`, `RateLimiter`, `Rates`, `Settings`, `WhatsApp`, `Lifecycle` | one service of the API process each |
| `Services` | the ten in one process |
| `*_proofs` | theorems about `WithdrawalApproval`, `WithdrawalPayout`, `WithdrawalSystem`, `PaymentMonitor`, `Workers`, `CircuitBreaker` and `Services` |
| `FiniteLemmas` | lemmas on sums over finite sets and on orders, for the proofs |
| `MC*` | values of the constants for TLC |

**Grain.** One action is the code between two awaits that touch shared state;
awaits that only read what the properties do not look at are merged with the
step before. A request being served is a record: which await it reached (`at`)
and what it read earlier and will use later (`seen`, `need`). This is what makes
a stale read visible: `ApproveWithdrawal` copies `currentApprovals` into the
record, and `CountApproval` writes `seen + 1` however many others wrote since.

**`WithdrawalApproval`.** `SubmitForApproval` computes the tier of the amount
(`getRequiredApprovals`) and goes on as `AutoApprove`, or as `StartCooling` (the Redis
key with its TTL) and `PublishPending`. `ApproveWithdrawal` (status check),
`CheckCooling`, `RecordApproval` (look-up and unique index), `FullyApprove` and
`Enqueue`, or `CountApproval`, are approveWithdrawal; `RejectWithdrawal`,
`RecordRejection`, `MarkRejected`, `RefundRejected`, `DeleteCooling` are
rejectWithdrawal; `EmergencyApprove`, `RecordOverride`, `MarkOverridden`,
`DeleteCooling`, `Enqueue` are emergencyApprove. `Abort` ends a request at any await,
what it wrote stays. `cooling` is the period itself, `coolingKey` the Redis key that
guards it: the two part when a rejection or an override deletes the key.
`updateThresholds` is the freedom of `SubmitForApproval` to find any member of
`Thresholds`; how they are stored is `Settings`. Nothing in the code calls
submitForApproval and no route reaches emergencyApprove; both are modelled as their
comments describe their use.

**`ApprovalGate`** has only the verdict, the number of approvals asked for and
the voters. `Gate` in `WithdrawalApproval` is its instance: verdict is
approvalStatus, need is requiredApprovals, voters are the rows. Every step of
the service is a step of the gate or leaves it alone; `Decide` says that no
verdict appears without its reason in the rows. **`ApprovalHistory`** adds two history
variables to the service, which no action reads: `raced`, the withdrawals for which two
approvals, or an override and the submission, were being served at once, and `died`, the
requests that died with a row written and not yet what follows from it (`Halfway`). Its
properties name with them the losses the code really has, and so say that there are no
others.

**`WithdrawalPayout`.** `RequestWithdrawal` (balance check and row),
`DebitBalance` (the guarded updateMany), `MarkDebitFailed`, `PushRequest` are
requestWithdrawal. `PopQueue` is the timer's RPOP; it starts a job, and since the
timer does not wait for the previous callback, up to `MaxJobs` jobs run together.
`StartExecution`, `SendTransaction`, `MarkCompleted`, `NotifyCompleted` are
executeWithdrawal; `MarkFailed` and `RefundFailed` are the catch clause of
processWithdrawalQueue, with its `updateMany ... status not FAILED`. `onchain`
counts broadcasts per withdrawal, which no table records. What may go wrong is
one of `FaultSets`, chosen at the start, so that each run and each property says
what it assumes: crash, sendFails, replyLost (broadcast, and yet an error), afterSend (database
or webhook after the broadcast), dbFails, duplicate (ioredis sends an LPUSH
again when a reply is lost; `config/redis.ts` leaves retries on), and autoWithdraw,
which is no failure: the merchant has auto-withdraw on, and a refund may lift the balance
to its threshold. `AutoWithdraw` is the rest of creditBalance: it pushes an item that has
no `withdrawalId`, network or token. `StartExecution` throws on it, and the `updateMany`
of its catch clause has an undefined id, which Prisma leaves out of the condition:
`NotFailed` is then every row (`NoId`). Its own refund has nothing to credit and throws.

**`WithdrawalSystem`** interleaves both over one set of records. The approval
service pushes items without an amount; executeWithdrawal throws on them before
it touches the row, and its catch clause marks the row FAILED and throws again
before the refund. `complete` in a queue item is that difference.

**`PaymentMonitor`.** A payment's row, its rows in `transactions`, `conversions`
and `fee_records`, the Redis sets `payments:monitoring` and
`payments:confirming`, and the cached key. `CreatePayment`, `AddToMonitoring`,
`CachePayment` are createPayment. `CheckPending` (the timer), `LookUpCache`,
`DropUncached` or `ReadPayment`, `MarkDetected`, `Unmonitor`, `Watch`,
`AddPendingBalance` are checkSinglePendingPayment; `CheckConfirming`,
`LoadPayment`, `Unwatch` or `CheckTransaction` are checkConfirmingPayments;
`VerifyPayment`, `CreateTransaction`, `MarkVerified` are verifyPayment, which
ends in `Watch` or goes on to the completion. processConfirmedPayment is
`ReadConversion`, `CreditMerchant` (one transaction with the unique conversion; its
`updateMany` on the wallet changes a row only for the payments in `usdtWallets`, those
whose merchant has a wallet of the currency `USDT`, `CreditWallet`),
`FallBack`, `Settle` (the second transaction, with the unique fee record),
`Cleanup`, `NotifyCompleted`. `ExpirePayments`, `ListExpired`, `ReportExpired` are
checkExpiredPayments. Every call being served takes a slot; calls about one
payment come from several replicas, from ticks of one timer that overlap, and
from the route that verifies by hand. `FundsArrive`, `FundsConfirmed` and
`TimePasses` are the chain and the clock. The transactions are READ COMMITTED,
so two second transactions may both read a status that is not PAID; the unique
index then fails the one that commits later, which ends its job as a PAID
status would. `Settle` is atomic for that reason.

**`JobQueue`** has one record per job: waiting, active with the slot of a run,
completed or failed; attempts; stalls. A run that dies, or is blocked beyond the
lock of its job, loses it: BullMQ hands the job out again without counting an
attempt, once (`maxStalledCount`). A blocked run is not stopped; it goes on later
beside its successor, and what it reports does not count (`Holds`). The four
workers describe their handlers over it.

**`PaymentWorker`.** `ProcessPayment`, `IsAlreadyCredited`,
`AcquireProcessingLock`, `CheckTransaction`, `NotifyUnderpaid`,
`CheckConfirmations`, `ReadStatus`, `CreditMerchant`, `MarkAsCredited`,
`NotifyCredited` are processPayment, `ReleaseProcessingLock` its catch clause,
`FailPayment` and `MovePaymentToDLQ` the failed handler. Two jobs may be about
one payment, since the identifier of a job contains the transaction.
**`WithdrawalWorker`.** `AcquireWithdrawalLock`, `VerifyWithdrawal`,
`MarkProcessing`, `AcquireNonce`, `SeedNonce`, `SignAndBroadcast` (the chain takes
a transaction only with its next nonce), `RecordBroadcast`,
`QueueMonitoring`; `ReleaseNonce`, `MarkFailed`, `MoveToDLQ` and
`ReleaseWithdrawalLock` are the catch clause. `WithdrawalLockExpires` is the TTL.
**`WebhookWorker`.** `LoadMerchant`, `SendWebhookRequest`, `CatchFailure`, which
itself moves a job to the dead letters when `attemptsMade` is high enough.
**`Conversion`.** A run of a job or of a batch is a record with the step it is in.
`ReadForSweep`, `MarkSweeping`, `ReadForSwap`, `MarkSwapping`, `Sell`, `MarkSold`,
`Settle` are the functions of the service (`Sell` executes a market order for the method
`cex_binance` alone; on a DEX it only asks for a quote), `QueueNextStep` the chain,
`ProcessConversionQueue` and `ProcessFeeDisbursements` the batches, `GiveUp` the
failed handler.

**`Workers` and `Services`** compose. The four workers, and the ten services, share
a process and its faults and read nothing of each other's state; a behaviour
therefore follows one of them, its `focus`, with one set of faults, and leaves the
others as they are. Every interleaving within a component is there, and those
across components, which no state relates, are not multiplied. What the workers
share (`JobQueue`) and what the withdrawal services share (`WithdrawalRecords`) is
composed in full.

**`CircuitBreaker`.** `Execute` (`StartCall`, or `StartProbe` when the time-out has
passed), `OnSuccess` and `OnFailure` when the guarded call settles, in whatever state
the breaker has by then; `Trip`, `Reset`. `failureRun` and `successRun` are an account
the code does not keep: how many results in a row there really were.
**`WebhookDelivery`.** `Dispatch`, `PushDelivery`, `StartRun` are dispatch;
`PopDelivery`, `CheckRemaining` a run over the list, which nobody waits for; `Post`,
`RecordSuccess`, `LogSuccess`, `LogFailure`, `RetryTimer`, `CountFailure`,
`CheckFailures`, `Disable` are deliver and its timers; `UpdateWebhook` and
`DeleteWebhook` are the merchant's. To a deleted webhook nothing can be written
(`CanWrite`), neither its row nor a log row that refers to it, so a delivery to it ends
with its run. **`PaymentAddress`.** `FindWallet`, `CountWallets`, `CreateWallet` are
getOrCreateWallet, which numbers a wallet by the wallets of its currency;
`IncrementIndex`, `CountPayments`, `SetIndex` are generatePaymentAddress. An address is
the path of the currency (`PathOf`, one for all EVM currencies) with the two indices.
**`Refunds`.** `FindPayment`, `SumRefunds`, `CreateRefund`, `MarkRefunded`;
`FindRefund`, `MarkProcessing`, `Complete`, `Debit`, `Notify`, and `MarkFailed` for the
catch clause. **`HotWallet`.** `AutoSweepCheck` and `StartSweep`; `ReadBalance`,
`SendTransaction`, `DecrementHot`, `IncrementCold`; customers' coins and withdrawals
change the chain meanwhile (`Traffic`). **`RateLimiter`.** A request takes its time on
arrival and its two scripts run later, atomically, in any order: `CheckBurst`,
`CheckWindow`, `TrackBurst`. The script has its set expire a second after the window,
counted from the time the script ran, and `Tick` removes what has expired; `late` is the
history of scripts that ran more than that second after their request came. **`Rates`.**
`Median`, `FilterOutliers` and `Aggregated` are pure operators; `Aggregate`, `UseCache`,
`UseFallback` the paths of getRate.

**`Settings`.** One document of two fields that validation compares, a row and its copy.
`Ask`, `GetCached`, `LoadDocument`, `FillCache` are the getter; an update goes through
the getter and then `Merge`, `Valid`, `Upsert`, for the platform settings
`DeleteCached`, and `SetCached`. `Expire` is the TTL. The three documents differ in what
they validate, in what the getter does when Redis throws, and in the deletion; the model
has the choice among them. `applied` is the history of the updates written so far.
**`WhatsApp`.** Sockets with the state they have at WhatsApp's servers (external);
`Initialize`, `MakeSocket`, `InitializeThrows`, the handler of connection.update as
`ConnectionOpens`, `HandleClose`, `LoggedOut`, the timer as `TimerFires`, and
`Disconnect`. **`Lifecycle`.** `DatabaseConnected`, `RedisConnected` are startServer,
`Signal`, `Drained`, `QueuesClosed`, `DatabaseDisconnected`, `RedisDisconnected`,
`DisconnectThrows` are shutdown, which may run while the start still awaits; `ForceExit`
is the timer of 30 s; requests and WebSocket clients come and go in `Connections`.

**Seeded faults.** Next to some actions stands a variant named for a plausible
bug (`RecordApprovalTwice`, `MarkFailedUnrefunded`, ...), commented "Seeded
fault". No specification uses it. Put in the place of the action it follows, it
breaks the property `PROJECT.json` pairs it with under `mutants`: the evidence
that the property looks at the code it is about.

## 3. The runs

| Run | Instance | Checks |
|---|---|---|
| `approval` | 1 withdrawal, 3 administrators of whom 1 may override, 3 concurrent requests, 4 thresholds (one tier each and a count of 3), requests die; administrators a1, a2 symmetric | `TypeOK`, `QuorumRespected`, `RefundBackedByRejection`, `CoolingHonoured`, `ImplementsGate` |
| `approval_history` | 1 withdrawal, 3 administrators of whom 1 may override, 2 concurrent requests, which may die at any await, thresholds that ask for one approval or for two after a cooling period; fairness | `QuorumDecides`, `DecisionCarriedOut` |
| `approval_double_refund` | 2 administrators, 2 concurrent requests | `RefundedAtMostOnce` fails |
| `payout` | 3 requests of 1, 2, 2 for a balance of 3, 2 executors; one of three sets of faults (`MCWithdrawalPayout`): crash, sendFails and dbFails with auto-withdraw on; sendFails, replyLost, afterSend and duplicate; sendFails with auto-withdraw on; fairness | `TypeOK`, `Solvent`, `SettledAtMostOnce`, `ReservedIsSettled` |
| `system` | 1 withdrawal, 2 administrators of whom 1 may override, 2 requests, 2 executors; everything but duplicate, with auto-withdraw on | `SentAtMostOnce`, `SettlementReserved` |
| `system_unapproved` | the same, nothing fails | `LargePayoutApproved` fails |
| `payments` | 1 payment, 3 calls at a time, any of which may die, the engine and the fallback's rates may fail; slots symmetric | `TypeOK`, `CreditedAtMostOnce`, `CompletedOnce`, `CreditedWhenConfirmed`, `ExpiredNotCredited` |
| `payments_fair` | 1 payment, 2 calls at a time, with and without a wallet the credit finds, only the fallback's rates may fail; fairness | `PaidIsCredited`, `ConfirmedIsCredited` |
| `payments_uncredited` | 1 payment, 1 call at a time; the engine may throw | `PaidIsCredited` fails |
| `workers` | 2 slots; 2 jobs for one payment with a right and a wrong transaction, 1 withdrawal, 1 webhook, 1 conversion with 2 jobs of its chain; 2 attempts (3 for webhooks); 11 sets of faults; fairness | `TypeOK`, `WorkerCreditsOnce`, `FailedIsDeadLettered`, `CompletedWasSold`, `PaymentAccounted`, `FailedIsNeverSent`, `ConversionEnds` |
| `services` | each service with 2 to 4 overlapping calls (constants in `MCServices.cfg`), 22 pairs of service and faults; fairness | `TypeOK`, `AddressesDistinct`, `RefundsWithinPayment`, `SweepsAreRecorded`, `LimitHolds`, `NoSourceDecides`, `UpdatesKept`, `TransitionsEarned`, `DisabledOnlyAfterExhausted`, `DeliveriesEnd`, `CacheConverges`, `ConnectionRecovers`, `ShutdownCompletes` |
| `address_reused` | 4 first payments, 3 of one merchant; nothing fails | `AddressesUnique` fails |

What the properties say, and why they are not obvious:

- `QuorumRespected`: approveWithdrawal compares the threshold with a count it
  read before it inserted its row, and never counts the rows. That the count
  is never ahead of the rows is due to the unique index, to the order (row first,
  count after) and to the count only ever being written as "read plus one".
- `RefundBackedByRejection` bounds the refunds by the rejecting administrators.
  "At most one refund" does not hold when requests overlap
  (`approval_double_refund`).
- `CoolingHonoured` has its exceptions in the formula: a rejection or override
  deletes the Redis key, and an approval already past the status check then
  passes the cooling check inside the period.
- `QuorumDecides` is "processes if threshold met". Two approvals that overlap break it, and
  so do an override beside the submission and a death between an approval row and the
  update it calls for; the formula names these and shows that rejections, retries,
  overrides beside approvals and other deaths do not.
- `DecisionCarriedOut`: an approval reaches the queue and a rejection is refunded, whatever
  a second request does to the same withdrawal meanwhile and wherever either dies, unless
  the one that decided dies before it pushes or refunds.
- `Solvent`: broadcasts plus balance never exceed the initial balance; the
  balance check in requestWithdrawal may be stale, the guarded update is not.
- `SettledAtMostOnce`: with failures only before the broadcast, each withdrawal
  is sent or refunded at most once, and only if it was debited.
- `ReservedIsSettled`: reserved funds are sent or given back, even when two
  executions of one item overwrite each other's status. With auto-withdraw on there is one
  way to lose them, which the formula names (`LosesRefund`) and section 6 explains.
- `SentAtMostOnce`, `SettlementReserved`: what is left of this when the approval
  service pushes on the same queue and everything may fail.
- `CreditedAtMostOnce`: no status check protects the credit. A payment already
  PAID is converted again by a call that loaded it before, or by verifyPayment,
  which does not look again; only the conversion's unique index does.
- `CompletedOnce`: the status may leave PAID again (a stale detection or an
  unconfirmed verification writes UNDERPAID by id), and the completion then starts
  over. What stops a second webhook is the unique fee record.
- `CreditedWhenConfirmed` and `ExpiredNotCredited` are about calls that carry what
  they read past an expiry or past another call's completion.
- `PaidIsCredited` relates a status that two methods write in different
  orders with the conversion and the credit; it is stated for payments no call is working
  on. Where the merchant has no wallet of the currency `USDT` it says that a PAID payment
  was converted and credited to nobody: that is what the code does.
- `ConfirmedIsCredited`: expiry, stale detections and the loop's own clean-up
  never strand a payment whose transaction was submitted and confirmed; it is converted,
  and credited if there is a wallet to credit.
- `WorkerCreditsOnce`: a run that was blocked and its successor, two jobs for one
  payment, and a catch clause that releases the lock after the credit, all meet at
  the credited mark and the status the handler reads late. One combination is
  excluded, and is a finding of section 6.
- `PaymentAccounted` is the other side: the lock that prevents a second credit also
  makes a retry return as if all were done.
- `FailedIsNeverSent` relates the last attempt of one run with the broadcast of
  another that lost its job long ago: only the status it verifies stands between.
- `FailedIsDeadLettered`: the handler decides by attemptsMade, BullMQ by its own
  count, and a job that stalled was tried without being counted.
- `CompletedWasSold`, `ConversionEnds`: chain and batch act on one conversion after
  status reads of their own, and either may be all that is left of it. The first is about
  conversions through the exchange; on a DEX nothing is sold at all (section 6).
- `TransitionsEarned` compares the breaker's two counters with the true runs of
  results, of which late ones belong to another state.
- `DisabledOnlyAfterExhausted`: failureCount is shared by all deliveries to a webhook,
  reset by any success and counted only when a delivery gives up.
- `DeliveriesEnd`: several runs look at the length of the list before and after they
  pop; an item all of them leave behind would wait for the next event. Items behind a
  delivery to a deleted webhook do wait: the formula excludes deletions.
- `AddressesDistinct` is stated for payments in one currency and first requests that do not
  overlap; it covers a Redis that loses the counter and payments that took an index and
  were given up.
- `RefundsWithinPayment`: a creation sums the refunds while a processing moves one of
  them between statuses, one of which (FAILED) is not summed.
- `SweepsAreRecorded`: sweeps that overlap decide on the same balance and record their
  transfer minutes later, on two rows; once all are through, both balances agree with
  what reached the cold wallet.
- `LimitHolds`: a script that runs late removes members by an older start of the
  window and adds a member older than those already counted. It holds while no script runs
  later than the second by which the set outlives the window.
- `NoSourceDecides`: with three or more sources, whatever one of them reports moves
  the answer at most 2 % beyond the range of the others, although the outlier takes
  part in the median it is measured against.
- `UpdatesKept`: an update writes the whole document, merged into what may be a copy
  from Redis; while calls do not overlap and nothing throws, none undoes an earlier one.
- `CacheConverges`: whatever overlapped or threw, the copy is the row in the end.
- `ConnectionRecovers`: closes, timers and opens of successive sockets end connected
  with the socket in use, or after as many failures in a row as allowed.
- `ShutdownCompletes`: the server waits for clients nobody closes, and a disconnect
  that throws ends the sequence half way; the process still exits, and the database
  goes only after the last request, unless the signal came during the start.

**Why the bounds are enough.** The hazards of the approval service need two requests
that overlap on one withdrawal, plus one that invalidates what they read; three
concurrent requests by three administrators give every such triple, and the requests
about different withdrawals share nothing but the wallet's balance and the queue.
Thresholds are the code's defaults divided by 1000 and variants that put the same amount
into each tier. What makes a decision go missing is a pair of requests that overlap or
the death of one, and `approval_history` has two requests at a time, any number of them
one after the other, and three administrators, one more than the larger quorum it asks
for. The calls of two payments share only the expiry check, whose work on a payment does
not depend on others, so one payment is enough, and three calls give every case of two
that overlap while a third invalidates what they read. The theorems lift both bounds.
Two executors are two replicas' timers or two ticks of one. Three requests for a balance
that covers two are the smallest contest in which a stale check and the order of debits
matter. A worker's hazards need a run, the successor that was given its job, and a
second job about the same thing: two slots, two jobs and two attempts have them all;
three attempts for webhooks let one be counted in each of two processes. Among the
services, thresholds of 3 and 2 with three callers let results of one state of the
breaker arrive in the next; two deliveries for one webhook, or for two, give the shared
counter and the shared list; four payments give two that seed the counter of one
merchant, one that comes later, and the first of another merchant, all in one currency
or half of them in another one that derives along the same path; either webhook may be
deleted; two refunds of a payment of 2 and two calls to process them reach the sum and
its stale copy; three requests in a window of two with a burst window of one reach both
limits, and the clock runs until the set can have expired under a late script; three
sources with rates 3 % and 50 % apart reach every case of the outlier rule; three
updates of which one is valid only after another, and a getter, reach every order of
copy and row; three sockets are the one in use, the one it replaces and the one the
timer makes. Faults are combined only where they interact, since each set multiplies the
instance: the sets are the scenarios of the MC modules. `CHECK_DEADLOCK FALSE` is set
where the system really stops: nothing is left to request, vote, add or execute.

## 4. Fairness

`Approval!FairSpec` and `Payout!FairSpec` give weak fairness to each request being
served (a promise that settled is resumed: the event loop of a living process), to
`PopQueue` (`setInterval` in `startProcessing`) and to each job. Nothing obliges
administrators or merchants to act: there is no fairness on `SubmitForApproval`,
`ApproveWithdrawal`, `RequestWithdrawal`, ... nor on the faults, which therefore may
happen or not. No code recovers a half-served request or a popped item.
`approval_history` has requests die at any await, and `DecisionCarriedOut` excepts
exactly the deaths that lose the decision (`died`); `ReservedIsSettled` excludes `crash`
in its premise, and excepts the one combination with auto-withdraw by which reserved
funds stay lost (`LosesRefund`). `PaymentMonitor!FairSpec` is weakly fair to the steps
of every call and to the expiry check, and strongly fair to the timer's two checks of a
payment: they fire for ever and the code never refuses them, but the slots that bound
the model may be taken at times. `payments_fair` excludes `dies` and `engineFails`, and
`ReservedIsSettled` excludes `dbFails` as well: a catch clause whose database call fails
leaves the withdrawal as it is.

`Workers!FairSpec` is weakly fair to each job (a worker takes what waits, a promise
settles, a stalled job is handed out, a failed one retried) and strongly fair to the two
batches, which `setInterval` queues for ever, and to taking the jobs of the chain: the
slots that bound the model are shared. Its liveness properties name the faults they
tolerate. `Services!FairSpec` is weakly fair to the runs and deliveries of webhooks, to
the TTL of the settings' copy, to the steps of the WhatsApp session, and to the force
timer of the shutdown. Nothing obliges merchants, administrators, customers, networks,
signals or WebSocket clients to do anything, and no fault has to happen or to stop.

## 5. What is proved

Every safety property the passing runs check, and the refinement, is a theorem for all
values of the constants that satisfy the named assumptions of the modules. Two of them
have a hypothesis of their own, because the property is false without it (`PaidTheorem`,
`SentTheorem`), one compares two constants (`DeadLetterTheorem`), and one
needs a sum to be finite (`SolventTheorem`); each is explained where it is listed.

### The approval service

`WithdrawalApproval_proofs` holds for any sets of withdrawals and administrators
(finite), any thresholds and any number of overlapping or dying requests, from
`RecordsAssumption` and `ApprovalAssumption` (amounts are positive numbers, the
submitting service is not an administrator, the automatic limit lies below the
single-approval limit, and the large tier asks for at least two).

| Theorem | States |
|---|---|
| `TypeCorrect` | `Spec => []TypeOK` |
| `QuorumTheorem` | `Spec => []QuorumRespected` |
| `CountTheorem` | `Spec => []CountBackedByRows`: what the administration panel shows as the number of approvals is never ahead of the rows, while a withdrawal waits or was never overridden (emergencyApprove writes the required number with one row) |
| `RefundTheorem` | `Spec => []RefundBackedByRejection` |
| `CoolingTheorem` | `Spec => []CoolingHonoured` |
| `DecidesTheorem` | `HistorySpec => []QuorumDecides`, of `ApprovalHistory`: any number of requests at a time, which may die |
| `GateTheorem` | `Spec => ImplementsGate`: the service implements `ApprovalGate` |

Argument. `QuorumRespected` is not inductive: a call about to write FULLY_APPROVED
is nothing the rows see. `IInv` adds

- `CallInv`: what each call at each await may rely on (`Supported`). A call
  that read a count `seen` has at least `seen` rows, and once its own row is in,
  `seen + 1`, because the row of its administrator was not there when the count was
  read; a call at "finish" has `seen + 1 >= need`; a call about to mark a rejection
  has its row.
- `PhaseInv`: a withdrawal is submitted by one call at a time, and as long as that
  call is on its way nobody voted, except an override. This is what keeps
  `requiredApprovals` from changing under the voters.
- `CountBackedByRows`, on which the next reader's `seen` rests.

`CallNext`, `PhaseNext`, `QuorumNext` and `CountNext` each preserve one
conjunct. `RefundInv` for the refunds keeps, per withdrawal, the calls that hold
an unrefunded rejection apart from the refunds already made: their number and
the credits together never exceed the rejection rows. The refinement follows
from `IInv` step by step (`GateStep`): the hard cases are `FullyApprove`, which
needs the quorum from `CallInv`, and `PublishPending`, which needs `PhaseInv`.
`CoolingInv` says of a withdrawal with neither rejection nor override on record that,
while its period runs, the Redis key is there and no approval is past the check for it:
only rejections and overrides delete the key (`DeletersDispute`), and what keeps an
approval from having passed before the key was set is `PhaseInv` again. `OrderlyInv`
is about a withdrawal two requests never raced for and about which none died half way
(`Orderly`, in terms of the histories `raced` and `died`): there is no race now; each
request about it found, and has made, what its step says (`Served`: an approval about to
write its count read the current one and found it short of the quorum); and once no
approval is between row and count, the count equals the rows and is short of the quorum
(`Rows`). `QuorumDecides` is `Rows` for a withdrawal nobody is serving. The steps about
another withdrawal are dealt with once (`OrderlyBack` and the lemmas after it).

### Payouts, and both services together

`WithdrawalPayout_proofs` holds for any withdrawals and amounts, any number of requests
and executions at a time and any sets of faults (`RecordsAssumption`, `PayoutAssumption`).

| Theorem | States |
|---|---|
| `TypeCorrect` | `Spec => []TypeOK` |
| `SettledTheorem` | `Spec => []SettledAtMostOnce` |
| `SolventTheorem` | `Spec => []Solvent` if `IsFiniteSet(Withdrawals)`: the sum over an infinite set of rows would mean nothing |

Argument. `SettledAtMostOnce` counts broadcasts and credits, which no action looks at;
what is inductive is who carries a withdrawal. `Carried` says that a request, an item
of the queue or a job carries it, never two of them (`RequestsApart`, `ItemsApart`,
`JobsApart`), and that its carrier knows what was done: before the debit nothing, in the
queue and up to the broadcast the reservation, after it the one transaction
(`RequestsKnow`, `ItemsKnow`, `JobsKnow`, `Accounts`). An item auto-withdraw pushes has
no id (`NoId`) and carries nothing: it changes the status of rows, never an account, so
these conjuncts leave it out. Only then does a job at "refund"
imply that nothing was sent. `CarriedRequestMoves` and `CarriedJobMoves` say once that a
step which changes only its own withdrawal keeps all of it; `PushShape` and `PopShape`
what LPUSH and RPOP do to the positions of the list. All of it rests on `SendsAreKnown`,
a set of faults that a behaviour keeps. `Conserved` is the money: the balance plus what was
debited and not given back is the initial balance. Only a debit and a refund change it,
each by one amount (`SumChange`), and a withdrawal that was sent is among what was debited.

`WithdrawalSystem_proofs` is about both services on the same records
(`SystemAssumption`), with any set of faults.

| Theorem | States |
|---|---|
| `SystemTypes` | the types of all variables |
| `SystemApproval` | `QuorumRespected`, `CountBackedByRows` and `CoolingHonoured` of the approval service |
| `SystemGate` | the system implements `ApprovalGate` |
| `SettlementTheorem` | `Spec => []SettlementReserved` |
| `SentTheorem` | `Spec => []SentAtMostOnce` if no member of `FaultSets` holds "duplicate" |

Argument. A step of the system is a step of one service on its own variables. For the
approval service, a payout writes three statuses over whatever is there and never sends
a withdrawal to its approvers (`PayoutStatuses`), which its invariants tolerate; so they
carry over (`ApprovalInv`), and with them the refinement. `Backed` follows the debit from
the request through row, queue item, job and approval call to whatever is sent or given
back. `Once` says who may still send: a request before its push, an item with an amount,
or a job that has one, never two for one withdrawal. The items the approval service
pushes have none and are outside of it. If Redis hands out one item twice, two jobs
execute it and both send; that is what the hypothesis excludes.

### Payments

`PaymentMonitor_proofs` holds for any set of payments, any number of calls at the
same time, and any subset of the faults (`MonitorAssumption`).

| Theorem | States |
|---|---|
| `TypeCorrect` | `Spec => []TypeOK` |
| `CreditTheorem` | `Spec => []CreditedAtMostOnce` |
| `ConfirmedTheorem` | `Spec => []CreditedWhenConfirmed` |
| `ExpiredTheorem` | `Spec => []ExpiredNotCredited` |
| `CompletedTheorem` | `Spec => []CompletedOnce` |
| `PaidTheorem` | `Spec => []PaidIsCredited` if neither "dies" nor "engineFails" is among `Faults` |

Argument. `CreditInv`: a payment has one credit if it has a conversion and its merchant
has a wallet the conversion's update finds, and none otherwise. `ConfirmedInv`: every
call that is past the confirmation check, every conversion and every fee record belongs
to a payment whose transaction is recorded and confirmed, which nothing takes back
(`ChainGrows`). `UnseenInv`: while a payment's status is one that may expire, it is not
in `payments:confirming` and its calls are all before the first write that takes it out
of those statuses, which no action restores (`StatusNext`). `NotifyInv`: a call that
committed the completion is the only such call of its payment, its payment has a fee
record, and nothing was announced yet; the fee record outlives the call, so no other one
gets there. `PaidInv`: a PAID payment is converted or a call is at its conversion, and a
call past the conversion belongs to a converted payment; whether that conversion
credited anybody is `CreditInv`, and the property says which. verifyPayment writes PAID
before it converts, so a process that dies in between leaves a PAID payment uncredited,
and an engine that throws does so too (run `payments_uncredited`): the hypothesis is
needed, and the fallback's rates may fail. `StepFlow`, `StepReplaces` and `StepLate` say
once what a step does to the calls being served; `NewJob` where calls begin.

### The workers

`Workers_proofs` holds for any jobs, slots and numbers of attempts and any faults, from
`WorkersAssumption`.

| Theorem | States |
|---|---|
| `WorkersTypes` | `Spec => []TypeOK` |
| `CreditsTheorem` | `Spec => []WorkerCreditsOnce` |
| `NeverSentTheorem` | `Spec => FailedIsNeverSent` |
| `DeadLetterTheorem` | `Spec => []FailedIsDeadLettered` if `GiveUpAfter <= WebhookAttempts` |
| `SoldTheorem` | `Spec => []CompletedWasSold`, of the conversions through the exchange |

Argument. A step of `Workers` is a step of the worker in focus and leaves the other
variables alone; `JobTypes` says once what `JobQueue` does to a job. `PaymentInv`: the
runs past the lock of a payment are at most one (`PaymentAlone`), and a payment that has
its credit is COMPLETED or its lock is never given back (`Closed`), so no run reaches the
credit again; without that second half the catch clause that releases the lock after the
credit would break it. `WithdrawalInv`: one run at a time is past the lock of a
withdrawal, and a run on its way to the broadcast works on a withdrawal that is not
FAILED (`StillWanted`): whoever marks it FAILED holds the lock. `WebhookInv` ties the
attempts a run has read to those BullMQ counted (`HolderCounts`), so the run whose failure
is the last has put its job among the dead letters (`LastFailureIsDead`). If the handler
gave up later than BullMQ does, no run would ever do so; the code has 3 of both
(`config/queue.ts:88`, `webhook.worker.ts:240`). `ConversionInv`: whoever is about to
record a sale or to settle a conversion through the exchange, and every such conversion
in SETTLING or COMPLETED, has its sale (`SoldFirst`, `SettledWasSold`). Of the other
methods nothing of the kind holds, and section 6 says what happens there.

### The services

`CircuitBreaker_proofs` holds for any callers and thresholds: `BreakerInvariant` (a
counter never exceeds the run of results it stands for) and from it, by a case split on
the results, `BreakerTransitionsEarned`. `Services_proofs` is about the composition, from
`ServicesAssumption`: for each service, a step of `Services` is a step of it or leaves its
variables alone, and its invariant is then proved on its own steps.

| Theorem | States | Inductive invariant |
|---|---|---|
| `ServicesTypes` | `Spec => []TypeOK` | the types of the ten services |
| `TransitionsEarnedTheorem` | `Spec => TransitionsEarned` | `BreakerInv`, by the step simulation `BreakerSteps` |
| `DisabledTheorem` | `Spec => DisabledOnlyAfterExhausted` | `DeliveryInv`: the failures counted against a webhook are at most the deliveries to it that were given up (`FailuresExhausted`), a delivery is in the list or in one run (`QueueWaits`, `BeginsOnce`) |
| `AddressesTheorem` | `Spec => []AddressesDistinct` | `AddressInv`: the wallets of a currency are numbered as they were created (`Numbered`); without rows given up a merchant's indices are the first ones and the counter the last of them or lost (`Dense`); without losses the counter is not below any index (`Bounded`) |
| `RefundsTheorem` | `Spec => []RefundsWithinPayment` | `RefundsInv`: one creation and one processing at a time, a creation past its check still fits (`RefundsSafe`), a refund is debited once (`DebitedOnce`) |
| `SweepsTheorem` | `Spec => []SweepsAreRecorded` | `WalletInv`: each row is off by exactly what is in flight (`Accounted`, a sum over the sweeps) |
| `LimitTheorem` | `Spec => []LimitHolds` | `LimiterInv`: the set in Redis never has more members than the limit (`WindowIsFull`) and lives as long as they count (`Timely`); while no script was late, those who passed and are not too old for a later arrival (`Young`) are in it, or it has expired under them and they are no more than the limit (`YoungKept`) |
| `RatesTheorem` | `Spec => []NoSourceDecides` | `RatesInv`: the answer, the cached and the last good rate are undecided by any one source |
| `UpdatesKeptTheorem` | `Spec => []UpdatesKept` | `SettingsInv`: without faults one call runs at a time, the copy is the row, and what a call holds is the row with its patch |
| `DrainTheorem` | `Spec => [](starting = "started" /\ ~databaseUp /\ ~early => requests = 0)`, the part of `ShutdownCompletes` that is an invariant | `LifecycleInv`: the order of the shutdown (`Drains`) |

`RatesTheorem` is about the code's arithmetic for any finite number of sources. Leave any
one of three or more out: of the others, one reports no more than the median of all and one
no less (`MedianIsMiddle`). What is kept is within 2 % of that median, so the answer, the
median of what is kept, is as well (`AggregatedUndecided`); if every source is too far from
it, all are kept, and the answer is the median itself.

Trying to prove `LimitHolds` as it had been stated, of the window that ends with the
latest request *let through*, failed: a request that comes later is counted in the
set, refused, and has removed members that a script running late should still have counted.
TLC shows it with four requests and a limit of two, one more than the run had. It holds of
the window that ends with the latest request to come, which is what is stated now.

### What the proofs share

`FiniteLemmas` has the sums and orders. `Sum` is a recursive function over the subsets of a
set, as the library's fold is (`LibrarySum`); that it exists, and what adding, removing or
changing one element does (`SumAdd`, `SumRemove`, `SumChange`), is proved from a
counterexample with the fewest elements (`Fewest`, by `Least`), since an induction theorem
with an operator as its parameter cannot be instantiated. `AscendingExists` is the sorted
sequence of a finite set of rates.

## 6. Where the code and what is said of it disagree

Each of these is a run that TLC ends with a counterexample; `PROJECT.json` quotes the
claim.

- **Double refund** (`approval_double_refund`). Two administrators reject together;
  both passed the status check, both increment the balance. `README.md:222`
  claims "State machine enforcement with pessimistic locking".
- **Payout without approval** (`system_unapproved`). requestWithdrawal queues every
  withdrawal, executeWithdrawal looks at no approval, and submitForApproval,
  "Called by the withdrawal service after initial validation", has no caller.
- **PAID and not credited** (`payments_uncredited`). When executeConversion throws
  before its transaction, processConfirmedPayment falls back to plain rates,
  records the fee and sets PAID; the comment "The Conversion engine already
  credited the wallet" is then wrong, and no later check takes the payment up.
- **Address reused** (`address_reused`). The counter of deposit addresses is incremented
  and, when it was new, overwritten with a count from the database, in separate awaits:
  "an atomic counter ... to guarantee unique payment indices even under concurrent
  requests" (`wallet.service.ts:73`) is not one for the first requests.

More was seen while modelling that has no run of its own; what the models exclude is
named with the property that excludes it.

*Withdrawals.* Two administrators approve together, both write a count of 1, and the
withdrawal stays pending with two approvals, neither of whom may approve again, although
approveWithdrawal "processes if threshold met" (`withdrawal-approval.service.ts:228`); so
it does after a death between the row and the count (both are the exceptions of
`QuorumDecides`). An approval that
passed the status check approves a withdrawal rejected meanwhile. An item delivered twice
may be refunded twice: the comment at `withdrawal.service.ts:148` rests on the status
being FAILED, but the second delivery has set it to PROCESSING first. A webhook or
notification that throws after COMPLETED lands in the catch clause, which marks the
withdrawal FAILED and gives back what was sent (`withdrawal.service.ts:147`;
`SendsAreKnown`). The item approveWithdrawal queues has no amount, so an approved
withdrawal ends FAILED as soon as the queue is read; approvals also go to the list
`withdrawal:approval:queue`, which nothing reads. creditBalance pushes, where a merchant
has auto-withdraw on, an item without id, network or token on the queue of the payouts
(`wallet.service.ts:222`). Executing it throws, and the `updateMany` of the catch clause,
its id undefined, marks every withdrawal that is not FAILED, of every merchant, FAILED
(`withdrawal.service.ts:149`). Rows of completed payouts are then wrong, and a withdrawal
whose own transaction fails afterwards finds no row to mark and is not given back
(`LosesRefund`, the exception of `ReservedIsSettled`).

*Payments.* The credit of a conversion is an `updateMany` on the merchant's wallet of
the currency `USDT` (`conversion.service.ts:265`), while the settlement wallet of a
merchant is created as `USDT_TRC20` (`wallet.service.ts:163`) and nothing creates the
other one but a call that asks for it by that name. It changes no row, nothing throws,
and the payment is PAID, converted and credited to nobody (`PaidIsCredited` and
`ConfirmedIsCredited` say so; `usdtWallets` are the payments whose merchant has such a
wallet). The refund's debit and the rejection's refund are updates of the same kind, by
network and token or by `crypto` (`refund.service.ts:183`,
`withdrawal-approval.service.ts:422`), and may miss the wallet likewise; those two are
modelled as finding it. verifyPayment sets PAID before it completes the payment, and the
completion takes PAID for "already completed": no fee record, no `payment.completed`. A
stale detection, or a verification without enough confirmations, takes a payment from
PAID back to UNDERPAID, and from EXPIRED to UNDERPAID. Only verifyPayment inserts a row
in `transactions`, and checkConfirmingPayments skips a payment that has none: a payment
the monitor detected waits for ever unless somebody submits its hash
(`ConfirmedIsCredited` is stated accordingly). getOrCreateWallet numbers a wallet by the
wallets there are in its currency, in two awaits: two merchants may get the same
derivation index (`wallet.service.ts:32`). ETH, BNB, and every other EVM currency derive
along one path (`config/crypto.ts:101`, `:162`, `:178`, `:194`), each with an index of
its own: the first ETH wallet of one merchant and the first BNB wallet of another have
the same address, whatever the order of the requests. A merchant cannot have wallets in
both: rows are created without network and token, and (merchant, network, token) is
unique (`schema.prisma:317`).

*Workers.* A conversion by way of a DEX gets a quote and an unsigned transaction from
executeSwap, keeps the quote, and writes `dex:pending:` and an id for its hash
(`conversion.service.ts:479`). The comment at `:487` has the transaction "signed and broadcast
by the blockchain worker", but nothing holds it any more, and the conversion ends COMPLETED. A
payment worker whose process dies after it took the lock of 24 hours leaves its payment to
nobody: the retry takes the lock for "already done" (the premise of `PaymentAccounted`).
`merchant.balance` and the status BROADCAST, which the workers write, are not in
`schema.prisma`. Whoever increments the nonce counter to 1 overwrites it with the nonce
of the chain, so that the next withdrawal is given the same nonce again
(`withdrawal.worker.ts:59`); the chain turns that transaction down. With Redis failing
after the credit and a second, too small transaction, the payment worker credits twice
(`WorkerCreditsOnce`).

*Services.* Two refunds created at once may exceed the payment (`refund.service.ts:89`),
a webhook that throws after the debit marks a paid refund FAILED, whose amount may then
be refunded again (`RefundsWithinPayment`), and a full refund that failed leaves its
payment REFUNDED. The breaker, half open, lets any number of probes through and counts
late results in whatever state it has (`circuitBreaker.ts:10`). Two sources more than 4
% apart are both outliers, and their mean is the answer, "impossible in practice"
(`rate-aggregator.ts:214`). An older window of the rate limiter may exceed the limit. A
script that runs more than a second after its request was stamped may find the set
expired (`advancedRateLimiter.ts:86`, `:176`), and up to twice the limit pass within a
window (`late`). Requests of one millisecond with the same random number count once,
concurrent requests pass the burst limit together, and where Redis fails only sensitive
paths are refused (`LimitHolds`). Overlapping sweeps may take the hot wallet below its
minimum (`wallet-management.service.ts:261`). A database error in the catch clause of a
delivery loses it and ends the run that started it, and deleting a webhook has the same
effect on what is queued for it: both its writes throw, and what is behind it in the
list waits for the next event (`DeliveriesEnd`).

*Settings.* An update that overlaps another one, or whose read fails for a moment, writes
the whole document from the copy it has, in the latter case from the defaults
(`UpdatesKept`). multiSig of the platform settings has no effect on the approval
thresholds, a document of their own whose updateThresholds has no caller.

*WhatsApp.* A request to connect while connected opens a second socket, WhatsApp closes
the first, its handler schedules a reconnect, and so on for ever; the close event of a
socket that was replaced marks the service disconnected; disconnect() itself ends in a
reconnect; an initialize() that throws in the timer is not tried again
(`ConnectionRecovers`).

*Start and shutdown.* WebSocket clients are closed after the HTTP server, which waits for
them: with a client connected only the force timer ends the shutdown. A signal during
the start leaves a server listening while the shutdown disconnects its database. What the
intervals started is not waited for. `config/cluster.ts`, which nothing starts, binds
primary and workers to one port, re-forks workers that a rolling restart stops, and
deletes a worker's record before it looks for restart loops. `middleware/timeout.ts`
replaces res.json before the timer uses it, so the 504 it announces (line 5) is never
sent.

*Without effect.* isWithdrawalAllowed and isMaintenanceMode of the emergency service,
canWithdraw of compliance, checkWithdrawal of fraud detection, applyDiscount, markAsPaid
and checkOverdueInvoices have no caller; the emergency state in the database is never
read. Overlapping send, cancel and update calls may leave a cancelled invoice SENT, or
mail figures an update replaces. The reconciliation worker uses `chainsChecked`, which is
not defined. The dashboard's refresh reads `data.accessToken` where the backend answers
`data.data`, and the WordPress plugin and the backend do not agree on the fields they
exchange.

## 7. Limits

*Only model-checked.* Liveness under fairness (`DecisionCarriedOut`, `ReservedIsSettled`,
`ConfirmedIsCredited`, `PaymentAccounted`, `ConversionEnds`, `DeliveriesEnd`,
`CacheConverges`, `ConnectionRecovers`, `ShutdownCompletes`) is out of the prover's reach;
of the last, the invariant it contains is `DrainTheorem`. The properties of the runs that
expect a violation are refuted, not proved. Proved for the constants its theorem
names and no others: `PaidIsCredited` and `SentAtMostOnce` (section 5).

*Abstracted.* Amounts are small numbers in one currency; fees, addresses, texts,
notifications (other than their failing), audit rows and listings are left out. One
merchant, one wallet. The TTL of the cooling key and the cooling period end together
(`CoolingEnds`), at any time. The `catch` of single Prisma errors is merged into "the
request dies" where the handler only rethrows. In `PaymentMonitor` one transaction pays
each payment; the statuses other services write (CANCELLED, REFUNDED, COMPLETED of the
payment worker) do not occur; checks for expiry that overlap are one, what they list and
report being sets. The conversion's rates, fee and swap queueing are steps that succeed
or throw. The lock and mark of the payment worker do not expire, a settings document has
two fields, the limiter one client, the hot wallet one currency. Whether a balance
reaches the merchant's auto-withdraw threshold is a choice, and so is whether a merchant
has the wallet a conversion credits; the key of the rate limiter's window and burst sets
expires, the other keys of the services (but for the copy of the settings) do not.

*Not modelled.* Components without a module hold no state that interacts (clients of
exchanges and nodes, HTTP, formatting, user interfaces, the documentation site, which
together are most of the repository's lines), or state nothing else reads (invoices,
discounts, emergency switches, administrator sessions, compliance levels, white label,
Lightning, cluster mode: the operation that would make them matter has no caller). Fees are
arithmetic on one amount. One-time codes and permissions decide who may act; the models
name actors that passed. `PROJECT.json` gives the reason for each.

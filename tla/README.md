# Models and proofs of the crypto payment platform

The repository is a NestJS service (TypeScript, `src/src/`): merchants issue
invoices in US dollars, customers pay them in crypto through NOWPayments, the
service checks the deposit at Quidax, credits the merchant's naira wallet, and
pays wallets out to bank accounts through Flutterwave.  Accounts have passwords,
second factors and a PIN; identities are checked by Smile Identity.  State is kept
in PostgreSQL (READ COMMITTED, TypeORM), in Redis, and in Bull job queues.  This
directory holds TLA+ models of the parts that move money or decide who may, the TLC
runs that check them on small instances, and TLAPS proofs of what matters most for
instances of every size.

Line numbers below are those of the files under `src/src/`.

## Contents

| file | what it is |
| --- | --- |
| `Ledger.tla` | abstract: what an account book promises; two modules implement it |
| `WalletLedger.tla` | the wallets of users: credits, transfers, withdrawals |
| `Treasury.tla` | the wallets of the platform: fees, reserve, top-ups, withdrawals |
| `JobQueue.tla` | the life of a Bull job; the next two modules instantiate it |
| `Payout.tla` | payout jobs, Flutterwave transfers, webhooks, polls, retries |
| `InvoicePayment.tla` | invoices, crypto payments, deposit checks, what is paid out |
| `PhoneCode.tla` | one-time codes for phone numbers in Redis; `Accounts` extends it |
| `Accounts.tla` | one account: links, codes, logins, tokens, password, two factors, PIN |
| `Kyc.tla` | identity checks, callbacks and reviews |
| `LedgerProofs.tla` | what follows from `Ledger` |
| `WalletLedgerProofs.tla`, `TreasuryProofs.tla` | theorems about these modules, and that they implement `Ledger` |
| `PayoutProofs.tla`, `InvoicePaymentProofs.tla`, `KycProofs.tla` | theorems about these modules |
| `AccountsProofs.tla`, `AccountsSafety.tla` | theorems about `Accounts`: its types and the reset; the other properties |
| `MC*.tla` | the symmetry sets of the runs, and the names that Smile may return in those of `Kyc` |
| `*.cfg` | one file per run, see *Runs* |
| `PROJECT.json` | components, runs, mutants, source map, findings, hazards, theorems |

## Inventory

**User wallets** (`wallet/wallet.service.ts`).  State: a row of `user_wallets` per
user (balance, totals, status, tag) and the lines of `wallet_transactions`, whose
reference is unique.  Operations: `creditWallet`, `transferToUser`,
`withdrawToBank`, creation on first use, freezing by an administrator.  Each of the
three that move money is a database transaction that locks rows with
`SELECT ... FOR UPDATE`, preceded by checks made outside it; a withdrawal then
enqueues a payout job and, if that fails, reverses its debit in a second
transaction.  Hard: checks that are stale when the lock is granted, row locks taken
in an order the statement does not fix, two inserts of one wallet, a reversal that
reads without a lock, a queue that fails after it has accepted the job, crashes
between the transaction and the queue.  Correct when no balance is negative, every
balance is accounted for by its statement, no reference is used twice, and the
outcome reported for a withdrawal is what happened.

**Payouts** (`flutterwave/flutterwave.service.ts`,
`queue/processors/payout.processor.ts`).  State: a `payouts` row per attempt (status,
Flutterwave reference and transfer id, `retry_count`) and a `webhook_events` row per
event.  Operations: `initiateDirectPayout` (called by the payout job, by the
automatic cash-out and by an administrator), `retryPayout` (owner, administrator,
retry job, recurring job, webhook of a failed transfer), the transfer webhooks,
`verifyPayoutStatus`.  Every one reads the row, awaits something, and writes it by
id.  Hard: replies that time out after the transfer was accepted, webhooks that
overtake replies, retries that overlap, polls about a transfer the row no longer
stands for, jobs that Bull starts again.  Correct when SUCCESS means the money
arrived, the number of retries is bounded, no event is applied twice, and every job
ends as the books say.

**Invoices** (`invoice/invoice.service.ts`).  State: `invoices` (status, automatic
cash-out).  Operations: create, update (draft only), cancel (not when paid); numbers
are generated by reading the last one.  Hard: a check and a write by id with awaits
between them.

**Crypto payments** (`nowpayments/nowpayments.service.ts`,
`queue/processors/payment.processor.ts`).  State: `rate_locks` (one per invoice),
`transactions`, `webhook_events`, `exchange_rates`.  Operations: `createPayment`,
`lockRate`, `expireRateLocks` (every two minutes), `processWebhook` for the IPNs,
the payment job with `onPaymentConfirmed`, then the wallet credit or
`handleAutoCashout` with its fallback.  Hard: IPNs out of order and twice, a job id
that is forgotten, a job that is started again after its commit, a status overwritten
by whoever read it earlier.  Correct when nothing is paid out for a payment that is
not confirmed and held, an invoice is paid only by such a payment, and each payment
is paid out once.

**Deposit verification** (`quidax/quidax.service.ts`).  No state of its own; looks
for the deposit among the newest 50 and gives a verdict.  Hard: an outage looks like
an absent deposit.

**System wallet** (`system-wallet/system-wallet.service.ts`).  State: the platform's
own wallets (label, status, balance, three totals) and their statement, whose reference
is unique.  Operations: start-up ensures that there is a main wallet; `create` and
`update` by administrators; `creditFee`, `deductPayoutReserve`, `adminTopUp` and
`adminWithdraw`, which all end in `recordNgnTransaction`, a transaction under a row
lock.  Hard: balance and reserve are checked before the lock; the totals are written
as absolute values; the guard of the main wallet goes by a label read earlier; alert
and audit line are saved inside the transaction on a second connection of the pool.
Correct when the statement accounts for balance and totals, no reference is booked
twice, a withdrawal leaves the reserve, the main wallet stays in service, and every
call ends.

**Authentication** (`auth/auth.service.ts`, `whatsapp/whatsapp-otp.service.ts`).
State: the user's row (password, PIN and its flag, method and secret of the second
factor, e-mailed code, phone), and keys in Redis with expiry: refresh tokens, emailed
links, pending logins, codes for phones with a counter inside the value.  Operations:
registration, verification of e-mail and phone, login in one step and in two, refresh,
logout, reset and change of password, set-up and confirmation of an authenticator, PIN.
Hard: every call reads, awaits and writes without lock or transaction; only the
columns an update names change, so that two calls mix; a SCAN that deletes while
tokens are stored.  Correct when what works once works once, a reset ends the sessions,
PIN and flag agree, the owner can log in, and a verified phone was proven.

**KYC** (`kyc/kyc.service.ts`, `kyc/smile-identity.service.ts`).  State: a record per
user with numbers, jobs and metadata, and status and name in the user's row.
Operations: BVN, NIN with face, Smile's callbacks, review by an administrator.  Hard:
Smile's job takes long, and what was read before it is used after it; user and record
are written one after the other, in different orders; callbacks come late and twice.
Correct when who is verified was proven, under a proven name and a number of his own,
and record and user agree.

**WhatsApp bot** (`whatsapp/whatsapp-bot.service.ts`, `whatsapp-session.service.ts`).
State: a session per telephone number in Redis, read, changed and written back for every
message.  Not modelled, see there.

**Queues and schedules** (`queue/`).  Bull queues for payments, payouts, rates,
notifications; recurring jobs that are registered again at every start.  A job is
tried up to its number of attempts, and started again when its worker dies.

**Kafka, email, GupShup, encryption, cache, controllers, entities, migrations.**
Output, pure functions, routing and schema; see *Not modelled*.

Interactions: the IPN webhook adds a payment job; the job calls Quidax, writes the
invoice, and calls `creditWallet` or `initiateDirectPayout`; `withdrawToBank` adds a
payout job, which calls `initiateDirectPayout`; that calls Flutterwave and the system
wallet; Flutterwave and Smile call back through webhooks; recurring jobs call
`expireRateLocks` and `retryPayout`.  No lock is held across two components: they
meet in rows that each reads and then writes by id.

## Modules and the code

### WalletLedger

A call is an element of `Op` that runs through its own `pc`; every await that reads
or writes the database is a step, except that what happens between taking the row
lock and committing is one step, since nobody else can see it.  `rowLock` is the
database's lock of a row: it is taken by `SELECT ... FOR UPDATE` (and by the insert
of a wallet, which blocks others with the same `user_id`), released by commit and
rollback, and waited for by updates.  `OnWaitCycle` is the deadlock detector.

| action | code (`wallet.service.ts`) |
| --- | --- |
| `OpenWallet` | `createWallet`, `getOrCreateWallet` 79, 816 |
| `SetStatus` | `adminFreezeWallet` 724 |
| `BeginCredit` ... `CreditCommit` | `creditWallet` 181-254 |
| `BeginTransfer` | the checks before the transaction, 257-333 |
| `TransferLockRow`, `TransferDeadlock` | the `IN` query with `FOR UPDATE`, 334-350 |
| `TransferRefused`, `TransferCommit` | 352-420 |
| `BeginWithdraw`, `WithdrawLock`, `WithdrawRefused`, `WithdrawCommit` | 483-583 |
| `Enqueue`, `EnqueueFails` | `payoutQueue.add`, 587-612 |
| `ReversalRead`, `ReversalCommit` | the catch block, 612-643 |
| `ReversalFails` | its own transaction throws: the call ends *unreversed*, 614-640 |
| `StatementFails` | a statement of any other transaction throws, and it is rolled back |
| `Crash` | the process dies: the open transaction is rolled back |

`ledger[u]` is the statement: type, amount, balance before and after, reference.
References that the service generates are unique by construction (time and random
bytes, 861) and so named by the call; those given to `creditWallet` come from `Ref`
and may repeat, as the retries of a payment job make them do.

### JobQueue

Bull is not part of the repository; `JobQueue` is what the code relies on, as the
queues are set up in `queue.module.ts` 39-55: a job that has an id is added once, is
taken by a worker, completes, fails and is tried again up to `MaxAttempts`, and is
started again up to `MaxStalls` times when its worker died.  It has no `Next` of its
own: its operators are conjuncts of the steps of the processors.

### Payout

Run `<<w, n>>` is the n-th attempt of withdrawal `w` and also names the `payouts` row
it inserted and the transfer it asks for; a `Retry` is a call of `retryPayout`.  `bank`
is what Flutterwave knows of each transfer.

| action | code |
| --- | --- |
| `Enqueue` | `withdrawToBank` (`wallet.service.ts` 588) |
| `JobStart`, `JobRefused` | `initiateDirectPayout` 141-206 (`flutterwave.service.ts`) |
| `ExecuteTransfer` | `executeTransfer` 855-902; *timeout* is a reply that is lost |
| `Record`, `RecordFails` | 216-224; for a retry 359-367 |
| `Book`, `BookFails`, `CatchFailure` | 226-313; for a retry 382-388 |
| `AskRetry` | the callers: `payout.processor.ts` 107-162, the controller |
| `RetryRead`, `RetryRefused`, `RetryClaim` | `retryPayout` 317-348 |
| `WebhookLookUp` | `processWebhook` up to the look-up of the event, 392-412 |
| `WebhookStore`, `WebhookConflict` | the insert and its unique index, 414-424; the payout is read, 470-484 |
| `WebhookNothing`, `WebhookSuccessful`, `WebhookFailed`, `WebhookFailedRetry`, `WebhookReversed` | `handleTransferEvent` 485-637 |
| `WebhookProcessed` | 426-445; a handler that throws never gets there |
| `PollRead`, `PollReply`, `PollApply` | `verifyPayoutStatus` 640-680 |
| `Settle` | Flutterwave |
| `Crash` | the worker dies |

A `Delivery` is a call of the webhook route with any event, true or not (see *What the
callbacks say*), and runs beside the others: it looks the event up, inserts it, handles it
with the payout it has read, and marks it, in steps of its own, so that two deliveries may
meet anywhere.  `founded` and `misled` are history: whether the event had happened, and which
payouts were set to SUCCESS by one that had not.

### InvoicePayment

| action | code |
| --- | --- |
| `UpdateRead`, `UpdateWrite`, `CancelRead`, `CancelWrite` | `invoice.service.ts` 245-349 |
| `CreatePosted`, `CreateSaved` | `createPayment`, before and after the reply of NOWPayments |
| `LockRate` | `lockRate` 474-535 |
| `SweepSelect`, `SweepMark`, `SweepExpire` | `expireRateLocks` 1112-1146 |
| `IpnReceive` ... `IpnFailed` | `processWebhook`, `handlePaymentStatusUpdate`, `onPaymentFailed` |
| `JobStart`, `Verified`, `FlashBlocked`, `NotYetVerified`, `Load` | `payment.processor.ts` 69-171 |
| `AlreadyPaid`, `VerifiedAgain`, `Blocked`, `Commit`, `CommitFails` | `onPaymentConfirmed` 750-876 |
| `Credit`, `CreditFails` | 896-913 |
| `CashedOut`, `CashoutFails`, `Fallback`, `FallbackFails` | `handleAutoCashout` 960-1066 |
| `Finish`, `FinishFails`, `Crash`, `Forgotten` | the end of the job, and Bull |
| `RemoteMoves`, `DepositMoves` | NOWPayments and Quidax |

An IPN states any status of any payment for any invoice.  A payment's job is for the invoice
`billed`, which the IPN named that asked for it.  `unfounded` (payments whose job an IPN asked
for that was not true) and `strayed` (payments that had jobs for two invoices) are history.

`Verdicts(p)` is what `runFullVerification` may answer about a deposit: *passed*,
*held* (it was found, but is not good yet) or *flash* (not found, or found without a
confirmation); any of them for the job of an IPN that was not true, since the hash it states
may be any deposit's.  `Fault` switches on what may fail: Quidax, the queue, the
transaction, the credit, the cash-out, the audit line.  `reopened` is a history
variable: it records invoices that were paid and then overwritten, and no action
reads it.

### Ledger, and who implements it

`Ledger` is an account book in one action, `Move`: a balance changes only together with
one new line of the account's statement, that line starts at the balance and says where
it ends, lines stay, and no reference is entered twice.  `Correction` names the types of
line that may start elsewhere.  `WalletLedger!KeepsBook` and `Treasury!KeepsBook`
are `Book!Spec` under the refinement mapping `Account <- User` or `Wallet`,
`lines <- ledger`; the balance is the balance.  A reversal of a withdrawal is the one
correction of the wallets (see `wallet_reversal`); the system wallet has none.  All of
locks, checks, stale reads, queues and crashes is below the book: two users' transfer is
one `Move` with a line in both accounts.

### Treasury

A call of the service is an element of `Op`; `req` says what it was asked, `target`
on which wallet it works, `checked` and `locked` what it read.  `PoolSize` is the number
of connections of the pool: a transaction keeps one from `Connect` to its end, a
statement that waits for a row keeps one, and every other statement needs one for its
moment (`Spare`).

| action | code (`system-wallet.service.ts`) |
| --- | --- |
| `Boot`, `Find`, `FindNone`, `Ensure`, `EnsureNone`, `CreateMain`, `Ensured`, `NoMain` | start-up, `getMainWallet`, `ensureSystemWalletExists` 59-108 |
| `CreateWallet` | `create` 111-137 |
| `BeginUpdate`, `Write`, `WriteRow`, `Update`, `Reactivate` | `update` 169-212; the repair of a main wallet 82-92 |
| `BeginFee`, `BeginReserve` | `creditFee`, `deductPayoutReserve` 366-421 |
| `BeginTopUp`, `BeginWithdraw` | `adminTopUp`, `adminWithdraw` with its checks 217-363 |
| `Record`, `RecordRefused` | `recordNgnTransaction` up to its transaction 424-440 |
| `Connect`, `LockRow`, `Insert`, `InsertRefused` | the transaction 440-518 |
| `Aside`, `AsideFails` | `triggerLowBalanceAlert`, `saveAudit` inside it 520-538, 649-699 |
| `Commit`, `Crash` | its end |

### Accounts and PhoneCode

One account, since no call touches two; `PhoneCode` has the Redis commands of
`WhatsappOtpService` and `Accounts` the calls that issue them, in steps.  What a call
writes (a password, a PIN, a secret, a code) is named after the call, and what works
once (a link, a code, a token) is a `Credential` which the call adds to `cred` when
it has presented it.  A refresh token is named by the second in which it was signed,
because two tokens of one second have the same payload.  `met` remembers which
calls overlapped, and the properties say for which overlaps they make an exception.

| action | code (`auth.service.ts`, `whatsapp-otp.service.ts`) |
| --- | --- |
| `Register`, `Save`, `CreateVerifyLink`, `VerifyEmail`, `ResendVerification` | 113-173, 548-604, 1177 |
| `SendPhoneOtp`, `PhoneTaken`, `WritePhone`, `CheckRate`, `SendCode`, `StampRate` | 233-290; otp 52-84 |
| `VerifyPhoneOtp`, `NoCode`, `TooManyGuesses`, `WrongGuess`, `RightGuess`, `Drop`, `CountGuess`, `MarkVerified` | 293-345; otp 89-135 |
| `Login`, `SendEmailOtp`, `KeepPending`, `LoginWithCode`, `VerifyLoginOtp`, `ResendLoginOtp` | 348-506, 1044-1069 |
| `ValidateEmailed`, `ValidateAuthenticator`, `ValidateRefused`, `SpendCode`, `Unpend` | `validateOtpCode` 1072-1126, 463 |
| `RefreshTokens`, `Logout`, `Revoke`, `Sign`, `Store` | 509-545, `generateTokens` 1130-1165 |
| `ForgotPassword`, `ResetPassword`, `ChangePassword`, `Unlink` | 607-731 |
| `ScanPage`, `DeletePage`, `ScanEnds` | `revokeAllRefreshTokens` 678-696 |
| `SetupAuthenticator`, `ConfirmAuthenticator`, `SwitchToEmail` | 734-853 |
| `SetPin`, `ChangePin`, `RemovePin`, `ForgotPin`, `ResetPin` | 856-1041 |
| `UpdateRow`, `StoreLink` | the one write most of these end with |
| `Tick`, `PhoneKeyExpires`, `Crash` | the clock, Redis, the process |

Links and tokens expire too, but a call that presents an expired one is refused at
its first read and changes nothing, exactly as if nobody had presented it: that takes no
step.  The two phone keys have a step of their own because what follows depends on them.

### Kyc

`job` is what Smile found out for each call that asked it, and will tell in its reply and
again in callbacks; `at` and `copy` are the record a call works on and what it read of it.  An
`Answer` is what Smile returns of a name: first, last and full name, each a sequence of words
and each perhaps missing.  `Parsed` is the client's part of it (a full name that comes alone is
cut to its first and last word; names given apart stay, also when one is missing),
`ExtractName` and `ResolveName` the service's.  A callback says any result of a job that a
record names; one that claims a success its job does not have is a call of the kind *unfounded*.

| action | code (`kyc.service.ts`, `smile-identity.service.ts`) |
| --- | --- |
| `VerifyBvn`, `AskBvn`, `FindRecord`, `SaveBvn` | `verifyBvn` 77-211 |
| `VerifyNin`, `AskFace` | `verifyNinWithFace` 218-285, `verifyWithFace` (Smile) 147-201 |
| `Webhook`, `CallbackOf` | `handleSmileWebhook` 405-501 |
| `AdminReview`, `Decide`, `DecideUser` | `adminReview` 504-563 |
| `Apply`, `Mark`, `RejectRecord`, `RejectUser` | what they share: 289-402, 481-501, 673-690, 737-742 |
| `Parsed`, `ExtractName`, `ResolveName` | names: Smile 251-283; 608-664 |

### What the callbacks say

Flutterwave, NOWPayments and Smile call back on public routes.  Each of the three handlers
computes whether the signature is valid, and then logs it, and two of them store it; none
refuses the call for it: `flutterwave.service.ts` 397-402, `nowpayments.service.ts` 544-550
(the event is processed at 578), `kyc.service.ts` 409-416.  What such a call says therefore
need not be true, and the models do not assume that it is: `WebhookLookUp`, `IpnReceive` and
`Webhook` take any event, IPN or result about anything that the instance names.  It follows
that some things one would like to say of this code are not so:

* an event *successful* sets a payout to SUCCESS though no money arrived;
* an IPN *finished* without a hash has its payment paid out and its invoice marked paid
  without any deposit; one with a hash needs a good deposit, of anybody;
* a result with face and liveness in order verifies the user whose job it names.

The properties `SuccessWasPaid`, `MoneyBacked`, `PaidIsBacked` and `VerifiedByFace` make an
exception for exactly what an untrue message itself asserted (`misled`, `unfounded`), and hold
otherwise whatever untrue messages came in besides: an untrue failure, reversal, expiry or
rejection, or an untrue event about another payout, invoice or user, makes nothing paid or
verified.  `EventAppliedOnce`, `PaidOutOnce` and `NameProven` have no such exception.
An event stands for its idempotency key; two untrue ones that differ in the key alone are two
events only where they differ in what they say.  An IPN with an `order_id` that is no invoice's
changes nothing and is left out.

## Runs

`wallet`, `payout`, `payout_job`, `payment`, `payment_ipns`, `treasury`, `accounts` and `kyc`
check safety; `payout_job` and `treasury` check liveness, and `wallet` that nothing stands
still; `wallet` and `treasury` check the refinement of `Ledger`; four runs are expected to find
a violation of something the source says of itself, see *Findings*.

| run | instance | properties |
| --- | --- | --- |
| `wallet` | 2 users, 3 calls, 1 reference, both queue faults | `TypeOK`, `NeverOverdrawn`, `StatementChains`, `ReferenceUnique`, `Reconciled`, `MoneyConserved`, `WithdrawalOutcome`, `NoStandingWait`, `KeepsBook` |
| `payout` | 1 withdrawal, 1 attempt, 1 retry, 2 deliveries, MAX_RETRIES 1 | `SuccessWasPaid`, `EventAppliedOnce` |
| `payout_job` | 1 withdrawal, 2 attempts, 1 restart, 1 poll | `TypeOK`, `JobOutcome`, `SuccessWasPaid`, `JobsSettle` |
| `payment` | 1 invoice, 1 payment, 2 attempts, 1 restart, 1 IPN of any status, every fault | `TypeOK`, `MoneyBacked` |
| `payment_ipns` | 2 invoices that nobody cancels, edits or sweeps, 1 payment, 2 attempts, 1 restart, 2 IPNs that say *confirming*, *confirmed* or *expired*, every fault | `PaidOutOnce`, `PaidIsBacked` |
| `treasury` | 2 wallets, 2 calls, 1 reference, reserve 1, 2 connections | `TypeOK`, `TotalsAgree`, `ReserveKept`, `MainInService`, `KeepsBook`, `CallsEnd` |
| `accounts` | 1 account, 3 calls, 2 at once, 2 phones, 1 guess, 2 seconds | `TypeOK`, `SpentOnce`, `RevokedByReset`, `PinAgrees`, `PinReplacedKnowingly`, `SecretConfirmed`, `VerifiedPhoneProven`, `GuessesBounded`, `UsedCodeGone` |
| `kyc` | 2 users, 3 calls, all at once, 1 BVN, 1 NIN, a name that is missing, whole or a first name alone | `TypeOK`, `NameProven`, `NumberHeldOnce`, `VerifiedByFace`, `NamedWhenVerified`, `StatusesAgree` |
| `wallet_reversal` | 2 users, 2 calls | `StatementUnbroken`, violated |
| `payout_retry` | 1 withdrawal, 2 retries | `ClaimsIdlePayout`, violated |
| `payment_paid` | 1 invoice, 1 payment, no fault | `PaidStaysPaid`, violated |
| `payment_outage` | 1 invoice, 1 payment, Quidax may be away | `SettledIsHeld`, violated |

What the passing runs show:

* `NeverOverdrawn`: the check repeated under the lock is enough, whichever calls
  passed the first check together.
* `StatementChains`: a statement explains its balance line by line; only the line of
  a reversal may start elsewhere, and it does not hide the difference from the lines
  after it.
* `ReferenceUnique`: a credit that is asked for again, at once or after a crash,
  never arrives twice.
* `Reconciled`, `MoneyConserved`: balance, totals and statement, which are written
  separately, agree, and transfers create nothing, as long as no reversal is in
  sight.
* `WithdrawalOutcome`: *queued* means debited and queued; a refusal means not debited; no
  payout job exists without a debit; and a debit has a job or a reversal behind it, unless
  the process died or the transaction of the reversal failed as well.  A debit may have both,
  a reversal and a job that pays it, see *Met while modelling*.
* `KeepsBook` (both modules): the wallets, and the system wallet, implement `Ledger`.
* `NoStandingWait`: while a call is under way, some call can take its next step.  Since every
  step takes its call further and calls are finitely many, all of them end once their database
  answers: no row lock outlives its transaction, and opposite transfers do not stand still.
* `SuccessWasPaid`: however replies, webhooks, polls and retries overtake each other,
  SUCCESS is never written for money that did not arrive, but by an event that says so
  itself and is not true.  (A payout that did arrive
  may well say FAILED: that is how the code pays twice.)
* `EventAppliedOnce`: look-up, insert, handling and marking of an event are four steps, and
  two deliveries may both find nothing; the unique index on the idempotency key, not the
  look-up, makes one of them give up.
* `JobOutcome`, `JobsSettle`: a job that completes has booked a transfer that
  Flutterwave accepted; a job that is given up has used up its attempts or restarts;
  and every job gets there.
* `MoneyBacked`, `PaidIsBacked`: money goes out, and invoices become paid, only for a
  payment that NOWPayments has confirmed and, when it has a hash, whose deposit Quidax
  holds, also when IPNs are late, name another invoice or are not true, and when jobs are
  started again; unless the very IPN that asked for the payment's job was not true.
* `PaidOutOnce`: as long as nobody overwrites the status PAID, restarts, retries,
  forgotten jobs and IPNs of any content pay a payment out once.  The condition is needed:
  without it TLC finds a job that, run again after a cancellation, pays twice.  So is that
  the payment's jobs are for one invoice (`strayed`): the mark that stops a second payment is
  the invoice's, and an untrue IPN may bill the payment to another one.
* `TotalsAgree`: the four absolute values that a recording writes are made from the
  row it has locked, so no recording loses another's.
* `ReserveKept`: a withdrawal goes below the reserve only if another movement took
  money after its check.  That exception is real: the check is on a balance read without
  a lock and is not repeated under it, so two withdrawals can together use up the
  reserve; the lock repeats only the comparison with zero.
* `MainInService`: the guard that goes by the label read before the update is evaded only
  by an update that makes a main wallet of one that is, or is being, taken out.
* `CallsEnd`: calls end, except that a recording needs a second connection while it holds
  its row: when the calls that wait for that row have all the others, nothing moves.
  The property says that nothing else stops a call.
* `SpentOnce`: links, codes and tokens are looked up in one step and deleted in another;
  only calls that overlap can both use one, a later one cannot.  Two logins of one second
  get the same refresh token, which is then good for two.
* `RevokedByReset`: the scan of the reset deletes every session that was there when it
  began, whatever pages it is given, also empty ones.
* `PinAgrees`, `PinReplacedKnowingly`: a PIN and the flag that says there is one, and a PIN
  and who may replace it, come apart only if calls on the PIN overlap.
* `SecretConfirmed`: nobody is locked out by a secret that was never confirmed, unless a
  set-up overlaps the confirmation.
* `VerifiedPhoneProven`, `GuessesBounded`, `UsedCodeGone`: codes prove the number in the
  row; guesses are counted and used codes stay away unless guesses overlap, because the
  counter is in the value that is written back.
* `NameProven`: an old copy of the record gives nobody a name that was not returned for him;
  a callback, true or not, gives nobody a name at all but that of the user's record.  It says
  that the words were returned for one BVN of the user, not that none was left out; which
  words the code loses or takes from the profile is under *Met while modelling*.
* `VerifiedByFace`: no order of replies, reviews and true callbacks verifies who has not
  passed; an untrue callback that claims the success does.
* `NamedWhenVerified`, `StatusesAgree`: the three rows of an approval disagree only while
  it is under way or after it broke off.
* `NumberHeldOnce`: a BVN is behind two users only if the two checks that recorded it
  overlapped, during the half minute of the provider (the number is looked up before Smile is
  asked, and no index holds it); a verified NIN only if calls for these two users overlapped;
  or a rejection that had freed the number was taken back.  Whatever other calls overlap,
  callbacks and reviews of other records included, makes no such pair.

Each property of a passing run has a mutant in `PROJECT.json`: a variant of an
action with a plausible bug, kept next to the action, under which TLC finds the
property violated in the same instance.

Bounds.  Three calls are what it takes for a reversal to meet a second and a third
movement, and two users for transfers to cross; amounts are equal, so that every
balance check is at its boundary, and a wallet starts with nothing or one amount.
A retry meets a job's run and two deliveries, which meet each other; a poll meets the
attempts of a job in `payout_job`; all of them at once, and a second retry, are too many for
TLC, and it is the theorems that speak of them.  With MAX_RETRIES 1 the limit is reached.  Two
attempts and a restart are a first, a failed and a crashed run of a job.  In `payment`, one IPN
of any content meets everything that can be done to an invoice; in `payment_ipns`, two IPNs are
one that says too little and one that says enough, or two that do, of which the second may
come after the job was forgotten, and two invoices are the payment's own and another's.
In `treasury` two calls compete for one row and one reference, a wallet with two units
and a reserve of one lets one withdrawal pass the check and not two, and two
connections are what it takes to jam the pool.  In `accounts` a third call finds what two
overlapping ones have left; one guess is at once the first and the last; two seconds are
the same one and another, and the clock goes on only after a second in which a token was
signed.  Its four initial states (no account, a new one, one in use with a session, one
with an authenticator) share out what an account can have, so that calls on the same columns
or keys meet.  In `kyc` two users compete for one BVN while a third call
reviews or reports one of them; no name, a first name alone and three words together are the
cases that parser and service tell apart, and a user who starts over gets another of them.  `CHECK_DEADLOCK FALSE` is set because every system here may stop: calls,
retries, polls and payments are used up.

Fairness.  The wallets need none: nobody is obliged to make a call, and that one can go on is a
statement about states.  `FairSpec` of `Payout` has
weak fairness of starting a waiting job (Bull hands out every waiting job, and there is
always a worker) and of the steps of a run: the client's timeout of 30 seconds
(`flutterwave.service.ts` 90) ends the call to Flutterwave, and the database answers the
others.  That is an assumption: fee and reserve of a payout (196, 227) are recorded in the
platform's wallet, and such a call hangs when the pool of connections is jammed, as
`Treasury` shows.  `JobsSettle` says that jobs end while it is not.  Webhooks,
polls, retries and Flutterwave itself need no fairness.  `FairSpec` of `Treasury` has weak
fairness of the steps of each call that has begun: the event loop resumes it when the database
answers, and a row lock is granted when it is free; the pool serves its queue in order.  `CallsEnd` excepts, besides the
jammed pool, a start-up that would insert a wallet when all that the instance names are
there.

## Findings

* `wallet_reversal`.  The reversal reads the wallet without a lock
  (`wallet.service.ts` 618) and writes an absolute balance: a credit or transfer that
  commits in between is lost, and the statement has a gap.
* `payout_retry`.  `retryPayout` claims the payout by id after two reads
  (`flutterwave.service.ts` 341): two retries both send a transfer, though the guard
  promises 'Payout already processing'.
* `payment_paid`.  `cancel` (`invoice.service.ts` 319) overwrites an invoice that was
  paid after it was checked: 'Paid invoices cannot be cancelled'.  The sweep of rate
  locks, `createPayment` and `onPaymentFailed` can do the same.
* `payment_outage`.  `getDeposits` turns an error into an empty list
  (`quidax.service.ts` 254), the deposit into a flash deposit, and the job is not
  retried, though the comment at 228 wants the payment 'held pending'.

Met while modelling, and without a run of their own:

* The catch block that shall 'Reverse the debit if payout fails' (`wallet.service.ts` 613) does
  so in a second transaction, which may fail for the same reason as the queue did
  (`ReversalFails`): the caller gets an error, the debit stands, nothing is paid and nothing
  tries again.
* `payoutQueue.add` (588) may throw after Redis has stored the job.  The same catch block takes
  that for a failure and reverses the debit; the job runs all the same, and the customer has the
  money twice.
* The comment on `extractVerifiedName` (`kyc.service.ts` 600-602) gives a full name's first word
  to the first name and joins the rest for the last name, and leaves the last name of a single
  word empty.  `parseVerificationResult` (`smile-identity.service.ts` 261) has cut the name to
  its first and its last word before, so that the code the comment stands at is not reached.
* `resolveVerifiedName` falls back on the profile 'only if metadata is absent' (644); the code
  falls back for each half of the name alone (656), so that a first name without a last name
  is verified together with the last name the user typed.
* The comment on the counter of wrong codes (`whatsapp-otp.service.ts` 119) wants no code to
  get 'a fresh window'; one that expires between its reading and its writing back does.
* `adminReview` writes the record, the user's status and the user's name in three updates,
  though `applyVerifiedNameToUser` (`kyc.service.ts` 670) says that name and status are set
  'together so the user row is never left in a partial state' (`NamedWhenVerified` makes
  the exception).
* A callback of a BVN job, which carries no face result, is taken for a failed face check
  and rejects the user, who has to begin again; that of a face job finds no record to
  write unless the reply has already done so.

## Proofs

For every value of the constants that satisfies the named assumptions:

| module | theorem | statement |
| --- | --- | --- |
| `LedgerProofs` | `BookIsKept` | `Spec => []Kept` (of `Ledger`) |
| `WalletLedgerProofs` | `TypeCorrect` | `Spec => []TypeOK` |
| | `NoOverdraft` | `Spec => []NeverOverdrawn` |
| | `StatementAccounts` | `Spec => []StatementChains` |
| | `BookImplemented` | `Spec => KeepsBook` |
| | `ReferencesAreUnique` | `Spec => []ReferenceUnique` |
| | `ColumnsReconcile` | `Spec => []Reconciled` |
| | `WithdrawalTold` | `Spec => []WithdrawalOutcome` |
| | `MoneyIsConserved` | `Spec => []MoneyConserved` |
| `TreasuryProofs` | `TypeCorrect` | `Spec => []TypeOK` |
| | `MainStaysInService` | `Spec => []MainInService` |
| | `BookImplemented` | `Spec => KeepsBook` |
| | `ReserveOutlasts` | `Spec => []ReserveKept` |
| | `ColumnsAgree` | `Spec => []TotalsAgree` |
| `PayoutProofs` | `TypeCorrect` | `Spec => []TypeOK` |
| | `JobsAreExplained` | `Spec => []JobOutcome` |
| | `EventsApplyOnce` | `Spec => []EventAppliedOnce` |
| | `RetriesAreBounded` | `Spec => []RetryCountBounded` |
| | `SuccessesWerePaid` | `Spec => []SuccessWasPaid` |
| `InvoicePaymentProofs` | `TypeCorrect` | `Spec => []TypeOK` |
| | `MoneyIsBacked` | `Spec => MoneyBacked` |
| | `PaidInvoicesAreBacked` | `Spec => PaidIsBacked` |
| | `PaymentsArePaidOutOnce` | `Spec => []PaidOutOnce` |
| `AccountsProofs` | `AccountTypes` | `Spec => []TypeOK` |
| | `ResetRevokes` | `Spec => []RevokedByReset` |
| `AccountsSafety` | `PinAgreement` | `Spec => []PinAgrees` |
| | `PinKnown` | `Spec => PinReplacedKnowingly` |
| | `SecretKnown` | `Spec => []SecretConfirmed` |
| | `NumberProven` | `Spec => []VerifiedPhoneProven` |
| | `UsedCodeIsGone` | `Spec => []UsedCodeGone` |
| | `GuessesAreBounded` | `Spec => []GuessesBounded` |
| | `CredentialsAreSpent` | `Spec => []SpentOnce` |
| `KycProofs` | `KycTypes` | `Spec => []TypeOK` |
| | `VerificationIsEarned` | `Spec => []VerifiedByFace` |
| | `VerifiedHasName` | `Spec => []NamedWhenVerified` |
| | `NameIsProven` | `Spec => []NameProven` |
| | `NumberIsHeldOnce` | `Spec => []NumberHeldOnce` |
| | `RowsAgree` | `Spec => []StatusesAgree` |

Every invariant and every safety action property of a passing run has its theorem, but for
`NoStandingWait`.

Assumptions.  All are `ASSUME`s with a name in the module that declares the constants, and
say no more than what the constants stand for: amounts are positive integers
(`AmountAssumption`, `EndowmentAssumption`), counts are natural numbers
(`CountsAssumption`, `ReserveAssumption`, `AttemptsAssumption`), faults are among those the
modules know, `None`, for what is absent, is none of the calls, wallets, references, users,
words, numbers, results or requests, and `Earlier` is none of the calls.  `PageAssumption`
and `NothingAssumption` say that a page of a scan, the row of an account and a second are
not `None`.  `UserAssumption` says that the users of the wallets are finitely many, without
which a sum over them means nothing; `AnswerAssumption` that the parts of a name are sequences
of words; `TouchedAssumption` that the invoices with more to them are invoices.

**Wallets.**  `TypeOK` is not inductive: a step reads fields of a request that only a
request of its kind has.  `Shape` says that a call which has got to a place in the code
was asked for the operation that goes there, and that the two users of a transfer differ
(else the two updates of `TransferCommit` would be one); `Typed == TypeOK /\ Shape` is
inductive.  `NeverOverdrawn` needs more, because a reversal writes a balance it has read
earlier: `Solvent` adds that what it has read was not negative.  `StatementChains` is
inductive relative to `Typed`; `AccountsAppend` is the lemma it rests on.

`BookImplemented` goes step by step: every action is a `Move` or leaves balances and lines
alone.  The hard part is that a `Move` uses a reference that nobody has used, since for the
references that the service makes up the code checks nothing: `Marked` says that such a
reference is in a statement only when its call has passed the step that writes it.
`ReferenceUnique` is then not proved about the wallets at all: it is `DistinctReferences`
of the book (`BookIsKept`), carried over by the refinement.  `WithdrawalOutcome` needs
`Accountable`: between its debit and the answer, a withdrawal's line is in the statement,
and no movement removes a line.

`MoneyConserved` is about three sums over finite sets: over the users, over the credits
reported, over the withdrawals debited.  What the sum of the community modules does for
every set (`SumPicks`, `SumTakes`, `SumChanges`, `SumGrows`: take one element out, change
one, add one) is an induction over the subsets of a finite set.  The library's induction
theorems cannot be used, so `Building` does it with a set in the place of the predicate: of
the subsets that are not in it there is a minimal one, strict inclusion being well-founded.
`Counted` is the strengthening: what is summed over is finite and was asked for what it is
counted as.  `LinesAdded` says that the lines a step writes end the claim or change neither
the opening balances nor what else it depends on; then each movement adds the same to both
sides.

**System wallet.**  `Typed` is built likewise.  `Exclusive` is what makes the book right:
a recording that has read its row holds it, and the row is still as it was read; and of
two recordings that have inserted their lines none has the other's reference, because the
insert waits for, and then fails on, an equal one.  `Prudent` is `ReserveKept` with
`Covered`: a withdrawal on its way had the reserve left when it was checked.  `Guarded` is
`MainInService` with what an update on its way to maintenance has seen.  For `TotalsAgree`,
`SumAppend` says that a line at the end of a statement adds its amount to the sums of its
type; it goes by induction over the lines (`Counting`, built as above on the numbers).
`CommitAgrees` then needs `Exclusive` again: the columns are written as they were read plus
the line, which is right only because nobody has written them in between.

**Payouts.**  `Typed` has four parts besides the types.  `JobsAccounted` ties the runs of a
job to attempts and restarts; `TargetsKnown` and `RowsNamed` say which rows and retries
are in use; `TransfersKnown` that whatever has been seen of a transfer is a transfer that
Flutterwave has.  On it rest `JobsExplained` (`JobOutcome`), `HandledOnce`
(`EventAppliedOnce`: of the deliveries past the insert no two have the same event, one that is
about to write has an event that was not applied, and what was applied is stored) and
`BelowLimit` (`RetryCountBounded`: a retry that is about to claim saw a count below the
limit, and writes that count plus one).  `SuccessWasPaid` needs `Traced` and `Unstarted`: a
row's reference and transfer id, an event's row and a poll's row all lead back to a call
that worked for that very row, so that a reply which comes late is never booked on another
payout.  An event is booked on the payout it names; one that says SUCCESS and had happened has
seen the transfer, and one that had not is the exception, so that an event's row of `Traced`
is asked for of the founded ones.

**Payments.**  `Typed` is `TypeOK` with `Working` and `Known`, which say that a job at work has an invoice to
bill, and that a job that is not `unfounded` is for a confirmed payment and the payment's own
invoice.  `Checked` says that past the check of the deposit Quidax holds it, if the job has a
hash and is not `unfounded`; together they give `MoneyBacked` and `PaidIsBacked`.  `Once` is
`Fine(p)` for each payment that has not `strayed`: whoever
has paid something out had marked the invoice before, a job that is about to pay has
not paid yet, and one that falls back from a cash-out has sent at most one transfer and
not credited, each unless the mark was overwritten.  The exception is in every part, and
`Settled(i)`, paid now or overwritten, never ends: that makes it inductive.

**Accounts.**  Most properties of `Accounts` excuse calls that overlapped, so that the
invariants have to say which did.  `Control` has, besides the types, `Fits` (where a call
can be, given what it was asked, and what it has read there) and `Met` (calls under way
together are recorded as overlapping, and only calls that have begun are).  Its lemmas go action by
action; the frame lemmas of `AccountsSafety` (`ActFrame`, `RowFrame`, `KeyFrame`,
`BeginFrame`) say once what a step of another call leaves alone.  On them rest six
invariants, each the property with what a call in the middle of its reads and writes knows:

* `PinSafe`: a call about to write the PIN still finds what it has checked in the row,
  unless another call on the PIN overlapped it.  `PinKnown`, about steps, follows.
* `SecretSafe`: the same for the method and the secret of the authenticator.
* `NumberSafe`: a call that has asked for a code, or presents one, does it for the number in
  the row, unless two calls that set a number overlapped (`TwoNumbers`).
* `CodesSent`, `UsedSafe`: codes in Redis, and copies of them that a guess has read, were
  sent; only a guess that overlapped the right one has a copy of a code that has been used.
* `GuessSafe`: the wrong guesses of a code are no more than its counter says, nor than what
  any guess about to be counted has read, unless it overlaps one of them.  They are counted
  with `Cardinality`, for any number of calls, so it carries that they are finitely many.
* `SpentSafe`, for `SpentOnce`: one part per kind of credential.  `LinkSafe`: a link is gone
  once used; `MailSafe`: the code in the row is another once used; `ProofSafe`: once a number is
  verified no call begins that verifies one; `TokenSafe`: a revoked refresh token is there
  again only if two calls signed it within its second.

The reset has an invariant of its own.  `Placed` says where a reset can be and that only a
reset scans.  `Pursued` is the invariant of the scan: a session that was there when it
began, and is still alive, is either to be returned by a later page or on the page that is
about to be deleted.

**Identity checks.**  Nearly every step looks for the latest record of a user, a maximum
over a sequence: `LargestExists` and `LatestIs` say that it is a record of the user's, if
there is one, and that none of the user's is newer.  `Control` has the types, where a call
can be and what job and record it works on (`Placed`, `Asked`, `Found`), which calls have
met (`Met`), and `RecordsProven`: a record, and a copy of it that a call holds, has jobs of its own
user, and the name that its BVN job gave.  Five invariants add to it what a call has seen:

* `FaceSafe` for `VerifiedByFace`: a call about to verify a user comes from an administrator,
  is a callback that was not true, or has a job of that user that passed (`Reasons`).
* `NamedWhenVerified` is inductive relative to `Control`.
* `NameSafe` for `NameProven`: the words of a user's name, and of the copy that a call will
  write it from, are the user's own or were returned for the user's BVN (`NamesKnown`).
* `NumberSafe` for `NumberHeldOnce`: a check that has found its number free, and is still to
  record it, has overlapped whoever holds the number by now (`BvnWatched`, `NinWatched`), for
  it was free when the check began; with it `Marked`, that the records a verdict has freed a
  number of are those in `overruled`.
* `AgreeSafe` for `StatusesAgree`: while no two calls have overlapped, a user has one record (`OneRecord`), and between the
  two writes of a call the first says what the second will be (`Between`).

Only model-checked: liveness (`CallsEnd`, `JobsSettle`) and `NoStandingWait`, which is about
`ENABLED`; both are out of the provers' reach.  Only proved: `RetryCountBounded`, since a run in
which overlapping retries reach the limit is too large beside the rest.  The properties of the runs that expect a violation are false, and have no
theorem.

## What is abstracted, and what is not modelled

* Amounts are integers, moved in the smallest unit; the floating-point arithmetic of
  the services (`wallet.service.ts` 558) and the rounding of `numeric(18,2)` columns are
  left out.
* `lockedBalanceNgn` is zero in every wallet, since no code writes it otherwise.
* A read that follows another with no write of anybody's needed between them to tell the
  two apart is one step with it; a call that its first read refuses changes nothing and
  has no step.
* Notifications, audit lines and Kafka events appear only as steps that may throw, or
  wait, where that changes what follows.
* `Payout` and `InvoicePayment` record only that fee and reserve were asked for (`booked`);
  what becomes of such a call is in `Treasury`.  The two are not composed: that every
  attempt of a payout job credits the fee again (`flutterwave.service.ts` 196) is in neither.
* In `Payout`, a payout is reached by its job; `adminTriggerPayout` calls the same
  code without a job and amounts to a job with one attempt.
* In `InvoicePayment`, an `Ipn` has one content and is handled once, as its key allows; the
  same status again is another `Ipn`.  *refunded* is treated with *failed*, an unknown status does nothing, and there is
  always an exchange rate.  The several writes of `createPayment` after the reply are
  one step.  The transfer of an automatic cash-out is only counted; `Payout` models
  what becomes of it.  Of a second `lockRate` (502), which runs into the unique
  constraint, only the first part matters to an invoice.
* In `Treasury`, the minimum reserve is a constant: the administrator's change of it is
  one write that nothing else depends on.
* In `Accounts`, the second factor is always on and accounts are active (no code writes
  otherwise); a TOTP code can be used again within its window, as in the code; profiles
  and referrals are left out.
* Bull may start a job again whose worker is only slow; a restart here follows a
  crash.  The queue for expiring invoices (`queue.scheduler.ts` 62) has no processor: its
  jobs wait for ever, and invoices expire only through the sweep of rate locks.
* The WhatsApp bot.  `handleMenuOption` (`whatsapp-bot.service.ts` 311), from which all its
  dialogues with an effect start, has no caller; users are looked up by a plain number
  where the column is encrypted; transfers and withdrawals pass a placeholder as PIN,
  which is refused.  No message it is sent moves anything but its own session, so a model
  would be of code that does not run.  Its one-time codes are those of `PhoneCode`.
* `SumsubService` is not used by any other class.
* Kafka (publishing never fails the caller), email, GupShup, encryption, the cache,
  controllers, entities and migrations have no behaviour of their own that a state
  machine would add to; the unique constraints of the schema are in the modules that
  depend on them.

Also hard to test, and covered by no property: the statuses of the wallets of a transfer,
which are not looked at again under the lock (`wallet.service.ts` 301); its two lines, written
after both balances (373; the transaction makes them one); the newest 50 deposits, beyond
which a deposit looks absent (`quidax.service.ts` 242); a payment without a hash, which is
believed without a look at the deposit (`payment.processor.ts` 144; `MoneyBacked` and
`PaidIsBacked` ask for the deposit of those with one); two invoices created at once, which
read the same last number.  A webhook event or IPN that was stored, but whose handler or job
was then lost, is taken for a duplicate when it is delivered again
(`flutterwave.service.ts` 414, `nowpayments.service.ts` 683): the models have this, and
nothing in the code makes up for it, so that no liveness of events or payments holds.

## Plan

Done: `WalletLedger`, `JobQueue`, `Payout`, `InvoicePayment`; then `Ledger` with its two
implementations, `Treasury`, `Accounts` with `PhoneCode`, `Kyc`; then theorems for every
invariant and safety action property of the passing runs.
Left, the most important first:

1. The composition of `Payout` with `Treasury`: fee and reserve of a payout over its
   attempts and retries, against what the platform's statement says.
2. `Delivery`, an abstract payout (asked for, sent, settled), to be implemented by `Payout`
   as far as the code allows, and the proof that it is; `payout_retry` shows where it is not.
3. That `InvoicePayment` uses `JobQueue` as it promises: an abstract job, implemented by the
   two modules that instantiate it.
4. `adminTriggerPayout`, and invoice numbers, as actions of their own.
5. The WhatsApp dialogue, if its menu is connected.

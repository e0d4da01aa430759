# TapCash: models and proofs

This directory holds TLA+ models of TapCash, the TLC runs that check them on
small instances, and proofs, checked by TLAPS, of what matters most for
instances of any size. Every definition is translated from the Go, SQL and
TypeScript sources; `PROJECT.json` names the lines behind each one.

    tlc -config Online.cfg MCOnline.tla      # one run
    tlapm OnlineProofs.tla                   # the proofs

1. [The system](#1-the-system)
2. [The models](#2-the-models)
3. [How code becomes TLA+](#3-how-code-becomes-tla)
4. [The runs](#4-the-runs)
5. [The proofs](#5-the-proofs)
6. [What the models showed about the code](#6-what-the-models-showed-about-the-code)
7. [What is not modelled](#7-what-is-not-modelled)
8. [Plan](#8-plan)

## 1. The system

TapCash is a payment backend in Go on PostgreSQL and Redis, with a mobile app
that also signs payments without a network. Money moves in three ways: an
online transfer between two wallets; a voucher, signed on a phone and later
uploaded in a batch; a top-up. Part of a wallet can be set aside as escrow for
vouchers to come.

| component | source | its state | its operations |
|---|---|---|---|
| online payments | `internal/features/payment_online` | none between requests; locals of a request | `Transfer`: key lock, transaction, two row locks, posting, commit, release |
| offline reconciliation | `internal/features/offline_sync` | the results of a batch | `ReconcileBatch`: verify, sort, then one `processSingleVoucher` after the other |
| wallet service | `internal/features/wallet` | none | `FundWallet`, `AllocateOffline`; two read-only queries |
| accounts and devices | `internal/features/auth` | none | `Register`, `Login`, `RegisterDevice`; `Me` only reads |
| database | `backend/migrations`, `internal/pkg/database` | the tables; row locks; a pool of 25 connections | transactions at READ COMMITTED with `SELECT ... FOR UPDATE` |
| key lock store | `internal/pkg/redis` | Redis keys with a TTL, or a map in memory when Redis is not there | `TryAcquireLock`, `ReleaseLock` |
| nonce registry | `internal/pkg/crypto` | a map of nonces, one per process, never saved | `CheckAndRecord`, a clean-up loop |
| JWT middleware | `internal/pkg/middleware` | none | a token names its user for 72 hours |
| server | `cmd/server` | none | routes, a 60 s timeout; several processes may share a database |
| app: accounts | `mobile/src/core/auth/userManager.ts` | balances, the current account | `transfer`, `topUp`, `switchUser` |
| app: local ledger | `mobile/src/core/database/sqlite.ts` | entries, sequence number, queue of vouchers | `recordOfflineDebit`, `recordOfflineCredit`, `clearSyncedVouchers` |
| app: tap bridge | `mobile/src/features/tap_to_pay` | none | `executeNfcExchange` |
| app: screens | `mobile/App.tsx` | the account on the screen, the session | handlers that await or set timers |
| simulator | `cmd/simulator` | the vouchers, a channel of batches, totals | deals signed vouchers, reconciles them in a pool of workers, audits the sum |

**How they interact.** All services of the server work on the same wallet rows:
a transfer locks the payer's row and then the payee's, a voucher locks two rows
in the order of the user ids, funding and allocation lock one. They share the
connection pool of their process. The key lock store stands before the
transaction of a transfer, the nonce registry before that of a voucher; both
are advisory, and the UNIQUE columns of the tables have the last word. The
reconciliation trusts the device keys that accounts register. The app keeps a
model of its own and does not call the server. The simulator is a process of its own
that calls `ReconcileBatch` from its workers, beside the HTTP server.

**What is hard.** Concurrency on the rows, and deadlock; rows read into Go
variables and written back computed; a lock with a TTL that is shorter than the
work it protects; a commit whose acknowledgement is lost; retries under one
key; processes that die with a map that was not saved; vouchers in any order,
twice, or through two payees; int64 and CHECK boundaries; and in the app, state
captured before a timer and used after it. `PROJECT.json` lists each at its
line under `hazards`, with the properties that would notice.

**What makes each part correct.**

- *tables*: the balance after an entry follows from the entry before it, and
  the wallet shows the last one (`JournalChain`); the escrow is covered by the
  balance (`EscrowCovered`); money is neither made nor lost (`MoneyConserved`).
- *online payments*: one key pays once (`NoDoubleCharge`); transfers do not wait
  in a circle (`NoLockCycle`); a key is freed by its holder (`ReleasesOwnKey`);
  every behaviour is one of the abstract bank (`OnlineImplementsBank`).
- *reconciliation*: a voucher settles once (`VoucherSettledOnce`), in order
  (`SequenceMonotone`); a result says what happened (`ReconciledIsSettled`,
  `DuplicateIsProcessed`); batches do not wait in a
  circle (`NoSyncLockCycle`).
- *wallet service, with the others*: what is set aside pays the vouchers
  (`EscrowedVouchersPay`).
- *server*: all services together are the bank (`BackendImplementsBank`), and
  every request comes to an end (`RequestsAnswered`).
- *accounts*: an email has one owner (`RegisteredOwnsEmail`), a user one wallet
  (`WalletForEveryUser`), a device key stays where it is (`DeviceKeepsUser`),
  every behaviour is one of the abstract directory (`AuthImplementsDirectory`),
  and registrations end (`AuthAnswered`).
- *app*: no overdraft through a stale screen (`NoOverdraft`), money only from
  top-ups (`MoneyComesFromTopUps`), numbers without repeats or gaps
  (`VouchersNumberedOnce`, `SequenceCountsDebits`), a sync that drops nothing it
  did not send (`SyncDropsWhatWasSent`), one account on the screen, in the list
  and in the storage as long as the storage answers (`ScreenIsSession`), also after
  a restart (`SessionResumes`).
- *simulator*: the audit compares sums of a quiet table (`AuditPasses`), each
  voucher is in one total (`EveryVoucherCounted`), refusals have the reason they
  name (`RefusedWasOvertaken`, `SolventVouchersPay`), and it ends
  (`SimulationEnds`).

## 2. The models

    Bank  . . . . . . . . . .  what TapCash promises      Directory
      ^ refinement                                          ^ refinement
    Store  -> PaymentOnline  --+                          Auth      Mobile
          \-> OfflineSync    --+--> Backend
           \    \-> Simulator  |
            \-> WalletService -+

| module | models | main state | actions |
|---|---|---|---|
| `Store` | tables, row locks, pool, goroutines; posting a payment | `wallets journal transactions rowLock conns seen pc reply` | operators for the others: `TakeConn`, `LockRow`, `EndTx`, `PostPayment`, `CrashStore` |
| `PaymentOnline` | `Transfer` and the key lock store | `order keyLock` | `SubmitTransfer AcquireKey KeyBusy KeyLost BeginTransfer ResolvePayee RefusePayee LockPayer RefuseFunds LockPayee SettleTransfer RefuseStatement FailTransfer DeadlockVictim ReleaseKey ExpireKey` and a crash |
| `OfflineSync` | `ReconcileBatch`, `processSingleVoucher`, the nonce registry, device keys | `devices vouchers nonces batch results current payerOf` | `SubmitBatch TakeVoucher SeenNonce ResolveDevice UnknownDevice OpenTx LookupVoucher KnownVoucher LockFirst LockSecond NoWallet RefuseSequence RefuseVoucherFunds SettleVoucher RefuseVoucher FailVoucher FinishBatch RegisterDevice ForgetNonce` and a crash |
| `WalletService` | `FundWallet`, `AllocateOffline` | `job` | `SubmitJob FindWallet StartJob LockOwn Fund RefuseFund Allocate RefuseAllocate FailJob` |
| `Backend` | the server: the three services in several processes | all of the above | `Submit`, `Serve`, `Trouble`, `Crash`, `Background` |
| `Simulator` | the load test: main and its workers around `OfflineSync` | `main dealt currentSeq sent channel totals audited finalTotal` | `DealVoucher SendBatch StartWorkers TakeBatch CountBatch LeaveWorker AwaitWorkers AuditWallet FailAudit Verdict` and the steps of `OfflineSync` |
| `Bank` | the abstract specification of money | `balance escrow spent` | `Pay`, `Reserve`, `Deposit` |
| `Auth` | accounts, logins, device keys | `users owners claim deviceKeys tokens` | `Ask LookupEmail RefuseKnown InsertUser RefuseTaken CommitUser Login RefuseLogin AskDevice SaveDeviceKey FailAuth ExpireToken` |
| `Directory` | the abstract specification of accounts | `given purses keys` | `Join`, `GiveKey` |
| `Mobile` | the app | `known money current ledger sequence queue shown shownQueue booting locked authenticating stored jobs` | a `Press...` and a `Finish...` for each handler that waits, `StorageFails`, `TopUp`, `Launch`, `LaunchFails`, `Unlock`, `Restart` |
| `MCOnline`, `MCSync`, `MCBackend`, `MCAuth`, `MCMobile`, `MCSimulator` | small instances | | |
| `FiniteProofs`, `StoreProofs`, `OnlineProofs`, `SyncProofs`, `BackendProofs`, `AuthProofs`, `MobileProofs`, `SimulatorProofs` | lemmas and theorems, see section 5 | | |

`Bank` says what a client may rely on: balances with a part in escrow, changed
by single steps. A *note* (an idempotency key; a voucher with its id, nonce and
sequence number) is a set of tokens, good for one payment: `Spend` demands that
none of them has been used. In the refinement a balance is the column of the
wallet, and `spent` is computed from the tables `transactions` and
`offline_vouchers`. Locks, connections, program counters and the key store have
no counterpart: steps on them are stutters.

`Directory` says the same of accounts: an email is given once, for ever and
together with a wallet; a device key is given once, to somebody with a wallet.
The relation between emails and users, the set of wallet owners and the relation
between keys and users are read off the tables; requests, claims of open
transactions and tokens do not show.

## 3. How code becomes TLA+

- **A request is a goroutine with a program counter.** `pc[r]` names the place
  between two statements at which others can run: a Redis call, a wait for a
  connection, a query, a row lock. The rows scanned into locals are `seen[r]`
  and keep their values while others run.
- **A transaction posts and commits in one step** (`SettleTransfer`,
  `SettleVoucher`, `Fund`, `Allocate`). Nobody reads what is not committed, and
  a transaction has locked every wallet row it writes before it writes, so no
  other request can tell the statements of one posting apart. The rows it
  inserts with UNIQUE columns come last, directly before the commit.
- **Errors are actions.** Every early return of the code is a `Refuse...`,
  `No...`, `Known...` or `Unknown...` action. `Fail...` is an error of the
  database or an ended context (60 s, or a client that hung up) at any moment
  of an open request. Settling has two outcomes for the client: the commit is
  done in both, its acknowledgement may be lost.
- **A crash** ends all goroutines of a process. PostgreSQL rolls their
  transactions back, the maps in memory are gone, Redis and the tables stay.
- **Time** is not counted: the TTL of a key and of a nonce may pass at any
  moment. The code ties neither to the duration of the work.
- **Integers** have the width `MaxInt`; `Wrap` is Go's addition. The CHECK
  constraints are guards (`PaymentFits`).
- **Signatures**: a voucher is signed or it is not. The workers that verify
  share nothing, so verification is part of `StartBatch`.
- **Opening wallets** are constants: any wallets whose escrow is covered. They
  stand for all that happened before.
- **The app** runs one piece of JavaScript at a time. A press runs a handler up
  to its first timer or await; what is left to do goes into `jobs`, with the
  values it captured, and runs later. Jobs stand in lines: two sign-ins wait for
  timers of the same delay and AsyncStorage works one request after the other,
  so these keep their order; everything else overtakes freely. AsyncStorage may
  reject (`StorageFails`, `LaunchFails`): no `await` of `handleSignIn`,
  `handleSelectUser` and `handleLogOut` is in a `try`, so what follows it is
  skipped, while what came before it stays done.
- **Amounts on the phone** are tested before they are rounded: `Cents` is
  `Math.round(x * 100)` of an amount that is greater than 0, and may be 0. Such a
  payment moves nothing and is recorded as a debit under a number.
- **The simulator** is `OfflineSync` with other clients: its workers are the
  requests, a batch comes from the head of the channel, and when the response is
  counted the worker takes the next one. All its accounts, keys and wallets are
  there at the start. Its nonces are fresh, so the registry never refuses one and
  its clean-up is left out. `SimAssumption` names what the flags must give: two
  users who can pay each other (with one, the code draws for ever) and a worker
  (with none, the audit passes over vouchers that nobody has looked at); and that
  the wallets start at number 0, as main inserts them.
- Each module has, next to the definition it stands for, a few *faulty* forms
  of it (`EndTxLeak`, `StaleSequenceOff`, ...). No action uses them: put in
  place of the right one, each makes the property named in `PROJECT.json`
  under `mutants` fail, which shows that the property says something.

## 4. The runs

| run | instance | what it asks |
|---|---|---|
| `online` | 3 transfers (2 in one process, 1 in another), 2 users, `MaxInt` 6, 2 connections | the inductive invariant of the proofs, conservation, key ownership, refinement of `Bank` |
| `sync_batches` | 2 batches in 2 processes, up to 2 vouchers each, 10 batches to choose from, `MaxInt` 5 | all safety of reconciliation, no lock circles |
| `backend` | 3 requests to any of the three services, 2 in one process and 1 in another, one connection per process, in-memory key stores, `MaxInt` 6 | escrow, journal, conservation and keys when the services interleave; all services together implement `Bank` |
| `backend_live` | the same with fewer things to ask for | every request ends |
| `auth` | 3 requests, one member, two people who want one email, one device | uniqueness, wallets, device keys, the inductive invariant `AuthInv`, refinement of `Directory`, and every registration ends |
| `mobile` | 2 shipped accounts and a newcomer, payments of 2 and of an amount that is rounded to 0, top-ups of 2, up to 3 entries, 2 handlers at the same time | overdraft, money, numbering, sync, session |
| `simulator` | 3 accounts, 4 vouchers out of three payments, batches of 3, 2 workers, one connection, database failures | the audit, the totals, the refusals, the end |
| `online_cross`, `online_memory`, `sync_self`, `sync_nonce`, `mobile_resume` | as above | one property each, which the code violates: see section 6 |

**Why the bounds are enough to be interesting.**

- *online*: three requests are the original, its retry and a third party; they
  are in two processes so that a retry can meet another key store. The amounts
  make each of these happen: money that is available once but not twice, escrow
  that must not be spent, a payment that overflows the payee's column unless
  another comes first. The process of `r1` and `r2` has two connections, so that
  all three transfers can hold rows at once; waiting for a connection is left to
  `backend`. `r1` and `r2` are symmetric: they differ in nothing, and no liveness
  is checked in that run.
- *sync_batches*: the batches hold two vouchers out of order, one voucher twice,
  a repeated nonce, two vouchers with one number, a payment the other way, a
  forged voucher, an unknown payee, a negative amount, an overflow and an empty
  batch. `d2` is registered late. Any two of them run together, in two
  processes, with crashes and forgotten nonces in between; two batches are
  enough for a circle of locks.
- *backend*: wallet 1 has 4 with 3 in escrow; a transfer of 2 or an allocation
  of 1 more compete for the rest while a voucher of 3 is on its way. Two requests
  share the one connection of their process: one waits for it, perhaps with its
  key expired by then, while the other waits for a row that the second process
  has locked.
- *backend_live*: liveness needs the whole state graph, so there is one transfer,
  one voucher and one allocation to ask for, each as often as there are requests.
  The transfer and the voucher pay each other's payer: they wait in a circle when
  both processes are at it. With one connection per process every leak is fatal.
- *auth*: two people with different passwords want one email, at the same time
  and one after the other; a member's login and a newcomer's token reach the
  same device key. Three requests are enough for a registration, its rival and a
  third one that comes when the first has ended.
- *mobile*: the phone has 3 in its ledger, payments are 2: the second needs a
  top-up or is refused. A tenth of a cent is rounded to a payment of nothing. After
  its first entry the ledger takes two more: two debits that overlap, or a top-up
  and what it pays for. `MaxMoney` stops payments to an account that has more
  than it; without that bound, taps that the local ledger refuses still move
  money without end. Two handlers at a time are two account switches of which the
  storage rejects one, a log-out and a payment, or a sync and a tap.
- *simulator*: four vouchers in batches of three leave a short last batch. Two
  accounts pay each other 2 and 1, and a third gets 1: with 2 at the start, one
  payment may be all a payer has, and two are too many unless money comes in.
  A draw of a payment to oneself is there to be drawn again. Two workers have the
  two batches at the same time, one worker takes both, or a payer's later voucher
  settles first from the short batch.

**Fairness.** Safety runs assume none. `BackendFairSpec` has strong fairness for
the steps of each request: goroutines are scheduled, a row lock of PostgreSQL
and a connection of pgxpool are handed to waiters in the order in which they
came, and queries return or fail. A wait is not continuously enabled (others
take and leave the row), hence strong fairness. There is none for errors,
timeouts, crashes, expiry or new requests; `RequestsAnswered` holds without
their help, by way of PostgreSQL's deadlock detector (`BreakDeadlock`), which
is part of what a request can rely on. `AuthFairSpec` is the same for
registrations: an INSERT that meets an open row with the same key waits in a
queue. `SimFairSpec` needs only weak fairness of main and of each worker: the
vouchers are finitely many, so a row or connection is free for good in the end.

Only `simulator` turns deadlock checking off, as the program ends: that it ends in
a verdict or a failed query is `SimulationEnds`. In the other runs, when all requests are done a stuttering
step is allowed (`AllDone`, `SyncDone`, `BackendDone`, `AuthDone`), so TLC would
report a request that is stuck.

## 5. The proofs

Each proof is for any number of users, requests, processes, connections,
vouchers and accounts, and any `MaxInt`. TLC evaluates the named assumptions on
every run of the module; a theorem that needs more says so in its `ASSUME`.

| module | about | assumptions |
|---|---|---|
| `FiniteProofs` | finite sets of numbers, and sums over finite sets | none |
| `StoreProofs` | the operators of `Store` | `StoreAssumption` |
| `OnlineProofs` | transfers, refinement of `Bank` | and `TransferAssumption` |
| `SyncProofs` | reconciliation, deadlock | `StoreAssumption`, `VoucherAssumption` |
| `BackendProofs` | the wallet service; all services together, refinement of `Bank` | all of these and `JobAssumption` |
| `AuthProofs` | accounts and devices, refinement of `Directory` | `AuthAssumption` |
| `MobileProofs` | the app | `MobileAssumption` |
| `SimulatorProofs` | the load test | `StoreAssumption`, `VoucherAssumption`, `SimAssumption` |

**The assumptions.** Requests belong to processes, a process has a connection,
opening wallets are covered, there are finitely many users and their ids are
ordered (`StoreAssumption`); `None`, the free lock and the NULL column, is not a
request or a user. Transfers are between users, with int64 amounts of any sign,
and the payee may be nobody (`TransferAssumption`). Vouchers have int64 amounts
and numbers of any sign and name any payee (`VoucherAssumption`); jobs likewise
(`JobAssumption`). For accounts, the members' rows differ in id and email (both
columns are UNIQUE), and the id of a new user is a fresh uuid. For the app, the
shipped accounts are finitely many, have no negative balance, and `None` and
`NaN` are no numbers, as `null` and `NaN` are none in JavaScript; what users type
and the top-up buttons are greater than 0, what is paid may be 0 after rounding.

**Hypotheses of single theorems.** `NoSelfVouchers`: no uploaded voucher pays its
own payer. The service does not refuse such a voucher and settles it wrongly (the
run `sync_self`), so the books, the sum of money and the refinement are not true
without it; what does not depend on it (types, escrow, order, settled once) is
proved without it. `IsFiniteSet(Uploaded)`: finitely many vouchers are ever
uploaded; `EscrowedVouchersPay` speaks of their sum. `UseMemory = {}`: every
process reaches Redis; the run `online_memory` shows that a key is not always
freed by its holder otherwise.

### Sums

`MoneyConserved` sums over users, with a fold. Its value for every set of users
would be an induction over sets, which is out of the prover's reach as an
induction theorem. `FiniteProofs` does without: from `LeastSubset` (a set of
subsets of a finite set has a member from which nothing can be taken away) it
shows that there is exactly one function that adds up the members of each part one
after the other (`AddsExists`, `AddsUnique`), that the fold is that function
(`SumAdds`), and that it does not matter which member comes first
(`AddsAnyFirst`). From these: a sum in which one member changes changes as that
member (`SumChange`), what one member loses and another gains stays
(`SumTransfer`), a sum over one member more (`SumNew`), a sum over a part of
numbers that are not negative (`SumGrows`).

### Transfers

| theorem | says |
|---|---|
| `OnlineInvariant` | `OnlineSpec => []OnlineInv` |
| `OnlineTypes` | every variable keeps its type; columns stay in int64 |
| `OnlineEscrowCovered` | no interleaving of transfers spends money in escrow |
| `OnlineJournalChain` | no lost update: each entry follows from the one before it |
| `OnlineNoDoubleCharge` | no key pays twice, whatever the key store does |
| `OnlineMoneyConserved` | the sum of all wallets is the opening sum |
| `OnlineReleasesOwnKey` | with Redis everywhere, a transfer frees only the key it holds |
| `OnlineRefinesBank` | `OnlineSpec => OnlineImplementsBank` |

**The inductive invariant.** None of the safety properties is inductive: that
the escrow stays covered when a transfer posts depends on what it checked some
steps before. `OnlineInv` is the type invariant, `JournalChain` and two parts that
the other services use too. `StoreInv` has the types of the tables,
`EscrowCovered` and `LockedRowsAreFresh`: a row that a transaction has locked
still is what the transaction has scanned, because only the holder of a lock
writes the row. `TransferCore` has `NoDoubleCharge` and `StageOK(r)`: how far a
transfer has come says which rows it holds and what it has found there: past
`payer`, the payer's row is locked and has the amount available; at `settle`, the
payee's row is locked too, and the payee is another user. From these, what a
transfer computes from `seen[r]` when it posts is what it would compute from the
table.

**The argument.** `StoreProofs` has the lemmas about the operators of `Store`:
when `Wrap` is addition, that locking, ending a transaction and crashing keep
locked rows fresh, that a payment keeps the chain of both journals and the sum of
all wallets. `OnlineProofs` has one lemma per kind of step: `StageKept` and
`TransferUntouched` for the steps of others, `OwnTransferStep` for steps that
leave the tables and locks alone, `KeySteps`, `LockPayerStep` and
`LockPayeeStep`, `RollbackStep`, `SettleStep`, `OnlineCrashStep`.
`OnlineRequestStep` puts those of one request together, `InvNext` all of them.
`SettleEffect` is what every later proof uses of a settled transfer. For the
refinement, `SettlePayment` shows that it is a payment from the available balance
with a note that has not been spent, and `BankStutter` that every step which
leaves the tables alone is a stutter of the bank.

### Reconciliation

| theorem | says |
|---|---|
| `SyncInvariant` | `SyncSpec => []SyncInv` |
| `SyncTypes` | every variable keeps its type, whatever the vouchers carry |
| `SyncEscrowCovered` | no interleaving of batches leaves a balance below its escrow |
| `SyncVoucherSettledOnce` | no voucher, and no nonce, is settled twice |
| `SyncSequenceMonotone` | a payer's vouchers settle in ascending order |
| `SyncReconciledIsSettled` | what is reported as reconciled is in the table |
| `SyncDeadlockFree` | batches never wait for rows in a circle |
| `SyncJournalChain`, `SyncMoneyConserved` | with `NoSelfVouchers`: no lost update; money is neither made nor lost |

**The inductive invariant.** `SyncInv` is `StoreInv`, the types, `SyncCore` and
`SyncLocksOK`. `SyncCore` has the three properties of the table of vouchers, that
devices keep their user, and `SyncStageOK(r)`: past the look-up of the device the
payer is the device's user; at `second` the row of the smaller user id is locked,
at `post` both are; a voucher whose result is open is signed. `SyncLocksOK(r)` is
the converse: the request holds no other rows, which is what makes deadlock
impossible.

**The argument.** `RedeemEffect` says what a settled voucher finds and does to
the tables, from rows that are fresh. It is what keeps the order:
a voucher settles when its number is above the last one of the wallet, read under
the row lock, and writes its number there. Nothing in the proof
of `SyncVoucherSettledOnce` mentions the nonce registry: forgetting and crashing
cannot break it, as the UNIQUE columns carry the proof alone. For
`SyncDeadlockFree`, take the largest row that a circle of batches has locked: its
holder waits for its second row, which is larger (`NoCircle`).

### The wallet service and the server

| theorem | says |
|---|---|
| `BackendInvariant` | `BackendSpec => []BackendInv` |
| `BackendEscrowCovered` | no interleaving of the services spends money in escrow, or promises it twice |
| `BackendNoDoubleCharge` | a key pays once, among redemptions and fundings too |
| `BackendEscrowedVouchersPay` | with `IsFiniteSet(Uploaded)`: vouchers worth no more than the escrow are never refused for lack of funds |
| `BackendJournalChain`, `BackendMoneyConserved` | with `NoSelfVouchers`: no lost update; all money is the opening sum and what fundings brought |
| `BackendRefinesBank` | with `NoSelfVouchers`: `BackendSpec => BackendImplementsBank` |

**The inductive invariant.** `BackendInv` is `StoreInv`, `TransferCore`,
`SyncCore` and `WalletCore` (a job that may change a row has locked it). No part
mentions another service. The step lemmas of each service are stated from
`StoreInv` and its own core, so they hold here as they stand; what is new is that
a core survives the steps of the others. That is said once per service
(`TransferUntouched`, `SyncUntouched`, `WalletUntouched`): a service is not
disturbed by whoever leaves its variables, its goroutines, the rows it has locked
and, for reconciliation, the sequence numbers of the wallets alone.
`BackendSteps` sorts the steps of the server, deadlock victims included, into
those of the services, crashes and the background.

**The argument for the escrow.** A voucher is refused for lack of funds when the
whole balance is too small; that the escrow is still there is not a property of
one step. `Backed(u)` says that the user has signed a set of vouchers which are
numbered up to the last settled one and are together worth all that has left his
escrow. A settled voucher joins that set (its number is new to it), and nothing
else takes from an escrow. A refused voucher is not in the set either, and costs
more than is left: with it, the vouchers signed are worth more than the opening
escrow (`RefusedIsOverdrawn`). `EscrowCovered` is needed in the middle: the
balance is never less than the escrow.

**The argument for the bank.** `TransferPays`, `RedeemPays`, `FundPays` and
`AllocatePays` map the four steps that write wallets to `Pay`, `Deposit` and
`Reserve`; `BooksStay` shows that all others are stutters. The note of a voucher is
unspent because of the UNIQUE columns and, for its number, `SequenceMonotone`.

### Accounts and devices

| theorem | says |
|---|---|
| `AuthInvariant` | `AuthSpec => []AuthInv` |
| `AuthTypes` | every variable keeps its type |
| `RegistrationIsSound` | who is told "registered" has the only account under the email |
| `WalletsComeWithUsers` | whoever can hold a token has exactly one wallet |
| `DeviceKeyIsKept` | a device key never changes its user |
| `AuthRefinesDirectory` | `AuthSpec => AuthImplementsDirectory` |

**The inductive invariant.** That emails stay unique is not inductive: it
depends on what an open transaction has inserted and nobody else can see.
`AuthInv` adds `ClaimsOK` (an email claimed by an open registration is claimed
by that one only, is not in the table, and its owner is about to commit),
`RowsOK` (rows differ in id and email, and the wallets are those of the rows, in
the same order), that tokens and device keys name rows, and `AuthStageOK(r)`:
an unfinished request is not in the table yet, one that is about to commit holds
its claim, and one that was told "registered" is in the table for good.

**The argument.** `QuietStep` and `PlainStep` are for steps that leave the users
alone, with `StageKept` for the requests that do nothing; `InsertStep`,
`FailStep`, `SaveStep` and `ExpireStep` build on them. `CommitRows` says what
the commit appends, `CommitStep` that the row is new because its email was
claimed. For the refinement, `CommitJoins` shows that a commit is the `Join` of
the directory, and `SaveGives` that saving a key is a `GiveKey`, or nothing when
the key has a user already; every other step is a stutter.

### The app

| theorem | says |
|---|---|
| `MobileInvariant` | `MobileSpec => []MobileInv` |
| `MobileTypes` | types of accounts, ledger, queue, screen and waiting handlers |
| `MobileNoOverdraft` | the balance checked at the press is enough when the timer pays |
| `MobileSequenceCountsDebits`, `MobileVouchersNumberedOnce` | numbers without gaps or repeats |
| `MobileScreenIsSession` | overlapping sign-ins, switches and log-outs leave one account, unless the storage fails in the very step that brings them apart |
| `MobileSyncDropsWhatWasSent` | what leaves the queue was on the screen when the sync started |
| `MobileMoneyComesFromTopUps` | a payment never makes money |

**The inductive invariant.** `MobileInv` adds two parts to the properties.
`QueueOK`: vouchers are of entries of the ledger and carry numbers up to the
current one, and there is room for the payments under way. `SessionOK`: the last
sign-in or switch that waits for the storage has set the current account
already, and nothing waits while the app starts.

`ScreenIsSession` speaks of steps: once the storage owes no answer, screen,
current account and stored id go `Astray` only in a step in which the storage
fails. It is not an invariant, as a rejected `setItem` leaves the current account
ahead of the screen, and a rejected `getItem` opens the sign-in screen with an id
still stored. The last answer is for the current account (`SessionAnswered`, from
`SessionOK`), so a switch or sign-in that is answered agrees with it, a log-out
leaves nothing stored, and every other step leaves the stored id and the current
account and shows what was shown or the current account.

**The argument.** One lemma per press and per finish; handlers wait in lines, and
`LineGrows`, `LineShrinks`, `LaterKeeps`, `DoneKeeps` say what joining and leaving
a line does to what is in it. `PaymentMakesNone` is `SumChange` for both accounts
of a payment, the same account included.

### The simulator

| theorem | says |
|---|---|
| `SimInvariant` | `SimSpec => []SimInv` |
| `SimTypes` | types of main, channel, totals and workers |
| `SimAuditPasses` | the audit never reports a drift |
| `SimRefusedWasOvertaken` | a number is refused only after a later one from another batch |
| `SimEveryVoucherCounted` | every voucher is in exactly one total |
| `SimSolventVouchersPay` | who can pay for all his vouchers has none refused for lack of funds |

**The inductive invariant.** `SimInv` is the types, `StoreInv` and `SyncCore` of
the parts it runs on, and what main and the workers keep. `DealtOK`: ids differ
and a payer's numbers rise. `ChannelOK`: the batches in the channel are
consecutive stretches of the vouchers dealt, up to what main has sent. `TakenOK`:
the vouchers before those (`Taken`) are in the batch of a worker or in a total,
and only those are settled. `BatchesOK`: no voucher is in two batches, one that is
still open is not settled, and a worker settles upwards. `NumbersAreSettled`: the
last number of a wallet is that of a settled voucher. `StagesOK`: who is at work in
which stage of main, and that the sum main has read is that of the wallets read.

**The argument.** The steps of a worker inside its batch are those of
`OfflineSync`, and keep `StoreInv` and `SyncCore` by the lemmas of `SyncProofs`;
`WorkerWorks` and `WorkerSettles` say what else they do, and `WorkStep` puts the
parts of `SimInv` together for them. `TakeStep` and `CountStep` move a batch from
the channel to a worker and into the totals; the sum of the totals and of the
batches in work (`InWork`) is `Taken` before and after. When all workers have gone
the channel is empty and no batch is in work, so the totals add up to `NumTxs`
(`AllAreCounted`), and no worker can write a wallet while main reads them, so the
sum it reads is the conserved one (`AuditWalletStep`, `VerdictStep`). A refused
number is not above the last one of its wallet, which is that of a settled
voucher; that voucher is not from the same batch, as there lower numbers go first
(`RefusedIsOvertaken`). For the funds, `SolvencyOK` says that a wallet misses no
more than its user's settled vouchers are worth; a voucher that is refused is not
among them and costs more than is left, so all together are worth more than the
opening balance (`UnpaidIsTooMuch`).

### What stays with TLC

- Liveness (`RequestsAnswered`, `AuthAnswered`, `SimulationEnds`): fairness and
  `ENABLED` are out of the prover's reach.
- That transfers, redemptions and jobs end at all: deadlock of the whole pool of
  connections and rows is checked by TLC in each run; proved is that batches do
  not wait for rows in a circle (`SyncDeadlockFree`).
- The five properties of section 6, which do not hold.

## 6. What the models showed about the code

| run | what happens | what the repository says |
|---|---|---|
| `online_cross` | `Transfer` locks payer, then payee; two users who pay each other wait for each other until PostgreSQL cancels one | README.md:13, "deterministic row locking to prevent deadlocks" |
| `online_memory` | without Redis, a transfer that outlives its key frees the key that a retry holds by then | redis.go:85, "only if the token matches" |
| `sync_self` | a voucher from a user to the same user adds its amount to the balance | README.md:14, "100% Mathematical Balance Conservation" |
| `sync_nonce` | a voucher rejected for an error of the database, or because its device was not registered yet, is a "duplicate" when it comes again | service.go:145, "already processed" |
| `mobile_resume` | an account made at sign-in is known in memory only; after a restart its stored session opens as the first shipped account, with that account's money | App.tsx:103, "Persistent Login" |

In `online_memory` and `sync_nonce` no process has crashed: the key is freed by the
late `ReleaseLock` of the slow transfer, and both batches have been answered.

None of the first two charges anybody twice: `NoDoubleCharge` holds, and is
proved, because of the UNIQUE column. The invariants of `sync_batches` and
`backend` are checked without vouchers to oneself; `sync_self` is that case, and
`NoSelfVouchers` the hypothesis of the theorems that need it.

Some hazards of the app are modelled and do not hold in the code, and no
property claims that they do: a timer that ends after a log-out shows an account
again; when the storage rejects a switch, the screen keeps the old account until
the next refresh shows the new one, while the old one stays stored; when it
rejects a sign-in, the button for a typed email stays disabled until an account of
the list is signed in or the app is started again; a payment that is rounded to nothing takes a number; the balance
of a newcomer becomes not-a-number with the first payment; account list and
local ledger drift apart, as the result of a payment is not looked at; after a
restart the phone numbers its vouchers from 1 again. On the server, a voucher
whose holder comes later than the holder of a newer one is refused for ever
(`RefusedWasOvertaken` is when this happens), and who registers a device key
that is someone else's is told of success while the key stays (`DeviceKeepsUser`).

## 7. What is not modelled

- *Merchant terminal page* (`mobile/web-pos`): draws a QR code from two fields.
- *QR scanner, input fields, layout, messages* of the app.
- *Cryptography, JWT encoding, JSON, configuration, routing, CORS*: what they
  decide (valid or not, who, refused) is modelled where it matters.
- *Migrations runner, Dockerfile, workflow*: run before the program does.
- `backend/internal`: a copy of `internal/pkg` that nothing imports.
- *Read-only queries* (wallet, history, profile): they change nothing. The order
  of the history page is a hazard without a property, as it is by clock values.
- *Connections in `Auth`*: registration needs one at a time and holds no lock
  while it waits for one; `Store` models the pool where this is not so.

## 8. Plan

Done, in this order: `Store` and `PaymentOnline` with `Bank`; `OfflineSync`;
`WalletService` and `Backend`; the proofs of `PaymentOnline`; `Auth`; `Mobile`;
`Simulator`; `Directory`; the proofs of `Auth`, of `OfflineSync`, of `Mobile`, of
the wallet service and the server, and of the simulator.

Since then, from a second reading of the app: a storage that rejects, amounts
that are rounded, and the disabled button of the sign-in.

Next: a second reading of the proofs, to shorten the leaves that carry more facts
than they need, and of the model against the code.

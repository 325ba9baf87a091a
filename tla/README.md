# TLA+ models of the KashBook server

KashBook is an Express/Prisma server for small-business bookkeeping with a real
bank account behind it: merchants and their staff send naira through Anchor,
receive credits, hold euros at Fincra, put money aside in savings pots, and keep
invoices, stock and payroll. These modules model the parts in which several
requests, loops and providers act on the same money, check them with TLC on small
instances, and prove the most important results with TLAPS for all instances.

Paths below are relative to the repository's `src/` directory (the server code is
in `src/src/`). `PROJECT.json` maps each definition to the lines it translates.

## 1. Inventory

The process is Node: one event loop per instance, possibly several instances, so
handlers interleave at every `await`. State shared between them is Postgres (rows,
unique keys, advisory locks) and what the banks hold. Loops run in every instance
and elect a leader per tick with `withCronLock`.

| Component | State | Operations | Interacts with | What makes it hard; what makes it correct |
|---|---|---|---|---|
| Money out: `routes/transfers.js`, `utils/executeTransfer.js`, `staffTransferCap.js`, `amlChecks.js` | `StaffTransferRequest`, money-out `Transaction` rows, staff caps | send, hold over the cap, approve, reject, cancel, expire, park a stuck approval, pay, sweep the fee, book | business and actor locks, Anchor, staff permissions | double taps, lost bank answers, crashes between claim and final write, lock time-outs. A held transfer is paid at most once and never after a no; caps and velocity limits hold under concurrency; a success answer means money moved |
| Locks: `utils/db.js` | advisory locks, a pool of 25 connections | `withBusinessLock` (one or several keys), `withCronLock` | every money path | each holder pins a connection and its work draws from the same pool. Mutual exclusion; no starvation of the pool |
| Euro conversions: `utils/fcyConversion.js`, `fincraReconcile.js`, `routes/foreignAccounts.js`, `routes/fincra.js` | `FcyConversion.status`, euro expense rows | quote, confirm (convert, book, pay out), reconcile loop, payout webhook | business lock, Fincra, the euro balance | two legs at a provider with a crash in between; unguarded writes of the same row by three actors. No naira without euros, no second conversion, a landed payout is reported, the euro balance is never overdrawn |
| Inbound credits: `routes/anchor.js`, `utils/anchorReconcile.js` | income rows, one per bank payment | webhook, poller, twin matching | invoices, cash deposits | the same credit arrives through two channels under two identities, in either order, late or twice. No list entry has two rows, every credit has one in the end |
| Matching: `routes/transactions.js`, `cashDeposits.js`, `customers.js`, `utils/cashDeposits.js`, `invoiceMatch.js` | a credit's links and matched part; deposits; payments of debts and invoices | match, unmatch, mark, link and undo deposits and payments | inbound credits, the lock date, the ledger | a row is explained by one of several records, each with its own routes, some of which check before the lock. One record per naira, both ends of a link agree, a closed day keeps its figures |
| Savings: `utils/savings.js`, `savingsReconcile.js`, `savingsReserve.js` | pots, movements, the deferred fee | deposit, withdraw, break a lock, collect the fee, sweep | the spendable balance of money out | a virtual reserve inside one bank balance; a fee transfer whose outcome is unknown. The reserve is never spent, the fee is taken at most once |
| Sign-in, codes, PIN: `routes/auth.js`, `utils/otp.js`, `transactionPin.js` | attempt counters, lockouts, codes, sessions | verify, consume, lock out | staff grants | counters read and written in two steps. At most N guesses; a code is used once |
| Salaries, recurring expenses and invoices: `routes/payroll.js`, `utils/salaryRunner.js`, `salarySchedule.js`, `recurringExpenseRunner.js`, `recurringInvoiceRunner.js` | schedules with a cursor, payments by period | create, change, delete; the daily cron; approve a batch under one PIN | money out, staff, books | a crash between queueing and advancing, changes that cross, a batch that fails half-way. Each period is paid at most once, on terms one PIN was given for, and none is passed over |
| Invoices, credit notes, bills: `routes/invoices.js`, `routes/bills.js`, `utils/invoiceNumber.js`, `invoiceMatch.js` | balances, numbers, payments | pay, void, credit, number, match | inbound credits | concurrent payments against one balance; the next number. Never overpaid, numbers unique |
| Stock and sales: `utils/stock.js`, `routes/inventory.js`, `sales.js`, `invoices.js`, `bills.js` | quantity, worth, average cost, movements, lines | sell, restock, return, edit, void, count, undo | books, the lock date | long sequences of edits of records whose goods have moved on. The shelf is the sum of its movements; a line costs what left the shelf for it |
| Offline sync: `routes/sync.js` | the queue's operations and server rows | carry out, answer, pull | what customers owe, the desk's routes | the queue is sent again until it is answered, beside the desk. A repayment counts once; what was queued gets done |
| Ledger, books, journals: `utils/ledger.js`, `books.js`, `booksLock.js` | derived figures, the books lock date | post, close | everything | two ends of one move of money are posted apart. The clearing accounts clear |
| Provisioning and KYC, Instagram/WhatsApp, snapshots and alerts, insights, admin, e-mail/SMS/push | rows of their own | third-party calls | | I/O; little or no shared state |

`PROJECT.json` lists the same components with their status, and under `hazards`
every place found so far where the code is hard to test, each with the properties
that would catch it or the reason none does.

## 2. Modules

| Module | What it is |
|---|---|
| `StaffTransfers` | the core: send, hold, approve, reject, cancel, executor, sweeps, caps, velocity limits, locks, crashes |
| `PayoutQueue` | what the queue of held transfers promises, without handlers, locks or bank calls |
| `MCStaffTransfers` | instances of the core for TLC |
| `StaffTransfersProofs` | typing; success means money; one payment per held transfer; the refinement of `PayoutQueue`; caps, velocity limits and fees while no lock connection has dropped |
| `SumLemmas` | what the proofs need of the library's sums |
| `FcyConversion`, `MCFcyConversion` | euro to naira conversions and their instances |
| `FcyConversionProofs` | typing; naira follow euros; no second conversion; "paid" means landed; the holding is not overdrawn |
| `Savings`, `MCSavings` | savings pots, their locks and fees against the sends of the same account, and their instances |
| `SavingsProofs` | typing; one fee per movement; no way round a lock; the reserve is there; pots add up |
| `InboundCredits`, `MCInboundCredits` | how a transfer that reached the account becomes a row: webhook and poller |
| `InboundCreditsProofs` | typing, one row for each entry of the bank's list, and no credit doubled by a prompt event |
| `CreditMatching` | what a credit is explained by: deposits, sales, repayments, invoice payments, marks; the lock date |
| `CreditMatchingProofs` | typing; a credit explained once; links that agree at both ends; no pair missed by both look-ups; closed days keep their figures; the clearing accounts clear |
| `Ledger`, `MCCreditMatching` | the ledger derived from the records of `CreditMatching`, and their instance |
| `Stock`, `MCStock` | goods, their worth and their movements, and every route that moves them |
| `PayDates`, `Payroll`, `MCPayroll` | the arithmetic of pay days; salaries from the schedule to the bank |
| `PayrollProofs` | typing; no period paid twice; what is queued was agreed to together; a pay date found due is queued or keeps the cursor |
| `CustomerDebts`, `MCCustomerDebts` | what a customer owes, written by a phone's offline queue and by the desk |
| `ShopProofs` | of `CustomerDebts`: typing; a debt's payments add up and count once. Of `Stock`: typing; the shelf is its movements; a line is its movement; closed days keep their stock |

`InboundCredits` makes the rows that `CreditMatching` starts from (its `Book`), and
`Ledger` extends `CreditMatching`. `CustomerDebts` looks at the repayments of
`CreditMatching` a level lower, one await at a time, and at their replay. An operator
marked "Mutant" or "plausible slip" is no part of a specification: it is the definition
beside it with one mistake, and the property named for it in `PROJECT.json` is violated
when it takes that definition's place.

### 2.1 StaffTransfers

**State.** `request` is the `StaffTransferRequest` table by key, with the fields the
code tests (`status`, `expiresAt`, `decidedAt`, whether `transactionId` is set);
`rows` the money-out rows (reference, fee, date); `cap` and `post` the staff
permission and membership; `lock` the advisory locks; `job` the handlers in flight
with the locals that survive an await (`exempt` are the request ids already counted,
`cap` the cap read before the wait, `safe` the `safeToRequeue` flag of the approve
route). The bank is `bank` (accepted calls per reference), `swept` (fees that reached
the fee account) and `wire` (calls whose caller gave up; they may still arrive).
`topCap` and `told` are history variables.

**Steps.** `Post`/`Approve` start a handler; `AcquireLock`, `Throw` (the 25 s wait ran
out) and `LockLost` (the connection died under a running handler, which goes on
without its locks) are `withBusinessLock`; `Claim` is the guarded UPDATE of approve;
`AmlPass`/`AmlBlock`, `CapPass`, `Hold` the checks inside the critical section;
`IdempotentSkip`, `RefuseEarly`, `StartPayout`, `BankAccepts`, `BankRefuses`,
`BankUnknown`, `SweepFee`, `BookRow`, `BookFails` the executor; `MarkExecuted`,
`Commit`, `Catch` what follows; `DbError` a query failing after the row is booked;
`Crash` the death of a process at any await. `Withdraw`, `ExpireStale`, `SweepStuck`,
`Grant`, `RemoveStaff`, `DeleteStaff` are the other routes and loops, `Tick` the clock.

**Assumptions.** A clock tick is longer than a bank call, so `Tick` waits for `wire`
to drain. The bank de-duplicates a repeated reference, as Anchor does within 24 h, but
`bank` counts every accepted call, so `HeldPaidOnce` does not rely on it. Refusals the
handler makes from data not modelled (balance, OTP, beneficiary rules, freezes, single
transfer limits) are nondeterministic. A key stands for the whole transfer it was
minted for; a send without a key is a key used once. The Anchor executor is modelled;
the Fincra one is dead code today. `expireStaleRequests` is not limited to its 500.

### 2.2 FcyConversion

**State.** `status` is `FcyConversion.status`, `fresh` the rows written less than
`STUCK_AFTER_MS` ago, `booked` the conversions with a euro expense row, `lock` the
business locks, `job` the confirm handlers and the reconcile loop, `todo` what the
loop's query returned (rows with the status they had then). Fincra's side is `legs`,
`payout`, the two sets of calls given up on (`legWire`, `payWire`) and the webhooks
under way (`hooks`; one that is never read was lost).

**Steps.** `Quote` and `Confirm` are the routes; `Lock`, `Check`, `Refuse`, `Claim`,
`Converts`, `ConvertRefused`, `ConvertUnknown`, `MarkFailed`, `MarkConverted`, `Book`,
`BookFails` are `executeConversion`, one step per await; `PayUp`, `SendAnswered`,
`SendRefused`, `SendUnknown`, `Settle`, `SettleFails`, `MarkUnpaid` are
`completePayout`, run by a handler or by the loop; `StartLoop`, `Look`, `LookBlind`,
`EndLoop` are `retryStuckConversions`; `HookReads`, `HookWrites` the webhook.

**Assumptions.** Fincra knows a conversion and a payout by their reference and does not
repeat one; a payout it failed may be sent again under the same reference; its payout
list is complete. A result that is final at Fincra stays final. Rates, margins, the
wallet check and freezes are refusals (`Refuse`). Advisory locks are not dropped here
(that case is studied in `StaffTransfers`). One `update` with an error is a `Crash` of
the handler: both leave the row as it was and free the lock. The loop takes every
stale row, not 25.

### 2.3 Savings

**State.** `pot` is the `SavingsPot` table (status, balance, opening day, Breakable
"flexible" or Unbreakable "strict"), `move` the `SavingsMovement` of each client key
(committed, its fee, `feeCollectedAt` set or not), `feeRows` the `savings_fee` ledger
rows, `lock` the business lock, `job` the handlers and the fee loop with the locals that
survive an await, `todo` the list the loop read. The bank is `gross` (the available
balance), `taken` (fee transfers accepted per movement), `sent` (sends by reference) and
`wire` (calls given up on). `held` (the day money in a pot was promised to stay to) and
`late` (money that left after its caller gave up) are history variables.

**Steps.** `Create` is `createPot`; `Request`, `Close`, `Relock` start a handler;
`Acquire` and `Refuse` are the lock and every refusal inside it; `GateDeposit`,
`GateWithdraw`, `GateSend`, `GateClose`, `GateRelock` the checks and `SaveDeposit`,
`SaveWithdrawal`, `SaveClose`, `SaveLock`, `SaveRefused` the guarded writes of
`depositToPot`, `withdrawFromPot`, `closePot`, `updatePot`; `PayAccepted`, `PayRefused`,
`PayUnknown` the call of a send; `FeeSkipped`, `FeeWaits`, `FeePasses`, `Claim`,
`SweepAccepted`, `SweepRefused`, `SweepUnknown`, `BookFee`, `BookFeeFails` are
`collectSavingsFee`, run by a handler or by the loop (`StartLoop`, `Take`, `EndLoop`).

**Assumptions.** One business. Amounts and fees are small integers; a send's amount
includes its fee and duty. The balance at the gate is the bank's at the moment it is
read, and the reserve cannot change in between, because every write to a pot holds the
lock; locks are not dropped here (that case is studied in `StaffTransfers`). The loop
takes every waiting fee, not 50, in any order. The bank counts every accepted fee
transfer, so `FeeTakenOnce` does not rely on its 24 h of de-duplication.

### 2.4 InboundCredits

**State.** `landed` and `aged` count the transfers the bank has taken in and those more
than ten minutes old; `rows` is the income part of `Transaction` with the fields the two
writers look for (`reference`, `anchorTxnId`, amount, date, whether the sender is known,
the reference it quotes); `hook` is the handler of each webhook event, `poll` the poller
with the list it read. `late` (credits whose event booked a row after they were due) is
history.

**Steps.** `Deliver`, `Repair`, `Create` are the webhook of `routes/anchor.js`: it adopts
the poller's only anonymous row under the lock, and inserts after it. `Read`, `Look`,
`Claim`, `Record` are `utils/anchorReconcile.js`: by its keys, then by claiming the nearest
free row of the webhook under the lock, else by an insert. `Crash` loses what a handler
had left (the bank has its 200), `Land` and `Age` are the bank and time.

**Assumptions.** One business. The unique key of a row is all that two inserts share. How
far a row is from a list entry is as the code has it: by the minutes inside the ids when
both carry one, else by dates. The list shows the newest `ListSize` credits; in the runs it
is long enough. Compliance flags on new rows are left out.

### 2.5 CreditMatching and Ledger

**State.** `credit` is the bank row of each transfer (how far its handler is, its mark,
its links, `matchedAmount`), `deposit` a `CashDeposit`, `sale`, `debts`, `paid`, `invoice`,
`off` and `payments` the records it may be explained by, `lockDay` the books lock date,
`pending` the requests past what they check outside the lock. `fresh` is history: what
the server alone has decided on.

**Steps.** A route holds the business lock and writes in one transaction, and is one
action: `CreateDeposit` ... `PickTransfer` (cash deposits), `MatchSale`, `CreateSale`,
`MatchDebt`, `LinkDebtPayment`, `Unmatch`, `Mark` (the transactions screen), `SaveSale` ...
`PayDebt`, `Issue` ... `UndoWriteOff`, `SetLock`. What is asked before the lock and not
again is an action of its own: `CheckDelete`, `CheckPayment`, `SyncCheckDebt`. A credit
that arrives is booked (`Book`), offered to the deposits and to the invoices
(`OfferToDeposits`, `OfferToInvoices`), with nothing held in between; a failed matcher
of deposits passes it on to the invoices, and a stopped server offers it no more
(`OfferLost`). `Shares` gives what match-debt puts on each debt, the oldest first and debts
of one day in either order; a new payment takes any id not in use (`NewId`). `Ledger` has no state: it is the set of moves that `utils/ledger.js` derives
from the records, in both views, and the balances of four accounts.

**Assumptions.** One business without VAT; units of money; a sale has its day given. The
dates of payments by hand, of deposits and of the lock come from small sets. Only the
incoming side of the transactions screen is modelled.

### 2.6 Stock

**State.** `shelf` is `InventoryItem` (quantity, worth in kobo, average cost as a fraction
in lowest terms), `moves` is `StockMovement` by its key, `record` the sales, documents and
bills with their lines, `lockDay` the lock date. `costed` and `answered` are history.

**Steps.** `TakeOut`, `PutIn`, `PutBack`, `Revalue`, `Adjusted`, `Counted`,
`RemoveBySource`, `Redated` are `utils/stock.js`, as operators on a store that is refused
or goes on (`Store` is the one a request starts from): a route is a chain of them inside
one database transaction, hence one action. `EditDoc` is the longest: lines sent back as
they were keep their movements under new line ids, the dropped ones come back before (an
invoice) or after (a credit note) the new ones move. The specification is `StockSpec`, of
`StockInit` and `StockNext`.

**Assumptions.** One business without VAT; quantities count the smallest unit.
`MaxQty` and `MaxValue` stand for the code's caps, with their refusals.

### 2.7 PayDates and Payroll

**State.** `schedule` is `SalarySchedule` (amount, payee, what the PIN authorised, anchor,
next pay date), `payment` is `SalaryPayment` by schedule and period, `cron` the daily run
with the list it read, `request` the changes under way, `batch` the approvals, `bank` the
payouts made. Two are history: `agreed`, what a PIN was given for together, and `awaited`,
the pay dates that a run of the cron found due since the owner last set the schedule's
cursor (by a new anchor or a resumption).

**Steps.** `AskCreate`/`Create`, `AskPatch`/`Patch`, `AskDelete`/`Delete` and
`AskRemove`/`Remove`/`Dismiss` are routes that read, wait and write; `StartCron`,
`Suspend`, `Mint`, `Advance` the runner; `Claim`, `Look`, `Blocked`, `Fails`, `Pays`,
`Settle` the approval of a batch under one PIN, `Skip` and `Reject` the other decisions;
`Sleep` the next day. `Die` ends any of them anywhere. `AskRemove` and `Remove` swallow a
failed clean-up, as the route does, and the person is dismissed all the same.

**Assumptions.** No handler lasts a day. The two sweeps in `salaryRunner.js` are left out,
because only the test scripts call them. The executor is one step here (`Pays`, with an
answer that may be lost); its own steps are in `StaffTransfers`.

### 2.8 CustomerDebts

**State.** `customer`, `owed` (the cached `totalOwed`), `debts`, `paid` and `rows` (the
repayments) are the rows of one customer; `closed` whether the lock date is past the old
days; `job` the requests, with the operations they have left, those done, and what was
read; `left` and `waiting` the phone's queue and the request it waits for.

**Steps.** `Send` starts the queue again with what is left, `Answer` takes off it what was
"processed", `GiveUp` is the phone's time-out. An operation is one or more steps:
`AddCustomer`; `LookDebt`, `CreateDebt`, `SumDebts`, `SaveOwed`; `LookPay`, `Acquire`,
`ReadPay`, `WritePay`, `CommitPay`; `LookDrop`, `Drop`. The desk's operations (`Ask`) take
the lock where the queue does not (`ReadLockDate`). `Fails` is a query or a wait for the
lock that fails, `LockLost` a lock connection that drops, `Crash` a process that dies.

**Assumptions.** The phone is not in the repository: it is what the endpoint expects of
it, a queue that is sent until everything was answered, one request at a time unless it
has given up on one. A repayment's transaction is invisible until it commits, and a
second one on the same debt waits for it.

## 3. Runs

| Run | Instance | What it shows |
|---|---|---|
| `StaffPayout` | one transfer, two handlers, four starts, three ticks, one dropped lock, one staff change | at most one payment, none after a no, `RefinesQueue`, and `ApprovalsEnd` under fairness |
| `StaffLimits` | three transfers of a staff member and the owner over two businesses, two handlers, three ticks, two velocity windows, one change of the cap, symmetric handlers | `CapHonoured`, `AmlHonoured`, `BooksCoverBank`, `SuccessIsBanked` |
| `FcyMoney` | two conversions of 2 euros, 3 euros held, two handlers, two confirms, one fault, symmetric handlers and conversions | `NairaAfterEuros`, `NotOfferedAgain`, `PaidMeansLanded`, `NotOverdrawn` |
| `FcySettles` | one conversion, one confirm, two faults | `LandedIsSeen` under fairness |
| `SavingsPots` | one pot, 3 naira, a deposit of 2, its withdrawal and a send of 2, two handlers, three requests, two days, one fault, symmetric handlers | `ReserveBacked`, `FeeTakenOnce`, `PotsMatchMoves`, `NoWayRoundTheLock` |
| `SavingsFees` | a deposit and a withdrawal, one handler and the loop, two faults | `FeesAreClaimed` under fairness |
| `InboundBooked` | two payments of one amount in one minute, one of them with two events and a wrong time, and a book transfer; one restart | `OneRowPerEntry`, `PromptNotDoubled`, and `EveryCreditBooked` under fairness |
| `CreditsMatched` | two credits of 2 on two days, a deposit, a sale, two debts of a customer, two invoices, up to two payments, five steps besides the server's own | `OneRecordPerNaira`, `LinksAgree`, `NoMissedPair`, `AccountsClear`, `LockedDaysFrozen` |
| `StockKept` | one item of up to 2, two records, lists of one and two lines, two days, five requests, symmetric records | `ShelfMatchesMoves`, `LinesMatchMoves`, `LockedStockFrozen` |
| `PayrollPaid` | two schedules, two people, two changes and two batches at once, a Tuesday, the Friday after and the next Tuesday, one fault, full symmetry | `PaidOnce`, `ConsentedTogether`, `NoneForgotten` |
| `PayrollLost` | one schedule, on Saturdays or on the 1st, over two months, nothing going wrong | violation of `EveryPayDayQueued`: see section 4 |
| `SyncReplayed` | a queue of a customer, a debt of 2, its payment and a deletion; the desk taking 1, giving credit and deleting; two requests at once, the books closed and opened, one fault | `PaymentsAddUp`, and `QueueEmpties` under fairness |

**Bounds.** Two handlers are enough for every race between two requests of one
business, and the sweeps, loops, staff changes and webhooks interleave with both. Four
starts let a transfer be held, approved twice at once and approved again. Three ticks
cover one expiry and one stuck approval (`Day = Stuck = 1`) and a window of two days.
In `StaffLimits` the amounts (2 each, a fee of 1, a cap of 4, limits of 3 and 5) make
every pair of sends too much for one limit while each fits alone. In `FcyMoney` the
holding covers one conversion and not two. In `SavingsPots` the account covers a
deposit with its fee or the send, not both, and two days let a lock be moved, kept and
run out. In `InboundBooked` all amounts are equal, which is when one credit can be taken
for another, and `a` carries a time an hour off. In `CreditsMatched` a sale is for more
than its transfer (3 against 2), one debt is covered by a credit and the next one partly,
and a credit is the exact amount of one invoice and enough for the other; five steps let
it be matched, linked, closed on, opened and undone. In `StockKept` a shelf of 2 can be
emptied, restocked at two costs and averaged, and five requests create, send, edit and
undo a document around a restock. In `PayrollPaid` the schedules are
made on a Tuesday and due on their Friday, beside changes of amount, payee, anchor and
state; a Tuesday later the cron runs again, after a death in the run of the Friday too, and
what was queued then can no longer be approved. In
`SyncReplayed` the two amounts do not both fit the debt; with two faults the invariants
hold as well (1.65 million states). Faults (deaths, failed queries, unanswered calls) are
counted together and capped by `MaxFaults`; `StaffTransfers` bounds them through
`MaxStarts` and `MaxDrops`.

**Deadlock** checking is off: with every bound used up and nothing in flight these
instances really stop.

**Fairness.** `StaffTransfers!FairSpec`: the clock goes on, the cron sweep runs (it is on
a timer in every instance) and a call on the wire ends one way or the other. Handlers
may die anywhere and owners need not act. `FcyConversion!FairSpec`: a handler goes on
or dies, the loop runs every five minutes and completes its rounds, time passes, calls
end, and Fincra's payout list can be read again and again (strong fairness on `Look`,
because `LookBlind` is what an outage does). No webhook is assumed to arrive and no
payout to be accepted. `Savings!FairSpec`: handlers go on or die, the loop runs every
half hour, gets the lock in the end and comes to every fee it lists (the code tries the
least recently tried first), and the bank can be read now and then while the business
is active (strong fairness on `FeePasses`). `InboundCredits!Spec`: the poller runs and
time passes; no event is assumed to come. `CustomerDebts!FairSpec`: handlers go on or die,
and the phone sends again what it has left; `QueueEmpties` asks, besides, that the
customer stays and the books are open in the end.

**Conditions of the limits.** `CapHonoured` and `AmlHonoured` sum rows, as the code does:
money whose row could not be written escapes them. They hold for the locks as long as
no lock connection is dropped (`MaxDrops = 0`; the theorems of section 5 say the same by
`drops = 0`, for every number of drops allowed).

**What the safety properties leave out.** `PromptNotDoubled` allows a second row for an
event that is handled after the poller's ten minutes. `LockedDaysFrozen` leaves out, by
name, a credit that arrives, a debt of the offline queue, a customer deleted on an old
check and a payment that brings a void invoice back. `OneRecordPerNaira` and
`AccountsClear` leave out a credit matched to a customer deleted since. The configurations
of the next section show these steps.

## 4. Findings and further configurations

`PayrollLost` is a finding: a weekly salary on a Saturday or Sunday is queued once and
never again, and a monthly one on the 1st loses the months whose 1st is a weekend, because
the next date and the period key are computed from the day moved to Friday.
`PROJECT.json` quotes the lines that say otherwise.

Further configurations end in a counterexample. They are kept beside the project to be run
by hand, and are not among its runs:

| Configuration (module) | Property | What the counterexample shows |
|---|---|---|
| `StaffTerminal` (`MCStaffTransfers`) | `TerminalStable` | a terminal state of a request is overwritten ("Terminal states are never revisited", `prisma/schema.prisma`) |
| `StaffIntent` | `IntentPaidOnce` | one intent is paid directly and again through the queue |
| `StaffBooked` | `BookedNotFailed` | a booked transfer is reported failed (bookkeeping "must not bubble up as a transfer failure") |
| `FcyFailed` (`MCFcyConversion`) | `FailedMeansUntouched` | "Nothing was taken from your balance" is told for euros Fincra has converted |
| `FcyNaira` | `NairaRequested` | a payout that never left is waited for on every round ("the net that guarantees the naira still arrives") |
| `SavingsLate` (`MCSavings`) | `NeverOverReserved` | a deposit and a late send pass the gate on the same money |
| `InboundDoubled` (`MCInboundCredits`) | `ConvergeOnOneRow` | an event after the ten minutes: the poller looks and inserts between the webhook's repair and its insert, and one transfer is two rows |
| `InboundShared` | `RowStandsForOne` | a list that names one of two equal payments: one row answers for both |
| `CreditsUnbacked` (`MCCreditMatching`) | `MatchedMoneyKept` | a customer is deleted after a transfer was matched to their debts: the credit stays matched to nothing |
| `CreditsLock` | `WritesNeverPassTheLock` | the offline queue writes a debt on a day closed since it asked |
| `StockGuessed` (`MCStock`) | `FirstCostIsOpening` | undoing the last movement with a cost leaves an average of 0, and the next cost typed books a profit |
| `StockRetry` | `RetryChangesNothing` | a count that found no difference writes no movement, and its retry counts again |
| `PayrollStranded` (`MCPayroll`) | `ApprovalsEnd` | one payment of a batch fails and the rest stays "approving"; the sweep that would park them is called by tests only |
| `SyncOwed` (`MCCustomerDebts`) | `OwedIsCached` | `add_debt` reads the debts and writes `totalOwed` without the lock: a payment in between is written over |
| `SyncDropped` | `NothingDropped` | a debt of the queue is refused, the payment behind it is answered "processed" because its debt is not there, and no row ever holds it |

Seen while reading and not checked by any configuration:

* `salaryRunner.js`, `payroll.js`: a deleted schedule's payment can come back through the
  compliance put-back or a cron that read the schedule before; deleting a schedule and
  creating it again gives a period a second payment; a changed anchor can skip a month; an
  anchor changed between the cron's two writes is kept, and the cursor it gave is written
  over with the next date of the old one (`NoneForgotten` speaks only of dates found due
  since).
* `recurringInvoiceRunner.js` says "Advance the schedule FIRST", and writes the new due date
  after the invoice: a crash between the two issues it again. So it is with a rule on
  credit in `recurringExpenseRunner.js`, which also says "next cron tick retries" of a failed
  auto-debit whose due date it has moved on by then.
* `savings.js`: a crash between the claim on a fee and its transfer loses the fee, and
  nobody is told; `createPot` counts pots without the lock; deleting the account
  (`auth.js`) checks pots and balances outside it.
* `fcyConversion.js`: a crash between `converted` and the euro row leaves the euros
  unbooked although the naira are paid; a payout is looked for among Fincra's newest 300.
* `anchorReconcile.js`: a missed credit that is no longer among the newest 50 of the list is
  never booked.
* `sync.js`: a repeated `add_transaction` brings back a row deleted since; a crash in
  `add_debt` before the customer's update leaves the debt out of the next pull.
* `customers.js`: the older payment route lowers `totalOwed` without recording a payment.
* `executeTransfer.js`, `anchor.js`: money whose row could not be written escapes the caps, and
  a send retried with its key after 24 hours is a new one for the bank.

## 5. Proofs

The theorems are about the specifications `Spec` of `StaffTransfers`, `FcyConversion`,
`Savings`, `InboundCredits`, `Payroll`, `CustomerDebts` and `CreditMatching` (with the `Ledger`
derived from it) and `StockSpec` of `Stock`, for arbitrary constants satisfying the named
assumptions of the module: any number of staff, businesses, pots, keys, handlers,
conversions, credits, events, schedules, debts, goods, lines and requests, any number of
starts, drops, faults, crashes and ticks. Every invariant and every action property of the
passing runs is the subject of one. The bounds are constants, and no proof uses that they
are small. An invariant is seldom inductive as it stands; each item names the stronger one
and what it adds. The proofs go action by action: one lemma for each, and frame lemmas for
what a step leaves alone.

Of `StaffTransfers` (`StaffTransfersProofs`):

* `TypeCorrect`: `TypeOK` is inductive; one step per action.
* `SuccessBanked`: `SuccessIsBanked` is not inductive, because a success answer is given
  several steps after the bank's. `BankedInv` adds where a handler is while it may still
  report success (`fee`, `book`, `mark`, or the flag `ok`), that rows are only written
  there, and which steps belong to which route.
* `ClaimsHold`, `PaidOnce`, `NothingPaidAfterNo`: `HeldPaidOnce` needs to know that the
  claim on a request has one owner. `ClaimOK` says so through the handler's phase:
  "before" (the bank has not heard of it, the request may still be put back), "after" (the
  bank has it once) and "none" (given up; nobody may pay again). The argument is about the
  claim alone: it holds with locks lost or timed out, which is the point, since `LockLost`
  is an action of the specification.
* `ImplementsQueue`: under the mapping status = the requests' statuses and paid = `bank` of
  the queue's references, every step is a `PayoutQueue` step or a stutter. It uses both
  invariants: the claim invariant says that paying and putting back happen while nothing
  was paid, `BankedInv` that `MarkExecuted` follows a payment.
* `CapKept`, `LimitsHold`, `FeesBooked`: `CapHonoured`, `AmlHonoured` and `BooksCoverBank` in
  every state before the first lock connection drops. A check that passed says nothing of
  the sum when the row is written some awaits later, so `LimitsInv` says what each handler
  holds and has cleared at each step: both locks from the end of the wait to the last
  write, and under them, from each check until its row is written, that the windows have
  room for the amount and the cap for it with the worst fee. Only the holder of a
  lock writes rows that count under it (`OneInside`), time only takes rows out of a window
  (`TickSums`), and what the code's cap check counts is at least what nobody approved
  (`SpendCovers`). After a drop a handler goes on without its locks, and both limits really
  can be passed: the condition is what the code needs, not what the proof needs.

Of `FcyConversion` (`FcyConversionProofs`):

* `TypeCorrect`, `NairaNeedEuros`, `NeverOfferedAgain`, `PaidHasLanded`: from `MoneyInv`. It says
  where a worker may be (`Placed`), what it may rely on at each step (`WorkersKnow`: past the
  claim the row is not open, past Fincra's answer the leg is there, "paid" in hand means
  landed) and what each row stands for (`RowsKnow`), whatever the loop read earlier and
  whichever webhook is late.
* `NeverOverdrawn`: `NotOverdrawn` compares a sum with a holding, and the booking comes
  awaits after the check. `BookInv` adds that between the two the handler holds the
  business (`LocksHeld`) and that the room it saw is still there (`RoomKept`).

Of `Savings` (`SavingsProofs`):

* `TypeCorrect`: as above; with it that no balance goes negative.
* `FeeOnce`: `FeeTakenOnce` counts transfers and calls still out, and a step that sends one
  must know that none has been sent. `FeeInv` says where a fee is (unclaimed: the bank has
  not heard of it; claimed: at most once) and what a worker may rely on at each step; it is
  inductive because `Critical` steps hold the lock, so the worker that claims a fee is alone
  when it sweeps it.
* `NoWayRound`: `LockInv` adds that a promise never outlasts the pot's opening day, and that
  what a gate has seen of a pot (its day, its mode, that it is empty) still holds when the
  pot is written, though time has gone on.
* `ReserveKept`, `PotsAddUp`: `BackInv` adds that what a gate saw free under the lock (for a
  deposit, a send, a fee) is still free when its worker acts, that a movement's handler
  works on the pot the client named, and that only an open pot holds money.

Of `InboundCredits` (`InboundCreditsProofs`):

* `TypeCorrect`: with it that no two rows share a reference, which the guard of every insert
  and of every re-keying maintains.
* `OneRowEach`: `OneRowPerEntry` is not inductive, because the poller looks first and writes
  later, and the webhook inserts and re-keys in between. The invariant adds that while the
  poller has a credit in hand no row carries that entry's id (`InHand`), and that no two
  rows carry one id (`Unique`); both last because only the poller writes list ids, one
  credit at a time, and a repair keeps the id a row has.
* `NeverDoubled`: `PromptNotDoubled` compares the sizes of two sets that grow in different
  steps, and says nothing of which row stands for which credit; after a claim it may be
  another credit's. The invariant (`Known` and `Charges`) is that the rows that did not come
  late can each be charged to a landed credit of their amount, no two to the same one: the
  entry that holds the row, or a credit of the same minute that answers for it, and never
  the credit the poller is about to book. `Known` adds that what the poller has in hand is due,
  that events are about credits that landed, that a late event has a row, and the three
  kinds of row there are (an unnamed entry's, a named book transfer's, nobody's yet). A
  claim of a row charged to another credit of the minute swaps two charges. It is proved
  under `SameMoment`: both ids of a payment carry the minute it was made in, the list
  names KashBook's own transfers, and the times of what was made in one minute are less than
  two days apart. The comments of `anchorReconcile.js` (lines 90 to 97) say that every live
  pair of ids is under a second apart, even with a `paidAt` hours off; that a transfer's
  entry names it is what the code reads (line 193) and cannot enforce. The instance of
  `InboundBooked` has all three, its wrong `paidAt` included.
  Without the minute in the ids, the nearest row by `paidAt` may be another credit's, whose own
  entry then finds none in its window; a book transfer the list does not name has no id in
  common with its row.

Of `Payroll` (`PayrollProofs`):

* `TypeCorrect`, `AgreedTogether`: from `RowsInv`, which says of every request under way and of
  the cron's list what the rows say: the amount and payee in hand were agreed to together,
  though they were read before other changes.
* `NeverPaidTwice`: from `BatchInv`. A payment that a batch claimed is "approving", belongs to
  that batch alone (`Apart`) and has reached the bank only at the steps where the batch
  knows it may have (`BankOK`), so a payment is offered again only when the bank has nothing.
* `FoundStaysFound`: the invariant `NoneForgotten`, "a crash between the two re-attempts". A
  date enters `awaited` when a run reads it as due, and leaves it only when the owner sets
  another cursor. `AwaitedOK` adds what the run in between knows: of a schedule on its list, a
  date still without a payment is the very one it read, though the row may have changed
  since; and `CronOK` (a part of `RowsInv`) says that when the cursor is about to move, the
  payment of that date is in the queue. So a move written from a stale row passes no date
  that waits. It says nothing of the dates a new anchor or a resumption passes over, which
  no run found due after that.

Of `CustomerDebts` (`ShopProofs`, first part):

* `TypeCorrect`, `PaymentsCounted`: `PaymentsAddUp` relates a debt's paid amount to the sum of
  its rows, which two writes of one transaction change. `PayInv` adds what a payment knows
  between them: what it read of the debt still stands while it is there, because a second
  payment of the same debt waits, with or without the business lock.

Of `Stock` (`ShopProofs`, second part):

* `StockTypeCorrect`, `ShelfKept`, `LinesKept`, `ClosedStockKept`: from one invariant, `StockInv`.
  Its first half, `Sound`, is about a store, not a state: rows have their ranges, a key has
  one movement, each item stands at what its movements add up to, and an empty shelf is
  worth nothing. Every operator of the engine takes a sound store to a sound store, refused
  or not (`TakeOutSound`, `PutInSound`, `RevalueSound`, `UndoneSound`, `RetoldSound` for
  movements told anew under other keys or days, ...), so a route, which is a chain of them
  in one transaction, does too, however long the chain is.
* The second half is `RecordOK` of each record: its row is in range, its movements are those
  of its stocked lines when its status moves stock and none otherwise (`Holds`), each at
  the cost its line says (`Costed`), and a sale or a bill has only the one status.
  `LinesMatchMoves` is not inductive without the last and without the converse (a record has
  no movement that is not a line's), which is what a void or a deletion undoes. Requests
  about one record leave the others' movements alone because a movement's key names its
  owner (`Only`), and what differs lies on open days, which is all that `ClosedStockKept`
  needs.
* `LinesMoved` carries the lines of a sale or a document out: after any of its lines, the
  record holds those done so far beside those it had. `MoveLines` is a recursive function
  of the line's number, and the proof takes the smallest number that goes wrong.
* `EditDoc` carries the weight. Its old movements are set aside under other keys, and the
  lines sent back unchanged take theirs back: `RankApart` says that of lines that sell the
  same each has its own rank, so that no movement is kept by two lines and no line keeps
  two (`KeptApart`). `Followed` says what the record then holds, and what is left of those
  set aside is exactly what the edit undoes, before the new lines for an invoice and after
  them for a credit note.

Of `CreditMatching` (`CreditMatchingProofs`):

* `TypeCorrect`, `OneRecord`, `LinkedBothWays`, `NothingMissed`: from one invariant, `IInv`,
  since every link has two ends in different tables and each property is lost first in
  another's part. `OneWay` says of one row which links exclude which. `SaleAt`,
  `PaymentsAt` and `MatchedAt` say what its links promise: the sale or the payments name the
  credit, and `matched` is what they carry. `DepositsAgree` and `SalesAgree` say it from the
  other end (a linked sale is for more than nothing, or deleting it would leave its credit
  behind), and `PaidAgree` that what a debt or an invoice has been paid is the sum of its
  payments. For `NoMissedPair`, `SaleAt` adds that a linked sale takes its credit out of
  `fresh`: an owner who edits a sale, or deletes it, frees a credit nobody will offer again.
* The steps that write several payments carry the weight: `MatchDebt` (one payment for each
  debt it pays, with ids of their own: `NewPayments`), `Unmatch` (payments of the match go,
  those recorded by hand come back as they were: `TakenApart`) and `DeleteCustomer`. They
  need `Debts` finite and the kinds of record disjoint, which the assumption says.
* `ClosedDaysKept`: the action property `LockedDaysFrozen`, from `IInv` as it stands. Every step
  that moves money asks the lock date of each day it takes it from or puts it on, so what a
  closed day's figures count (credits, sales, payments, goods sold, cash: `CreditsStill` to
  `CashStill`) is what they counted, and so are the sums (`FiguresStill`). It is the moves
  from one day to another that need the invariant: a payment by hand that is given a credit
  takes the credit's day, and comes back to its own when the match is undone.
* `AccountsAlwaysClear`: `AccountsClear` of `Ledger` compares four balances, each the sum of the
  moves of six kinds of record, with what the records say is unexplained. `Stands` adds to
  `IInv` what only the ledger needs: nothing explains a transfer not yet booked
  (`AwayFree`), a payment is of a debt that is there or an issued invoice (`OfOpen`), and a
  deposit's credit is of its amount (`SameAmount`). With them the proof says what each record
  does to an account (`SalePosts`, `BankPosts`, ...) and adds up kind by kind
  (`LedgerBalance`: each move belongs to one record, and a record moves an account once).
  What remains is to count one sum in two ways. What the transfers' matches took is what
  sales and payments were given (`TakenGiven`: by transfer and by record), what deposits sent
  is what arrived for them (`ReachedTwice`), and what came in is what debts and
  invoices have been paid (`ReceivedTwice`).
* The proof found two debts of one day: the first definition of what match-debt puts on
  each debt applied the whole rest to both of them. `Shares` lets them be paid in either
  order and never shares out more than the credit, as the loop in the route does.

**Sums.** `SumLemmas` proves what these need of the library's `SumFunction` for every finite
set: its value, that it is an integer or a natural number, one element more, one entry
changed, comparison, two parts that add up, the same entries under other names or under
keys of their own, entries added or negated one by one, entries that count nothing left
out, and entries counted group by group. The library picks elements with `CHOOSE`, so even
"one element more" says that the order does not matter. The proofs take a smallest counterexample (a
number, or a subset under the well-founded orders of `FiniteSetTheorems`) where one would
use induction, because an induction theorem has an operator parameter that no prover here
can instantiate. `StaffSpend`, `SentSince` and the other sums of the models proved about are
written with `SumFunction` for that reason.

**Checked first.** TLC checked the inductive invariants named here on the instances of the
runs; the runs themselves check the properties they were made for, not the invariants.

**Only model-checked.** Liveness under fairness is out of the prover's reach: `ApprovalsEnd`,
`LandedIsSeen`, `FeesAreClaimed`, `EveryCreditBooked`, `QueueEmpties`. What a recursive
definition computes for every input cannot be proved either; of `MoveLines` the proof uses
only that each entry follows from the one before. The counterexamples of section 4 are TLC's.

## 6. Plan

1. `LockPool`: connections, advisory locks and the work inside them; that a handler
   which needs two locks cannot exhaust the pool when both are taken on one connection.
2. `Codes`: attempt counters under concurrent guesses. `Documents`: credit notes applied and
   refunded, payments of bills and the transfers out that make them, numbering.
3. The rest of the queue (transactions, businesses) and the pulls, with their cursor.
4. `Ledger`, extended by transfers out, expenses, bills and goods; `Savings` by deleting
   the business (under the lock) and the account (outside it).

## 7. Not modelled

Third-party onboarding (provisioning, KYC), chat integrations, mail, SMS, push, alerts,
snapshots, insights and reports are I/O or pure computation with no shared money state.
The balance cache only feeds the display. Administration is CRUD behind a key; its
freezes appear as refusals. Sign-in, codes and the PIN are planned (`Codes`); the routes
modelled take the PIN as given. Of the components modelled, the parts left out are named in
their entries of `PROJECT.json`: chiefly the outgoing side of matching, VAT, journals and
opening balances, bill payments, numbering, recurring expenses and invoices, rates and
fees as figures. The scripts of the repository (`scripts/`) are its tests and one-off jobs,
and are read as statements of what the code should do, not modelled.

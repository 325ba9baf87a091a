--------------------------- MODULE CreditMatching ---------------------------
(***************************************************************************)
(* One business's incoming bank transfers (credits) and what each of them   *)
(* is explained by: a cash deposit, a sale, a customer's repayments, invoice *)
(* payments, or a marking.  A credit is booked by the webhook or the poller, *)
(* which then offers it to the deposits (utils/cashDeposits.js) and to the   *)
(* invoices (utils/invoiceMatch.js), each under the business lock and with   *)
(* nothing held between; the owner's routes (cashDeposits.js,               *)
(* transactions.js, sales.js, customers.js, invoices.js, sync.js) come in    *)
(* between.  Every route reads and writes under the lock in one database    *)
(* transaction, and is one action; what a route reads BEFORE the lock and    *)
(* does not read again is an action of its own, with the request kept in    *)
(* `pending`.  Money is in units, days are numbers (LastDay is today).      *)
(***************************************************************************)
EXTENDS Integers, FiniteSets, Functions

CONSTANTS
  Credits, Deposits, Sales, Debts, Invoices, Customers,
  None,         \* no record
  Amount,       \* what each credit, deposit, debt and invoice is for
  Day,          \* the day of each credit, sale, debt and invoice
  Owner,        \* the customer of each debt
  LastDay,
  Window,       \* days after its own on which the server links a deposit
  SaleAmounts,  \* bound: what a sale by hand may be for
  HandDays,     \* bound: the days of payments recorded by hand
  DepositDays,  \* bound: the days a deposit may be recorded for
  LockDays,     \* bound: how far the books may be closed, 0 when open again
  PaymentIds,   \* bound: payments that may be there at once
  MaxOps        \* bound: transfers in, and what the owner, staff and phone do

Money == Credits \cup Deposits \cup Debts \cup Invoices
Days == 1..LastDay
Marks == {"none", "banked", "bankedCash", "income", "other"}
  \* nothing; purpose cash_deposit; the same through Cash at Hand; an income
  \* account and no purpose; any other purpose (a loan, an own transfer ...)

ASSUME CreditMatchingAssumption ==
  /\ LastDay \in Nat \ {0} /\ Window \in Nat /\ MaxOps \in Nat
  /\ PaymentIds \subseteq Nat /\ SaleAmounts \subseteq Nat \ {0} /\ HandDays \cup DepositDays \subseteq Days /\ LockDays \subseteq 0..(LastDay - 1)
  /\ Amount \in [Money -> Nat \ {0}]
  /\ Day \in [Credits \cup Sales \cup Debts \cup Invoices -> Days]
  /\ Owner \in [Debts -> Customers]
  /\ None \notin Credits \cup Sales \cup Customers \cup Invoices
  /\ IsFiniteSet(Debts)
  /\ Credits \cap Deposits = {} /\ Debts \cap Invoices = {}

VARIABLES
  credit,     \* Transaction rows: how far the handler is, and the links
  deposit,    \* CashDeposit
  sale,       \* Sales: amount (0 once deleted, or not there yet), transfer
  debts,      \* the Debt rows there are
  paid,       \* paidAmount of a debt, amountPaid of an invoice
  invoice,    \* "open" (issued: SENT, PARTIAL, OVERDUE or PAID) or "void"
  off,        \* the invoices written off
  payments,   \* DebtPayment and InvoicePayment rows
  customers,  \* the Customer rows there are
  lockDay,    \* booksLockDate, 0 when the books are open
  pending,    \* requests past what they check outside the lock
  fresh,      \* history: the credits and deposits the server alone decided on
  ops

books == <<sale, debts, paid, invoice, off, payments, customers>>
vars == <<credit, deposit, books, lockDay, pending, fresh, ops>>

Sum(F(_), S) == SumFunction([x \in S |-> F(x)])
Least(a, b) == IF a < b THEN a ELSE b

NoCredit == [at |-> "away", mark |-> "none", sale |-> None, customer |-> None,
             invoice |-> None, matched |-> 0]
NoDeposit == [status |-> "none", day |-> 1, tx |-> None, rejected |-> {},
              auto |-> FALSE, was |-> "none"]

Init ==
  /\ credit = [c \in Credits |-> NoCredit]
  /\ deposit = [d \in Deposits |-> NoDeposit]
  /\ sale = [s \in Sales |-> [amount |-> 0, tx |-> None]]
  /\ debts \in {{}, Debts}
  /\ paid = [x \in Debts \cup Invoices |-> 0]
  /\ invoice = [i \in Invoices |-> "open"]
  /\ off = {} /\ payments = {} /\ customers = Customers
  /\ lockDay = 0 /\ pending = {} /\ fresh = Credits /\ ops = 0

Open(days) == \A day \in days : day > lockDay
Booked == {c \in Credits : credit[c].at # "away"}
Linked(c) == credit[c].sale # None \/ credit[c].customer # None \/ credit[c].invoice # None
Explained(c) == credit[c].mark # "none" \/ Linked(c)
DepositOf(c) == {d \in Deposits : deposit[d].tx = c}
PaymentsOf(c) == {p \in payments : p.tx = c}
Step == ops < MaxOps /\ ops' = ops + 1
\* The owner's hand is on this credit or deposit from now on.
ByHand(S) == fresh' = fresh \ S

----------------------------------------------------------------------------
(***************************************************************************)
(* Cash deposits                                                            *)
(***************************************************************************)
\* Mutant: what already explains the transfer is not asked.
EligibleAny(dep, d, c) ==
  /\ c \in Booked /\ DepositOf(c) = {} /\ Amount[c] = Amount[d]
  /\ ~Linked(c) /\ Day[c] >= dep.day

\* creditRefusal, of a waiting deposit: the transfer may be its.
Eligible(dep, d, c) ==
  /\ c \in Booked /\ DepositOf(c) = {} /\ Amount[c] = Amount[d]
  /\ ~Linked(c) /\ credit[c].matched = 0
  /\ credit[c].mark \in {"none", "banked", "bankedCash"}
  /\ Day[c] >= dep.day

InWindow(dep, c) == Day[c] \in dep.day..(dep.day + Window)

\* What the server may link by itself.
Fits(dep, d, c) ==
  /\ Eligible(dep, d, c) /\ credit[c].mark = "none" /\ InWindow(dep, c)
  /\ c \notin dep.rejected /\ Open({Day[c]})

Oldest(S, D(_)) == {x \in S : \A y \in S : D(x) <= D(y)}

\* linkCredit
LinkCredit(dep, d, c, auto) ==
  /\ credit' = [credit EXCEPT ![c].mark = "banked"]
  /\ deposit' = [deposit EXCEPT ![d] =
       [dep EXCEPT !.status = "arrived", !.tx = c, !.auto = auto, !.was = credit[c].mark,
                   !.rejected = IF auto THEN @ ELSE @ \ {c}]]

\* Mutant: a credit that is still on its way through the matchers is left to them.
LookBackDone(dep, d) ==
  LET hits == IF dep.status # "waiting" THEN {}
              ELSE {c \in Credits : Fits(dep, d, c) /\ credit[c].at = "done"}
  IN  IF hits = {}
      THEN deposit' = [deposit EXCEPT ![d] = dep] /\ UNCHANGED credit
      ELSE \E c \in Oldest(hits, LAMBDA x : Day[x]) : LinkCredit(dep, d, c, TRUE)

\* A deposit saved, with the look back over the credits already there.
LookBack(dep, d) ==
  LET hits == IF dep.status = "waiting" THEN {c \in Credits : Fits(dep, d, c)} ELSE {}
  IN  IF hits = {}
      THEN deposit' = [deposit EXCEPT ![d] = dep] /\ UNCHANGED credit
      ELSE \E c \in Oldest(hits, LAMBDA x : Day[x]) : LinkCredit(dep, d, c, TRUE)

StatusInto == [kashbook |-> "waiting", account |-> "done"]

CreateDeposit(d, day, into) ==
  /\ Step /\ deposit[d].status = "none" /\ Open({day})
  /\ LookBack([NoDeposit EXCEPT !.status = StatusInto[into], !.day = day], d)
  /\ fresh' = fresh \cup {d}
  /\ UNCHANGED <<books, lockDay, pending>>

EditDeposit(d, day, into) ==
  /\ Step /\ deposit[d].status \in {"waiting", "done"}
  /\ Open({deposit[d].day, day})
  /\ LookBack([deposit[d] EXCEPT !.status = StatusInto[into], !.day = day], d)
  /\ fresh' = fresh \cup {d}
  /\ UNCHANGED <<books, lockDay, pending>>

CancelDeposit(d) ==
  /\ Step /\ deposit[d].status \in {"waiting", "done"} /\ Open({deposit[d].day})
  /\ deposit' = [deposit EXCEPT ![d].status = "cancelled"]
  /\ UNCHANGED <<credit, books, lockDay, pending, fresh>>

\* The credit gets back what it was, and never comes back by itself.
UndoDeposit(d) ==
  /\ Step /\ deposit[d].status = "arrived" /\ Open({Day[deposit[d].tx]})
  /\ deposit' = [deposit EXCEPT ![d] =
       [deposit[d] EXCEPT !.status = "waiting", !.tx = None, !.auto = FALSE, !.was = "none",
                          !.rejected = @ \cup {deposit[d].tx}]]
  /\ credit' = [credit EXCEPT ![deposit[d].tx].mark =
                  IF @ \in {"banked", "bankedCash"} THEN deposit[d].was ELSE @]
  /\ ByHand({d, deposit[d].tx})
  /\ UNCHANGED <<books, lockDay, pending>>

\* The owner picks: outside the window, taken off before, or marked as banked.
PickTransfer(d, c) ==
  /\ Step /\ deposit[d].status = "waiting"
  /\ Eligible(deposit[d], d, c) /\ Open({Day[c]})
  /\ LinkCredit(deposit[d], d, c, FALSE)
  /\ ByHand({c})
  /\ UNCHANGED <<books, lockDay, pending>>

----------------------------------------------------------------------------
(***************************************************************************)
(* A credit arrives                                                         *)
(***************************************************************************)
Book(c) ==
  /\ Step /\ credit[c].at = "away"
  /\ credit' = [credit EXCEPT ![c].at = "booked"]
  /\ UNCHANGED <<deposit, books, lockDay, pending, fresh>>

\* matchArrivingCredit: a deposit's already, or the oldest waiting one's, or
\* nobody's, and it goes on to the invoices.
OfferToDeposits(c) ==
  LET waiting == {d \in Deposits : deposit[d].status = "waiting" /\ Fits(deposit[d], d, c)}
  IN  /\ credit[c].at = "booked"
      /\ IF DepositOf(c) # {}
         THEN credit' = [credit EXCEPT ![c].at = "done"] /\ UNCHANGED deposit
         ELSE IF waiting = {}
         THEN credit' = [credit EXCEPT ![c].at = "offered"] /\ UNCHANGED deposit
         ELSE \E d \in Oldest(waiting, LAMBDA x : deposit[x].day) :
                /\ deposit' = [deposit EXCEPT ![d] = [@ EXCEPT !.status = "arrived",
                                 !.tx = c, !.auto = TRUE, !.was = "none"]]
                /\ credit' = [credit EXCEPT ![c].at = "done", ![c].mark = "banked"]
      /\ UNCHANGED <<books, lockDay, pending, fresh, ops>>

Due(i) == Amount[i] - paid[i]
FreeIds == PaymentIds \ {p.id : p \in payments}
NewId == CHOOSE id \in FreeIds : TRUE
Payment(id, of, a, c, day, was) ==
  [id |-> id, of |-> of, amount |-> a, tx |-> c, day |-> day, was |-> was]

\* Another part of the credit pays an invoice.
UsedFor(c, i, a) ==
  [credit EXCEPT ![c].invoice = IF @ = None THEN i ELSE @, ![c].matched = @ + a]

\* tryMatchInvoice: exactly one open invoice owes exactly this.
OfferToInvoices(c) ==
  LET owing == {i \in Invoices : invoice[i] = "open" /\ i \notin off /\ Due(i) = Amount[c]}
  IN  /\ credit[c].at = "offered"
      /\ IF Cardinality(owing) = 1 /\ ~Explained(c) /\ Open({Day[c]})
         THEN \E i \in owing :
                /\ FreeIds # {}
                /\ payments' = payments \cup {Payment(NewId, i, Amount[c], c, Day[c], 0)}
                /\ paid' = [paid EXCEPT ![i] = Amount[i]]
                /\ credit' = [credit EXCEPT ![c].at = "done", ![c].invoice = i,
                                            ![c].matched = Amount[c]]
         ELSE /\ credit' = [credit EXCEPT ![c].at = "done"]
              /\ UNCHANGED <<payments, paid>>
      /\ UNCHANGED <<deposit, sale, debts, invoice, off, customers, lockDay, pending, fresh, ops>>

\* A failed matchArrivingCredit answers false, and the invoices get their turn;
\* a server that stops, or a failed tryMatchInvoice, ends it: no offer is made again.
OfferLost(c) ==
  /\ Step
  /\ \/ credit[c].at = "booked" /\ credit' = [credit EXCEPT ![c].at = "offered"]
     \/ credit[c].at \in {"booked", "offered"} /\ credit' = [credit EXCEPT ![c].at = "done"]
  /\ ByHand({c})
  /\ UNCHANGED <<deposit, books, lockDay, pending>>

----------------------------------------------------------------------------
(***************************************************************************)
(* The transactions screen                                                  *)
(***************************************************************************)
\* Mutant: the match is not looked at again under the lock.
MatchableStale(c) == c \in Booked /\ DepositOf(c) = {}

\* loadMatchableCredit, and again under the lock.
Matchable(c) == c \in Booked /\ ~Explained(c) /\ DepositOf(c) = {}

MatchSale(c, s) ==
  /\ Step /\ Matchable(c)
  /\ sale[s].amount > 0 /\ sale[s].tx = None /\ Open({Day[c], Day[s]})
  /\ credit' = [credit EXCEPT ![c].sale = s, ![c].matched = Least(sale[s].amount, Amount[c])]
  /\ sale' = [sale EXCEPT ![s].tx = c]
  /\ ByHand({c})
  /\ UNCHANGED <<deposit, debts, paid, invoice, off, payments, customers, lockDay, pending>>

\* create-sale: dated the credit's day (a sale of this model has its day given,
\* so it is one of that day), and never for more than the credit.
CreateSale(c, s, a) ==
  /\ Step /\ Matchable(c) /\ sale[s].amount = 0 /\ Day[s] = Day[c]
  /\ a \in 1..Amount[c] /\ Open({Day[c]})
  /\ sale' = [sale EXCEPT ![s] = [amount |-> a, tx |-> c]]
  /\ credit' = [credit EXCEPT ![c].sale = s, ![c].matched = a]
  /\ ByHand({c})
  /\ UNCHANGED <<deposit, debts, paid, invoice, off, payments, customers, lockDay, pending>>

DebtsOf(k) == {x \in debts : Owner[x] = k}
\* What match-debt puts on each debt of k: the credit goes to the oldest first, and
\* in any order to debts of one day.
Shares(c, k) ==
  {share \in [DebtsOf(k) -> 0..Amount[c]] :
     /\ \A x \in DebtsOf(k) : share[x] <= Due(x)
     /\ Sum(LAMBDA x : share[x], DebtsOf(k)) = Least(Amount[c], Sum(Due, DebtsOf(k)))
     /\ \A x, y \in DebtsOf(k) : x # y /\ share[x] > 0 /\ share[y] < Due(y) =>
          Day[x] <= Day[y] /\ (share[x] = Due(x) \/ share[y] = 0)}

MatchDebt(c, k) ==
  \E share \in Shares(c, k) :
    LET owed == {x \in DebtsOf(k) : share[x] > 0}
    IN  /\ Step /\ Matchable(c) /\ Open({Day[c]}) /\ owed # {}
        /\ ExistsInjection(owed, FreeIds)
        /\ LET id == CHOOSE f \in Injection(owed, FreeIds) : TRUE
           IN  payments' = payments \cup {Payment(id[x], x, share[x], c, Day[c], 0) : x \in owed}
        /\ paid' = [x \in DOMAIN paid |-> IF x \in owed THEN paid[x] + share[x] ELSE paid[x]]
        /\ credit' = [credit EXCEPT ![c].customer = k,
                                    ![c].matched = Sum(LAMBDA x : share[x], owed)]
        /\ ByHand({c})
        /\ UNCHANGED <<deposit, sale, debts, invoice, off, customers, lockDay, pending>>

\* A repayment recorded by hand that this credit really was.
LinkDebtPayment(c, p) ==
  /\ Step /\ Matchable(c)
  /\ p.of \in debts /\ p.tx = None /\ p.amount <= Amount[c] /\ Open({p.day, Day[c]})
  /\ payments' = (payments \ {p}) \cup {Payment(p.id, p.of, p.amount, c, Day[c], p.day)}
  /\ credit' = [credit EXCEPT ![c].customer = Owner[p.of], ![c].matched = p.amount]
  /\ ByHand({c})
  /\ UNCHANGED <<deposit, sale, debts, paid, invoice, off, customers, lockDay, pending>>

\* Mutant: the day a linked payment goes back to is not asked.
UnmatchDaysNow(c) ==
  {Day[c]} \cup (IF credit[c].sale = None THEN {} ELSE {Day[credit[c].sale]})
    \cup {p.day : p \in PaymentsOf(c)}

\* Every day an unmatch touches.
UnmatchDays(c) ==
  {Day[c]} \cup (IF credit[c].sale = None THEN {} ELSE {Day[credit[c].sale]})
    \cup UNION {{p.day, IF p.was = 0 THEN p.day ELSE p.was} : p \in PaymentsOf(c)}

\* A payment the match made goes; one recorded by hand is as it was before.
Unmatch(c, deleteSale) ==
  LET mine  == {p \in PaymentsOf(c) : p.was = 0}
      hand  == {p \in PaymentsOf(c) : p.was # 0}
      off_i == {i \in off : \E p \in PaymentsOf(c) : p.of = i}
      back(x) == Sum(LAMBDA p : p.amount, {p \in mine : p.of = x})
  IN  /\ Step /\ Linked(c) /\ DepositOf(c) = {} /\ Open(UnmatchDays(c)) /\ off_i = {}
      /\ sale' = IF credit[c].sale = None THEN sale
                 ELSE [sale EXCEPT ![credit[c].sale] =
                         [amount |-> IF deleteSale THEN 0 ELSE @.amount, tx |-> None]]
      /\ payments' = (payments \ PaymentsOf(c)) \cup
           {Payment(p.id, p.of, p.amount, None, p.was, 0) : p \in hand}
      /\ paid' = [x \in DOMAIN paid |-> paid[x] - back(x)]
      /\ credit' = [credit EXCEPT ![c] = [NoCredit EXCEPT !.at = credit[c].at,
                                                          !.mark = credit[c].mark]]
      /\ ByHand({c})
      /\ UNCHANGED <<deposit, debts, invoice, off, customers, lockDay, pending>>

\* classify (no account) and categorize (an account, and the purpose in step).
Mark(c, mark) ==
  /\ Step /\ c \in Booked /\ DepositOf(c) = {} /\ ~Linked(c) /\ Open({Day[c]})
  /\ credit' = [credit EXCEPT ![c].mark = mark]
  /\ ByHand({c})
  /\ UNCHANGED <<deposit, books, lockDay, pending>>

----------------------------------------------------------------------------
(***************************************************************************)
(* Sales, customers and their debts                                         *)
(***************************************************************************)
\* A new sale, or another amount for one: the credit's matched part follows.
SaveSale(s, a) ==
  LET c == sale[s].tx
  IN  /\ Step /\ a # sale[s].amount
      /\ Open({Day[s]} \cup (IF c = None THEN {} ELSE {Day[c]}))
      /\ sale' = [sale EXCEPT ![s].amount = a]
      /\ credit' = IF c = None \/ credit[c].sale # s THEN credit
                   ELSE [credit EXCEPT ![c].matched = Least(a, Amount[c])]
      /\ UNCHANGED <<deposit, debts, paid, invoice, off, payments, customers, lockDay, pending, fresh>>

DeleteSale(s) ==
  LET c == sale[s].tx
  IN  /\ Step /\ sale[s].amount > 0
      /\ Open({Day[s]} \cup (IF c = None \/ credit[c].sale # s THEN {} ELSE {Day[c]}))
      /\ sale' = [sale EXCEPT ![s] = [amount |-> 0, tx |-> None]]
      /\ credit' = IF c = None \/ credit[c].sale # s THEN credit
                   ELSE [credit EXCEPT ![c].sale = None, ![c].matched = 0]
      /\ UNCHANGED <<deposit, debts, paid, invoice, off, payments, customers, lockDay, pending, fresh>>

AddDebt(x) ==
  /\ Step /\ x \notin debts /\ Owner[x] \in customers /\ Open({Day[x]})
  /\ debts' = debts \cup {x}
  /\ UNCHANGED <<credit, deposit, sale, paid, invoice, off, payments, customers, lockDay, pending, fresh>>

\* A repayment by hand: today from the customer's screen, its own day from an
\* offline queue.
PayDebt(x, a, day) ==
  /\ Step /\ x \in debts /\ a \in 1..Due(x) /\ Open({day}) /\ FreeIds # {}
  /\ payments' = payments \cup {Payment(NewId, x, a, None, day, 0)}
  /\ paid' = [paid EXCEPT ![x] = @ + a]
  /\ UNCHANGED <<credit, deposit, sale, debts, invoice, off, customers, lockDay, pending, fresh>>

\* Deleting a customer: no repayment and no transfer, asked before the lock.
CheckDelete(k) ==
  /\ Step /\ k \in customers
  /\ \A p \in payments : p.of \notin DebtsOf(k)
  /\ \A c \in Credits : credit[c].customer # k
  /\ pending' = pending \cup {<<"delete", k>>}
  /\ UNCHANGED <<credit, deposit, books, lockDay, fresh>>

DeleteCustomer(k) ==
  /\ <<"delete", k>> \in pending /\ Open({Day[x] : x \in DebtsOf(k)})
  /\ pending' = pending \ {<<"delete", k>>}
  /\ customers' = customers \ {k}
  /\ debts' = debts \ DebtsOf(k)
  /\ payments' = {p \in payments : p.of \notin DebtsOf(k)}
  /\ paid' = [x \in DOMAIN paid |-> IF x \in DebtsOf(k) THEN 0 ELSE paid[x]]
  /\ UNCHANGED <<credit, deposit, sale, invoice, off, lockDay, fresh, ops>>

\* A debt from a phone's offline queue: the lock date is asked, and the debt
\* written, without the business lock.
SyncCheckDebt(x) ==
  /\ Step /\ x \notin debts /\ Owner[x] \in customers /\ Open({Day[x]})
  /\ pending' = pending \cup {<<"debt", x>>}
  /\ UNCHANGED <<credit, deposit, books, lockDay, fresh>>

SyncAddDebt(x) ==
  /\ <<"debt", x>> \in pending /\ Owner[x] \in customers
  /\ pending' = pending \ {<<"debt", x>>}
  /\ debts' = debts \cup {x}
  /\ UNCHANGED <<credit, deposit, sale, paid, invoice, off, payments, customers, lockDay, fresh, ops>>

----------------------------------------------------------------------------
(***************************************************************************)
(* Invoices (issued; what a line or a draft does to the stock is elsewhere) *)
(***************************************************************************)
\* Back into the books after a void, by way of a draft.
Issue(i) ==
  /\ Step /\ invoice[i] = "void" /\ Open({Day[i]})
  /\ invoice' = [invoice EXCEPT ![i] = "open"]
  /\ UNCHANGED <<credit, deposit, sale, debts, paid, off, payments, customers, lockDay, pending, fresh>>

Void(i) ==
  /\ Step /\ invoice[i] = "open" /\ paid[i] = 0 /\ Open({Day[i]})
  /\ invoice' = [invoice EXCEPT ![i] = "void"]
  /\ UNCHANGED <<credit, deposit, sale, debts, paid, off, payments, customers, lockDay, pending, fresh>>

\* A payment is refused on a void invoice before the lock, and not again under it.
CheckPayment(i) ==
  /\ Step /\ invoice[i] = "open"
  /\ pending' = pending \cup {<<"pay", i>>}
  /\ UNCHANGED <<credit, deposit, books, lockDay, fresh>>

\* linkableCredit: the part of the credit no other invoice payment used.
LeftOf(c) == Amount[c] - credit[c].matched
Linkable(c) ==
  /\ c \in Booked /\ DepositOf(c) = {} /\ credit[c].mark = "none"
  /\ credit[c].sale = None /\ credit[c].customer = None

Paying(i, a, day) ==
  /\ <<"pay", i>> \in pending /\ pending' = pending \ {<<"pay", i>>}
  /\ i \notin off /\ a \in 1..Due(i) /\ Open({day}) /\ FreeIds # {}
  /\ paid' = [paid EXCEPT ![i] = @ + a]
  /\ invoice' = [invoice EXCEPT ![i] = "open"]    \* statusAfter, whatever it was
  /\ UNCHANGED <<deposit, sale, debts, off, customers, lockDay, ops>>

PayInvoice(i, a, day) ==
  /\ Paying(i, a, day)
  /\ payments' = payments \cup {Payment(NewId, i, a, None, day, 0)}
  /\ UNCHANGED <<credit, fresh>>

PayInvoiceFrom(i, a, c) ==
  /\ Linkable(c) /\ a <= LeftOf(c) /\ Paying(i, a, Day[c])
  /\ payments' = payments \cup {Payment(NewId, i, a, c, Day[c], 0)}
  /\ credit' = UsedFor(c, i, a)
  /\ ByHand({c})

LinkPayment(p, c) ==
  /\ Step /\ p.of \in Invoices /\ p.tx = None /\ invoice[p.of] # "void"
  /\ Linkable(c) /\ p.amount <= LeftOf(c) /\ Open({p.day, Day[c]})
  /\ payments' = (payments \ {p}) \cup {Payment(p.id, p.of, p.amount, c, Day[c], p.day)}
  /\ credit' = UsedFor(c, p.of, p.amount)
  /\ ByHand({c})
  /\ UNCHANGED <<deposit, sale, debts, paid, invoice, off, customers, lockDay, pending>>

\* Mutant: an undone payment frees its whole credit.
FreedWhole(p) ==
  IF p.tx = None THEN {credit}
  ELSE {[credit EXCEPT ![p.tx].invoice = None, ![p.tx].matched = 0]}

\* The credit of an undone payment goes on with what it still pays.
Freed(p) ==
  LET c    == p.tx
      left == credit[c].matched - p.amount
      next == IF credit[c].invoice # p.of THEN {credit[c].invoice}
              ELSE {q.of : q \in PaymentsOf(c) \ {p}}
  IN  IF c = None \/ credit[c].invoice = None THEN {credit}
      ELSE IF left > 0 /\ next # {}
      THEN {[credit EXCEPT ![c].invoice = i, ![c].matched = left] : i \in next}
      ELSE {[credit EXCEPT ![c].invoice = None, ![c].matched = 0]}

UndoPayment(p) ==
  /\ Step /\ p.of \in Invoices /\ p.of \notin off /\ invoice[p.of] # "void"
  /\ Open({p.day} \cup (IF p.tx = None THEN {} ELSE {Day[p.tx]}))
  /\ payments' = payments \ {p}
  /\ credit' \in Freed(p)
  /\ paid' = [paid EXCEPT ![p.of] = @ - p.amount]
  /\ ByHand({p.tx})
  /\ UNCHANGED <<deposit, sale, debts, invoice, off, customers, lockDay, pending>>

\* Dated today, which is never locked.
WriteOff(i) ==
  /\ Step /\ invoice[i] = "open" /\ i \notin off /\ Due(i) > 0
  /\ off' = off \cup {i}
  /\ UNCHANGED <<credit, deposit, sale, debts, paid, invoice, payments, customers, lockDay, pending, fresh>>

UndoWriteOff(i) ==
  /\ Step /\ i \in off
  /\ off' = off \ {i}
  /\ UNCHANGED <<credit, deposit, sale, debts, paid, invoice, payments, customers, lockDay, pending, fresh>>

\* Up to yesterday, or open again: what was closed was not decided on.
SetLock(day) ==
  /\ Step /\ day # lockDay
  /\ lockDay' = day
  /\ fresh' = IF day < lockDay THEN {x \in fresh \cap Credits : Day[x] > lockDay} \cup (fresh \cap Deposits)
              ELSE fresh
  /\ UNCHANGED <<credit, deposit, books, pending>>

----------------------------------------------------------------------------
Arrive == \E c \in Credits : Book(c) \/ OfferToDeposits(c) \/ OfferToInvoices(c) \/ OfferLost(c)

DepositOps == \E d \in Deposits :
  \/ \E day \in DepositDays, into \in {"kashbook", "account"} :
       CreateDeposit(d, day, into) \/ EditDeposit(d, day, into)
  \/ CancelDeposit(d) \/ UndoDeposit(d) \/ \E c \in Credits : PickTransfer(d, c)

MatchOps == \E c \in Credits :
  \/ \E s \in Sales : MatchSale(c, s) \/ \E a \in 1..Amount[c] : CreateSale(c, s, a)
  \/ \E k \in Customers : MatchDebt(c, k)
  \/ \E p \in payments : LinkDebtPayment(c, p) \/ LinkPayment(p, c)
  \/ \E deleteSale \in BOOLEAN : Unmatch(c, deleteSale)
  \/ \E mark \in Marks : Mark(c, mark)
  \/ \E i \in Invoices : \E a \in 1..Amount[i] : PayInvoiceFrom(i, a, c)

RecordOps ==
  \/ \E s \in Sales : DeleteSale(s) \/ \E a \in SaleAmounts : SaveSale(s, a)
  \/ \E x \in Debts : AddDebt(x) \/ SyncCheckDebt(x) \/ SyncAddDebt(x)
       \/ \E a \in 1..Amount[x], day \in HandDays : PayDebt(x, a, day)
  \/ \E k \in Customers : CheckDelete(k) \/ DeleteCustomer(k)
  \/ \E i \in Invoices : Issue(i) \/ Void(i) \/ CheckPayment(i) \/ WriteOff(i) \/ UndoWriteOff(i)
       \/ \E a \in 1..Amount[i], day \in HandDays : PayInvoice(i, a, day)
  \/ \E p \in payments : UndoPayment(p)
  \/ \E day \in LockDays : SetLock(day)

Next == Arrive \/ DepositOps \/ MatchOps \/ RecordOps
Spec == Init /\ [][Next]_vars

----------------------------------------------------------------------------
\* Every row has the fields and the ranges its column has.
TypeOK ==
  /\ credit \in [Credits -> [at : {"away", "booked", "offered", "done"}, mark : Marks,
       sale : Sales \cup {None}, customer : Customers \cup {None},
       invoice : Invoices \cup {None}, matched : Nat]]
  /\ deposit \in [Deposits -> [status : {"none", "waiting", "done", "arrived", "cancelled"},
       day : Days, tx : Credits \cup {None}, rejected : SUBSET Credits, auto : BOOLEAN,
       was : {"none", "banked", "bankedCash"}]]
  /\ sale \in [Sales -> [amount : Nat, tx : Credits \cup {None}]]
  /\ debts \subseteq Debts /\ off \subseteq Invoices /\ customers \subseteq Customers
  /\ paid \in [Debts \cup Invoices -> Nat]
  /\ invoice \in [Invoices -> {"open", "void"}]
  /\ \A p \in payments : /\ p.id \in PaymentIds /\ p.of \in Debts \cup Invoices
                         /\ p.amount \in Nat /\ p.tx \in Credits \cup {None}
                         /\ p.day \in Days /\ p.was \in 0..LastDay
  /\ lockDay \in 0..LastDay

\* One record per naira (books rule): a credit is explained in one way only,
\* and what its match says it accounts for is what the records that name it
\* carry, never more than the credit.  A transfer applied to the debts of a
\* customer deleted since is left to MatchedMoneyKept.
CarriedBy(c) ==
  IF credit[c].sale # None THEN Least(sale[credit[c].sale].amount, Amount[c])
  ELSE Sum(LAMBDA p : p.amount, PaymentsOf(c))

OneRecordPerNaira == \A c \in Credits :
  /\ Cardinality({x \in {"sale", "customer", "invoice"} : credit[c][x] # None}
       \cup (IF credit[c].mark = "none" THEN {} ELSE {"mark"})) <= 1
  /\ credit[c].matched <= Amount[c]
  /\ credit[c].customer \in customers \cup {None} => credit[c].matched = CarriedBy(c)

\* Both ends of every link agree, and a debt or an invoice has been paid what
\* its payments add up to, never more than it is for.
LinksAgree ==
  /\ \A d \in Deposits : deposit[d].status = "arrived" <=> deposit[d].tx # None
  /\ \A d \in Deposits : deposit[d].tx # None =>
       /\ DepositOf(deposit[d].tx) = {d}
       /\ credit[deposit[d].tx].mark = "banked" /\ ~Linked(deposit[d].tx)
       /\ deposit[d].tx \notin deposit[d].rejected
  /\ \A s \in Sales : sale[s].tx # None => credit[sale[s].tx].sale = s
  /\ \A c \in Credits :
       /\ credit[c].sale # None => sale[credit[c].sale].tx = c
       /\ credit[c].invoice # None => \E p \in PaymentsOf(c) : p.of = credit[c].invoice
       /\ \A p \in PaymentsOf(c) : IF p.of \in Debts THEN credit[c].customer = Owner[p.of]
                                   ELSE credit[c].invoice # None
  /\ \A x \in Debts \cup Invoices :
       /\ paid[x] = Sum(LAMBDA p : p.amount, {p \in payments : p.of = x})
       /\ paid[x] <= Amount[x]

\* "Whichever of the two runs second sees the other" (cashDeposits.js): a
\* waiting deposit and a credit that has been offered, neither touched by hand
\* since, never both stay when the server should have linked them.
NoMissedPair == \A d \in Deposits, c \in Credits :
  {d, c} \subseteq fresh /\ deposit[d].status = "waiting" /\ credit[c].at \in {"offered", "done"}
    => ~Fits(deposit[d], d, c)

\* What a day's figures are: money counted when it came in, and sales counted
\* when they were made (utils/books.js).
Counted(c) == IF credit[c].mark \notin {"none", "income"} THEN 0 ELSE Amount[c] - credit[c].matched
Figures(day) ==
  [paid |-> Sum(Counted, {c \in Booked : Day[c] = day})
              + Sum(LAMBDA p : p.amount, {p \in payments : p.day = day})
              + Sum(LAMBDA s : sale[s].amount, {s \in Sales : Day[s] = day}),
   sold |-> Sum(LAMBDA x : Amount[x], {x \in debts \cup {i \in Invoices : invoice[i] = "open"} : Day[x] = day}),
   cash |-> Sum(LAMBDA d : Amount[d],
                {d \in Deposits : deposit[d].status \in {"waiting", "done", "arrived"} /\ deposit[d].day = day})]
Frozen == \A day \in 1..lockDay : Figures(day)' = Figures(day)

\* Closed days keep their figures, however payments, matches, deposits and
\* sales are moved about: only a transfer that arrives may change them.  Left
\* to the runs and hazards of their own: a debt from an offline queue, a
\* customer deleted meanwhile, and a payment that brings a void invoice back.
Outside ==
  \/ \E c \in Credits : Book(c)
  \/ \E x \in Debts : SyncAddDebt(x)
  \/ \E k \in Customers : DeleteCustomer(k)
  \/ \E i \in Invoices : invoice[i] = "void" /\ invoice'[i] = "open"
LockedDaysFrozen == [][Frozen \/ Outside]_vars

\* booksLock.js: the lock date is set under the lock every write asks it
\* under, "so a write and a new lock date never pass each other".
WritesNeverPassTheLock == [][Frozen \/ \E c \in Credits : Book(c)]_vars

\* routes/customers.js: a customer is not deleted "once money is attached", so
\* what a transfer was matched to is always still there to count it.
MatchedMoneyKept == \A c \in Credits : credit[c].matched = CarriedBy(c)

=============================================================================

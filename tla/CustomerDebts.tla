---------------------------- MODULE CustomerDebts ----------------------------
(***************************************************************************)
(* What one customer owes, as a phone that was offline and the desk write   *)
(* it: the phone's queue (routes/sync.js) carries out its operations one by  *)
(* one, some under the business lock and some not, and is sent again until  *)
(* every operation was answered "processed"; the desk (routes/customers.js) *)
(* gives credit, takes repayments and deletes the customer meanwhile.  A    *)
(* step is what a handler does between two waits that matter to another:    *)
(* a repayment is written in one database transaction, which nobody sees     *)
(* before it commits.  The phone is not part of the repository: it is       *)
(* modelled by what the endpoint expects of it.                             *)
(***************************************************************************)
EXTENDS Naturals, FiniteSets, Sequences, Functions

CONSTANTS
  Debts, Amount,  \* what each debt is for
  Op,         \* the operations by their ids: [kind, debt, amount]
  Queue,      \* the operations the phone has queued, in order
  Old,        \* the operations and debts dated where the books may be closed
  Jobs, NoJob,
  MaxFaults,  \* bound: answers lost, handlers that die, lock connections that
              \* drop, waits for the lock that time out, failed queries
  MaxLocks    \* bound: closing the books and opening them again

Ops == DOMAIN Op
Kinds == {"customer", "debt", "pay", "drop"}
Queued == {Queue[n] : n \in DOMAIN Queue}
Desk   == Ops \ Queued

ASSUME DebtsAssumption ==
  /\ IsFiniteSet(Debts) /\ Amount \in [Debts -> Nat \ {0}] /\ Queue \in Seq(Ops) /\ NoJob \notin Jobs
  /\ Op \in [Ops -> [kind : Kinds, debt : Debts, amount : Nat \ {0}]]
  /\ Old \subseteq Ops \cup Debts /\ MaxFaults \in Nat /\ MaxLocks \in Nat
  /\ \A o, p \in Ops : Op[o].kind = "debt" /\ Op[o].debt = Op[p].debt /\ Op[p].kind = "debt" => o = p
  /\ \A o \in Desk : Op[o].kind # "customer"

VARIABLES
  customer,   \* whether the Customer row is there
  owed,       \* its totalOwed
  debts,      \* the Debt rows there are
  paid,       \* their paidAmount
  rows,       \* DebtPayment: [id, of, amount]
  closed,     \* whether the books lock date is past the old days
  lock,       \* withBusinessLock
  job,        \* requests: the operations left and done, and what was read
  left,       \* the phone's queue
  waiting,    \* the request the phone waits for
  asked,      \* what was asked at the desk
  faults, locks

rowvars == <<customer, owed, debts, paid, rows>>
phone   == <<left, waiting, asked>>
vars    == <<rowvars, closed, lock, job, phone, faults, locks>>

PCs == {"idle", "look", "create", "sum", "owed", "lock", "read", "write", "commit", "drop", "answer"}

Idle == [pc |-> "idle", rest |-> <<>>, done |-> {}, seen |-> 0, sum |-> 0, lost |-> FALSE]

\* A customer the phone adds is not there yet, nor are the debts anyone adds.
Init ==
  /\ customer = ~(\E o \in Ops : Op[o].kind = "customer")
  /\ debts = IF customer THEN Debts \ {Op[o].debt : o \in {o \in Ops : Op[o].kind = "debt"}} ELSE {}
  /\ paid = [x \in Debts |-> 0] /\ rows = {}
  /\ owed = SumFunction([x \in debts |-> Amount[x]])
  /\ closed = FALSE /\ lock = NoJob /\ job = [j \in Jobs |-> Idle]
  /\ left = Queue /\ waiting = NoJob /\ asked = {} /\ faults = 0 /\ locks = 0

Now(j)  == Head(job[j].rest)
Kind(j) == Op[Now(j)].kind
Of(j)   == Op[Now(j)].debt
AtDesk(j) == Now(j) \in Desk
At(j, pc) == job[j].pc = pc
Go(j, pc) == job' = [job EXCEPT ![j].pc = pc]
Least(a, b) == IF a < b THEN a ELSE b
Owing(of) == SumFunction([x \in debts |-> Amount[x] - of[x]])

\* A queue without what was done of it.
Without(ops, done) ==
  LET kept[n \in 0..Len(ops)] ==
        IF n = 0 THEN <<>>
        ELSE IF ops[n] \in done THEN kept[n - 1] ELSE Append(kept[n - 1], ops[n])
  IN  kept[Len(ops)]

Closed(dated) == closed /\ dated \cap Old # {}
Fault == faults < MaxFaults /\ faults' = faults + 1

\* One operation ends, with an error or without, and the next one's turn comes.
\* What was done under a lock that was lost counts, and ends in an error.
End(j, ok) ==
  /\ job' = [job EXCEPT ![j] = [Idle EXCEPT
       !.pc = IF Len(job[j].rest) = 1 THEN "answer" ELSE "look",
       !.rest = Tail(job[j].rest),
       !.done = IF ok /\ ~job[j].lost THEN job[j].done \cup {Now(j)} ELSE job[j].done]]
  /\ lock' = IF lock = j THEN NoJob ELSE lock

----------------------------------------------------------------------------
(* Requests *)

Begin(ops) == [Idle EXCEPT !.pc = "look", !.rest = ops]

\* The phone sends what it has left, whatever became of an earlier request.
Send(j) ==
  /\ waiting = NoJob /\ left # <<>> /\ At(j, "idle")
  /\ job' = [job EXCEPT ![j] = Begin(left)]
  /\ waiting' = j
  /\ UNCHANGED <<rowvars, closed, lock, left, asked, faults, locks>>

\* It waits no longer: the request goes on without it.
GiveUp ==
  /\ waiting # NoJob /\ Fault
  /\ waiting' = NoJob
  /\ UNCHANGED <<rowvars, closed, lock, job, left, asked, locks>>

Ask(j, o) ==
  /\ o \in Desk \ asked /\ At(j, "idle")
  /\ job' = [job EXCEPT ![j] = Begin(<<o>>)]
  /\ asked' = asked \cup {o}
  /\ UNCHANGED <<rowvars, closed, lock, left, waiting, faults, locks>>

\* What was processed leaves the phone's queue, if it still listens.
Answer(j) ==
  /\ At(j, "answer")
  /\ job' = [job EXCEPT ![j] = Idle]
  /\ IF waiting = j
     THEN /\ left' = Without(left, job[j].done)
          /\ waiting' = NoJob
     ELSE UNCHANGED <<left, waiting>>
  /\ UNCHANGED <<rowvars, closed, lock, asked, faults, locks>>

----------------------------------------------------------------------------
(* A customer and a debt *)

AddCustomer(j) ==
  /\ At(j, "look") /\ Kind(j) = "customer"
  /\ customer' = TRUE /\ End(j, TRUE)
  /\ UNCHANGED <<owed, debts, paid, rows, closed, phone, faults, locks>>

\* Mutant: a debt that is there already is an error, not an answer.
LookDebtTwice(j) ==
  /\ At(j, "look") /\ Kind(j) = "debt"
  /\ IF ~customer \/ Of(j) \in debts \/ (~AtDesk(j) /\ Closed({Now(j)})) THEN End(j, FALSE)
     ELSE Go(j, IF AtDesk(j) THEN "lock" ELSE "create") /\ UNCHANGED lock
  /\ UNCHANGED <<rowvars, closed, phone, faults, locks>>

\* The queue looks for the debt and asks the lock date, and takes no lock.
LookDebt(j) ==
  /\ At(j, "look") /\ Kind(j) = "debt"
  /\ IF ~customer THEN End(j, FALSE)
     ELSE IF AtDesk(j) THEN Go(j, "lock") /\ UNCHANGED lock
     ELSE IF Of(j) \in debts \/ Closed({Now(j)}) THEN End(j, Of(j) \in debts)
     ELSE Go(j, "create") /\ UNCHANGED lock
  /\ UNCHANGED <<rowvars, closed, phone, faults, locks>>

\* The id is unique and the customer must be there.
CreateDebt(j) ==
  /\ At(j, "create")
  /\ IF customer /\ Of(j) \notin debts
     THEN /\ debts' = debts \cup {Of(j)} /\ paid' = [paid EXCEPT ![Of(j)] = 0]
          /\ Go(j, "sum") /\ UNCHANGED lock
     ELSE End(j, FALSE) /\ UNCHANGED <<debts, paid>>
  /\ UNCHANGED <<customer, owed, rows, closed, phone, faults, locks>>

SumDebts(j) ==
  /\ At(j, "sum")
  /\ job' = [job EXCEPT ![j].pc = "owed", ![j].sum = Owing(paid)]
  /\ UNCHANGED <<rowvars, closed, lock, phone, faults, locks>>

SaveOwed(j) ==
  /\ At(j, "owed")
  /\ owed' = IF customer THEN job[j].sum ELSE owed
  /\ End(j, customer)
  /\ UNCHANGED <<customer, debts, paid, rows, closed, phone, faults, locks>>

----------------------------------------------------------------------------
(* A repayment *)

\* For a debt that is not there the queue has nothing to do: processed.
LookPay(j) ==
  /\ At(j, "look") /\ Kind(j) = "pay"
  /\ IF customer /\ (AtDesk(j) \/ Of(j) \in debts) THEN Go(j, "lock") /\ UNCHANGED lock
     ELSE End(j, customer)
  /\ UNCHANGED <<rowvars, closed, phone, faults, locks>>

Acquire(j) ==
  /\ At(j, "lock") /\ lock = NoJob
  /\ lock' = j /\ Go(j, "read")
  /\ UNCHANGED <<rowvars, closed, phone, faults, locks>>

Due(x) == Amount[x] - paid[x]
Recorded(o) == \E r \in rows : r.id = o

\* Mutant: a debt that is already paid is paid with nothing.
ReadPayPaid(j) ==
  /\ At(j, "read") /\ Kind(j) = "pay"
  /\ IF Recorded(Now(j)) THEN End(j, TRUE)
     ELSE IF Of(j) \notin debts \/ Closed({Now(j)}) THEN End(j, FALSE)
     ELSE job' = [job EXCEPT ![j].pc = "write", ![j].seen = paid[Of(j)]] /\ UNCHANGED lock
  /\ UNCHANGED <<rowvars, closed, phone, faults, locks>>

\* Recorded already, or nothing left to record: processed.  The desk refuses
\* more than is owed, the queue takes what there is.
ReadPay(j) ==
  /\ At(j, "read") /\ Kind(j) = "pay"
  /\ IF Recorded(Now(j)) THEN End(j, TRUE)
     ELSE IF Of(j) \notin debts THEN End(j, FALSE)
     ELSE IF Due(Of(j)) = 0 THEN End(j, ~AtDesk(j))
     ELSE IF Closed({Now(j)}) \/ (AtDesk(j) /\ Op[Now(j)].amount > Due(Of(j))) THEN End(j, FALSE)
     ELSE job' = [job EXCEPT ![j].pc = "write", ![j].seen = paid[Of(j)]] /\ UNCHANGED lock
  /\ UNCHANGED <<rowvars, closed, phone, faults, locks>>

Taken(j) == Least(Op[Now(j)].amount, Amount[Of(j)] - job[j].seen)
Writing(x) == \E k \in Jobs : At(k, "commit") /\ Of(k) = x

\* Mutant: the debt is written over without comparing what was read.
WritePayBlind(j) ==
  /\ At(j, "write") /\ ~Writing(Of(j))
  /\ IF Of(j) \in debts /\ ~Recorded(Now(j))
     THEN /\ job' = [job EXCEPT ![j].pc = "commit", ![j].sum = Owing([paid EXCEPT ![Of(j)] = job[j].seen + Taken(j)])]
          /\ UNCHANGED lock
     ELSE End(j, FALSE)
  /\ UNCHANGED <<rowvars, closed, phone, faults, locks>>

\* The row and the compare-and-set of the debt, which wait for another
\* transaction on it, and the sum as it is then: nobody sees them yet.
WritePay(j) ==
  /\ At(j, "write") /\ ~Writing(Of(j))
  /\ IF Of(j) \in debts /\ ~Recorded(Now(j)) /\ paid[Of(j)] = job[j].seen
     THEN /\ job' = [job EXCEPT ![j].pc = "commit", ![j].sum = Owing([paid EXCEPT ![Of(j)] = @ + Taken(j)])]
          /\ UNCHANGED lock
     ELSE End(j, FALSE)
  /\ UNCHANGED <<rowvars, closed, phone, faults, locks>>

CommitPay(j) ==
  /\ At(j, "commit")
  /\ rows' = rows \cup {[id |-> Now(j), of |-> Of(j), amount |-> Taken(j)]}
  /\ paid' = [paid EXCEPT ![Of(j)] = job[j].seen + Taken(j)]
  /\ owed' = job[j].sum
  /\ End(j, TRUE)
  /\ UNCHANGED <<customer, debts, closed, phone, faults, locks>>

----------------------------------------------------------------------------
(* Deleting the customer *)

\* What forbids it is asked before the lock; the queue takes none.
LookDrop(j) ==
  /\ At(j, "look") /\ Kind(j) = "drop"
  /\ IF ~customer THEN End(j, ~AtDesk(j))
     ELSE IF rows # {} \/ (~AtDesk(j) /\ Closed(debts)) THEN End(j, FALSE)
     ELSE Go(j, IF AtDesk(j) THEN "lock" ELSE "drop") /\ UNCHANGED lock
  /\ UNCHANGED <<rowvars, closed, phone, faults, locks>>

\* What the desk asks under the lock before a debt or a deletion.
ReadLockDate(j) ==
  /\ At(j, "read") /\ Kind(j) # "pay"
  /\ IF Closed(IF Kind(j) = "drop" THEN debts ELSE {Now(j)}) THEN End(j, FALSE)
     ELSE Go(j, IF Kind(j) = "drop" THEN "drop" ELSE "create") /\ UNCHANGED lock
  /\ UNCHANGED <<rowvars, closed, phone, faults, locks>>

\* The debts and their payments go with the customer, once no transaction
\* holds them.
Drop(j) ==
  /\ At(j, "drop") /\ \A x \in debts : ~Writing(x)
  /\ customer' = FALSE /\ debts' = {} /\ rows' = {} /\ owed' = 0
  /\ paid' = [x \in Debts |-> 0]
  /\ End(j, customer)
  /\ UNCHANGED <<closed, phone, faults, locks>>

----------------------------------------------------------------------------
(* The books lock date; what goes wrong *)

SetLock ==
  /\ lock = NoJob /\ locks < MaxLocks
  /\ closed' = ~closed /\ locks' = locks + 1
  /\ UNCHANGED <<rowvars, lock, job, phone, faults>>

\* The wait for the lock runs out, or a query fails: a transaction under way
\* is undone.
Fails(j) ==
  /\ ~At(j, "idle") /\ ~At(j, "answer") /\ Fault
  /\ End(j, FALSE)
  /\ UNCHANGED <<rowvars, closed, phone, locks>>

\* The lock's connection drops; the handler notices when it is done.
LockLost(j) ==
  /\ lock = j /\ Fault
  /\ lock' = NoJob
  /\ job' = [job EXCEPT ![j].lost = TRUE]
  /\ UNCHANGED <<rowvars, closed, phone, locks>>

Crash(j) ==
  /\ ~At(j, "idle") /\ Fault
  /\ job' = [job EXCEPT ![j] = Idle]
  /\ lock' = IF lock = j THEN NoJob ELSE lock
  /\ waiting' = IF waiting = j THEN NoJob ELSE waiting
  /\ UNCHANGED <<rowvars, closed, left, asked, locks>>

Step(j) ==
  \/ AddCustomer(j) \/ LookDebt(j) \/ CreateDebt(j) \/ SumDebts(j) \/ SaveOwed(j)
  \/ LookPay(j) \/ Acquire(j) \/ ReadPay(j) \/ WritePay(j) \/ CommitPay(j)
  \/ LookDrop(j) \/ ReadLockDate(j) \/ Drop(j) \/ Answer(j)

Next ==
  \/ \E j \in Jobs : Step(j) \/ Send(j) \/ (\E o \in Desk : Ask(j, o))
  \/ \E j \in Jobs : Fails(j) \/ LockLost(j) \/ Crash(j)
  \/ GiveUp \/ SetLock

Spec == Init /\ [][Next]_vars

\* Handlers go on, and the phone sends again what it has left.
FairSpec == Spec /\ (\A j \in Jobs : WF_vars(Step(j))) /\ WF_vars(\E j \in Jobs : Send(j))

----------------------------------------------------------------------------
\* Every row and every handler has the fields its code gives it.
TypeOK ==
  /\ customer \in BOOLEAN /\ closed \in BOOLEAN /\ owed \in Nat
  /\ debts \subseteq Debts /\ paid \in [Debts -> Nat]
  /\ rows \subseteq [id : Ops, of : Debts, amount : Nat \ {0}]
  /\ lock \in Jobs \cup {NoJob} /\ waiting \in Jobs \cup {NoJob}
  /\ job \in [Jobs -> [pc : PCs, rest : Seq(Ops), done : SUBSET Ops, seen : Nat, sum : Nat, lost : BOOLEAN]]
  /\ \A j \in Jobs : job[j].rest = <<>> => At(j, "idle") \/ At(j, "answer")
  /\ left \in Seq(Queued) /\ asked \subseteq Desk

\* A debt has been paid what its payments add up to, never more than it is
\* for, and each request for a payment has counted once: however often the
\* queue is sent again and whoever else takes a payment, with the business
\* lock lost under a handler too ("a stale phone replaying it would otherwise
\* count money that never arrived", sync.js).
PaymentsAddUp ==
  /\ \A x \in debts :
       /\ paid[x] = SumFunction([r \in {r \in rows : r.of = x} |-> r.amount])
       /\ paid[x] <= Amount[x]
  /\ \A r \in rows : r.of \in debts
  /\ \A r, s \in rows : r.id = s.id => r = s

\* With the customer there and the books open for good, what the phone has
\* queued gets done: no lost answer, crash, failed step or race with the desk
\* leaves an operation that is refused every time it is sent again, except to
\* delete a customer who has paid.
QueueEmpties ==
  <>[](customer /\ ~closed) => <>(\A n \in DOMAIN left : Op[left[n]].kind = "drop")

\* sales.js: "Customer.totalOwed is the cached sum of what their unpaid debts
\* still owe": once nothing is under way, it is that sum.
OwedIsCached == (\A j \in Jobs : At(j, "idle")) => owed = Owing(paid)

\* sync.js answers "processed" for what has been carried out: a payment that
\* left the phone's queue is in the books, or there was nothing left to pay.
NothingDropped == \A o \in Queued :
  Op[o].kind = "pay" /\ Op[o].debt \in debts /\ o \notin {left[n] : n \in DOMAIN left}
    => Recorded(o) \/ Due(Op[o].debt) = 0

=============================================================================

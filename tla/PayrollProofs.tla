---------------------------- MODULE PayrollProofs ----------------------------
(***************************************************************************)
(* Payroll for any number of schedules, staff, requests, batches and days:  *)
(* no period is paid twice, what is queued was agreed to under one PIN, and  *)
(* a pay date found due has its payment or keeps the cursor.                *)
(***************************************************************************)
EXTENDS Payroll, SumLemmas, TLAPS

-----------------------------------------------------------------------------
(* What the rows, the handlers and the cron's list hold *)

\* A SalarySchedule, and a SalaryPayment.
ScheduleRow(r) ==
  r \in [state : {"active", "paused", "suspended"}, staff : Staff, amount : Amounts, payee : Payees,
         authorized : Amounts \X Payees, anchor : Given, next : {r.next}, created : {r.created}]

PaymentRow(p) ==
  p \in [status : Statuses, owed : BOOLEAN, staff : {p.staff}, amount : {p.amount}, payee : {p.payee},
         scheduledFor : {p.scheduledFor}, expires : {p.expires}]

\* A schedule that was there once is never free for a new one again.
Used(s) == schedule[s].state # "none"

SchedulesOK ==
  /\ DOMAIN schedule = Schedules /\ DOMAIN agreed = Schedules
  /\ \A s \in Schedules :
       Stands(s) => ScheduleRow(schedule[s]) /\ schedule[s].authorized \in agreed[s]

RequestsOK ==
  /\ DOMAIN request = Requests
  /\ \A r \in Requests :
       /\ request[r].pc = "create" =>
            /\ request[r].s \in Schedules /\ ~Used(request[r].s)
            /\ request[r].staff \in Staff /\ request[r].offer \in Offers
            /\ \A q \in Requests : request[q].pc = "create" /\ request[q].s = request[r].s => q = r
       /\ request[r].pc = "patch" =>
            request[r].s \in Schedules /\ ScheduleRow(request[r].was) /\ request[r].edit \in Edits
       /\ request[r].pc = "delete" => \A s \in request[r].S : s \in Schedules /\ Used(s)

\* The cron's list holds rows as they were read, with what their PIN was given
\* for; the payment is queued before the cursor moves.
CronOK ==
  /\ today \in Days
  /\ cron \in [pc : {"idle", "mint", "advance"}, due : {cron.due}, ran : (First - 1)..today, at : {cron.at}]
  /\ \A d \in cron.due :
       d.s \in Schedules /\ Used(d.s) /\ ScheduleRow(d.row) /\ d.row.authorized \in agreed[d.s]
  /\ cron.pc = "advance" => cron.at \in cron.due /\ Period(cron.at) \in Queue

PaymentsOK ==
  /\ DOMAIN bank = Queue
  /\ \A k \in Queue :
       /\ PaymentRow(payment[k])
       /\ \E s \in Schedules, anchor \in Given :
            k = <<s, PeriodKey(anchor, payment[k].scheduledFor)>> /\ Used(s)

\* A pay date found due is of a schedule that was there, and what the cron has
\* yet to queue is what it read of the row.
AwaitedOK ==
  /\ \A a \in awaited : a.s \in Schedules /\ Used(a.s)
  /\ \A a \in awaited, d \in cron.due : a.s = d.s =>
       \/ <<a.s, PeriodKey(a.anchor, a.next)>> \in Queue
       \/ a = [s |-> d.s, anchor |-> d.row.anchor, next |-> d.row.next]
  /\ NoneForgotten

RowsInv == SchedulesOK /\ RequestsOK /\ CronOK /\ PaymentsOK /\ ConsentedTogether

-----------------------------------------------------------------------------
(* What a batch has claimed is its own *)

\* From the claim to the answer no money has moved, and what was offered,
\* declined or skipped has not been paid.
BatchHolds(v) ==
  /\ v.pc \in {"idle", "next", "lock", "paid"}
  /\ v.pc # "idle" => \A k \in v.mine : k \in Queue /\ payment[k].status = "approving"
  /\ v.pc = "next" => \A k \in v.mine : bank[k] = 0
  /\ v.pc \in {"lock", "paid"} =>
       /\ v \in [pc : {"lock", "paid"}, mine : {v.mine}, at : v.mine]
       /\ \A k \in v.mine : bank[k] = IF v.pc = "paid" /\ k = v.at THEN 1 ELSE 0

BatchesHold == DOMAIN batch = Batches /\ \A b \in Batches : BatchHolds(batch[b])

Apart == \A b, c \in Batches :
  b # c /\ batch[b].pc # "idle" /\ batch[c].pc # "idle" => batch[b].mine \cap batch[c].mine = {}

BankOK == \A k \in Queue :
  /\ bank[k] \in {0, 1}
  /\ bank[k] = 1 => payment[k].status \in {"approving", "paid"}
  /\ payment[k].status = "paid" => bank[k] = 1 /\ ~payment[k].owed

BatchInv == BatchesHold /\ Apart /\ BankOK
-----------------------------------------------------------------------------
(* Steps leave schedules used and what was agreed to agreed *)

Kept == \A s \in Schedules : Used(s) => Used(s)' /\ agreed[s] \subseteq agreed'[s]

LEMMA FirstDay == First \in Days /\ First \in Int /\ \A day \in Days : day \in Int /\ First <= day
<1>1. \E day \in Days : \A other \in Days : day <= other
  BY BoundsAssumption, LeastNumber
<1>2. First \in Days /\ \A day \in Days : First <= day
  <2> DEFINE P(x) == x \in Days /\ \A other \in Days : x <= other
  <2>1. \E x : P(x)
    BY <1>1
  <2>2. P(CHOOSE x : P(x))
    <3> HIDE DEF P
    <3> QED
      BY <2>1, Zenon
  <2>3. First = CHOOSE x : P(x)
    BY Zenon DEF First
  <2> QED
    BY <2>2, <2>3
<1> QED
  BY <1>2, BoundsAssumption

LEMMA SchedulesSame ==
  ASSUME SchedulesOK, UNCHANGED <<schedule, agreed>>
  PROVE  SchedulesOK' /\ Kept /\ (\A s : Used(s)' <=> Used(s))
  BY DEF SchedulesOK, Kept, Used, Stands, ScheduleRow

LEMMA PaymentsSame ==
  ASSUME PaymentsOK, ConsentedTogether, Kept, UNCHANGED <<payment, bank>>
  PROVE  PaymentsOK' /\ ConsentedTogether' /\ Queue' = Queue
<1>1. Queue' = Queue
  BY DEF Queue
<1>2. ASSUME NEW k \in Queue
      PROVE  /\ PaymentRow(payment[k])
             /\ \E s \in Schedules, anchor \in Given :
                  k = <<s, PeriodKey(anchor, payment[k].scheduledFor)>> /\ Used(s)'
             /\ <<payment[k].amount, payment[k].payee>> \in agreed'[k[1]]
  <2>1. PICK s \in Schedules, anchor \in Given :
          k = <<s, PeriodKey(anchor, payment[k].scheduledFor)>> /\ Used(s)
    BY DEF PaymentsOK
  <2>2. k[1] = s
    BY <2>1
  <2>3. Used(s)' /\ agreed[s] \subseteq agreed'[s]
    BY <2>1 DEF Kept
  <2> QED
    BY <2>1, <2>2, <2>3 DEF PaymentsOK, ConsentedTogether
<1> QED
  BY <1>1, <1>2 DEF PaymentsOK, ConsentedTogether, PaymentRow

LEMMA CronSame ==
  ASSUME CronOK, Kept, UNCHANGED <<cron, today>>, Queue \subseteq Queue'
  PROVE  CronOK'
<1>1. \A d \in cron.due : Used(d.s)' /\ d.row.authorized \in agreed'[d.s]
  BY DEF CronOK, Kept
<1>2. Period(cron.at)' = Period(cron.at)
  BY DEF Period
<1> QED
  BY <1>1, <1>2 DEF CronOK, ScheduleRow

LEMMA RequestsSame ==
  ASSUME RequestsOK, UNCHANGED request, \A s \in Schedules : Used(s)' <=> Used(s)
  PROVE  RequestsOK'
  BY DEF RequestsOK, ScheduleRow

\* A request is answered, or has nothing to say of a new schedule.
LEMMA RequestPut ==
  ASSUME RequestsOK, NEW r \in Requests, NEW v, request' = [request EXCEPT ![r] = v],
         v.pc \notin {"create", "patch"}, v.pc = "delete" => \A s \in v.S : s \in Schedules /\ Used(s)', Kept,
         \A q \in Requests \ {r} : request[q].pc = "create" => schedule'[request[q].s].state = "none"
  PROVE  RequestsOK'
<1>1. DOMAIN request' = Requests /\ request'[r] = v /\ \A q \in Requests \ {r} : request'[q] = request[q]
  BY DEF RequestsOK
<1> QED
  BY <1>1 DEF RequestsOK, ScheduleRow, Kept, Used

-----------------------------------------------------------------------------
(* Steps that leave the schedules and the requests alone *)

\* One statement decides some of the payments.
LEMMA Decided ==
  ASSUME PaymentsOK, ConsentedTogether, Kept, DOMAIN bank' = Queue,
         NEW K, NEW status \in Statuses, NEW owed \in BOOLEAN, Decide(K, status, owed)
  PROVE  PaymentsOK' /\ ConsentedTogether' /\ Queue' = Queue
<1>1. Queue' = Queue
  BY DEF Decide, Queue
<1>2. ASSUME NEW k \in Queue
      PROVE  /\ PaymentRow(payment'[k])
             /\ payment'[k].scheduledFor = payment[k].scheduledFor
             /\ payment'[k].amount = payment[k].amount /\ payment'[k].payee = payment[k].payee
  <2>1. PaymentRow(payment[k])
    BY DEF PaymentsOK
  <2>2. payment'[k] = IF k \in K THEN [payment[k] EXCEPT !.status = status, !.owed = owed] ELSE payment[k]
    BY DEF Decide
  <2> QED
    BY <2>1, <2>2 DEF PaymentRow
<1>3. ASSUME NEW k \in Queue
      PROVE  /\ \E s \in Schedules, anchor \in Given :
                  k = <<s, PeriodKey(anchor, payment[k].scheduledFor)>> /\ Used(s)'
             /\ <<payment[k].amount, payment[k].payee>> \in agreed'[k[1]]
  <2>1. PICK s \in Schedules, anchor \in Given :
          k = <<s, PeriodKey(anchor, payment[k].scheduledFor)>> /\ Used(s)
    BY DEF PaymentsOK
  <2>2. k[1] = s
    BY <2>1
  <2>3. Used(s)' /\ agreed[s] \subseteq agreed'[s]
    BY <2>1 DEF Kept
  <2> QED
    BY <2>1, <2>2, <2>3 DEF ConsentedTogether
<1>4. ConsentedTogether'
  BY <1>1, <1>2, <1>3 DEF ConsentedTogether
<1>5. \A k \in Queue : PaymentRow(payment[k])'
  BY <1>2 DEF PaymentRow
<1>6. ASSUME NEW k \in Queue
      PROVE  \E s \in Schedules, anchor \in Given :
               k = <<s, PeriodKey(anchor, payment'[k].scheduledFor)>> /\ Used(s)'
  <2>1. payment'[k].scheduledFor = payment[k].scheduledFor
    BY <1>2
  <2> QED
    BY <1>3, <2>1
<1>7. PaymentsOK'
  <2> SUFFICES ASSUME NEW k \in Queue'
               PROVE  /\ PaymentRow(payment[k])'
                      /\ \E s \in Schedules, anchor \in Given :
                           k = <<s, PeriodKey(anchor, payment'[k].scheduledFor)>> /\ Used(s)'
    BY <1>1, Zenon DEF PaymentsOK
  <2> QED
    BY <1>1, <1>5, <1>6
<1> QED
  BY <1>1, <1>4, <1>7

LEMMA PaymentStep ==
  ASSUME RowsInv, UNCHANGED <<schedule, agreed, request, cron, today>>, DOMAIN bank' = Queue,
         NEW K, NEW status \in Statuses, NEW owed \in BOOLEAN, UNCHANGED payment \/ Decide(K, status, owed)
  PROVE  RowsInv'
<1>1. SchedulesOK' /\ Kept /\ (\A s : Used(s)' <=> Used(s))
  BY SchedulesSame DEF RowsInv
<1>2. PaymentsOK' /\ ConsentedTogether' /\ Queue' = Queue
  <2>1. CASE Decide(K, status, owed)
    BY <1>1, <2>1, Decided DEF RowsInv
  <2>2. CASE UNCHANGED payment
    <3>1. Queue' = Queue
      BY <2>2 DEF Queue
    <3>2. \A k \in Queue : \E s \in Schedules, anchor \in Given :
                  k = <<s, PeriodKey(anchor, payment[k].scheduledFor)>> /\ Used(s)'
      BY <1>1 DEF RowsInv, PaymentsOK
    <3> QED
      BY <2>2, <3>1, <3>2 DEF RowsInv, PaymentsOK, ConsentedTogether, PaymentRow
  <2> QED
    BY <2>1, <2>2
<1>3. CronOK' /\ RequestsOK'
  BY <1>1, <1>2, CronSame, RequestsSame DEF RowsInv
<1> QED
  BY <1>1, <1>2, <1>3 DEF RowsInv

LEMMA SkipRows == ASSUME RowsInv, NEW k \in Queue, Skip(k) PROVE RowsInv'
  BY PaymentStep DEF Skip, Statuses, RowsInv, PaymentsOK, Queue

LEMMA RejectRows == ASSUME RowsInv, NEW k \in Queue, Reject(k) PROVE RowsInv'
  BY PaymentStep DEF Reject, Statuses, RowsInv, PaymentsOK, Queue

LEMMA ClaimRows == ASSUME RowsInv, NEW b \in Batches, NEW K \in SUBSET Queue, Claim(b, K) PROVE RowsInv'
  BY PaymentStep DEF Claim, Statuses, RowsInv, PaymentsOK, Queue

LEMMA LookRows == ASSUME RowsInv, NEW b \in Batches, NEW k \in Queue, Look(b, k) PROVE RowsInv'
  BY PaymentStep DEF Look, Statuses, RowsInv, PaymentsOK, Queue

LEMMA BlockedRows == ASSUME RowsInv, NEW b \in Batches, Blocked(b) PROVE RowsInv'
  BY PaymentStep DEF Blocked, Statuses, RowsInv, PaymentsOK, Queue

LEMMA FailsRows == ASSUME RowsInv, NEW b \in Batches, Fails(b) PROVE RowsInv'
  BY PaymentStep DEF Fails, Statuses, RowsInv, PaymentsOK, Queue

LEMMA PaysRows == ASSUME RowsInv, NEW b \in Batches, Pays(b) PROVE RowsInv'
  BY PaymentStep DEF Pays, Statuses, RowsInv, PaymentsOK, Queue

LEMMA SettleRows == ASSUME RowsInv, NEW b \in Batches, Settle(b) PROVE RowsInv'
  BY PaymentStep DEF Settle, Statuses, RowsInv, PaymentsOK, Queue

LEMMA SleepRows == ASSUME RowsInv, NEW day \in {day \in Days : day > today}, Sleep(day) PROVE RowsInv'
<1>1. SchedulesOK' /\ Kept /\ (\A s : Used(s)' <=> Used(s))
  BY SchedulesSame DEF RowsInv, Sleep
<1>2. PaymentsOK' /\ ConsentedTogether' /\ RequestsOK' /\ Queue' = Queue
  BY <1>1, PaymentsSame, RequestsSame DEF RowsInv, Sleep
<1>3. today' \in Days /\ cron.ran \in (First - 1)..today' /\ cron' = cron
  BY FirstDay DEF Sleep, RowsInv, CronOK
<1>4. CronOK'
  <2>1. \A d \in cron.due : Used(d.s)' /\ d.row.authorized \in agreed'[d.s]
    BY <1>1 DEF RowsInv, CronOK, Kept
  <2>2. Period(cron.at)' = Period(cron.at)
    BY <1>3 DEF Period
  <2> QED
    BY <1>2, <1>3, <2>1, <2>2 DEF RowsInv, CronOK, ScheduleRow
<1> QED
  BY <1>1, <1>2, <1>4 DEF RowsInv

-----------------------------------------------------------------------------
(* The requests *)

LEMMA AskCreateRows ==
  ASSUME RowsInv, NEW r \in Requests, NEW s \in Schedules, NEW p \in Staff, NEW o \in Offers, AskCreate(r, s, p, o)
  PROVE  RowsInv'
<1>1. SchedulesOK' /\ Kept /\ (\A t : Used(t)' <=> Used(t))
  BY SchedulesSame DEF RowsInv, AskCreate
<1>2. PaymentsOK' /\ ConsentedTogether' /\ CronOK'
  BY <1>1, PaymentsSame, CronSame DEF RowsInv, AskCreate
<1>3. RequestsOK'
  <2>1. DOMAIN request' = Requests /\ request'[r] = [pc |-> "create", s |-> s, staff |-> p, offer |-> o]
        /\ \A q \in Requests \ {r} : request'[q] = request[q]
    BY DEF RowsInv, RequestsOK, AskCreate
  <2>2. ~Used(s) /\ \A q \in Requests : request[q].pc = "create" => request[q].s # s
    BY DEF AskCreate, Used, Unset
  <2> QED
    BY <1>1, <2>1, <2>2 DEF RowsInv, RequestsOK, ScheduleRow
<1> QED
  BY <1>1, <1>2, <1>3 DEF RowsInv

LEMMA AskPatchRows ==
  ASSUME RowsInv, NEW r \in Requests, NEW s \in Schedules, NEW e \in Edits, AskPatch(r, s, e)
  PROVE  RowsInv'
<1>1. SchedulesOK' /\ Kept /\ (\A t : Used(t)' <=> Used(t))
  BY SchedulesSame DEF RowsInv, AskPatch
<1>2. PaymentsOK' /\ ConsentedTogether' /\ CronOK'
  BY <1>1, PaymentsSame, CronSame DEF RowsInv, AskPatch
<1>3. RequestsOK'
  <2>1. DOMAIN request' = Requests /\ request'[r] = [pc |-> "patch", s |-> s, was |-> schedule[s], edit |-> e]
        /\ \A q \in Requests \ {r} : request'[q] = request[q]
    BY DEF RowsInv, RequestsOK, AskPatch
  <2>2. ScheduleRow(schedule[s])
    BY DEF AskPatch, RowsInv, SchedulesOK
  <2> QED
    BY <1>1, <2>1, <2>2 DEF RowsInv, RequestsOK, ScheduleRow
<1> QED
  BY <1>1, <1>2, <1>3 DEF RowsInv

LEMMA AskDeleteRows ==
  ASSUME RowsInv, NEW r \in Requests, NEW s \in Schedules, AskDelete(r, s)
  PROVE  RowsInv'
<1>1. SchedulesOK' /\ Kept /\ (\A t : Used(t)' <=> Used(t))
  BY SchedulesSame DEF RowsInv, AskDelete
<1>2. PaymentsOK' /\ ConsentedTogether' /\ Queue' = Queue
  BY <1>1, Decided DEF RowsInv, AskDelete, Statuses, PaymentsOK
<1>3. CronOK'
  BY <1>1, <1>2, CronSame DEF RowsInv, AskDelete
<1>4. RequestsOK'
  <2>1. Used(s)'
    BY <1>1 DEF AskDelete, Stands, Used
  <2> QED
    BY <1>1, <2>1, RequestPut DEF RowsInv, AskDelete, RequestsOK
<1> QED
  BY <1>1, <1>2, <1>3, <1>4 DEF RowsInv

LEMMA AskRemoveRows ==
  ASSUME RowsInv, NEW r \in Requests, NEW p \in Staff, AskRemove(r, p)
  PROVE  RowsInv'
<1>1. SchedulesOK' /\ Kept /\ (\A t : Used(t)' <=> Used(t))
  BY SchedulesSame DEF RowsInv, AskRemove
<1>2. PaymentsOK' /\ ConsentedTogether' /\ Queue' = Queue
  <2>1. CASE UNCHANGED payment
    BY <1>1, <2>1, PaymentsSame DEF RowsInv, AskRemove
  <2>2. CASE Decide({k \in Queue : payment[k].staff = p /\ Pending(k)}, "rejected", FALSE)
    BY <1>1, <2>2, Decided DEF RowsInv, AskRemove, Statuses, PaymentsOK
  <2> QED
    BY <2>1, <2>2 DEF AskRemove
<1>3. CronOK'
  BY <1>1, <1>2, CronSame DEF RowsInv, AskRemove
<1>4. RequestsOK'
  BY <1>1, RequestPut DEF RowsInv, AskRemove, RequestsOK
<1> QED
  BY <1>1, <1>2, <1>3, <1>4 DEF RowsInv

LEMMA DismissRows == ASSUME RowsInv, NEW r \in Requests, Dismiss(r) PROVE RowsInv'
<1>1. SchedulesOK' /\ Kept /\ (\A t : Used(t)' <=> Used(t))
  BY SchedulesSame DEF RowsInv, Dismiss
<1>2. PaymentsOK' /\ ConsentedTogether' /\ CronOK'
  BY <1>1, PaymentsSame, CronSame DEF RowsInv, Dismiss
<1>3. RequestsOK'
  BY <1>1, RequestPut DEF RowsInv, Dismiss, RequestsOK, Idle
<1> QED
  BY <1>1, <1>2, <1>3 DEF RowsInv

\* The schedules of a set go.
LEMMA Gones ==
  ASSUME SchedulesOK, NEW S, schedule' = [s \in Schedules |-> IF s \in S THEN Gone ELSE schedule[s]],
         UNCHANGED agreed, \A s \in S \cap Schedules : Used(s)
  PROVE  SchedulesOK' /\ Kept /\ (\A s \in Schedules : Used(s)' <=> Used(s))
  BY DEF SchedulesOK, Kept, Used, Stands, ScheduleRow, Gone

LEMMA DeleteRows == ASSUME RowsInv, NEW r \in Requests, Delete(r) PROVE RowsInv'
<1>1. SchedulesOK' /\ Kept /\ (\A s \in Schedules : Used(s)' <=> Used(s))
  <2>1. \A s \in request[r].S \cap Schedules : Used(s)
    BY DEF RowsInv, RequestsOK, Delete
  <2>2. schedule' = [s \in Schedules |-> IF s \in request[r].S THEN Gone ELSE schedule[s]]
    BY DEF Delete
  <2> QED
    BY <2>1, <2>2, Gones DEF RowsInv, Delete
<1>2. PaymentsOK' /\ ConsentedTogether' /\ CronOK'
  BY <1>1, PaymentsSame, CronSame DEF RowsInv, Delete
<1>3. RequestsOK'
  BY <1>1, RequestPut DEF RowsInv, Delete, RequestsOK, Idle
<1> QED
  BY <1>1, <1>2, <1>3 DEF RowsInv

LEMMA RemoveRows == ASSUME RowsInv, NEW r \in Requests, Remove(r) PROVE RowsInv'
<1>1. SchedulesOK' /\ Kept /\ (\A s \in Schedules : Used(s)' <=> Used(s))
  <2> DEFINE S == {s \in Schedules : Stands(s) /\ schedule[s].staff = request[r].staff}
  <2>1. \A s \in S \cap Schedules : Used(s)
    BY DEF Stands, Used
  <2>2. agreed' = agreed
    BY DEF Remove
  <2>3. \/ schedule' = [s \in Schedules |-> IF s \in S THEN Gone ELSE schedule[s]]
        \/ schedule' = schedule
    BY DEF Remove
  <2> HIDE DEF S
  <2> QED
    BY <2>1, <2>2, <2>3, Gones, SchedulesSame DEF RowsInv
<1>2. PaymentsOK' /\ ConsentedTogether' /\ CronOK'
  BY <1>1, PaymentsSame, CronSame DEF RowsInv, Remove
<1>3. RequestsOK'
  BY <1>1, RequestPut DEF RowsInv, Remove, RequestsOK
<1> QED
  BY <1>1, <1>2, <1>3 DEF RowsInv

\* The schedule a request creates is the one it was the only one to ask for.
LEMMA CreateRows == ASSUME RowsInv, NEW r \in Requests, Create(r) PROVE RowsInv'
<1> DEFINE q   == request[r]
           row == [state |-> "active", staff |-> q.staff, amount |-> q.offer.amount, payee |-> q.offer.payee,
                   authorized |-> <<q.offer.amount, q.offer.payee>>, anchor |-> q.offer.anchor,
                   next |-> NextPayDate(q.offer.anchor, today), created |-> today]
<1>1. q.s \in Schedules /\ ~Used(q.s) /\ q.staff \in Staff /\ q.offer \in Offers
      /\ \A p \in Requests : request[p].pc = "create" /\ request[p].s = q.s => p = r
  BY DEF RowsInv, RequestsOK, Create
<1>2. CASE UNCHANGED <<schedule, agreed>>
  <2>1. SchedulesOK' /\ Kept /\ (\A s : Used(s)' <=> Used(s))
    BY <1>2, SchedulesSame DEF RowsInv
  <2>2. PaymentsOK' /\ ConsentedTogether' /\ CronOK'
    BY <2>1, PaymentsSame, CronSame DEF RowsInv, Create
  <2>3. RequestsOK'
    BY <2>1, RequestPut DEF RowsInv, Create, RequestsOK, Idle
  <2> QED
    BY <2>1, <2>2, <2>3 DEF RowsInv
<1>3. ASSUME schedule' = [schedule EXCEPT ![q.s] = row],
             agreed' = [agreed EXCEPT ![q.s] = {<<q.offer.amount, q.offer.payee>>}]
      PROVE  RowsInv'
  <2>1. ScheduleRow(row) /\ row.authorized = <<q.offer.amount, q.offer.payee>> /\ row.state = "active"
    BY <1>1, BoundsAssumption DEF ScheduleRow
  <2> HIDE DEF row
  <2>2. /\ DOMAIN schedule' = Schedules /\ DOMAIN agreed' = Schedules
        /\ schedule'[q.s] = row /\ agreed'[q.s] = {<<q.offer.amount, q.offer.payee>>}
        /\ \A s \in Schedules \ {q.s} : schedule'[s] = schedule[s] /\ agreed'[s] = agreed[s]
    BY <1>1, <1>3 DEF RowsInv, SchedulesOK
  <2>3. Kept
    BY <1>1, <2>2 DEF Kept, Used
  <2>4. SchedulesOK'
    <3> SUFFICES ASSUME NEW s \in Schedules, Stands(s)'
                 PROVE  ScheduleRow(schedule'[s]) /\ schedule'[s].authorized \in agreed'[s]
      BY <2>2 DEF SchedulesOK, ScheduleRow
    <3>1. CASE s = q.s
      BY <2>1, <2>2, <3>1
    <3>2. CASE s # q.s
      BY <2>2, <3>2 DEF RowsInv, SchedulesOK, Stands
    <3> QED
      BY <3>1, <3>2
  <2>5. PaymentsOK' /\ ConsentedTogether' /\ CronOK'
    BY <2>3, PaymentsSame, CronSame DEF RowsInv, Create
  <2>6. RequestsOK'
    <3>1. \A p \in Requests \ {r} : request[p].pc = "create" => request[p].s # q.s /\ request[p].s \in Schedules
      BY <1>1 DEF RowsInv, RequestsOK
    <3>2. \A p \in Requests \ {r} : request[p].pc = "create" => schedule'[request[p].s].state = "none"
      BY <2>2, <3>1 DEF RowsInv, RequestsOK, Used
    <3> QED
      BY <2>3, <3>2, RequestPut DEF RowsInv, Create, RequestsOK, Idle
  <2> QED
    BY <2>4, <2>5, <2>6 DEF RowsInv
<1> QED
  BY <1>2, <1>3 DEF Create

\* What a PATCH writes is a row, whoever changed the schedule since it was read.
LEMMA PatchedRow ==
  ASSUME NEW row, ScheduleRow(row), NEW was, ScheduleRow(was), NEW e \in Edits
  PROVE  ScheduleRow(Patched(row, was, e))
<1> DEFINE amount == Or(e.amount, was.amount)
           payee  == Or(e.payee, was.payee)
           p == Patched(row, was, e)
<1>1. amount \in Amounts /\ payee \in Payees
  BY BoundsAssumption DEF Or, ScheduleRow
<1>2. Or(e.status, row.state) \in {"active", "paused", "suspended"} /\ Or(e.anchor, row.anchor) \in Given
  BY BoundsAssumption DEF Or, ScheduleRow
<1> DEFINE A == Or(e.status, row.state)
           B == IF amount # was.amount THEN amount ELSE row.amount
           C == IF payee # was.payee THEN payee ELSE row.payee
           D == p.authorized
           E == Or(e.anchor, row.anchor)
           F == p.next
<1>3. p = [row EXCEPT !.state = A, !.amount = B, !.payee = C, !.authorized = D, !.anchor = E, !.next = F]
  BY DEF Patched, ScheduleRow
<1>4. B \in Amounts /\ C \in Payees /\ D \in Amounts \X Payees
  BY <1>1 DEF Patched, ScheduleRow
<1> HIDE DEF p, A, B, C, D, E, F
<1>8. ScheduleRow(p)
  BY <1>2, <1>3, <1>4 DEF ScheduleRow, A, E
<1> QED
  BY <1>8 DEF p

LEMMA PatchRows == ASSUME RowsInv, NEW r \in Requests, Patch(r) PROVE RowsInv'
<1> DEFINE q   == request[r]
           row == Patched(schedule[q.s], q.was, q.edit)
<1>1. q.s \in Schedules /\ ScheduleRow(q.was) /\ q.edit \in Edits
  BY DEF RowsInv, RequestsOK, Patch
<1>2. CASE UNCHANGED <<schedule, agreed>>
  <2>1. SchedulesOK' /\ Kept /\ (\A s : Used(s)' <=> Used(s))
    BY <1>2, SchedulesSame DEF RowsInv
  <2>2. PaymentsOK' /\ ConsentedTogether' /\ CronOK'
    BY <2>1, PaymentsSame, CronSame DEF RowsInv, Patch
  <2>3. RequestsOK'
    BY <2>1, RequestPut DEF RowsInv, Patch, RequestsOK, Idle
  <2> QED
    BY <2>1, <2>2, <2>3 DEF RowsInv
<1>3. ASSUME Stands(q.s), schedule' = [schedule EXCEPT ![q.s] = row],
             agreed' = [agreed EXCEPT ![q.s] = @ \cup
               (IF row.authorized # schedule[q.s].authorized THEN {row.authorized} ELSE {})]
      PROVE  RowsInv'
  <2>1. ScheduleRow(row) /\ Used(q.s) /\ schedule[q.s].authorized \in agreed[q.s]
    BY <1>1, <1>3, PatchedRow DEF RowsInv, SchedulesOK, Stands, Used
  <2> HIDE DEF row
  <2>2. /\ DOMAIN schedule' = Schedules /\ DOMAIN agreed' = Schedules /\ schedule'[q.s] = row
        /\ agreed'[q.s] = agreed[q.s] \cup (IF row.authorized # schedule[q.s].authorized THEN {row.authorized} ELSE {})
        /\ \A s \in Schedules \ {q.s} : schedule'[s] = schedule[s] /\ agreed'[s] = agreed[s]
    BY <1>1, <1>3 DEF RowsInv, SchedulesOK
  <2>3. row.state # "none"
    BY <2>1 DEF ScheduleRow
  <2>4. Kept /\ \A s \in Schedules : Used(s)' <=> Used(s)
    BY <2>1, <2>2, <2>3 DEF Kept, Used
  <2>5. SchedulesOK'
    <3> SUFFICES ASSUME NEW s \in Schedules, Stands(s)'
                 PROVE  ScheduleRow(schedule'[s]) /\ schedule'[s].authorized \in agreed'[s]
      BY <2>2 DEF SchedulesOK, ScheduleRow
    <3>1. CASE s = q.s
      BY <2>1, <2>2, <3>1
    <3>2. CASE s # q.s
      BY <2>2, <3>2 DEF RowsInv, SchedulesOK, Stands
    <3> QED
      BY <3>1, <3>2
  <2>6. PaymentsOK' /\ ConsentedTogether' /\ CronOK'
    BY <2>4, PaymentsSame, CronSame DEF RowsInv, Patch
  <2>7. RequestsOK'
    BY <2>4, RequestPut DEF RowsInv, Patch, RequestsOK, Idle
  <2> QED
    BY <2>5, <2>6, <2>7 DEF RowsInv
<1> QED
  BY <1>2, <1>3 DEF Patch

-----------------------------------------------------------------------------
(* The cron *)

LEMMA StartCronRows == ASSUME RowsInv, StartCron PROVE RowsInv'
<1> DEFINE due == {[s |-> s, row |-> schedule[s]] : s \in
                    {s \in Schedules : Stands(s) /\ schedule[s].state = "active" /\ schedule[s].next <= today}}
<1>1. SchedulesOK' /\ Kept /\ (\A s : Used(s)' <=> Used(s))
  BY SchedulesSame DEF RowsInv, StartCron
<1>2. PaymentsOK' /\ ConsentedTogether' /\ RequestsOK'
  BY <1>1, PaymentsSame, RequestsSame DEF RowsInv, StartCron
<1>3. \A d \in due : d.s \in Schedules /\ Used(d.s) /\ ScheduleRow(d.row) /\ d.row.authorized \in agreed[d.s]
  BY DEF RowsInv, SchedulesOK, Stands, Used
<1>4. cron' = [pc |-> IF due = {} THEN "idle" ELSE "mint", due |-> due, ran |-> today, at |-> None]
  BY DEF StartCron
<1> HIDE DEF due
<1>5. today \in (First - 1)..today /\ today \in Days /\ today' = today
  BY FirstDay DEF RowsInv, CronOK, StartCron
<1>6. CronOK'
  <2>1. cron'.due = due /\ cron'.pc \in {"idle", "mint"}
    BY <1>4
  <2>2. \A d \in due : Used(d.s)' /\ d.row.authorized \in agreed'[d.s]
    BY <1>1, <1>3 DEF Kept
  <2> QED
    BY <1>3, <1>4, <1>5, <2>1, <2>2 DEF CronOK, ScheduleRow
<1> QED
  BY <1>1, <1>2, <1>6 DEF RowsInv

\* The list gets shorter, and the cron goes on or ends.
LEMMA CronLeaves ==
  ASSUME CronOK, Kept, today' = today, NEW d, Leave(d) \/ Abort
  PROVE  CronOK'
<1>1. /\ cron'.due \subseteq cron.due /\ cron'.pc \in {"idle", "mint"}
      /\ cron' \in [pc : {"idle", "mint", "advance"}, due : {cron'.due}, ran : (First - 1)..today, at : {cron'.at}]
  BY DEF CronOK, Leave, Abort
<1>2. \A e \in cron'.due : /\ e.s \in Schedules /\ Used(e.s)' /\ ScheduleRow(e.row)
                           /\ e.row.authorized \in agreed'[e.s]
  BY <1>1 DEF CronOK, Kept
<1> QED
  BY <1>1, <1>2 DEF CronOK, ScheduleRow

\* One schedule that stands gets another state or another next date.
LEMMA Touched ==
  ASSUME SchedulesOK, NEW s \in Schedules, Stands(s), UNCHANGED agreed, NEW state \in {"active", "paused", "suspended"},
         \/ schedule' = [schedule EXCEPT ![s].state = state]
         \/ \E next : schedule' = [schedule EXCEPT ![s].next = next]
  PROVE  SchedulesOK' /\ Kept /\ (\A t \in Schedules : Used(t)' <=> Used(t))
<1>1. ScheduleRow(schedule[s]) /\ schedule[s].authorized \in agreed[s] /\ schedule[s].state # "none"
  BY DEF SchedulesOK, Stands
<1>2. /\ DOMAIN schedule' = Schedules /\ \A t \in Schedules \ {s} : schedule'[t] = schedule[t]
      /\ ScheduleRow(schedule'[s]) /\ schedule'[s].authorized = schedule[s].authorized
  BY <1>1 DEF SchedulesOK, ScheduleRow
<1>3. schedule'[s].state # "none"
  BY <1>2 DEF ScheduleRow
<1>4. SchedulesOK'
  BY <1>1, <1>2 DEF SchedulesOK, Stands, ScheduleRow
<1> QED
  BY <1>1, <1>2, <1>3, <1>4 DEF Kept, Used

LEMMA SuspendRows == ASSUME RowsInv, NEW d \in cron.due, Suspend(d) PROVE RowsInv'
<1>1. SchedulesOK' /\ Kept /\ (\A t \in Schedules : Used(t)' <=> Used(t))
  <2>1. CASE UNCHANGED schedule
    BY <2>1, SchedulesSame DEF RowsInv, Suspend
  <2>2. CASE Stands(d.s) /\ schedule' = [schedule EXCEPT ![d.s].state = "suspended"]
    BY <2>2, Touched DEF RowsInv, CronOK, Suspend
  <2> QED
    BY <2>1, <2>2 DEF Suspend
<1>2. PaymentsOK' /\ ConsentedTogether' /\ RequestsOK'
  BY <1>1, PaymentsSame, RequestsSame DEF RowsInv, Suspend
<1>3. CronOK'
  BY <1>1, CronLeaves DEF RowsInv, Suspend
<1> QED
  BY <1>1, <1>2, <1>3 DEF RowsInv

LEMMA AdvanceRows == ASSUME RowsInv, Advance PROVE RowsInv'
<1> DEFINE d == cron.at
<1>0. d \in cron.due
  BY DEF RowsInv, CronOK, Advance
<1>1. SchedulesOK' /\ Kept /\ (\A t \in Schedules : Used(t)' <=> Used(t))
  <2>1. CASE UNCHANGED schedule
    BY <2>1, SchedulesSame DEF RowsInv, Advance
  <2>2. CASE Stands(d.s) /\ schedule' = [schedule EXCEPT ![d.s].next = NextPayDate(d.row.anchor, d.row.next)]
    BY <1>0, <2>2, Touched DEF RowsInv, CronOK, Advance
  <2> QED
    BY <2>1, <2>2 DEF Advance, MoveCursor
<1>2. PaymentsOK' /\ ConsentedTogether' /\ RequestsOK'
  BY <1>1, PaymentsSame, RequestsSame DEF RowsInv, Advance
<1>3. CronOK'
  BY <1>1, CronLeaves DEF RowsInv, Advance
<1> QED
  BY <1>1, <1>2, <1>3 DEF RowsInv

\* What is queued is what its PIN was given for.
LEMMA MintRows == ASSUME RowsInv, NEW d \in cron.due, Mint(d) PROVE RowsInv'
<1> DEFINE fresh == [status |-> "pending", owed |-> TRUE, staff |-> d.row.staff,
                     amount |-> d.row.amount, payee |-> d.row.payee,
                     scheduledFor |-> d.row.next, expires |-> today + 3]
           new == IF Period(d) \in Queue THEN {} ELSE {Period(d)}
<1>1. SchedulesOK' /\ Kept /\ (\A s : Used(s)' <=> Used(s))
  BY SchedulesSame DEF RowsInv, Mint
<1>2. RequestsOK'
  BY <1>1, RequestsSame DEF RowsInv, Mint
<1>3. d.s \in Schedules /\ Used(d.s) /\ ScheduleRow(d.row) /\ d.row.authorized \in agreed[d.s]
  BY DEF RowsInv, CronOK
<1>4. /\ payment' = [k \in Queue \cup new |-> IF k \in new THEN fresh ELSE payment[k]]
      /\ bank' = [k \in Queue \cup new |-> IF k \in new THEN 0 ELSE bank[k]]
  BY DEF Mint, QueuePayment
<1>5. PaymentRow(fresh) /\ fresh.scheduledFor = d.row.next /\ fresh.amount = d.row.amount /\ fresh.payee = d.row.payee
  BY DEF PaymentRow, Statuses
<1> HIDE DEF fresh
<1>6. /\ Queue' = Queue \cup new /\ DOMAIN bank' = Queue' /\ new \cap Queue = {} /\ Period(d) \in Queue'
      /\ \A k \in Queue : payment'[k] = payment[k]
      /\ \A k \in new : payment'[k] = fresh /\ k = Period(d)
  BY <1>4 DEF Queue
<1>7. Period(d) = <<d.s, PeriodKey(d.row.anchor, d.row.next)>> /\ d.row.anchor \in Given
  BY <1>3 DEF Period, ScheduleRow
<1> HIDE DEF new
<1>8. PaymentsOK'
  <2> SUFFICES ASSUME NEW k \in Queue'
               PROVE  /\ PaymentRow(payment'[k])
                      /\ \E s \in Schedules, anchor \in Given :
                           k = <<s, PeriodKey(anchor, payment'[k].scheduledFor)>> /\ Used(s)'
    BY <1>6 DEF PaymentsOK, PaymentRow
  <2>1. CASE k \in new
    BY <1>1, <1>3, <1>5, <1>6, <1>7, <2>1
  <2>2. CASE k \in Queue
    BY <1>1, <1>6, <2>2 DEF RowsInv, PaymentsOK
  <2> QED
    BY <1>6, <2>1, <2>2
<1>9. ConsentedTogether'
  <2>1. agreed' = agreed
    BY DEF Mint
  <2>2. \A k \in new : <<payment'[k].amount, payment'[k].payee>> \in agreed[k[1]]
    BY <1>3, <1>5, <1>6, <1>7 DEF Mint, ConsentMatches
  <2>3. \A k \in Queue : <<payment'[k].amount, payment'[k].payee>> \in agreed[k[1]]
    BY <1>6 DEF RowsInv, ConsentedTogether
  <2> QED
    BY <1>6, <2>1, <2>2, <2>3 DEF ConsentedTogether
<1>10. CronOK'
  <2>1. cron' = [cron EXCEPT !.pc = "advance", !.at = d] /\ today' = today
    BY DEF Mint
  <2>2. /\ cron'.due = cron.due /\ cron'.at = d /\ cron'.pc = "advance"
        /\ cron' \in [pc : {"idle", "mint", "advance"}, due : {cron'.due}, ran : (First - 1)..today, at : {cron'.at}]
    BY <2>1 DEF RowsInv, CronOK
  <2>3. Period(cron.at)' = Period(d)
    BY <2>2 DEF Period
  <2>4. \A e \in cron.due : e.s \in Schedules /\ Used(e.s)' /\ ScheduleRow(e.row) /\ e.row.authorized \in agreed'[e.s]
    BY <1>1 DEF RowsInv, CronOK, Kept
  <2> QED
    BY <1>6, <2>1, <2>2, <2>3, <2>4 DEF RowsInv, CronOK, ScheduleRow
<1> QED
  BY <1>1, <1>2, <1>8, <1>9, <1>10 DEF RowsInv

LEMMA DieRows == ASSUME RowsInv, Die PROVE RowsInv'
<1>1. SchedulesOK' /\ Kept /\ (\A s : Used(s)' <=> Used(s))
  BY SchedulesSame DEF RowsInv, Die
<1>2. PaymentsOK' /\ ConsentedTogether' /\ Queue' = Queue
  BY <1>1, PaymentsSame DEF RowsInv, Die
<1>3. CronOK'
  <2>1. CASE Abort
    BY <1>1, <2>1, CronLeaves DEF RowsInv, Die
  <2>2. CASE UNCHANGED cron
    BY <1>1, <1>2, <2>2, CronSame DEF RowsInv, Die
  <2> QED
    BY <2>1, <2>2 DEF Die
<1>4. RequestsOK'
  <2>1. CASE UNCHANGED request
    BY <1>1, <2>1, RequestsSame DEF RowsInv
  <2>2. ASSUME NEW r \in Requests, request' = [request EXCEPT ![r] = Idle] PROVE RequestsOK'
    BY <1>1, <2>2, RequestPut DEF RowsInv, RequestsOK, Idle
  <2> QED
    BY <2>1, <2>2 DEF Die
<1> QED
  BY <1>1, <1>2, <1>3, <1>4 DEF RowsInv

-----------------------------------------------------------------------------
LEMMA RowsInit == Init => RowsInv
<1> SUFFICES ASSUME Init PROVE RowsInv
  OBVIOUS
<1>1. SchedulesOK /\ RequestsOK
  BY DEF Init, SchedulesOK, RequestsOK, Stands, Unset, Idle
<1>2. Queue = {} /\ DOMAIN bank = {}
  BY DEF Init, Queue
<1>3. CronOK
  BY FirstDay DEF Init, CronOK
<1> QED
  BY <1>1, <1>2, <1>3 DEF RowsInv, PaymentsOK, ConsentedTogether

LEMMA RowsNext == RowsInv /\ [Next]_vars => RowsInv'
<1> SUFFICES ASSUME RowsInv, [Next]_vars PROVE RowsInv'
  OBVIOUS
<1>1. CASE Requested
  BY <1>1, AskCreateRows, AskPatchRows, AskDeleteRows, AskRemoveRows DEF Requested
<1>2. CASE Answered
  BY <1>2, CreateRows, PatchRows, DeleteRows, RemoveRows, DismissRows DEF Answered
<1>3. CASE CronStep
  BY <1>3, StartCronRows, AdvanceRows, SuspendRows, MintRows DEF CronStep
<1>4. CASE OwnerStep
  BY <1>4, SkipRows, RejectRows, ClaimRows DEF OwnerStep
<1>5. CASE Die
  BY <1>5, DieRows
<1>6. ASSUME NEW b \in Batches, BatchStep(b) PROVE RowsInv'
  BY <1>6, LookRows, BlockedRows, FailsRows, PaysRows, SettleRows DEF BatchStep
<1>7. ASSUME NEW day \in {day \in Days : day > today}, Sleep(day) PROVE RowsInv'
  BY <1>7, SleepRows
<1>8. CASE UNCHANGED vars
  BY <1>8, PaymentStep DEF vars, RowsInv, PaymentsOK, Queue, Statuses
<1> QED
  BY <1>1, <1>2, <1>3, <1>4, <1>5, <1>6, <1>7, <1>8 DEF Next

LEMMA RowsAlways == Spec => []RowsInv
  BY RowsInit, RowsNext, PTL DEF Spec

-----------------------------------------------------------------------------
(* The batches *)

Both == RowsInv /\ BatchInv

LEMMA BatchSame ==
  ASSUME Both, UNCHANGED <<payment, bank, batch>>
  PROVE  BatchInv'
<1>1. Queue' = Queue
  BY DEF Queue
<1>2. BatchesHold'
  BY <1>1 DEF Both, BatchInv, BatchesHold, BatchHolds
<1> QED
  BY <1>1, <1>2 DEF Both, BatchInv, Apart, BankOK

\* What a statement makes of the payments it decides.
LEMMA DecidedRows ==
  ASSUME PaymentsOK, NEW K, NEW status, NEW owed, Decide(K, status, owed)
  PROVE  /\ Queue' = Queue
         /\ \A k \in Queue \cap K : payment'[k].status = status /\ payment'[k].owed = owed
         /\ \A k \in Queue \ K : payment'[k] = payment[k]
<1>1. Queue' = Queue
  BY DEF Decide, Queue
<1>2. \A k \in Queue \ K : payment'[k] = payment[k]
  BY DEF Decide
<1>3. ASSUME NEW k \in Queue \cap K PROVE payment'[k].status = status /\ payment'[k].owed = owed
  <2>1. PaymentRow(payment[k])
    BY DEF PaymentsOK
  <2>2. payment'[k] = [payment[k] EXCEPT !.status = status, !.owed = owed]
    BY DEF Decide
  <2> QED
    BY <2>1, <2>2 DEF PaymentRow
<1> QED
  BY <1>1, <1>2, <1>3

\* A batch goes on with what it has left, or ends; the others keep theirs.
LEMMA BatchPut ==
  ASSUME BatchesHold, Apart, NEW b \in Batches, DOMAIN batch' = Batches, Queue' = Queue,
         \A c \in Batches \ {b} : batch'[c] = batch[c],
         BatchHolds(batch[b])',
         batch'[b].pc # "idle" => batch[b].pc # "idle" /\ batch'[b].mine \subseteq batch[b].mine,
         \A c \in Batches \ {b} : batch[c].pc # "idle" =>
           \A k \in batch[c].mine : payment'[k].status = payment[k].status /\ bank'[k] = bank[k]
  PROVE  BatchesHold' /\ Apart'
<1>1. Apart'
  <2> SUFFICES ASSUME NEW c \in Batches, NEW d \in Batches, c # d, batch'[c].pc # "idle", batch'[d].pc # "idle"
               PROVE  batch'[c].mine \cap batch'[d].mine = {}
    BY DEF Apart
  <2>1. batch[c].pc # "idle" /\ batch'[c].mine \subseteq batch[c].mine
    OBVIOUS
  <2>2. batch[d].pc # "idle" /\ batch'[d].mine \subseteq batch[d].mine
    OBVIOUS
  <2>3. batch[c].mine \cap batch[d].mine = {}
    BY <2>1, <2>2 DEF Apart
  <2> QED
    BY <2>1, <2>2, <2>3
<1>2. ASSUME NEW c \in Batches PROVE BatchHolds(batch[c])'
  <2>1. CASE c = b
    BY <2>1
  <2>2. CASE c # b
    <3>1. batch'[c] = batch[c] /\ BatchHolds(batch[c])
      BY <2>2 DEF BatchesHold
    <3>2. batch[c].pc # "idle" =>
            \A k \in batch[c].mine : payment'[k].status = payment[k].status /\ bank'[k] = bank[k]
      BY <2>2
    <3> QED
      BY <3>1, <3>2 DEF BatchHolds
  <2> QED
    BY <2>1, <2>2
<1> QED
  BY <1>1, <1>2, Zenon DEF BatchesHold

\* A request decides payments that are pending: none that a batch has claimed.
LEMMA DecidedPending ==
  ASSUME Both, UNCHANGED <<bank, batch>>, NEW K, NEW status \in {"rejected", "skipped"}, NEW owed \in BOOLEAN,
         \A k \in K : k \in Queue /\ Pending(k), Decide(K, status, owed)
  PROVE  BatchInv'
<1>1. /\ Queue' = Queue
      /\ \A k \in Queue \cap K : payment'[k].status = status /\ payment'[k].owed = owed
      /\ \A k \in Queue \ K : payment'[k] = payment[k]
  BY DecidedRows DEF Both, RowsInv
<1>2. \A c \in Batches : batch[c].pc # "idle" => \A k \in batch[c].mine : k \in Queue \ K
  BY DEF Both, BatchInv, BatchesHold, BatchHolds, Pending
<1>3. BatchesHold'
  <2> SUFFICES ASSUME NEW c \in Batches PROVE BatchHolds(batch[c])'
    BY DEF Both, BatchInv, BatchesHold
  <2>1. batch'[c] = batch[c] /\ BatchHolds(batch[c])
    BY DEF Both, BatchInv, BatchesHold
  <2>2. batch[c].pc # "idle" => \A k \in batch[c].mine : payment'[k] = payment[k] /\ bank'[k] = bank[k]
    BY <1>1, <1>2
  <2> QED
    BY <1>1, <2>1, <2>2 DEF BatchHolds
<1>4. Apart'
  BY DEF Both, BatchInv, Apart
<1>5. BankOK'
  BY <1>1 DEF Both, BatchInv, BankOK, Pending
<1> QED
  BY <1>3, <1>4, <1>5 DEF BatchInv

LEMMA AskDeleteBatch == ASSUME Both, NEW r \in Requests, NEW s \in Schedules, AskDelete(r, s) PROVE BatchInv'
<1> DEFINE K == {k \in Queue : k[1] = s /\ Pending(k)}
<1>1. (\A x \in K : x \in Queue /\ Pending(x)) /\ Decide(K, "rejected", FALSE) /\ UNCHANGED <<bank, batch>>
  BY DEF AskDelete
<1> HIDE DEF K
<1> QED
  BY <1>1, DecidedPending

LEMMA AskRemoveBatch == ASSUME Both, NEW r \in Requests, NEW p \in Staff, AskRemove(r, p) PROVE BatchInv'
<1> DEFINE theirs == {k \in Queue : payment[k].staff = p /\ Pending(k)}
<1>1. CASE UNCHANGED payment
  BY <1>1, BatchSame DEF AskRemove
<1>2. CASE Decide(theirs, "rejected", FALSE)
  <2>1. (\A x \in theirs : x \in Queue /\ Pending(x)) /\ UNCHANGED <<bank, batch>>
    BY DEF AskRemove
  <2> HIDE DEF theirs
  <2> QED
    BY <1>2, <2>1, DecidedPending
<1> QED
  BY <1>1, <1>2 DEF AskRemove

LEMMA SkipBatch == ASSUME Both, NEW k \in Queue, Skip(k) PROVE BatchInv'
<1> DEFINE K == {k}
<1>1. (\A x \in K : x \in Queue /\ Pending(x)) /\ Decide(K, "skipped", FALSE) /\ UNCHANGED <<bank, batch>>
  BY DEF Skip
<1> HIDE DEF K
<1> QED
  BY <1>1, DecidedPending

LEMMA RejectBatch == ASSUME Both, NEW k \in Queue, Reject(k) PROVE BatchInv'
<1> DEFINE K == {k}
<1>1. (\A x \in K : x \in Queue /\ Pending(x)) /\ Decide(K, "rejected", TRUE) /\ UNCHANGED <<bank, batch>>
  BY DEF Reject
<1> HIDE DEF K
<1> QED
  BY <1>1, DecidedPending

\* A new payment is nobody's yet.
LEMMA MintBatch == ASSUME Both, NEW d \in cron.due, Mint(d) PROVE BatchInv'
<1> DEFINE new == IF Period(d) \in Queue THEN {} ELSE {Period(d)}
<1>1. /\ Queue' = Queue \cup new /\ new \cap Queue = {} /\ batch' = batch
      /\ \A k \in Queue : payment'[k] = payment[k] /\ bank'[k] = bank[k]
      /\ \A k \in new : payment'[k].status = "pending" /\ bank'[k] = 0
  BY DEF Mint, QueuePayment, Queue
<1> HIDE DEF new
<1>2. BatchesHold'
  <2> SUFFICES ASSUME NEW c \in Batches PROVE BatchHolds(batch[c])'
    BY <1>1 DEF Both, BatchInv, BatchesHold
  <2>1. batch'[c] = batch[c] /\ BatchHolds(batch[c])
    BY <1>1 DEF Both, BatchInv, BatchesHold
  <2> QED
    BY <1>1, <2>1 DEF BatchHolds
<1>3. Apart'
  BY <1>1 DEF Both, BatchInv, Apart
<1>4. BankOK'
  BY <1>1 DEF Both, BatchInv, BankOK
<1> QED
  BY <1>2, <1>3, <1>4 DEF BatchInv

\* What is claimed was pending, so that it is in no other batch and not paid.
LEMMA ClaimBatch == ASSUME Both, NEW b \in Batches, NEW K \in SUBSET Queue, Claim(b, K) PROVE BatchInv'
<1> DEFINE mine == {k \in K : Pending(k) /\ today <= payment[k].expires}
<1>1. /\ Queue' = Queue /\ bank' = bank
      /\ \A k \in Queue \cap mine : payment'[k].status = "approving"
      /\ \A k \in Queue \ mine : payment'[k] = payment[k]
  <2>1. Decide(mine, "approving", TRUE) /\ bank' = bank
    BY DEF Claim
  <2> HIDE DEF mine
  <2> QED
    BY <2>1, DecidedRows DEF Both, RowsInv
<1>2. /\ DOMAIN batch' = Batches /\ batch'[b] = [pc |-> "next", mine |-> mine]
      /\ \A c \in Batches \ {b} : batch'[c] = batch[c]
  BY DEF Claim, Both, BatchInv, BatchesHold
<1>3. \A k \in mine : k \in Queue /\ payment[k].status = "pending" /\ bank[k] = 0
  BY DEF Both, BatchInv, BankOK, Pending
<1> HIDE DEF mine
<1>4. \A c \in Batches : batch[c].pc # "idle" => \A k \in batch[c].mine : k \in Queue \ mine
  BY <1>3 DEF Both, BatchInv, BatchesHold, BatchHolds
<1>5. BatchesHold'
  <2> SUFFICES ASSUME NEW c \in Batches PROVE BatchHolds(batch[c])'
    BY <1>2 DEF BatchesHold
  <2>1. CASE c = b
    BY <1>1, <1>2, <1>3, <2>1 DEF BatchHolds
  <2>2. CASE c # b
    <3>1. batch'[c] = batch[c] /\ BatchHolds(batch[c])
      BY <1>2, <2>2 DEF Both, BatchInv, BatchesHold
    <3> QED
      BY <1>1, <1>4, <3>1 DEF BatchHolds
  <2> QED
    BY <2>1, <2>2
<1>6. Apart'
  <2> SUFFICES ASSUME NEW c \in Batches, NEW d \in Batches, c # d, batch'[c].pc # "idle", batch'[d].pc # "idle"
               PROVE  batch'[c].mine \cap batch'[d].mine = {}
    BY DEF Apart
  <2>1. CASE c = b
    BY <1>2, <1>4, <2>1
  <2>2. CASE d = b
    BY <1>2, <1>4, <2>2
  <2>3. CASE c # b /\ d # b
    BY <1>2, <2>3 DEF Both, BatchInv, Apart
  <2> QED
    BY <2>1, <2>2, <2>3
<1>7. BankOK'
  BY <1>1, <1>3 DEF Both, BatchInv, BankOK
<1> QED
  BY <1>5, <1>6, <1>7 DEF BatchInv

\* What one batch has is not another's.
LEMMA Others ==
  ASSUME Both, NEW b \in Batches, batch[b].pc # "idle"
  PROVE  \A c \in Batches \ {b} : batch[c].pc # "idle" =>
           \A k \in batch[c].mine : k \in Queue /\ k \notin batch[b].mine
  BY DEF Both, BatchInv, BatchesHold, BatchHolds, Apart

LEMMA RestType ==
  ASSUME NEW b \in Batches, NEW k
  PROVE  \/ Rest(b, k).pc = "idle"
         \/ Rest(b, k).pc = "next" /\ Rest(b, k).mine = batch[b].mine \ {k}
  BY DEF Rest, Idle

\* The batch's next payment is decided, and its money has not moved or is
\* recorded as paid.
LEMMA BatchDecides ==
  ASSUME Both, NEW b \in Batches, NEW k \in batch[b].mine, batch[b].pc # "idle", UNCHANGED bank,
         NEW status \in {"rejected", "pending", "paid"}, NEW owed \in BOOLEAN,
         Decide({k}, status, owed), Step(b, Rest(b, k)),
         \A x \in batch[b].mine \ {k} : bank[x] = 0,
         bank[k] = IF status = "paid" THEN 1 ELSE 0, status = "paid" => ~owed
  PROVE  BatchInv'
<1>1. /\ Queue' = Queue /\ k \in Queue /\ payment'[k].status = status /\ payment'[k].owed = owed
      /\ \A x \in Queue \ {k} : payment'[x] = payment[x]
  <2>1. k \in Queue
    BY DEF Both, BatchInv, BatchesHold, BatchHolds
  <2> QED
    BY <2>1, DecidedRows DEF Both, RowsInv
<1>2. /\ DOMAIN batch' = Batches /\ batch'[b] = Rest(b, k)
      /\ \A c \in Batches \ {b} : batch'[c] = batch[c]
  BY DEF Step, Both, BatchInv, BatchesHold
<1>3. batch'[b].pc = "idle" \/ (batch'[b].pc = "next" /\ batch'[b].mine = batch[b].mine \ {k})
  BY <1>2, RestType
<1>4. BatchHolds(batch[b])'
  <2>1. \A x \in batch[b].mine : x \in Queue /\ payment[x].status = "approving"
    BY DEF Both, BatchInv, BatchesHold, BatchHolds
  <2> QED
    BY <1>1, <1>3, <2>1 DEF BatchHolds
<1>5. \A c \in Batches \ {b} : batch[c].pc # "idle" =>
        \A x \in batch[c].mine : payment'[x].status = payment[x].status /\ bank'[x] = bank[x]
  BY <1>1, Others
<1>6. BatchesHold' /\ Apart'
  BY <1>1, <1>2, <1>3, <1>4, <1>5, BatchPut DEF Both, BatchInv
<1>7. BankOK'
  BY <1>1 DEF Both, BatchInv, BankOK
<1> QED
  BY <1>6, <1>7 DEF BatchInv

\* A batch moves or ends, and decides nothing.
LEMMA BatchMoves ==
  ASSUME Both, NEW b \in Batches, NEW v, Step(b, v), UNCHANGED <<payment, bank>>,
         \/ v.pc = "idle"
         \/ batch[b].pc = "next" /\ \E k \in batch[b].mine : v = [pc |-> "lock", mine |-> batch[b].mine, at |-> k]
  PROVE  BatchInv'
<1>1. /\ DOMAIN batch' = Batches /\ batch'[b] = v /\ \A c \in Batches \ {b} : batch'[c] = batch[c]
  BY DEF Step, Both, BatchInv, BatchesHold
<1>2. Queue' = Queue
  BY DEF Queue
<1>3. BatchHolds(batch[b])
  BY DEF Both, BatchInv, BatchesHold
<1>4. BatchHolds(batch[b])'
  BY <1>1, <1>2, <1>3 DEF BatchHolds
<1>5. BatchesHold' /\ Apart'
  BY <1>1, <1>2, <1>4, BatchPut DEF Both, BatchInv
<1>6. BankOK'
  BY <1>2 DEF Both, BatchInv, BankOK
<1> QED
  BY <1>5, <1>6 DEF BatchInv

LEMMA LookBatch == ASSUME Both, NEW b \in Batches, NEW k \in Queue, Look(b, k) PROVE BatchInv'
<1>1. batch[b].pc = "next" /\ k \in batch[b].mine /\ bank' = bank /\ \A x \in batch[b].mine : bank[x] = 0
  BY DEF Look, Both, BatchInv, BatchesHold, BatchHolds
<1>2. CASE Step(b, Rest(b, k)) /\ Decide({k}, "rejected", FALSE)
  BY <1>1, <1>2, BatchDecides
<1>3. CASE Step(b, [pc |-> "lock", mine |-> batch[b].mine, at |-> k]) /\ UNCHANGED payment
  BY <1>1, <1>3, BatchMoves
<1> QED
  BY <1>2, <1>3 DEF Look

LEMMA BlockedBatch == ASSUME Both, NEW b \in Batches, Blocked(b) PROVE BatchInv'
<1>1. batch[b].at \in batch[b].mine /\ \A x \in batch[b].mine : bank[x] = 0
  BY DEF Blocked, Both, BatchInv, BatchesHold, BatchHolds
<1> QED
  BY <1>1, BatchDecides DEF Blocked

LEMMA SettleBatch == ASSUME Both, NEW b \in Batches, Settle(b) PROVE BatchInv'
<1>1. /\ batch[b].at \in batch[b].mine
      /\ \A x \in batch[b].mine : bank[x] = IF x = batch[b].at THEN 1 ELSE 0
  BY DEF Settle, Both, BatchInv, BatchesHold, BatchHolds
<1> QED
  BY <1>1, BatchDecides DEF Settle

LEMMA FailsBatch == ASSUME Both, NEW b \in Batches, Fails(b) PROVE BatchInv'
  BY BatchMoves DEF Fails, Idle

\* The bank pays what only this batch has claimed and nobody has paid.
LEMMA PaysBatch == ASSUME Both, NEW b \in Batches, Pays(b) PROVE BatchInv'
<1> DEFINE k == batch[b].at
<1>1. BatchHolds(batch[b]) /\ batch[b].pc = "lock"
  BY DEF Pays, Both, BatchInv, BatchesHold
<1>2. /\ k \in batch[b].mine /\ k \in Queue /\ bank[k] = 0 /\ payment[k].status = "approving"
      /\ \A x \in batch[b].mine : x \in Queue /\ bank[x] = 0 /\ payment[x].status = "approving"
      /\ batch[b] \in [pc : {"lock", "paid"}, mine : {batch[b].mine}, at : batch[b].mine]
  BY <1>1 DEF BatchHolds
<1>3. Queue' = Queue /\ payment' = payment /\ bank'[k] = 1 /\ \A x \in Queue \ {k} : bank'[x] = bank[x]
  BY <1>2 DEF Pays, Both, RowsInv, PaymentsOK, Queue
<1>4. DOMAIN batch' = Batches /\ \A c \in Batches \ {b} : batch'[c] = batch[c]
  BY DEF Pays, Step, Both, BatchInv, BatchesHold
<1>5. \/ batch'[b].pc = "idle"
      \/ /\ batch'[b].pc = "paid" /\ batch'[b].mine = batch[b].mine /\ batch'[b].at = k
         /\ batch'[b] \in [pc : {"lock", "paid"}, mine : {batch'[b].mine}, at : batch'[b].mine]
  <2>1. batch'[b] = Idle \/ batch'[b] = [batch[b] EXCEPT !.pc = "paid"]
    BY DEF Pays, Step, Both, BatchInv, BatchesHold
  <2> QED
    BY <1>2, <2>1 DEF Idle
<1>6. BatchHolds(batch[b])'
  BY <1>2, <1>3, <1>5 DEF BatchHolds
<1>7. \A c \in Batches \ {b} : batch[c].pc # "idle" =>
        \A x \in batch[c].mine : payment'[x].status = payment[x].status /\ bank'[x] = bank[x]
  BY <1>1, <1>2, <1>3, Others
<1>8. BatchesHold' /\ Apart'
  BY <1>1, <1>3, <1>4, <1>5, <1>6, <1>7, BatchPut DEF Both, BatchInv
<1>9. BankOK'
  BY <1>2, <1>3 DEF Both, BatchInv, BankOK
<1> QED
  BY <1>8, <1>9 DEF BatchInv

LEMMA DieBatch == ASSUME Both, Die PROVE BatchInv'
<1>1. CASE UNCHANGED batch
  BY <1>1, BatchSame DEF Die
<1>2. ASSUME NEW b \in Batches, Step(b, Idle) PROVE BatchInv'
  BY <1>2, BatchMoves DEF Die, Idle
<1> QED
  BY <1>1, <1>2 DEF Die

LEMMA BatchNext == Both /\ [Next]_vars => BatchInv'
<1> SUFFICES ASSUME Both, [Next]_vars PROVE BatchInv'
  OBVIOUS
<1>1. CASE Requested
  <2>1. ASSUME NEW r \in Requests, NEW s \in Schedules, NEW p \in Staff, NEW o \in Offers, AskCreate(r, s, p, o)
        PROVE  BatchInv'
    BY <2>1, BatchSame DEF AskCreate
  <2>2. ASSUME NEW r \in Requests, NEW s \in Schedules, NEW e \in Edits, AskPatch(r, s, e) PROVE BatchInv'
    BY <2>2, BatchSame DEF AskPatch
  <2> QED
    BY <1>1, <2>1, <2>2, AskDeleteBatch, AskRemoveBatch DEF Requested
<1>2. CASE Answered
  BY <1>2, BatchSame DEF Answered, Create, Patch, Delete, Remove, Dismiss
<1>3. CASE CronStep
  BY <1>3, BatchSame, MintBatch DEF CronStep, StartCron, Advance, Suspend
<1>4. CASE OwnerStep
  BY <1>4, SkipBatch, RejectBatch, ClaimBatch DEF OwnerStep
<1>5. CASE Die
  BY <1>5, DieBatch
<1>6. ASSUME NEW b \in Batches, BatchStep(b) PROVE BatchInv'
  BY <1>6, LookBatch, BlockedBatch, FailsBatch, PaysBatch, SettleBatch DEF BatchStep
<1>7. ASSUME NEW day \in {day \in Days : day > today}, Sleep(day) PROVE BatchInv'
  BY <1>7, BatchSame DEF Sleep
<1>8. CASE UNCHANGED vars
  BY <1>8, BatchSame DEF vars
<1> QED
  BY <1>1, <1>2, <1>3, <1>4, <1>5, <1>6, <1>7, <1>8 DEF Next

LEMMA BatchAlways == Spec => []Both
<1>1. Init => Both
  <2>1. Init => BatchInv
    BY DEF Init, BatchInv, BatchesHold, BatchHolds, Apart, BankOK, Queue, Idle
  <2> QED
    BY <2>1, RowsInit DEF Both
<1>2. Both /\ [Next]_vars => Both'
  BY RowsNext, BatchNext DEF Both
<1> QED
  BY <1>1, <1>2, PTL DEF Spec

-----------------------------------------------------------------------------
(* What the runs check *)

\* The rows of the schedules and the payments have the ranges of their
\* columns, and a payment is kept under its schedule and period, for every
\* calendar, anchor and change.
THEOREM TypeCorrect == Spec => []TypeOK
<1>1. RowsInv => TypeOK
  BY DEF RowsInv, SchedulesOK, CronOK, PaymentsOK, ScheduleRow, PaymentRow, TypeOK
<1> QED
  BY <1>1, RowsAlways, PTL

\* No period is paid twice, and what may have been paid is never offered
\* again, however many batches, dismissals and crashes there are.
THEOREM NeverPaidTwice == Spec => []PaidOnce
<1>1. Both => PaidOnce
  BY DEF Both, BatchInv, BankOK, PaidOnce
<1> QED
  BY <1>1, BatchAlways, PTL

\* What is queued is an amount and a payee that one PIN was given for
\* together, however many changes cross.
THEOREM AgreedTogether == Spec => []ConsentedTogether
<1>1. RowsInv => ConsentedTogether
  BY DEF RowsInv
<1> QED
  BY <1>1, RowsAlways, PTL

-----------------------------------------------------------------------------
(* A pay date found due stays found *)

\* Nothing new is found due, no payment goes away, and a cursor moves only off
\* a date that has its payment.
LEMMA CursorsStay ==
  ASSUME AwaitedOK, awaited' \subseteq awaited, Queue \subseteq Queue', cron'.due \subseteq cron.due,
         \A s \in Schedules : Used(s) => Used(s)',
         \A a \in awaited' : Stands(a.s)' =>
            /\ Stands(a.s)
            /\ <<a.s, PeriodKey(a.anchor, a.next)>> \in Queue \/ Cursor(a.s)' = Cursor(a.s)
  PROVE  AwaitedOK'
<1>1. \A a \in awaited' : a.s \in Schedules /\ Used(a.s)'
  BY DEF AwaitedOK
<1>2. \A a \in awaited', d \in cron'.due : a.s = d.s =>
         \/ <<a.s, PeriodKey(a.anchor, a.next)>> \in Queue'
         \/ a = [s |-> d.s, anchor |-> d.row.anchor, next |-> d.row.next]
  BY DEF AwaitedOK
<1>3. NoneForgotten'
  BY DEF AwaitedOK, NoneForgotten
<1> QED
  BY <1>1, <1>2, <1>3 DEF AwaitedOK

LEMMA SchedulesStay ==
  ASSUME AwaitedOK, UNCHANGED <<schedule, awaited>>, Queue \subseteq Queue', cron'.due \subseteq cron.due
  PROVE  AwaitedOK'
<1>1. \A s : (Stands(s)' <=> Stands(s)) /\ (Used(s)' <=> Used(s)) /\ Cursor(s)' = Cursor(s)
  BY DEF Stands, Used, Cursor
<1> QED
  BY <1>1, CursorsStay

\* The requests.
LEMMA CreateAwaits == ASSUME RowsInv, AwaitedOK, NEW r \in Requests, Create(r) PROVE AwaitedOK'
<1>1. request[r].s \in Schedules /\ ~Used(request[r].s)
  BY DEF RowsInv, RequestsOK, Create
<1>2. \A s \in Schedules : s # request[r].s => schedule'[s] = schedule[s]
  BY DEF Create, RowsInv, SchedulesOK
<1>3. \A s \in Schedules : Used(s) => Used(s)'
  BY <1>1, <1>2 DEF Used
<1>4. \A a \in awaited : schedule'[a.s] = schedule[a.s]
  BY <1>1, <1>2 DEF AwaitedOK
<1>5. awaited' = awaited /\ Queue' = Queue /\ cron' = cron
  BY DEF Create, Queue
<1> QED
  BY <1>3, <1>4, <1>5, CursorsStay DEF Stands, Cursor

LEMMA PatchAwaits == ASSUME RowsInv, AwaitedOK, NEW r \in Requests, Patch(r) PROVE AwaitedOK'
<1> DEFINE q == request[r]
<1>1. q.s \in Schedules /\ DOMAIN schedule = Schedules
  BY DEF RowsInv, RequestsOK, SchedulesOK, Patch
<1>2. Queue' = Queue /\ cron' = cron
  BY DEF Patch, Queue
<1>3. CASE ~Stands(q.s)
  BY <1>2, <1>3, SchedulesStay DEF Patch
<1>4. CASE Stands(q.s)
  <2>1. schedule' = [schedule EXCEPT ![q.s] = Patched(schedule[q.s], q.was, q.edit)]
    BY <1>4 DEF Patch
  <2>2. \A s \in Schedules : s # q.s => schedule'[s] = schedule[s]
    BY <1>1, <2>1
  <2>3. \A s \in Schedules : Used(s) => Used(s)'
    <3>1. ScheduleRow(Patched(schedule[q.s], q.was, q.edit))
      BY <1>4, PatchedRow DEF RowsInv, SchedulesOK, RequestsOK, Patch
    <3>2. schedule'[q.s].state # "none"
      BY <1>1, <2>1, <3>1 DEF ScheduleRow
    <3> QED
      BY <2>2, <3>2 DEF Used
  <2>4. CASE Resumes(q.was, q.edit) \/ q.edit.anchor # None
    <3>1. awaited' = {a \in awaited : a.s # q.s}
      BY <1>4, <2>4 DEF Patch
    <3>2. \A a \in awaited' : schedule'[a.s] = schedule[a.s]
      BY <2>2, <3>1 DEF AwaitedOK
    <3> QED
      BY <1>2, <2>3, <3>1, <3>2, CursorsStay DEF Stands, Cursor
  <2>5. CASE ~Resumes(q.was, q.edit) /\ q.edit.anchor = None
    <3>1. awaited' = awaited
      BY <1>4, <2>5 DEF Patch
    <3>2. schedule'[q.s].anchor = schedule[q.s].anchor /\ schedule'[q.s].next = schedule[q.s].next
      BY <1>1, <1>4, <2>1, <2>5 DEF Patched, Or, RowsInv, SchedulesOK, ScheduleRow
    <3>3. \A s \in Schedules : Cursor(s)' = Cursor(s)
      BY <2>2, <3>2 DEF Cursor
    <3>4. \A s \in Schedules : Stands(s)' => Stands(s)
      BY <1>4, <2>2 DEF Stands
    <3> QED
      BY <1>2, <2>3, <3>1, <3>3, <3>4, CursorsStay DEF AwaitedOK
  <2> QED
    BY <2>4, <2>5
<1> QED
  BY <1>3, <1>4

LEMMA GoneAwaits ==
  ASSUME AwaitedOK, NEW S, schedule' = [s \in Schedules |-> IF s \in S THEN Gone ELSE schedule[s]],
         UNCHANGED <<awaited, cron>>, Queue' = Queue
  PROVE  AwaitedOK'
<1>1. \A s \in Schedules : Used(s) => Used(s)'
  BY DEF Used, Gone
<1>2. \A s \in Schedules : Stands(s)' => Stands(s) /\ Cursor(s)' = Cursor(s)
  BY DEF Stands, Gone, Cursor
<1> QED
  BY <1>1, <1>2, CursorsStay DEF AwaitedOK

LEMMA RemoveAwaits == ASSUME AwaitedOK, NEW r \in Requests, Remove(r) PROVE AwaitedOK'
<1>1. UNCHANGED <<awaited, cron>> /\ Queue' = Queue
  BY DEF Remove, Queue
<1>2. CASE UNCHANGED schedule
  BY <1>1, <1>2, SchedulesStay
<1>3. CASE ~UNCHANGED schedule
  <2> DEFINE S == {s \in Schedules : Stands(s) /\ schedule[s].staff = request[r].staff}
  <2>1. schedule' = [s \in Schedules |-> IF s \in S THEN Gone ELSE schedule[s]]
    BY <1>3 DEF Remove
  <2> QED
    BY <1>1, <2>1, GoneAwaits
<1> QED
  BY <1>2, <1>3

\* The cron.
LEMMA StartCronAwaits == ASSUME AwaitedOK, StartCron PROVE AwaitedOK'
<1> DEFINE Key(a) == <<a.s, PeriodKey(a.anchor, a.next)>>
           late == {s \in Schedules : Stands(s) /\ schedule[s].state = "active" /\ schedule[s].next <= today}
<1>1. Queue' = Queue /\ \A s : Used(s)' = Used(s) /\ Stands(s)' = Stands(s) /\ Cursor(s)' = Cursor(s)
  BY DEF StartCron, Queue, Used, Stands, Cursor
<1>2. awaited' = awaited \cup {Cursor(s) : s \in late}
  BY DEF StartCron
<1>3. \A a \in awaited' : \/ a \in awaited
                          \/ a = Cursor(a.s) /\ a.s \in Schedules /\ Stands(a.s)
  BY <1>2 DEF Cursor
<1>4. \A a \in awaited' : a.s \in Schedules /\ Used(a.s)'
  BY <1>1, <1>3 DEF AwaitedOK, Stands, Used
<1>5. \A a \in awaited' : Stands(a.s) => Key(a) \in Queue \/ a = Cursor(a.s)
  BY <1>3 DEF AwaitedOK, NoneForgotten
<1>6. \A d \in cron'.due : Stands(d.s) /\ Cursor(d.s) = [s |-> d.s, anchor |-> d.row.anchor, next |-> d.row.next]
  BY DEF StartCron, Cursor
<1>7. \A a \in awaited', d \in cron'.due : a.s = d.s =>
         Key(a) \in Queue' \/ a = [s |-> d.s, anchor |-> d.row.anchor, next |-> d.row.next]
  BY <1>1, <1>5, <1>6
<1>8. NoneForgotten'
  BY <1>1, <1>5 DEF NoneForgotten
<1> QED
  BY <1>4, <1>7, <1>8 DEF AwaitedOK

LEMMA ListShrinks == ASSUME CronOK, NEW d, Leave(d) \/ Abort PROVE cron'.due \subseteq cron.due
<1>1. cron'.due = cron.due \ {d} \/ cron'.due = {}
  BY DEF CronOK, Leave, Abort
<1> QED
  BY <1>1

LEMMA SuspendAwaits == ASSUME RowsInv, AwaitedOK, NEW d \in cron.due, Suspend(d) PROVE AwaitedOK'
<1>1. awaited' = awaited /\ Queue' = Queue /\ cron'.due \subseteq cron.due
  <2>1. Leave(d) \/ Abort
    BY DEF Suspend
  <2>2. cron'.due \subseteq cron.due
    BY <2>1, ListShrinks DEF RowsInv
  <2> QED
    BY <2>2 DEF Suspend, Queue
<1>2. CASE ~Stands(d.s)
  BY <1>1, <1>2, SchedulesStay DEF Suspend
<1>3. CASE Stands(d.s)
  <2>1. \A s \in Schedules : schedule'[s] = IF s = d.s THEN [schedule[s] EXCEPT !.state = "suspended"] ELSE schedule[s]
    BY <1>3 DEF Suspend, RowsInv, SchedulesOK, CronOK
  <2>2. \A s \in Schedules : Cursor(s)' = Cursor(s)
    BY <1>3, <2>1 DEF Cursor, RowsInv, SchedulesOK, ScheduleRow
  <2>3. \A s \in Schedules : (Used(s) => Used(s)') /\ (Stands(s)' => Stands(s))
    BY <1>3, <2>1 DEF Used, Stands, RowsInv, SchedulesOK, ScheduleRow
  <2> QED
    BY <1>1, <2>2, <2>3, CursorsStay DEF AwaitedOK
<1> QED
  BY <1>2, <1>3

\* The payment is there when the cursor moves.
LEMMA AdvanceAwaits == ASSUME RowsInv, AwaitedOK, Advance PROVE AwaitedOK'
<1> DEFINE d == cron.at
<1>1. d \in cron.due /\ d.s \in Schedules /\ Period(d) \in Queue
  BY DEF Advance, RowsInv, CronOK
<1>2. awaited' = awaited /\ Queue' = Queue /\ cron'.due \subseteq cron.due
  <2>1. Leave(d) \/ Abort
    BY DEF Advance
  <2>2. cron'.due \subseteq cron.due
    BY <2>1, ListShrinks DEF RowsInv
  <2> QED
    BY <2>2 DEF Advance, Queue
<1>3. CASE ~Stands(d.s)
  BY <1>2, <1>3, SchedulesStay DEF Advance
<1>4. CASE Stands(d.s)
  <2>1. \A s \in Schedules : s # d.s => schedule'[s] = schedule[s]
    BY <1>4 DEF Advance, MoveCursor, RowsInv, SchedulesOK
  <2>2. schedule'[d.s].state = schedule[d.s].state
    BY <1>1, <1>4 DEF Advance, MoveCursor, RowsInv, SchedulesOK, ScheduleRow
  <2>3. \A s \in Schedules : (Used(s) => Used(s)') /\ (Stands(s)' => Stands(s))
    BY <2>1, <2>2 DEF Used, Stands
  <2>4. \A a \in awaited : <<a.s, PeriodKey(a.anchor, a.next)>> \in Queue \/ Cursor(a.s)' = Cursor(a.s)
    <3>1. \A a \in awaited : a.s = d.s => <<a.s, PeriodKey(a.anchor, a.next)>> \in Queue
      BY <1>1 DEF AwaitedOK, Period
    <3>2. \A a \in awaited : a.s # d.s => Cursor(a.s)' = Cursor(a.s)
      BY <2>1 DEF AwaitedOK, Cursor
    <3> QED
      BY <3>1, <3>2
  <2> QED
    BY <1>2, <2>3, <2>4, CursorsStay DEF AwaitedOK
<1> QED
  BY <1>3, <1>4

LEMMA AwaitedInit == Init => AwaitedOK
  BY DEF Init, AwaitedOK, NoneForgotten

LEMMA AwaitedNext == RowsInv /\ AwaitedOK /\ [Next]_vars => AwaitedOK'
<1> SUFFICES ASSUME RowsInv, AwaitedOK, [Next]_vars PROVE AwaitedOK'
  OBVIOUS
<1>1. ASSUME Requested PROVE AwaitedOK'
  BY <1>1, SchedulesStay DEF Requested, AskCreate, AskPatch, AskDelete, AskRemove, Decide, Queue
<1>2. ASSUME NEW r \in Requests, Create(r) \/ Patch(r) PROVE AwaitedOK'
  BY <1>2, CreateAwaits, PatchAwaits
<1>3. ASSUME NEW r \in Requests, Delete(r) PROVE AwaitedOK'
  BY <1>3, GoneAwaits DEF Delete, Queue
<1>4. ASSUME NEW r \in Requests, Remove(r) \/ Dismiss(r) PROVE AwaitedOK'
  BY <1>4, RemoveAwaits, SchedulesStay DEF Dismiss, Queue
<1>5. ASSUME CronStep PROVE AwaitedOK'
  <2>1. ASSUME NEW d \in cron.due, Mint(d) PROVE AwaitedOK'
    <3>1. Queue \subseteq Queue' /\ cron'.due \subseteq cron.due
      BY <2>1 DEF Mint, QueuePayment, Queue, RowsInv, CronOK
    <3> QED
      BY <2>1, <3>1, SchedulesStay DEF Mint
  <2> QED
    BY <1>5, <2>1, StartCronAwaits, SuspendAwaits, AdvanceAwaits DEF CronStep
<1>6. ASSUME OwnerStep PROVE AwaitedOK'
  BY <1>6, SchedulesStay DEF OwnerStep, Skip, Reject, Claim, Decide, Queue
<1>7. ASSUME NEW b \in Batches, BatchStep(b) PROVE AwaitedOK'
  BY <1>7, SchedulesStay DEF BatchStep, Look, Blocked, Fails, Pays, Settle, Decide, Queue
<1>8. ASSUME Die PROVE AwaitedOK'
  <2>1. UNCHANGED <<schedule, awaited>> /\ Queue' = Queue /\ cron'.due \subseteq cron.due
    BY <1>8 DEF Die, Abort, Queue, RowsInv, CronOK
  <2> QED
    BY <2>1, SchedulesStay
<1>9. ASSUME NEW day \in {day \in Days : day > today}, Sleep(day) PROVE AwaitedOK'
  BY <1>9, SchedulesStay DEF Sleep, Queue
<1>10. CASE UNCHANGED vars
  BY <1>10, SchedulesStay DEF vars, Queue
<1> QED
  BY <1>1, <1>2, <1>3, <1>4, <1>5, <1>6, <1>7, <1>8, <1>9, <1>10 DEF Next, Answered

\* A pay date that a run of the cron found due is never lost to a crash: it has
\* its payment, or the cursor stands at it, until the owner gives the schedule
\* another cursor or ends it.
THEOREM FoundStaysFound == Spec => []NoneForgotten
<1>1. AwaitedOK => NoneForgotten
  BY DEF AwaitedOK
<1> QED
  BY <1>1, AwaitedInit, AwaitedNext, RowsAlways, PTL DEF Spec

=============================================================================

------------------------------- MODULE Payroll -------------------------------
(***************************************************************************)
(* The salaries of one business: the schedules its owner keeps              *)
(* (routes/payroll.js), the daily cron that queues a payment per pay period *)
(* (utils/salaryRunner.js) and never pays, and the approval of a batch of   *)
(* them under one PIN, the only code here that moves money.  A step is what *)
(* a request or the cron does between two waits for the database or the     *)
(* bank.  The two sweeps in salaryRunner.js are left out: only tests call   *)
(* them.                                                                    *)
(***************************************************************************)
EXTENDS PayDates
LOCAL INSTANCE FiniteSetsExt

CONSTANTS
  Schedules, Staff, Amounts, Payees,
  Requests,    \* bound: changes to schedules at once
  Batches,     \* bound: approvals at once
  Given,       \* bound: the anchors the owner gives
  Offers,      \* bound: the terms a schedule starts with
  Edits,       \* bound: what a PATCH may ask
  Days,        \* bound: the days anything happens on, the cron's run included
  MaxEdits,    \* bound: changes to schedules after their creation
  MaxFaults,   \* bound: handlers and cron runs that die
  None

ASSUME BoundsAssumption ==
  /\ Given \subseteq Anchors /\ Offers \subseteq [amount : Amounts, payee : Payees, anchor : Given] /\ Days \subseteq Nat /\ Days # {}
  /\ MaxEdits \in Nat /\ MaxFaults \in Nat
  /\ \A e \in Edits : /\ e.amount \in Amounts \cup {None} /\ e.payee \in Payees \cup {None}
                      /\ e.anchor \in Given \cup {None} /\ e.status \in {"active", "paused", None}

VARIABLES
  today,
  team,      \* the staff who work for the owner
  schedule,  \* SalarySchedule
  payment,   \* SalaryPayment, by schedule and period
  cron,      \* processSalaryPayments: its due list, and the day it last ran
  request,   \* POST, PATCH and DELETE /payroll, DELETE /auth/staff/:id under way
  batch,     \* POST /payroll/approve under way
  bank,      \* the payouts the bank made, by payment
  agreed,    \* history: what a PIN was given for, by schedule
  awaited,   \* history: the pay dates the cron found due since the owner last set the cursor
  edits, faults

vars == <<today, team, schedule, payment, cron, request, batch, bank, agreed, awaited, edits, faults>>

Unset == [state |-> "none"]
Gone  == [state |-> "gone"]
Idle  == [pc |-> "idle"]
First == CHOOSE day \in Days : \A other \in Days : day <= other

Init ==
  /\ today = First /\ team = Staff
  /\ schedule = [s \in Schedules |-> Unset]
  /\ payment = <<>> /\ bank = <<>>
  /\ cron = [pc |-> "idle", due |-> {}, ran |-> First - 1, at |-> None]
  /\ request = [r \in Requests |-> Idle] /\ batch = [b \in Batches |-> Idle]
  /\ agreed = [s \in Schedules |-> {}] /\ awaited = {}
  /\ edits = 0 /\ faults = 0

Stands(s) == schedule[s].state \notin {"none", "gone"}
Cursor(s) == [s |-> s, anchor |-> schedule[s].anchor, next |-> schedule[s].next]
Queue == DOMAIN payment
Pending(k) == payment[k].status = "pending"
\* updateMany: the rows of K get these fields.
Decide(K, status, owed) ==
  payment' = [k \in Queue |-> IF k \in K THEN [payment[k] EXCEPT !.status = status, !.owed = owed] ELSE payment[k]]

\* The next day there is, after the cron's run: no handler lasts a day.
Sleep(day) ==
  /\ day = Min({later \in Days : later > today}) /\ cron.ran = today
  /\ cron.pc = "idle" /\ \A r \in Requests : request[r] = Idle /\ \A b \in Batches : batch[b] = Idle
  /\ today' = day
  /\ UNCHANGED <<team, schedule, payment, cron, request, batch, bank, agreed, awaited, edits, faults>>

----------------------------------------------------------------------------
(***************************************************************************)
(* The schedules                                                            *)
(***************************************************************************)
\* POST /payroll has looked at the person, the PIN and the payee's bank.
AskCreate(r, s, p, o) ==
  /\ request[r] = Idle /\ schedule[s] = Unset /\ p \in team
  /\ \A q \in Requests : request[q].pc = "create" => request[q].s # s
  /\ request' = [request EXCEPT ![r] =
       [pc |-> "create", s |-> s, staff |-> p, offer |-> o]]
  /\ UNCHANGED <<today, team, schedule, payment, cron, batch, bank, agreed, awaited, edits, faults>>

\* One schedule per person.
Create(r) ==
  LET q == request[r]
      free == \A s \in Schedules : Stands(s) => schedule[s].staff # q.staff
  IN  /\ q.pc = "create"
      /\ IF free
         THEN /\ schedule' = [schedule EXCEPT ![q.s] =
                   [state |-> "active", staff |-> q.staff, amount |-> q.offer.amount, payee |-> q.offer.payee,
                    authorized |-> <<q.offer.amount, q.offer.payee>>, anchor |-> q.offer.anchor,
                    next |-> NextPayDate(q.offer.anchor, today), created |-> today]]
              /\ agreed' = [agreed EXCEPT ![q.s] = {<<q.offer.amount, q.offer.payee>>}]
         ELSE UNCHANGED <<schedule, agreed>>
      /\ request' = [request EXCEPT ![r] = Idle]
      /\ UNCHANGED <<today, team, payment, cron, batch, bank, awaited, edits, faults>>

AskPatch(r, s, e) ==
  /\ request[r] = Idle /\ Stands(s) /\ edits < MaxEdits
  /\ request' = [request EXCEPT ![r] = [pc |-> "patch", s |-> s, was |-> schedule[s], edit |-> e]]
  /\ edits' = edits + 1
  /\ UNCHANGED <<today, team, schedule, payment, cron, batch, bank, agreed, awaited, faults>>

Or(value, was) == IF value = None THEN was ELSE value

\* A resumed schedule goes to its first pay date to come, in at most sixty
\* steps.
Resumed(anchor, from) ==
  LET Date[n \in 0..60] ==
        IF n = 0 THEN from
        ELSE LET c == Date[n - 1] IN IF c <= today THEN NextPayDate(anchor, c) ELSE c
  IN  Date[60]

\* A plausible slip: the PIN is recorded for what the request named, without
\* filling in what it left alone.
PatchedUnfilled(row, was, e) ==
  LET named == e.amount # None \/ e.payee # None
  IN  [row EXCEPT !.state  = Or(e.status, @),
                  !.amount = Or(e.amount, @),
                  !.payee  = Or(e.payee, @),
                  !.authorized = IF named THEN <<e.amount, e.payee>> ELSE @]

Resumes(was, e) == e.status = "active" /\ was.state # "active"

\* What a PATCH writes, worked out from the row it read.
Patched(row, was, e) ==
  LET amount == Or(e.amount, was.amount)
      payee  == Or(e.payee, was.payee)
      anchor == Or(e.anchor, was.anchor)
      resuming == Resumes(was, e)
      asksPin  == amount # was.amount \/ payee # was.payee \/ resuming
  IN  [row EXCEPT !.state  = Or(e.status, @),
                  !.amount = IF amount # was.amount THEN amount ELSE @,
                  !.payee  = IF payee # was.payee THEN payee ELSE @,
                  !.authorized = IF asksPin THEN <<amount, payee>> ELSE @,
                  !.anchor = Or(e.anchor, @),
                  !.next   = CASE resuming -> Resumed(anchor, was.next)
                               [] ~resuming /\ e.anchor # None -> NextPayDate(e.anchor, today)
                               [] OTHER -> @]

Patch(r) ==
  LET q == request[r]
      row == Patched(schedule[q.s], q.was, q.edit)
  IN  /\ q.pc = "patch"
      /\ IF Stands(q.s)
         THEN /\ schedule' = [schedule EXCEPT ![q.s] = row]
              /\ agreed' = [agreed EXCEPT ![q.s] = @ \cup
                   (IF row.authorized # schedule[q.s].authorized THEN {row.authorized} ELSE {})]
              /\ awaited' = IF Resumes(q.was, q.edit) \/ q.edit.anchor # None
                            THEN {a \in awaited : a.s # q.s} ELSE awaited
         ELSE UNCHANGED <<schedule, agreed, awaited>>
      /\ request' = [request EXCEPT ![r] = Idle]
      /\ UNCHANGED <<today, team, payment, cron, batch, bank, edits, faults>>

\* DELETE /payroll/:id: the pending payments first, then the schedule.
AskDelete(r, s) ==
  /\ request[r] = Idle /\ Stands(s) /\ edits < MaxEdits
  /\ Decide({k \in Queue : k[1] = s /\ Pending(k)}, "rejected", FALSE)
  /\ request' = [request EXCEPT ![r] = [pc |-> "delete", S |-> {s}]]
  /\ edits' = edits + 1
  /\ UNCHANGED <<today, team, schedule, cron, batch, bank, agreed, awaited, faults>>

\* DELETE /auth/staff/:id, whose clean-up may fail and be passed over.
AskRemove(r, p) ==
  /\ request[r] = Idle /\ p \in team /\ edits < MaxEdits
  /\ LET theirs == {k \in Queue : payment[k].staff = p /\ Pending(k)}
     IN  \/ Decide(theirs, "rejected", FALSE) /\ UNCHANGED faults
         \/ theirs # {} /\ faults < MaxFaults /\ faults' = faults + 1 /\ UNCHANGED payment
  /\ request' = [request EXCEPT ![r] = [pc |-> "remove", staff |-> p]]
  /\ edits' = edits + 1
  /\ UNCHANGED <<today, team, schedule, cron, batch, bank, agreed, awaited>>

\* Their schedules; a delete that fails is passed over too.
Remove(r) ==
  LET theirs == {s \in Schedules : Stands(s) /\ schedule[s].staff = request[r].staff}
  IN  /\ request[r].pc = "remove"
      /\ request' = [request EXCEPT ![r] = [pc |-> "dismiss", staff |-> request[r].staff]]
      /\ \/ schedule' = [s \in Schedules |-> IF s \in theirs THEN Gone ELSE schedule[s]] /\ UNCHANGED faults
         \/ theirs # {} /\ faults < MaxFaults /\ faults' = faults + 1 /\ UNCHANGED schedule
      /\ UNCHANGED <<today, team, payment, cron, batch, bank, agreed, awaited, edits>>

Delete(r) ==
  /\ request[r].pc = "delete"
  /\ schedule' = [s \in Schedules |-> IF s \in request[r].S THEN Gone ELSE schedule[s]]
  /\ request' = [request EXCEPT ![r] = Idle]
  /\ UNCHANGED <<today, team, payment, cron, batch, bank, agreed, awaited, edits, faults>>

Dismiss(r) ==
  /\ request[r].pc = "dismiss"
  /\ team' = team \ {request[r].staff}
  /\ request' = [request EXCEPT ![r] = Idle]
  /\ UNCHANGED <<today, schedule, payment, cron, batch, bank, agreed, awaited, edits, faults>>

----------------------------------------------------------------------------
(***************************************************************************)
(* The cron, once a day                                                     *)
(***************************************************************************)
Period(d) == <<d.s, PeriodKey(d.row.anchor, d.row.next)>>

StartCron ==
  LET late == {s \in Schedules : Stands(s) /\ schedule[s].state = "active" /\ schedule[s].next <= today}
      due == {[s |-> s, row |-> schedule[s]] : s \in late}
  IN  /\ cron.pc = "idle" /\ cron.ran < today
      /\ cron' = [pc |-> IF due = {} THEN "idle" ELSE "mint", due |-> due, ran |-> today, at |-> None]
      /\ awaited' = awaited \cup {Cursor(s) : s \in late}
      /\ UNCHANGED <<today, team, schedule, payment, request, batch, bank, agreed, edits, faults>>

\* A plausible slip: only the amount is compared with what the PIN was given for.
ConsentAmount(row) == row.authorized[1] = row.amount
ConsentMatches(row) == row.authorized = <<row.amount, row.payee>>

\* The next schedule of the list; an update of a deleted one ends the run.
Leave(d) == cron' = [cron EXCEPT !.due = @ \ {d}, !.pc = IF cron.due = {d} THEN "idle" ELSE "mint", !.at = None]
Abort == cron' = [cron EXCEPT !.due = {}, !.pc = "idle", !.at = None]

Suspend(d) ==
  /\ cron.pc = "mint" /\ d \in cron.due /\ ~ConsentMatches(d.row)
  /\ IF Stands(d.s)
     THEN schedule' = [schedule EXCEPT ![d.s].state = "suspended"] /\ Leave(d)
     ELSE UNCHANGED schedule /\ Abort
  /\ UNCHANGED <<today, team, payment, request, batch, bank, agreed, awaited, edits, faults>>

\* The terms are frozen as the cron read them; a period that has its payment
\* keeps it.
QueuePayment(d) ==
  LET fresh == [status |-> "pending", owed |-> TRUE, staff |-> d.row.staff,
                amount |-> d.row.amount, payee |-> d.row.payee,
                scheduledFor |-> d.row.next, expires |-> today + 3]
      new == IF Period(d) \in Queue THEN {} ELSE {Period(d)}
  IN  /\ payment' = [k \in Queue \cup new |-> IF k \in new THEN fresh ELSE payment[k]]
      /\ bank' = [k \in Queue \cup new |-> IF k \in new THEN 0 ELSE bank[k]]

MoveCursor(d) == schedule' = [schedule EXCEPT ![d.s].next = NextPayDate(d.row.anchor, d.row.next)]

Mint(d) ==
  /\ cron.pc = "mint" /\ d \in cron.due /\ ConsentMatches(d.row)
  /\ QueuePayment(d)
  /\ cron' = [cron EXCEPT !.pc = "advance", !.at = d]
  /\ UNCHANGED <<today, team, schedule, request, batch, agreed, awaited, edits, faults>>

Advance ==
  LET d == cron.at
  IN  /\ cron.pc = "advance"
      /\ IF Stands(d.s)
         THEN MoveCursor(d) /\ Leave(d)
         ELSE UNCHANGED schedule /\ Abort
      /\ UNCHANGED <<today, team, payment, request, batch, bank, agreed, awaited, edits, faults>>

\* A plausible slip: the cursor moves first, and in a step of its own the
\* payment follows.
CursorFirst(d) ==
  \/ /\ cron.pc = "mint" /\ ConsentMatches(d.row)
     /\ IF Stands(d.s)
        THEN MoveCursor(d) /\ cron' = [cron EXCEPT !.pc = "advance", !.at = d]
        ELSE UNCHANGED schedule /\ Abort
     /\ UNCHANGED <<today, team, payment, request, batch, bank, agreed, awaited, edits, faults>>
  \/ /\ cron.pc = "advance" /\ d = cron.at
     /\ QueuePayment(d) /\ Leave(d)
     /\ UNCHANGED <<today, team, schedule, request, batch, agreed, awaited, edits, faults>>
QueuedLate == StartCron \/ \E d \in cron.due : Suspend(d) \/ CursorFirst(d)

----------------------------------------------------------------------------
(***************************************************************************)
(* The payments                                                             *)
(***************************************************************************)
Skip(k) ==
  /\ k \in Queue /\ Pending(k) /\ Decide({k}, "skipped", FALSE)
  /\ UNCHANGED <<today, team, schedule, cron, request, batch, bank, agreed, awaited, edits, faults>>

Reject(k) ==
  /\ k \in Queue /\ Pending(k) /\ Decide({k}, "rejected", TRUE)
  /\ UNCHANGED <<today, team, schedule, cron, request, batch, bank, agreed, awaited, edits, faults>>

\* One statement claims what is still pending and alive of what was ticked.
Claim(b, K) ==
  LET mine == {k \in K : Pending(k) /\ today <= payment[k].expires}
  IN  /\ batch[b] = Idle /\ mine # {}
      /\ Decide(mine, "approving", TRUE)
      /\ batch' = [batch EXCEPT ![b] = [pc |-> "next", mine |-> mine]]
      /\ UNCHANGED <<today, team, schedule, cron, request, bank, agreed, awaited, edits, faults>>

Rest(b, k) == LET left == batch[b].mine \ {k} IN IF left = {} THEN Idle ELSE [pc |-> "next", mine |-> left]
Step(b, record) == batch' = [batch EXCEPT ![b] = record]

\* The next of the batch: somebody who left is not paid.
Look(b, k) ==
  /\ batch[b].pc = "next" /\ k \in batch[b].mine
  /\ IF payment[k].staff \in team
     THEN Step(b, [pc |-> "lock", mine |-> batch[b].mine, at |-> k]) /\ UNCHANGED payment
     ELSE Step(b, Rest(b, k)) /\ Decide({k}, "rejected", FALSE)
  /\ UNCHANGED <<today, team, schedule, cron, request, bank, agreed, awaited, edits, faults>>

\* The compliance checks say not now: back to the queue.
Blocked(b) ==
  /\ batch[b].pc = "lock"
  /\ Decide({batch[b].at}, "pending", TRUE)
  /\ Step(b, Rest(b, batch[b].at))
  /\ UNCHANGED <<today, team, schedule, cron, request, bank, agreed, awaited, edits, faults>>

\* No lock, no balance, no such account: the whole batch ends.
Fails(b) ==
  /\ batch[b].pc = "lock" /\ Step(b, Idle)
  /\ UNCHANGED <<today, team, schedule, payment, cron, request, bank, agreed, awaited, edits, faults>>

\* A plausible slip: a payment whose answer was lost is offered again.
PaysOrRequeues(b) ==
  LET k == batch[b].at
  IN  /\ batch[b].pc = "lock" /\ bank' = [bank EXCEPT ![k] = @ + 1]
      /\ \/ Step(b, [batch[b] EXCEPT !.pc = "paid"]) /\ UNCHANGED payment
         \/ Step(b, Idle) /\ Decide({k}, "pending", TRUE)
      /\ UNCHANGED <<today, team, schedule, cron, request, agreed, awaited, edits, faults>>

\* The bank pays; its answer may be lost, which ends the batch too.
Pays(b) ==
  LET k == batch[b].at
  IN  /\ batch[b].pc = "lock" /\ bank' = [bank EXCEPT ![k] = @ + 1]
      /\ \/ Step(b, [batch[b] EXCEPT !.pc = "paid"])
         \/ Step(b, Idle)
      /\ UNCHANGED <<today, team, schedule, payment, cron, request, agreed, awaited, edits, faults>>

Settle(b) ==
  /\ batch[b].pc = "paid"
  /\ Decide({batch[b].at}, "paid", FALSE)
  /\ Step(b, Rest(b, batch[b].at))
  /\ UNCHANGED <<today, team, schedule, cron, request, bank, agreed, awaited, edits, faults>>

----------------------------------------------------------------------------
Die ==
  /\ faults < MaxFaults /\ faults' = faults + 1
  /\ \/ cron.pc # "idle" /\ Abort /\ UNCHANGED <<request, batch>>
     \/ \E r \in Requests : request[r] # Idle /\ request' = [request EXCEPT ![r] = Idle] /\ UNCHANGED <<cron, batch>>
     \/ \E b \in Batches : batch[b] # Idle /\ Step(b, Idle) /\ UNCHANGED <<cron, request>>
  /\ UNCHANGED <<today, team, schedule, payment, bank, agreed, awaited, edits>>

----------------------------------------------------------------------------
Requested == \E r \in Requests :
  \/ \E s \in Schedules :
       \/ \E p \in Staff, o \in Offers : AskCreate(r, s, p, o)
       \/ \E e \in Edits : AskPatch(r, s, e)
       \/ AskDelete(r, s)
  \/ \E p \in Staff : AskRemove(r, p)
Answered == \E r \in Requests : Create(r) \/ Patch(r) \/ Delete(r) \/ Remove(r) \/ Dismiss(r)
CronStep == StartCron \/ Advance \/ \E d \in cron.due : Suspend(d) \/ Mint(d)
BatchStep(b) ==
  \/ \E k \in Queue : Look(b, k)
  \/ Blocked(b) \/ Fails(b) \/ Pays(b) \/ Settle(b)
OwnerStep ==
  \/ \E k \in Queue : Skip(k) \/ Reject(k)
  \/ \E b \in Batches, K \in SUBSET Queue : Claim(b, K)

Next ==
  \/ Requested \/ Answered \/ CronStep \/ OwnerStep \/ Die
  \/ \E b \in Batches : BatchStep(b)
  \/ \E day \in {day \in Days : day > today} : Sleep(day)

Spec == Init /\ [][Next]_vars
FairSpec == Spec /\ WF_vars(CronStep) /\ WF_vars(Answered) /\ \A b \in Batches : WF_vars(BatchStep(b))

----------------------------------------------------------------------------
AllKeys == Schedules \X {PeriodKey(anchor, day) : anchor \in Given, day \in 0..MonthStart[Len(MonthDays)]}
Statuses == {"pending", "approving", "paid", "rejected", "skipped"}

\* Every row has the ranges of its columns, and a payment is kept under its
\* schedule and the period of its own pay date.
TypeOK ==
  /\ today \in Days /\ cron.ran \in (First - 1)..today
  /\ \A s \in Schedules : Stands(s) =>
       /\ schedule[s].state \in {"active", "paused", "suspended"} /\ schedule[s].staff \in Staff
       /\ schedule[s].amount \in Amounts /\ schedule[s].payee \in Payees /\ schedule[s].anchor \in Given
       /\ schedule[s].authorized \in Amounts \X Payees
  /\ DOMAIN bank = Queue
  /\ \A k \in Queue :
       /\ payment[k].status \in Statuses /\ payment[k].owed \in BOOLEAN
       /\ \E s \in Schedules, anchor \in Given : k = <<s, PeriodKey(anchor, payment[k].scheduledFor)>>

\* "Two devices double-tapping produce two tokens ... nothing after it can run
\* twice" (payroll.js): no period is paid twice, and one the bank may have
\* paid is never again in the queue, skipped or declined, whatever handler
\* dies where, and whoever is dismissed meanwhile.
PaidOnce == \A k \in Queue :
  /\ bank[k] <= 1
  /\ bank[k] = 1 => payment[k].status \in {"approving", "paid"}
  /\ payment[k].status = "paid" => bank[k] = 1 /\ ~payment[k].owed

\* "A schedule whose amount no longer matches what the PIN authorised pays
\* nobody" (salaryRunner.js): what is queued is an amount and a payee that one
\* PIN was given for together, also when two changes cross.
ConsentedTogether == \A k \in Queue : <<payment[k].amount, payment[k].payee>> \in agreed[k[1]]

\* "A crash between the two re-attempts and the unique key absorbs it"
\* (salaryRunner.js): a pay date that a run found due has its payment, or the
\* cursor stands at it still, where the next run finds it, however many runs
\* die and whatever crosses them, until the owner gives the schedule another
\* cursor or ends it.
NoneForgotten == \A a \in awaited :
  Stands(a.s) => <<a.s, PeriodKey(a.anchor, a.next)>> \in Queue \/ Cursor(a.s) = a

\* "The 25th must be the 25th in every month" (salarySchedule.js): every pay
\* date of a schedule nobody touched is queued once it has come.
PayDaysOf(anchor) ==
  IF anchor.every = "month" THEN {PayDay(anchor, m) : m \in Months}
  ELSE {ShiftForWeekend(day) : day \in {day \in 2..MonthStart[Len(MonthDays)] : Weekday(day) = anchor.day}}
EveryPayDayQueued ==
  (cron.ran = today /\ cron.pc = "idle" /\ edits = 0 /\ faults = 0) =>
    \A s \in Schedules : Stands(s) =>
      \A day \in PayDaysOf(schedule[s].anchor) :
        (schedule[s].created < day /\ day <= today) => \E k \in Queue : k[1] = s /\ payment[k].scheduledFor = day

\* "A row stuck mid-approval ... is parked as failed for a human to reconcile"
\* (salaryRunner.js): no payment stays between pending and decided.
ApprovalsEnd == \A k \in AllKeys :
  LET InWork == k \in Queue /\ payment[k].status = "approving" IN InWork ~> ~InWork
=============================================================================

---------------------------- MODULE FcyConversion ----------------------------
(***************************************************************************)
(* Euro to naira conversions (utils/fcyConversion.js): quote, confirm under *)
(* the business lock, convert at Fincra, book the euro leg, pay the naira   *)
(* out; the reconcile loop that drives what is owed, and Fincra's payout    *)
(* webhooks.                                                                *)
(*                                                                         *)
(* Handlers and the loop are workers that take one step per await.  Fincra  *)
(* is modelled by what the code relies on: it knows a conversion and a      *)
(* payout by their reference and does not repeat one, its payout list is    *)
(* complete, and a payout it failed may be sent again under its reference.  *)
(* Rates and margins are left out; ten minutes without a write make a row   *)
(* stale.                                                                   *)
(***************************************************************************)
EXTENDS Integers, FiniteSets, Functions

CONSTANTS
  Convs,        \* conversions, one per accepted quote
  Order,        \* [Convs -> [biz, amount]]: who converts how many euros
  Biz,          \* businesses holding euros
  Received,     \* [Biz -> Nat]: the euros booked as received
  Jobs,         \* confirm handlers that can be in flight at once
  Cron,         \* the reconcile loop (one instance at a time, lock 4005)
  NoJob,        \* "nobody holds this lock"
  NoConv,       \* what an idle worker works on
  MaxConfirms,  \* bound: POSTs of confirm
  MaxFaults     \* bound: workers that die or hit a database error, calls to
                \* Fincra given up without an answer, failed inserts

ASSUME ConvsAssumption == NoConv \notin Convs
ASSUME OrderAssumption == Order \in [Convs -> [biz: Biz, amount: Nat]]
ASSUME ReceivedAssumption == Received \in [Biz -> Nat]
ASSUME WorkersAssumption == Cron \notin Jobs /\ NoJob \notin Jobs
ASSUME BoundsAssumption == MaxConfirms \in Nat /\ MaxFaults \in Nat

VARIABLES
  status,   \* [Convs -> Status]: FcyConversion.status
  fresh,    \* rows written less than STUCK_AFTER_MS ago
  booked,   \* conversions with a euro expense row
  lock,     \* [Biz -> Jobs \cup {NoJob}]: withBusinessLock
  job,      \* [Workers -> [pc, conv, settled]]
  todo,     \* what the loop read and still has to look at: [conv, status]
  legs,     \* conversions Fincra has carried out
  payout,   \* [Convs -> Payout]: Fincra's record of the naira payout
  legWire,  \* convert calls given up on and still on the wire
  payWire,  \* payout calls given up on and still on the wire
  hooks,    \* payout webhooks: [conv, outcome, read]
  confirms, faults   \* counters for the bounds

vars == <<status, fresh, booked, lock, job, todo, legs, payout, legWire, payWire,
          hooks, confirms, faults>>

row    == <<status, fresh>>
fincra == <<legs, payout, legWire, payWire, hooks>>
bounds == <<confirms, faults>>

-----------------------------------------------------------------------------
Workers == Jobs \cup {Cron}

Status == {"none", "quoted", "converting", "converted", "paying_out", "paid",
           "payout_failed", "failed", "needs_review"}
Payout == {"none", "processing", "successful", "failed"}
PCs    == {"idle", "lock", "check", "claim", "convert", "fail", "note", "book",
           "payup", "send", "settle", "unpaid", "loop"}
Hook   == [conv: Convs, outcome: {"successful", "failed"}, read: {"no", "paid", "owed"}]

BizOf(c) == Order[c].biz

Idle == [pc |-> "idle", conv |-> NoConv, settled |-> FALSE]

Init ==
  /\ status = [c \in Convs |-> "none"] /\ fresh = {} /\ booked = {}
  /\ lock = [b \in Biz |-> NoJob]
  /\ job = [w \in Workers |-> Idle]
  /\ todo = {}
  /\ legs = {} /\ payout = [c \in Convs |-> "none"]
  /\ legWire = {} /\ payWire = {} /\ hooks = {}
  /\ confirms = 0 /\ faults = 0

\* The euros that were booked out.
Spent(b) == SumFunction([c \in {c \in booked : BizOf(c) = b} |-> Order[c].amount])

\* computeLedgerBalance: what was received less what was booked out, floored.
Balance(b) == IF Received[b] > Spent(b) THEN Received[b] - Spent(b) ELSE 0

Write(c, s) == status' = [status EXCEPT ![c] = s] /\ fresh' = fresh \cup {c}

Go(w, pc) == job' = [job EXCEPT ![w].pc = pc]

Freed(w) == [b \in Biz |-> IF lock[b] = w THEN NoJob ELSE lock[b]]

\* A handler leaves its critical section; the loop goes on with its list.
Leave(w) ==
  /\ lock' = Freed(w)
  /\ job' = [job EXCEPT ![w] = IF w = Cron THEN [Idle EXCEPT !.pc = "loop"] ELSE Idle]

-----------------------------------------------------------------------------
(* Quote and confirm, up to the claim *)

\* quoteConversion: no lock, the balance is only read.
Quote(c) ==
  /\ status[c] = "none"
  /\ Order[c].amount <= Balance(BizOf(c))
  /\ Write(c, "quoted")
  /\ UNCHANGED <<booked, lock, job, todo, fincra, bounds>>

Confirm(j, c) ==
  /\ job[j].pc = "idle" /\ confirms < MaxConfirms /\ status[c] # "none"
  /\ job' = [job EXCEPT ![j] = [Idle EXCEPT !.pc = "lock", !.conv = c]]
  /\ confirms' = confirms + 1
  /\ UNCHANGED <<row, booked, lock, todo, fincra, faults>>

\* Mutant: two quotes of a business are confirmed side by side.
LockNothing(j) ==
  /\ job[j].pc = "lock"
  /\ Go(j, "check")
  /\ UNCHANGED <<row, booked, lock, todo, fincra, bounds>>

Lock(j) ==
  LET b == BizOf(job[j].conv)
  IN  /\ job[j].pc = "lock" /\ lock[b] = NoJob
      /\ lock' = [lock EXCEPT ![b] = j]
      /\ Go(j, "check")
      /\ UNCHANGED <<row, booked, todo, fincra, bounds>>

\* Already submitted, not enough euros, frozen, wallet short, the rate changed.
Refuse(j) ==
  /\ job[j].pc = "check"
  /\ Leave(j)
  /\ UNCHANGED <<row, booked, todo, fincra, bounds>>

Check(j) ==
  LET c == job[j].conv
  IN  /\ job[j].pc = "check"
      /\ status[c] = "quoted" /\ Order[c].amount <= Balance(BizOf(c))
      /\ Go(j, "claim")
      /\ UNCHANGED <<row, booked, lock, todo, fincra, bounds>>

\* The atomic claim: one UPDATE guarded on "quoted".
Claim(j) ==
  LET c == job[j].conv
  IN  /\ job[j].pc = "claim"
      /\ IF status[c] = "quoted"
         THEN Write(c, "converting") /\ Go(j, "convert") /\ UNCHANGED lock
         ELSE Leave(j) /\ UNCHANGED row
      /\ UNCHANGED <<booked, todo, fincra, bounds>>

-----------------------------------------------------------------------------
(* Leg 1: euros to naira inside Fincra *)

Converts(j) ==
  LET c == job[j].conv
  IN  /\ job[j].pc = "convert"
      /\ legs' = legs \cup {c}
      /\ Go(j, "note")
      /\ UNCHANGED <<row, booked, lock, todo, payout, legWire, payWire, hooks, bounds>>

\* Fincra says no and has done nothing.
ConvertRefused(j) ==
  /\ job[j].pc = "convert" /\ job[j].conv \notin legs
  /\ Go(j, "fail")
  /\ UNCHANGED <<row, booked, lock, todo, fincra, bounds>>

\* A timeout, a 5xx, or a conflict on fincraFetch's own second attempt.
ConvertUnknown(j) ==
  /\ job[j].pc = "convert" /\ faults < MaxFaults
  /\ legWire' = legWire \cup {job[j].conv} /\ faults' = faults + 1
  /\ Go(j, "fail")
  /\ UNCHANGED <<row, booked, lock, todo, legs, payout, payWire, hooks, confirms>>

\* Mutant: a conversion that failed is offered again.
OfferAgain(j) ==
  /\ job[j].pc = "fail"
  /\ Write(job[j].conv, "quoted")
  /\ Leave(j)
  /\ UNCHANGED <<booked, todo, fincra, bounds>>

\* Mutant: the status a client is shown is the one that is stored.
MarkRejected(j) ==
  /\ job[j].pc = "fail"
  /\ Write(job[j].conv, "conversion_failed")
  /\ Leave(j)
  /\ UNCHANGED <<booked, todo, fincra, bounds>>

\* Whatever the error was: failed, "nothing was taken from your balance".
MarkFailed(j) ==
  /\ job[j].pc = "fail"
  /\ Write(job[j].conv, "failed")
  /\ Leave(j)
  /\ UNCHANGED <<booked, todo, fincra, bounds>>

MarkConverted(j) ==
  /\ job[j].pc = "note"
  /\ Write(job[j].conv, "converted")
  /\ Go(j, "book")
  /\ UNCHANGED <<booked, lock, todo, fincra, bounds>>

\* bookSourceLeg; the reference is unique, a second insert changes nothing.
Book(j) ==
  /\ job[j].pc = "book"
  /\ booked' = booked \cup {job[j].conv}
  /\ Go(j, "payup")
  /\ UNCHANGED <<row, lock, todo, fincra, bounds>>

\* Any other insert error is alerted and swallowed.
BookFails(j) ==
  /\ job[j].pc = "book" /\ faults < MaxFaults
  /\ faults' = faults + 1
  /\ Go(j, "payup")
  /\ UNCHANGED <<row, booked, lock, todo, fincra, confirms>>

-----------------------------------------------------------------------------
(* Leg 2: completePayout, shared by the confirm handler and the loop *)

PayUp(w) ==
  /\ job[w].pc = "payup"
  /\ Write(job[w].conv, "paying_out")
  /\ Go(w, "send")
  /\ UNCHANGED <<booked, lock, todo, fincra, bounds>>

\* What Fincra's record becomes when a payout call reaches it.
Sent(c) == IF payout[c] \in {"none", "failed"} THEN {"processing", "successful"} ELSE {payout[c]}

SendAnswered(w) ==
  LET c == job[w].conv
  IN  /\ job[w].pc = "send"
      /\ \E p \in Sent(c) :
           /\ payout' = [payout EXCEPT ![c] = p]
           /\ job' = [job EXCEPT ![w].pc = "settle", ![w].settled = p = "successful"]
      /\ UNCHANGED <<row, booked, lock, todo, legs, legWire, payWire, hooks, bounds>>

SendRefused(w) ==
  /\ job[w].pc = "send"
  /\ Go(w, "unpaid")
  /\ UNCHANGED <<row, booked, lock, todo, fincra, bounds>>

SendUnknown(w) ==
  /\ job[w].pc = "send" /\ faults < MaxFaults
  /\ payWire' = payWire \cup {job[w].conv} /\ faults' = faults + 1
  /\ Go(w, "unpaid")
  /\ UNCHANGED <<row, booked, lock, todo, legs, payout, legWire, hooks, confirms>>

\* Mutant: an accepted payout is recorded as a settled one.
SettleAccepted(w) ==
  /\ job[w].pc = "settle"
  /\ Write(job[w].conv, "paid")
  /\ Leave(w)
  /\ UNCHANGED <<booked, todo, fincra, bounds>>

\* The answer is written over whatever a webhook has written meanwhile.
Settle(w) ==
  /\ job[w].pc = "settle"
  /\ Write(job[w].conv, IF job[w].settled THEN "paid" ELSE "paying_out")
  /\ Leave(w)
  /\ UNCHANGED <<booked, todo, fincra, bounds>>

\* The row cannot be written: the answer is thrown away with the error.
SettleFails(w) ==
  /\ job[w].pc = "settle" /\ faults < MaxFaults
  /\ faults' = faults + 1
  /\ Go(w, "unpaid")
  /\ UNCHANGED <<row, booked, lock, todo, fincra, confirms>>

MarkUnpaid(w) ==
  /\ job[w].pc = "unpaid"
  /\ Write(job[w].conv, "payout_failed")
  /\ Leave(w)
  /\ UNCHANGED <<booked, todo, fincra, bounds>>

\* The process dies or a query fails: the lock is freed, the row stays as it is,
\* and a call that was out may still arrive.
Crash(w) ==
  /\ job[w].pc # "idle" /\ faults < MaxFaults
  /\ faults' = faults + 1
  /\ lock' = Freed(w)
  /\ job' = [job EXCEPT ![w] = Idle]
  /\ todo' = IF w = Cron THEN {} ELSE todo
  /\ legWire' = IF job[w].pc = "convert" THEN legWire \cup {job[w].conv} ELSE legWire
  /\ payWire' = IF job[w].pc = "send" THEN payWire \cup {job[w].conv} ELSE payWire
  /\ UNCHANGED <<row, booked, legs, payout, hooks, confirms>>

-----------------------------------------------------------------------------
(* The reconcile loop: retryStuckConversions *)

\* Mutant: the loop takes up every conversion that did not end, leg 1 included.
OwedOrConverting == {"converting", "converted", "payout_failed", "paying_out"}

\* Mutant: a payout that was sent is left to its webhook.
OwedUnsent == {"converted", "payout_failed"}

Owed == {"converted", "payout_failed", "paying_out"}

\* One query reads the stale rows; their statuses are used as they were then.
StartLoop ==
  /\ job[Cron].pc = "idle"
  /\ todo' = {[conv |-> c, status |-> status[c]] : c \in {c \in Convs : status[c] \in Owed /\ c \notin fresh}}
  /\ Go(Cron, "loop")
  /\ UNCHANGED <<row, booked, lock, fincra, bounds>>

\* Fincra's list cannot be read: leave the row for the next round.
LookBlind(t) ==
  /\ job[Cron].pc = "loop" /\ t \in todo
  /\ todo' = todo \ {t}
  /\ UNCHANGED <<row, booked, lock, job, fincra, bounds>>

\* Fincra's record decides; without one, a payout not yet sent is sent.
Look(t) ==
  /\ job[Cron].pc = "loop" /\ t \in todo
  /\ todo' = todo \ {t}
  /\ LET send == \/ payout[t.conv] = "failed"
                 \/ payout[t.conv] = "none" /\ t.status # "paying_out"
     IN  /\ IF payout[t.conv] = "successful" THEN Write(t.conv, "paid") ELSE UNCHANGED row
         /\ IF send THEN job' = [job EXCEPT ![Cron] = [Idle EXCEPT !.pc = "payup", !.conv = t.conv]]
            ELSE UNCHANGED job
  /\ UNCHANGED <<booked, lock, fincra, bounds>>

\* Conversions stuck in leg 1 are flagged, never retried.
EndLoop ==
  LET stuck == {c \in Convs : status[c] = "converting" /\ c \notin fresh}
  IN  /\ job[Cron].pc = "loop" /\ todo = {}
      /\ status' = [c \in Convs |-> IF c \in stuck THEN "needs_review" ELSE status[c]]
      /\ fresh' = fresh \cup stuck
      /\ Go(Cron, "idle")
      /\ UNCHANGED <<booked, lock, todo, fincra, bounds>>

-----------------------------------------------------------------------------
(* Fincra's side: late calls, payouts that resolve, webhooks; time *)

LegArrives(c) ==
  /\ c \in legWire /\ legWire' = legWire \ {c} /\ legs' = legs \cup {c}
  /\ UNCHANGED <<row, booked, lock, job, todo, payout, payWire, hooks, bounds>>

LegLost(c) ==
  /\ c \in legWire /\ legWire' = legWire \ {c}
  /\ UNCHANGED <<row, booked, lock, job, todo, legs, payout, payWire, hooks, bounds>>

PayArrives(c) ==
  /\ c \in payWire /\ payWire' = payWire \ {c}
  /\ \E p \in Sent(c) : payout' = [payout EXCEPT ![c] = p]
  /\ UNCHANGED <<row, booked, lock, job, todo, legs, legWire, hooks, bounds>>

PayLost(c) ==
  /\ c \in payWire /\ payWire' = payWire \ {c}
  /\ UNCHANGED <<row, booked, lock, job, todo, legs, payout, legWire, hooks, bounds>>

\* The payout resolves; nothing says its webhook is ever delivered.
Resolve(c, p) ==
  /\ payout[c] = "processing"
  /\ payout' = [payout EXCEPT ![c] = p]
  /\ hooks' = hooks \cup {[conv |-> c, outcome |-> p, read |-> "no"]}
  /\ UNCHANGED <<row, booked, lock, job, todo, legs, legWire, payWire, bounds>>

\* recordConversionPayoutOutcome reads the row ...
HookReads(h) ==
  /\ h \in hooks /\ h.read = "no"
  /\ LET seen == [h EXCEPT !.read = IF status[h.conv] = "paid" THEN "paid" ELSE "owed"]
     IN  hooks' = (hooks \ {h}) \cup {seen}
  /\ UNCHANGED <<row, booked, lock, job, todo, legs, payout, legWire, payWire, bounds>>

\* ... and writes it unless it read "paid".
HookWrites(h) ==
  /\ h \in hooks /\ h.read # "no"
  /\ hooks' = hooks \ {h}
  /\ IF h.read = "paid" THEN UNCHANGED row
     ELSE Write(h.conv, IF h.outcome = "successful" THEN "paid" ELSE "payout_failed")
  /\ UNCHANGED <<booked, lock, job, todo, legs, payout, legWire, payWire, bounds>>

\* Ten minutes pass without a write to a row the loop looks for, its handler or a
\* call to Fincra still going or not.
Age(c) ==
  /\ c \in fresh /\ status[c] \in Owed \cup {"converting"}
  /\ fresh' = fresh \ {c}
  /\ UNCHANGED <<status, booked, lock, job, todo, fincra, bounds>>

Confirming(j) ==
  \/ Lock(j) \/ Refuse(j) \/ Check(j) \/ Claim(j)
  \/ Converts(j) \/ ConvertRefused(j) \/ ConvertUnknown(j) \/ MarkFailed(j)
  \/ MarkConverted(j) \/ Book(j) \/ BookFails(j)

Paying(w) ==
  \/ PayUp(w) \/ SendAnswered(w) \/ SendRefused(w) \/ SendUnknown(w)
  \/ Settle(w) \/ SettleFails(w) \/ MarkUnpaid(w)

Next ==
  \/ \E c \in Convs :
       \/ Quote(c) \/ \E j \in Jobs : Confirm(j, c)
       \/ LegArrives(c) \/ LegLost(c) \/ PayArrives(c) \/ PayLost(c)
       \/ Resolve(c, "successful") \/ Resolve(c, "failed") \/ Age(c)
  \/ \E j \in Jobs : Confirming(j)
  \/ \E w \in Workers : Paying(w) \/ Crash(w)
  \/ StartLoop \/ EndLoop \/ \E t \in todo : Look(t) \/ LookBlind(t)
  \/ \E h \in hooks : HookReads(h) \/ HookWrites(h)

Spec == Init /\ [][Next]_vars

\* A handler goes on or dies, the loop runs every five minutes and finishes its
\* rounds, Fincra's list can be read now and then, time passes, calls end.
FairSpec ==
  /\ Spec
  /\ WF_vars(StartLoop \/ EndLoop) /\ WF_vars(Paying(Cron))
  /\ \A j \in Jobs : WF_vars(Confirming(j) \/ Paying(j))
  /\ \A c \in Convs :
       /\ SF_vars(\E t \in todo : t.conv = c /\ Look(t))
       /\ WF_vars(Age(c)) /\ WF_vars(LegLost(c)) /\ WF_vars(PayLost(c))

-----------------------------------------------------------------------------
(* Properties *)

TypeOK ==
  /\ status \in [Convs -> Status] /\ fresh \subseteq Convs /\ booked \subseteq Convs
  /\ lock \in [Biz -> Jobs \cup {NoJob}]
  /\ job \in [Workers -> [pc: PCs, conv: Convs \cup {NoConv}, settled: BOOLEAN]]
  /\ todo \subseteq [conv: Convs, status: Status]
  /\ legs \subseteq Convs /\ payout \in [Convs -> Payout]
  /\ legWire \subseteq Convs /\ payWire \subseteq Convs /\ hooks \subseteq Hook
  /\ confirms \in Nat /\ faults \in Nat

\* Naira is only ever sent for euros Fincra has converted, whatever is retried.
NairaAfterEuros == \A c \in Convs : payout[c] # "none" \/ c \in payWire => c \in legs

\* A conversion Fincra has carried out, or may still carry out, is never offered
\* for confirmation again: its euros would be converted twice.
NotOfferedAgain == \A c \in legs \cup legWire : status[c] \notin {"none", "quoted"}

\* The merchant is told "paid" only when the naira has arrived: no race of the
\* handler, the loop and late webhooks reports a payout that is still out.
PaidMeansLanded == \A c \in Convs : status[c] = "paid" => payout[c] = "successful"

\* Concurrent confirmations never book more euros out than came in.
NotOverdrawn == \A b \in Biz : Spent(b) <= Received[b]

\* Naira that arrived is eventually reported paid, although its answer and its
\* webhook may be lost and stale answers may be written over the row.
LandedIsSeen == \A c \in Convs : payout[c] = "successful" ~> status[c] = "paid"

\* fcyConversion.js: when the conversion call fails, "Nothing was taken from your
\* balance".
FailedMeansUntouched == \A c \in Convs : status[c] = "failed" => c \notin legs

\* fincraReconcile.js: after "a crash or a Fincra error between 'converted' and
\* 'paid'" the loop "is the net that guarantees the naira still arrives": once the
\* euros are gone, Fincra gets the payout or the loop comes to ask for it.
NairaRequested ==
  \A c \in Convs :
    status[c] = "converted" ~>
      payout[c] # "none" \/ (job[Cron].pc = "send" /\ job[Cron].conv = c)

=============================================================================

---------------------------- MODULE StaffTransfers ----------------------------
(***************************************************************************)
(* Money leaving a business account: POST /transfers/send, the queue of    *)
(* staff transfers over their daily cap (hold, approve, reject, cancel),   *)
(* the shared executor and the two sweeps that tidy the queue.             *)
(*                                                                         *)
(* Requests are handled concurrently by Jobs (an Express handler in some   *)
(* instance of the server).  Every await of a handler is a step boundary;  *)
(* what one SQL statement does is one step.  withBusinessLock is modelled  *)
(* at the level of its advisory locks, not of the connections they pin.    *)
(*                                                                         *)
(* Data is abstracted: a client idempotency key stands for the whole       *)
(* transfer it was minted for (payee, bank, narration), amounts are small  *)
(* integers, and time counts ticks much longer than a bank call.           *)
(***************************************************************************)
EXTENDS Integers, Sequences, FiniteSets, Functions

CONSTANTS
  Keys,        \* client idempotency keys, one per intended transfer
  Intent,      \* [Keys -> [actor, biz, amount, internal]]
  Staff,       \* staff members; an actor outside Staff is the owner
  Owner,       \* the business owner
  Biz,         \* the owner's businesses
  Jobs,        \* request handlers that can be in flight at once
  NoJob,       \* "nobody holds this lock"
  Caps,        \* the daily caps an owner may grant
  NipFee,      \* what a NIP transfer costs on top of the amount
  Day,         \* 24 hours in ticks: cap window and approval TTL
  Stuck,       \* APPROVING_STUCK_MS in ticks
  AmlWindows,  \* set of [len, limit]: the business's velocity limits
  Horizon,     \* bound: the last tick
  MaxStarts,   \* bound: POSTs of /send and /approve
  MaxChanges,  \* bound: caps granted and staff removed
  MaxDrops     \* bound: lock connections dropped under a running handler

ASSUME KeysAssumption == Keys # {}
ASSUME NoJobAssumption == NoJob \notin Jobs
ASSUME OwnerAssumption == Owner \notin Staff
ASSUME IntentAssumption ==
  Intent \in [Keys -> [actor: Staff \cup {Owner}, biz: Biz, amount: Nat, internal: BOOLEAN]]
ASSUME NumbersAssumption ==
  /\ NipFee \in Nat /\ Day \in Nat /\ Stuck \in Nat
  /\ Horizon \in Nat /\ MaxStarts \in Nat /\ MaxChanges \in Nat /\ MaxDrops \in Nat
ASSUME CapsAssumption == Caps \subseteq Nat /\ 0 \in Caps
ASSUME WindowsAssumption == AmlWindows \subseteq [len: Nat, limit: Nat]

VARIABLES
  now,      \* the clock
  cap,      \* [Staff -> Caps]: StaffPermission.dailyTransferCap
  topCap,   \* [Staff -> Caps]: the highest cap ever granted (history)
  post,     \* [Staff -> {"employed", "leaving", "gone"}]
  lock,     \* [LockNames -> Jobs \cup {NoJob}]: advisory locks
  job,      \* [Jobs -> JobState]: the handlers in flight
  request,  \* [Keys -> RequestState]: StaffTransferRequest, by kbsa_ key
  rows,     \* set of money-out Transaction rows
  bank,     \* [Refs -> Nat]: payout calls the bank accepted for a reference
  swept,    \* references whose fee reached the fee account
  wire,     \* payout calls whose caller gave up before the answer
  told,     \* references a client was told "success" for (history)
  starts, changes, drops   \* counters for the bounds

vars == <<now, cap, topCap, post, lock, job, request, rows, bank, swept,
          wire, told, starts, changes, drops>>

money   == <<rows, bank, swept, wire>>
people  == <<cap, topCap, post>>
bounds  == <<starts, changes, drops>>

-----------------------------------------------------------------------------
(* Identifiers and record types *)

\* The payout reference a route hands the executor: kbtf_ for a direct send,
\* kbsa_ (the request's own key) for an approved one.
Refs == {"kbtf", "kbsa"} \X Keys

LockNames == Staff \cup Biz
Actor(k)  == Intent[k].actor
IsStaff(k) == Actor(k) \in Staff

PCs == {"idle", "lock", "claim", "aml", "cap", "exec", "bank", "fee", "book",
        "mark", "commit", "catch"}

JobState ==
  [pc: PCs, kind: {"send", "approve"}, key: Keys, cap: Nat,
   exempt: SUBSET Keys, fee: Nat, booked: BOOLEAN, ok: BOOLEAN, safe: BOOLEAN]

RequestState ==
  [status: {"none", "pending", "approving", "executed", "failed", "rejected",
            "cancelled", "expired"},
   expiresAt: Nat, decidedAt: Nat, txn: BOOLEAN]

Row == [ref: Refs, fee: Nat, date: Nat]

\* Statuses the schema calls terminal, and those that end without a payout.
Terminal  == {"executed", "failed", "rejected", "cancelled", "expired"}
Withdrawn == {"none", "rejected", "cancelled", "expired"}

RefOf(j) == <<IF job[j].kind = "send" THEN "kbtf" ELSE "kbsa", job[j].key>>
Locked(j) == {n \in LockNames : lock[n] = j}
Freed(j)  == [n \in LockNames |-> IF lock[n] = j THEN NoJob ELSE lock[n]]

\* computeTransferFee: a book transfer between two KashBook accounts is free.
FeeOf(k) == IF Intent[k].internal THEN 0 ELSE NipFee

Update(j, rec) == job' = [job EXCEPT ![j] = rec]

Go(j, pc) == Update(j, [job[j] EXCEPT !.pc = pc])

File(k, rec) == request' = [request EXCEPT ![k] = rec]

SetStatus(k, s, t) == File(k, [request[k] EXCEPT !.status = s, !.decidedAt = t])

-----------------------------------------------------------------------------
(* Initial states: nobody in flight, an empty queue, no staff cap granted  *)

Idle == [pc |-> "idle", kind |-> "send", key |-> CHOOSE k \in Keys : TRUE, cap |-> 0,
         exempt |-> {}, fee |-> 0, booked |-> FALSE, ok |-> FALSE, safe |-> FALSE]

NoRequest == [status |-> "none", expiresAt |-> 0, decidedAt |-> 0, txn |-> FALSE]

Init ==
  /\ now = 0
  /\ cap = [s \in Staff |-> 0] /\ topCap = cap
  /\ post = [s \in Staff |-> "employed"]
  /\ lock = [n \in LockNames |-> NoJob]
  /\ job = [j \in Jobs |-> Idle]
  /\ request = [k \in Keys |-> NoRequest]
  /\ rows = {} /\ bank = [r \in Refs |-> 0] /\ swept = {} /\ wire = {}
  /\ told = {} /\ starts = 0 /\ changes = 0 /\ drops = 0

-----------------------------------------------------------------------------
(* The two handlers that move money, up to the lock *)

\* POST /transfers/send: the cap is the one authMiddleware read with the user.
Post(j, k) ==
  /\ job[j].pc = "idle" /\ starts < MaxStarts
  /\ IsStaff(k) => post[Actor(k)] # "gone"
  /\ Update(j, [Idle EXCEPT !.pc = "lock", !.key = k,
                             !.cap = IF IsStaff(k) THEN cap[Actor(k)] ELSE 0])
  /\ starts' = starts + 1
  /\ UNCHANGED <<now, people, lock, request, money, told, changes, drops>>

IsLapsed(k) == request[k].status = "pending" /\ request[k].expiresAt <= now

\* POST /transfers/approvals/:id/approve, up to its wait for the lock.
Approve(j, k) ==
  /\ job[j].pc = "idle" /\ starts < MaxStarts
  /\ request[k].status = "pending" /\ ~IsLapsed(k)
  /\ starts' = starts + 1
  /\ IF post[Actor(k)] = "gone"
     THEN SetStatus(k, "rejected", now) /\ UNCHANGED job
     ELSE /\ Update(j, [Idle EXCEPT !.pc = "lock", !.kind = "approve", !.key = k])
          /\ UNCHANGED request
  /\ UNCHANGED <<now, people, lock, money, told, changes, drops>>

\* Mutant: the staff lock forgotten, as before the cap was made per-staff.
LocksBusinessOnly(j) == <<Intent[job[j].key].biz>>

\* Mutant: a staff send takes its own lock in place of the business's.
LocksActorInstead(j) ==
  LET k == job[j].key
  IN  IF job[j].kind = "send" /\ IsStaff(k) THEN <<Actor(k)>> ELSE <<Intent[k].biz>>

\* The advisory locks a handler takes, in order and in one transaction: a staff
\* send also locks its actor, an approval only the business.
LocksOf(j) ==
  LET k == job[j].key
  IN  IF job[j].kind = "send" /\ IsStaff(k)
      THEN <<Actor(k), Intent[k].biz>> ELSE <<Intent[k].biz>>

AcquireLock(j) ==
  LET n == Cardinality(Locked(j)) + 1
  IN  /\ job[j].pc = "lock"
      /\ lock[LocksOf(j)[n]] = NoJob
      /\ lock' = [lock EXCEPT ![LocksOf(j)[n]] = j]
      /\ Go(j, IF n < Len(LocksOf(j)) THEN "lock"
               ELSE IF job[j].kind = "approve" THEN "claim" ELSE "aml")
      /\ UNCHANGED <<now, people, request, money, told, bounds>>

\* An exception inside withBusinessLock rolls back, which frees the locks; the
\* send answers 400, the approval runs its catch block.
Throw(j, safe) ==
  /\ lock' = Freed(j)
  /\ Update(j, IF job[j].kind = "send" THEN Idle
               ELSE [Idle EXCEPT !.pc = "catch", !.kind = "approve",
                                 !.key = job[j].key, !.safe = safe])

\* Any query of the handler can fail: the lock wait hits statement_timeout, the
\* pool gives no client in time, a connection dies.  After the row is booked these
\* are the compliance flags, the request's final write and COMMIT.
DbError(j) ==
  /\ job[j].pc \in {"lock", "claim", "aml", "cap", "exec", "mark", "commit"}
  /\ Throw(j, FALSE)
  /\ UNCHANGED <<now, people, request, money, told, bounds>>

\* The connection that holds the locks dies under a handler that runs on: the
\* pool's error listeners log it, and Postgres frees the locks.
LockLost(j) ==
  /\ drops < MaxDrops /\ drops' = drops + 1
  /\ job[j].pc # "lock" /\ Locked(j) # {}
  /\ lock' = Freed(j)
  /\ UNCHANGED <<now, people, job, request, money, told, starts, changes>>

-----------------------------------------------------------------------------
(* Inside the lock: claim, limits, cap *)

\* Mutant: the claim writes the status name the schema's comment uses.
ClaimApproved(j) ==
  LET k == job[j].key
  IN  /\ job[j].pc = "claim" /\ request[k].status = "pending" /\ request[k].expiresAt > now
      /\ SetStatus(k, "approved", now)
      /\ Go(j, "aml")
      /\ UNCHANGED <<now, people, lock, money, told, bounds>>

\* The atomic claim: one guarded UPDATE, re-checking the expiry.
Claim(j) ==
  LET k == job[j].key
  IN  /\ job[j].pc = "claim"
      /\ IF request[k].status = "pending" /\ request[k].expiresAt > now
         THEN /\ SetStatus(k, "approving", now)
              /\ Go(j, "aml")
         ELSE Go(j, "commit") /\ UNCHANGED request
      /\ UNCHANGED <<now, people, lock, money, told, bounds>>

KeyOf(row) == row.ref[2]

\* Outbound history of a business since a given moment: amounts without fees.
SentSince(b, t) ==
  SumFunction([r \in {r \in rows : Intent[KeyOf(r)].biz = b /\ r.date >= t} |->
                 Intent[KeyOf(r)].amount])

WithinLimits(k) ==
  \A w \in AmlWindows :
    SentSince(Intent[k].biz, now - w.len) + Intent[k].amount <= w.limit

\* Requests the owner approved: staffSpendLast24h reads them first.
ApprovedFor(s) ==
  {k \in Keys : /\ Actor(k) = s
                /\ request[k].status = "executed" /\ request[k].txn
                /\ request[k].decidedAt >= now - Day}

\* runPreTransferChecks passes; a staff send then reads its exempt requests.
AmlPass(j) ==
  LET k == job[j].key
      capped == job[j].kind = "send" /\ IsStaff(k)
  IN  /\ job[j].pc = "aml" /\ WithinLimits(k)
      /\ Update(j, [job[j] EXCEPT !.pc = IF capped THEN "cap" ELSE "exec",
                                  !.exempt = IF capped THEN ApprovedFor(Actor(k)) ELSE {}])
      /\ UNCHANGED <<now, people, lock, request, money, told, bounds>>

\* A velocity limit, a freeze, a step-up code or a rule stops the transfer. An
\* approval puts its request back, whatever has become of it meanwhile.
AmlBlock(j) ==
  LET k == job[j].key
  IN  /\ job[j].pc = "aml"
      /\ IF job[j].kind = "approve"
         THEN SetStatus(k, "pending", 0)
         ELSE UNCHANGED request
      /\ Go(j, "commit")
      /\ UNCHANGED <<now, people, lock, money, told, bounds>>

\* staffSpendLast24h: what s moved in the trailing day and the owner did not approve.
StaffSpend(s, exempt) ==
  SumFunction([r \in {r \in rows : /\ Actor(KeyOf(r)) = s /\ r.date >= now - Day
                                    /\ ~(r.ref[1] = "kbsa" /\ KeyOf(r) \in exempt)} |->
                 Intent[KeyOf(r)].amount + r.fee])

\* decideStaffCap, with the worst-case fee.
CapAllows(j) ==
  LET k == job[j].key
  IN  StaffSpend(Actor(k), job[j].exempt) + Intent[k].amount + NipFee <= job[j].cap

Decided(j, pc) == Update(j, [job[j] EXCEPT !.pc = pc, !.cap = 0, !.exempt = {}])

CapPass(j) ==
  /\ job[j].pc = "cap" /\ CapAllows(j)
  /\ Decided(j, "exec")
  /\ UNCHANGED <<now, people, lock, request, money, told, bounds>>

\* Mutant: a retry re-opens a request that was already decided.
HoldUpserts(j) ==
  LET k == job[j].key
  IN  /\ job[j].pc = "cap" /\ ~CapAllows(j)
      /\ File(k, [NoRequest EXCEPT !.status = "pending", !.expiresAt = now + Day])
      /\ Decided(j, "commit")
      /\ UNCHANGED <<now, people, lock, money, told, bounds>>

\* Over the cap: park the transfer.  The same intent still pending is reused; a
\* decided one keeps its unique key, so the insert fails and the send answers 400.
Hold(j) ==
  LET k == job[j].key
  IN  /\ job[j].pc = "cap" /\ ~CapAllows(j)
      /\ \/ /\ request[k].status = "none"
            /\ File(k, [NoRequest EXCEPT !.status = "pending", !.expiresAt = now + Day])
            /\ Decided(j, "commit")
            /\ UNCHANGED lock
         \/ /\ request[k].status = "pending"
            /\ Decided(j, "commit")
            /\ UNCHANGED <<request, lock>>
         \/ /\ request[k].status \notin {"none", "pending"}
            /\ Throw(j, FALSE)
            /\ UNCHANGED request
      /\ UNCHANGED <<now, people, money, told, bounds>>

-----------------------------------------------------------------------------
(* executeTransfer: the money moves *)

Booked(ref) == \E r \in rows : r.ref = ref

AfterBook(j) == IF job[j].kind = "approve" THEN "mark" ELSE "commit"

\* The reference already has a row: success without calling the bank.
IdempotentSkip(j) ==
  /\ job[j].pc = "exec" /\ Booked(RefOf(j))
  /\ Update(j, [job[j] EXCEPT !.pc = AfterBook(j), !.booked = TRUE, !.ok = TRUE])
  /\ UNCHANGED <<now, people, lock, request, money, told, bounds>>

\* A refusal before the payout call, stamped moneyMoved:false: not enough
\* spendable balance, an unverified recipient, an unknown bank.
RefuseEarly(j) ==
  /\ job[j].pc = "exec" /\ ~Booked(RefOf(j))
  /\ Throw(j, TRUE)
  /\ UNCHANGED <<now, people, request, money, told, bounds>>

StartPayout(j) ==
  /\ job[j].pc = "exec" /\ ~Booked(RefOf(j))
  /\ Go(j, "bank")
  /\ UNCHANGED <<now, people, lock, request, money, told, bounds>>

\* The bank took the payout (or answers for the one it took before: it does
\* not repeat a reference) and the handler has the answer.
BankAccepts(j) ==
  /\ job[j].pc = "bank"
  /\ bank' = [bank EXCEPT ![RefOf(j)] = @ + 1]
  /\ Go(j, IF FeeOf(job[j].key) > 0 THEN "fee" ELSE "book")
  /\ UNCHANGED <<now, people, lock, request, rows, swept, wire, told, bounds>>

\* A definite rejection: only the NIP branch stamps moneyMoved:false on it.
BankRefuses(j) ==
  /\ job[j].pc = "bank"
  /\ Throw(j, ~Intent[job[j].key].internal)
  /\ UNCHANGED <<now, people, request, money, told, bounds>>

\* Mutant: an unknown outcome is taken for success.
BankAssumed(j) ==
  /\ job[j].pc = "bank"
  /\ wire' = wire \cup {RefOf(j)} /\ Go(j, "book")
  /\ UNCHANGED <<now, people, lock, request, rows, bank, swept, told, bounds>>

\* Mutant: every error of the bank call is stamped moneyMoved:false.
BankUnknownSafe(j) ==
  /\ job[j].pc = "bank"
  /\ wire' = wire \cup {RefOf(j)}
  /\ Throw(j, TRUE)
  /\ UNCHANGED <<now, people, request, rows, bank, swept, told, bounds>>

\* A timeout, a reset or a 5xx: the handler gives up on a call still on the wire.
BankUnknown(j) ==
  /\ job[j].pc = "bank"
  /\ wire' = wire \cup {RefOf(j)}
  /\ Throw(j, FALSE)
  /\ UNCHANGED <<now, people, request, rows, bank, swept, told, bounds>>

WireArrives(ref) ==
  /\ ref \in wire
  /\ wire' = wire \ {ref} /\ bank' = [bank EXCEPT ![ref] = @ + 1]
  /\ UNCHANGED <<now, people, lock, job, request, rows, swept, told, bounds>>

WireLost(ref) ==
  /\ ref \in wire
  /\ wire' = wire \ {ref}
  /\ UNCHANGED <<now, people, lock, job, request, rows, bank, swept, told, bounds>>

\* Mutant: every failed sweep is booked as uncollected, the unknown ones too.
SweepFeeUnbooked(j) ==
  /\ job[j].pc = "fee"
  /\ \E fee \in {0, NipFee} :
       /\ swept' = swept \cup {RefOf(j)}
       /\ Update(j, [job[j] EXCEPT !.pc = "book", !.fee = fee])
  /\ UNCHANGED <<now, people, lock, request, rows, bank, wire, told, bounds>>

\* The fee's own book transfer.  Refused: the fee is not booked.  Unknown: it is
\* booked in full whether or not it moved.
SweepFee(j) ==
  /\ job[j].pc = "fee"
  /\ \/ swept' = swept \cup {RefOf(j)} /\ Update(j, [job[j] EXCEPT !.pc = "book", !.fee = NipFee])
     \/ UNCHANGED swept /\ Update(j, [job[j] EXCEPT !.pc = "book", !.fee = NipFee])
     \/ /\ RefOf(j) \notin swept /\ UNCHANGED swept
        /\ Update(j, [job[j] EXCEPT !.pc = "book", !.fee = 0])
  /\ UNCHANGED <<now, people, lock, request, rows, bank, wire, told, bounds>>

\* The bookkeeping row; the pair (business, reference) is unique.
BookRow(j) ==
  /\ job[j].pc = "book" /\ ~Booked(RefOf(j))
  /\ rows' = rows \cup {[ref |-> RefOf(j), fee |-> job[j].fee, date |-> now]}
  /\ Update(j, [job[j] EXCEPT !.pc = AfterBook(j), !.booked = TRUE, !.ok = TRUE, !.fee = 0])
  /\ UNCHANGED <<now, people, lock, request, bank, swept, wire, told, bounds>>

\* The insert fails after the money moved: success is reported without a row.
BookFails(j) ==
  /\ job[j].pc = "book"
  /\ Update(j, [job[j] EXCEPT !.pc = AfterBook(j), !.ok = TRUE, !.fee = 0])
  /\ UNCHANGED <<now, people, lock, request, money, told, bounds>>

\* The approval's final write is not guarded on the status.
MarkExecuted(j) ==
  /\ job[j].pc = "mark"
  /\ File(job[j].key, [request[job[j].key] EXCEPT !.status = "executed", !.txn = job[j].booked])
  /\ Go(j, "commit")
  /\ UNCHANGED <<now, people, lock, money, told, bounds>>

\* COMMIT frees the locks and the client gets its answer; it fails when the
\* connection that held them is gone.
Commit(j) ==
  LET k == job[j].key
  IN  /\ job[j].pc = "commit"
      /\ IF Locked(j) = {}
         THEN Throw(j, FALSE) /\ UNCHANGED told
         ELSE /\ lock' = Freed(j)
              /\ Update(j, Idle)
              /\ told' = IF job[j].ok THEN told \cup {RefOf(j)} ELSE told
      /\ UNCHANGED <<now, people, request, money, bounds>>

\* Mutant: every failed approval goes back to the queue.
CatchRequeues(j) ==
  LET k == job[j].key
  IN  /\ job[j].pc = "catch"
      /\ IF request[k].status # "approving" THEN UNCHANGED request
         ELSE SetStatus(k, "pending", 0)
      /\ Update(j, Idle)
      /\ UNCHANGED <<now, people, lock, money, told, bounds>>

\* The approve route's catch block: guarded on "approving", back to the queue
\* only when no money can have moved.
Catch(j) ==
  LET k == job[j].key
  IN  /\ job[j].pc = "catch"
      /\ IF request[k].status # "approving" THEN UNCHANGED request
         ELSE IF job[j].safe
         THEN SetStatus(k, "pending", 0)
         ELSE SetStatus(k, "failed", request[k].decidedAt)
      /\ Update(j, Idle)
      /\ UNCHANGED <<now, people, lock, money, told, bounds>>

\* The process dies; Postgres frees its locks.  A bank call it was in may
\* still be on the wire, a fee transfer may have gone through.
Crash(j) ==
  /\ job[j].pc # "idle"
  /\ lock' = Freed(j)
  /\ Update(j, Idle)
  /\ wire' = IF job[j].pc = "bank" THEN wire \cup {RefOf(j)} ELSE wire
  /\ swept' \in IF job[j].pc = "fee" THEN {swept, swept \cup {RefOf(j)}} ELSE {swept}
  /\ UNCHANGED <<now, people, request, rows, bank, told, bounds>>

-----------------------------------------------------------------------------
(* The queue's other writers, the owner's settings and the clock *)

\* Mutant: a reject that does not mind an approval in flight.
WithdrawAnytime(k, s) ==
  /\ request[k].status \in {"pending", "approving"}
  /\ SetStatus(k, s, now)
  /\ UNCHANGED <<now, people, lock, job, money, told, bounds>>

\* POST .../reject by the owner and .../cancel by the requester.
Withdraw(k, s) ==
  /\ request[k].status = "pending"
  /\ s = "cancelled" => post[Actor(k)] # "gone"
  /\ SetStatus(k, s, now)
  /\ UNCHANGED <<now, people, lock, job, money, told, bounds>>

\* expireStaleRequests lapses what nobody decided in time ...
ExpireStale ==
  LET stale == {k \in Keys : IsLapsed(k)}
  IN  /\ stale # {}
      /\ request' = [k \in Keys |-> IF k \in stale
                       THEN [request[k] EXCEPT !.status = "expired", !.decidedAt = now]
                       ELSE request[k]]
      /\ UNCHANGED <<now, people, lock, job, money, told, bounds>>

\* ... and sweepStuckApprovals parks approvals that look interrupted.
IsStuck(k) == request[k].status = "approving" /\ request[k].decidedAt + Stuck <= now

\* Mutant: an early return skips the sweep when nothing has expired.
SweepAfterExpiry ==
  /\ \E k \in Keys : IsLapsed(k)
  /\ \E k \in Keys : IsStuck(k)
  /\ request' = [k \in Keys |-> IF IsStuck(k) THEN [request[k] EXCEPT !.status = "failed"]
                                ELSE request[k]]
  /\ UNCHANGED <<now, people, lock, job, money, told, bounds>>

SweepStuck ==
  /\ \E k \in Keys : IsStuck(k)
  /\ request' = [k \in Keys |-> IF IsStuck(k) THEN [request[k] EXCEPT !.status = "failed"]
                                ELSE request[k]]
  /\ UNCHANGED <<now, people, lock, job, money, told, bounds>>

\* The owner names a new daily limit.
Grant(s, c) ==
  /\ changes < MaxChanges /\ changes' = changes + 1
  /\ post[s] = "employed" /\ cap[s] # c
  /\ cap' = [cap EXCEPT ![s] = c]
  /\ topCap' = [topCap EXCEPT ![s] = IF c > @ THEN c ELSE @]
  /\ UNCHANGED <<now, post, lock, job, request, money, told, starts, drops>>

\* DELETE /auth/staff/:id cancels what waits in the queue, then deletes the user.
RemoveStaff(s) ==
  /\ changes < MaxChanges /\ changes' = changes + 1
  /\ post[s] = "employed"
  /\ post' = [post EXCEPT ![s] = "leaving"]
  /\ request' = [k \in Keys |-> IF Actor(k) = s /\ request[k].status = "pending"
                   THEN [request[k] EXCEPT !.status = "cancelled", !.decidedAt = now]
                   ELSE request[k]]
  /\ UNCHANGED <<now, cap, topCap, lock, job, money, told, starts, drops>>

DeleteStaff(s) ==
  /\ post[s] = "leaving"
  /\ post' = [post EXCEPT ![s] = "gone"]
  /\ UNCHANGED <<now, cap, topCap, lock, job, request, money, told, bounds>>

\* A tick is longer than a bank call: nothing stays on the wire across one.
Tick ==
  /\ now < Horizon /\ wire = {}
  /\ now' = now + 1
  /\ UNCHANGED <<people, lock, job, request, money, told, bounds>>

Next ==
  \/ \E j \in Jobs, k \in Keys : Post(j, k) \/ Approve(j, k)
  \/ \E j \in Jobs :
       \/ AcquireLock(j) \/ DbError(j) \/ LockLost(j) \/ Claim(j)
       \/ AmlPass(j) \/ AmlBlock(j) \/ CapPass(j) \/ Hold(j)
       \/ IdempotentSkip(j) \/ RefuseEarly(j) \/ StartPayout(j)
       \/ BankAccepts(j) \/ BankRefuses(j) \/ BankUnknown(j)
       \/ SweepFee(j) \/ BookRow(j) \/ BookFails(j) \/ MarkExecuted(j)
       \/ Commit(j) \/ Catch(j) \/ Crash(j)
  \/ \E r \in Refs : WireArrives(r) \/ WireLost(r)
  \/ \E k \in Keys : Withdraw(k, "rejected") \/ Withdraw(k, "cancelled")
  \/ ExpireStale \/ SweepStuck
  \/ \E s \in Staff : RemoveStaff(s) \/ DeleteStaff(s) \/ \E c \in Caps : Grant(s, c)
  \/ Tick

Spec == Init /\ [][Next]_vars

\* The 15-minute cron runs and time passes.  Nothing else is promised: a
\* handler may stop at any step.
FairSpec == Spec /\ WF_vars(Tick) /\ WF_vars(SweepStuck)
                 /\ \A r \in Refs : WF_vars(WireLost(r) \/ WireArrives(r))

-----------------------------------------------------------------------------
(* Properties *)

TypeOK ==
  /\ now \in Nat
  /\ cap \in [Staff -> Nat] /\ topCap \in [Staff -> Nat]
  /\ post \in [Staff -> {"employed", "leaving", "gone"}]
  /\ lock \in [LockNames -> Jobs \cup {NoJob}]
  /\ job \in [Jobs -> JobState]
  /\ request \in [Keys -> RequestState]
  /\ rows \subseteq Row
  /\ bank \in [Refs -> Nat]
  /\ swept \subseteq Refs /\ wire \subseteq Refs /\ told \subseteq Refs
  /\ starts \in Nat /\ changes \in Nat /\ drops \in Nat

\* The queue seen from outside: its statuses and what the bank did about them.
Queue == INSTANCE PayoutQueue WITH
           status <- [k \in Keys |-> request[k].status],
           paid <- [k \in Keys |-> bank[<<"kbsa", k>>]]

\* The handlers, their locks and the sweeps implement the queue's promise.
RefinesQueue == Queue!Spec

\* A transfer the owner approved reaches the bank at most once, without
\* counting on the bank to recognise the repeated reference, whatever double
\* taps, lock timeouts, lost answers, sweeps and crashes happen on the way.
HeldPaidOnce == \A k \in Keys : bank[<<"kbsa", k>>] <= 1

\* A request that was rejected, cancelled, expired or is still waiting has not
\* been paid and no call for it is on its way.
WithdrawnNeverPaid ==
  \A k \in Keys : request[k].status \in Withdrawn \cup {"pending"} =>
    bank[<<"kbsa", k>>] = 0 /\ <<"kbsa", k>> \notin wire

\* "executed" and a success answer are only ever given for money that moved.
SuccessIsBanked ==
  /\ \A k \in Keys : request[k].status = "executed" => bank[<<"kbsa", k>>] > 0
  /\ \A r \in told : bank[r] > 0

\* Every row stands for money that left, and books at least the fee the bank took.
BooksCoverBank ==
  \A r \in rows : bank[r.ref] > 0 /\ (r.ref \in swept => r.fee = FeeOf(KeyOf(r)))

\* How far a handler that claimed k is with it: "before" while the bank has not
\* been heard of it and the handler may still put it back, "after" once it is paid.
Phase(x, k) ==
  IF x.kind = "send" \/ x.key # k THEN "none"
  ELSE IF x.pc \in {"aml", "exec", "bank"} \/ (x.pc = "catch" /\ x.safe) THEN "before"
  ELSE IF x.pc \in {"fee", "book", "mark"} THEN "after"
  ELSE "none"

Claimed(j, k) == Phase(job[j], k) # "none"

ClaimOK(k) ==
  /\ \A i, j \in Jobs : Claimed(i, k) /\ Claimed(j, k) => i = j
  /\ \A j \in Jobs :
       /\ Claimed(j, k) => /\ request[k].status \in {"approving", "failed"}
                           /\ <<"kbsa", k>> \notin wire
       /\ Phase(job[j], k) = "before" => bank[<<"kbsa", k>>] = 0
       /\ Phase(job[j], k) = "after" => bank[<<"kbsa", k>>] = 1
  /\ request[k].status \in Withdrawn \cup {"pending"} =>
       bank[<<"kbsa", k>>] = 0 /\ <<"kbsa", k>> \notin wire
  /\ request[k].status = "executed" => bank[<<"kbsa", k>>] = 1
  /\ <<"kbsa", k>> \in wire => bank[<<"kbsa", k>>] = 0
  /\ bank[<<"kbsa", k>>] <= 1

\* Why a held transfer is paid once: its claim has one owner at a time, even when
\* the lock under it is lost or its request was parked as failed meanwhile, and
\* nobody owns it while a call is on the wire.  The locks are not needed for this.
ClaimInv == \A k \in Keys : ClaimOK(k)

\* Which steps belong to which handler.
InRole(x) ==
  /\ x.pc \in {"claim", "mark", "catch"} => x.kind = "approve"
  /\ x.pc = "cap" => x.kind = "send"

\* Why success means money: it is reported only on the way down from an accepted
\* call or from a row, and rows are written only there.
BankedInv ==
  /\ \A j \in Jobs :
       /\ job[j].pc \in {"fee", "book", "mark"} \/ job[j].ok => bank[RefOf(j)] > 0
       /\ InRole(job[j])
  /\ \A r \in rows : bank[r.ref] > 0
  /\ \A k \in Keys : request[k].status = "executed" => bank[<<"kbsa", k>>] > 0
  /\ \A r \in told : bank[r] > 0

\* What s sent in the trailing day and nobody approved.
Unsupervised(s) ==
  SumFunction([r \in {r \in rows : r.ref[1] = "kbtf" /\ Actor(KeyOf(r)) = s /\ r.date >= now - Day} |->
                 Intent[KeyOf(r)].amount + r.fee])

\* Unsupervised spend of a staff member, over all businesses, stays within the
\* highest cap the owner ever named for them.
CapHonoured == \A s \in Staff : Unsupervised(s) <= topCap[s]

\* What a business sent in each rolling window stays within its velocity limit.
AmlHonoured == \A b \in Biz, w \in AmlWindows : SentSince(b, now - w.len) <= w.limit

\* A send of a staff member: their cap applies to it, and their own lock.
UnderCap(j, k) == job[j].kind = "send" /\ IsStaff(k)

\* The locks a handler of k has at each of its steps.
LocksHeld(j, k) ==
  /\ job[j].pc \in {"idle", "catch"} => Locked(j) = {}
  /\ job[j].pc = "lock" => Locked(j) = {} \/ (UnderCap(j, k) /\ Locked(j) = {Actor(k)})
  /\ job[j].pc \notin {"idle", "catch", "lock"} =>
       lock[Intent[k].biz] = j /\ (UnderCap(j, k) => lock[Actor(k)] = j)

\* What a handler of k has established under its locks, and relies on until it books.
Cleared(j, k) ==
  LET pc == job[j].pc
  IN  /\ IF pc = "book" THEN job[j].fee \in {0, NipFee} ELSE job[j].fee = 0
      /\ pc \in {"bank", "fee", "book"} => ~Booked(RefOf(j))
      /\ pc = "fee" => FeeOf(k) = NipFee
      /\ pc = "book" /\ RefOf(j) \in swept => job[j].fee = FeeOf(k)
      /\ pc \in {"cap", "exec", "bank", "fee", "book"} => WithinLimits(k)
      /\ UnderCap(j, k) /\ pc \in {"lock", "aml", "cap"} => job[j].cap <= topCap[Actor(k)]
      /\ UnderCap(j, k) /\ pc \in {"exec", "bank", "fee", "book"} =>
           Unsupervised(Actor(k)) + Intent[k].amount + NipFee <= topCap[Actor(k)]

LimitsKept ==
  /\ \A j \in Jobs, k \in Keys : job[j].key = k => LocksHeld(j, k) /\ Cleared(j, k)
  /\ IsFiniteSet(rows) /\ \A s \in Staff : cap[s] <= topCap[s]
  /\ CapHonoured /\ AmlHonoured
  /\ \A r \in rows : r.ref \in swept => r.fee = FeeOf(KeyOf(r))

\* Why the limits hold under concurrent sends: whoever has passed a limit keeps the
\* lock under which that limit's rows are written, so what was free when it looked
\* is free when it books.  A connection that drops a lock ends this.
LimitsInv == drops = 0 => LimitsKept

\* schema.prisma: "Terminal states are never revisited".
TerminalStable ==
  [][\A k \in Keys : request[k].status \in Terminal => request'[k].status = request[k].status]_vars

\* A retried POST never pays the same beneficiary twice, once directly and once
\* through the queue.
IntentPaidOnce == \A k \in Keys : bank[<<"kbtf", k>>] = 0 \/ bank[<<"kbsa", k>>] = 0

\* executeTransfer.js: once the money has moved, failing to keep the books about
\* it "must not bubble up as a transfer failure".
BookedNotFailed ==
  [][\A j \in Jobs : job[j].kind = "approve" /\ job[j].booked => job'[j].pc # "catch"]_vars

\* No request stays "approving" forever: the sweep parks it.
ApprovalsEnd ==
  \A k \in Keys :
    (request[k].status = "approving" /\ request[k].decidedAt + Stuck <= Horizon)
      ~> request[k].status # "approving"

=============================================================================

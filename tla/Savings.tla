------------------------------- MODULE Savings -------------------------------
(***************************************************************************)
(* Savings pots of one business (utils/savings.js): deposits, withdrawals,  *)
(* closing and re-locking a pot, the fee a movement carries and the loop    *)
(* that sweeps fees still waiting (savingsReconcile.js), against the sends  *)
(* that spend from the same bank account (executeTransfer.js).              *)
(*                                                                         *)
(* A pot moves no money: its balance is a reserve every spend subtracts.    *)
(* Every write to a pot and every spend holds the business lock; each await *)
(* in between is a step.  What a send does besides is in StaffTransfers.    *)
(***************************************************************************)
EXTENDS Integers, FiniteSets, Functions

CONSTANTS
  Pots,
  Keys,        \* client idempotency keys, one per movement or send
  Ask,         \* [Keys -> [op, pot, amount]]: what each key asks for
  DepositFee, BreakFee,
  Deposited,   \* what the account holds at first
  Jobs,        \* request handlers that can be in flight at once
  Cron,        \* the reconcile loop (one instance at a time, lock 4014)
  NoJob,       \* "nobody holds the business lock"
  Horizon,     \* bound: the last day
  MaxStarts,   \* bound: requests
  MaxFaults,   \* bound: workers that die, calls given up on, failed inserts
  MaxCredits   \* bound: money received later

ASSUME KeysAssumption == Keys # {} /\ Pots # {} /\ IsFiniteSet(Keys) /\ IsFiniteSet(Pots)
ASSUME AskAssumption ==
  Ask \in [Keys -> [op: {"deposit", "withdraw", "send"}, pot: Pots, amount: Nat \ {0}]]
ASSUME NumbersAssumption ==
  /\ DepositFee \in Nat /\ BreakFee \in Nat /\ Deposited \in Nat
  /\ Horizon \in Nat /\ MaxStarts \in Nat /\ MaxFaults \in Nat /\ MaxCredits \in Nat
ASSUME WorkersAssumption == Cron \notin Jobs /\ NoJob \notin Jobs \cup {Cron}

VARIABLES
  now,      \* days
  pot,      \* [Pots -> Pot]
  held,     \* [Pots -> Nat]: the day money in the pot was last promised to stay to (history)
  move,     \* [Keys -> Movement]: SavingsMovement, by reference
  feeRows,  \* movements whose fee has a ledger row
  gross,    \* the bank's available balance
  taken,    \* [Keys -> Nat]: fee transfers the bank accepted for a movement
  sent,     \* sends the bank accepted; it knows them by reference
  wire,     \* calls whose caller gave up before the answer: [what, key]
  late,     \* money that left after its caller had given up (history)
  lock,     \* withBusinessLock
  job,      \* [Workers -> [pc, op, key, pot, until, mode, fee]]
  todo,     \* fees the loop still has to look at
  starts, faults, credits   \* counters for the bounds

vars == <<now, pot, held, move, feeRows, gross, taken, sent, wire, late, lock, job, todo,
          starts, faults, credits>>

bank   == <<gross, taken, sent, wire, late>>
books  == <<pot, held, move, feeRows>>
bounds == <<starts, faults, credits>>

-----------------------------------------------------------------------------
Workers == Jobs \cup {Cron}
Modes   == {"strict", "flexible"}    \* Unbreakable, Breakable
PCs     == {"idle", "lock", "gate", "save", "fee", "claim", "sweep", "row", "pay", "loop"}
Ops     == {"deposit", "withdraw", "send", "close", "relock", "sweep"}

Pot      == [status: {"none", "active", "closed"}, balance: Nat, until: Nat, mode: Modes]
Movement == [done: BOOLEAN, fee: Nat, claimed: BOOLEAN]
Call     == [what: {"send", "fee"}, key: Keys]

Idle == [pc |-> "idle", op |-> "send", key |-> CHOOSE k \in Keys : TRUE,
         pot |-> CHOOSE p \in Pots : TRUE, until |-> 0, mode |-> "flexible", fee |-> 0]

Init ==
  /\ now = 0
  /\ pot = [p \in Pots |-> [status |-> "none", balance |-> 0, until |-> 0, mode |-> "flexible"]]
  /\ held = [p \in Pots |-> 0]
  /\ move = [k \in Keys |-> [done |-> FALSE, fee |-> 0, claimed |-> FALSE]]
  /\ feeRows = {} /\ gross = Deposited /\ taken = [k \in Keys |-> 0]
  /\ sent = {} /\ wire = {} /\ late = 0
  /\ lock = NoJob /\ job = [w \in Workers |-> Idle] /\ todo = {}
  /\ starts = 0 /\ faults = 0 /\ credits = 0

Amount(w) == Ask[job[w].key].amount

Active == {p \in Pots : pot[p].status = "active"}

\* getReservedBalance, netSpendable: what the bank holds and no pot has set aside.
Reserved == SumFunction([p \in Active |-> pot[p].balance])
Spendable == IF gross > Reserved THEN gross - Reserved ELSE 0

IsLocked(p) == pot[p].until > now

\* Money in a pot is promised to stay until the pot's day; so is an empty
\* Unbreakable pot.  Closing or emptying a Breakable one ends the promise.
Promise(p, q) ==
  IF q.status = "active" /\ (q.balance > 0 \/ q.mode = "strict")
  THEN (IF q.until > held[p] THEN q.until ELSE held[p]) ELSE 0

SetPot(p, q) ==
  /\ pot' = [pot EXCEPT ![p] = q]
  /\ held' = [held EXCEPT ![p] = Promise(p, q)]

Go(w, pc) == job' = [job EXCEPT ![w].pc = pc]

Freed(w) == IF lock = w THEN NoJob ELSE lock

\* A handler is through; the loop goes on with its list.
Finish(w) ==
  /\ lock' = Freed(w)
  /\ job' = [job EXCEPT ![w] = IF w = Cron THEN [Idle EXCEPT !.pc = "loop"] ELSE Idle]

-----------------------------------------------------------------------------
(* Requests *)

\* createPot: every pot has a day and a mode; no lock is taken.
Create(p, until, mode) ==
  /\ pot[p].status = "none" /\ until > now
  /\ SetPot(p, [status |-> "active", balance |-> 0, until |-> until, mode |-> mode])
  /\ UNCHANGED <<now, move, feeRows, bank, lock, job, todo, bounds>>

Start(j, rec) ==
  /\ job[j].pc = "idle" /\ starts < MaxStarts
  /\ job' = [job EXCEPT ![j] = rec]
  /\ starts' = starts + 1
  /\ UNCHANGED <<now, books, bank, lock, todo, faults, credits>>

Request(j, k) ==
  Start(j, [Idle EXCEPT !.pc = "lock", !.op = Ask[k].op, !.key = k, !.pot = Ask[k].pot])

Close(j, p) == Start(j, [Idle EXCEPT !.pc = "lock", !.op = "close", !.pot = p])

Relock(j, p, until, mode) ==
  Start(j, [Idle EXCEPT !.pc = "lock", !.op = "relock", !.pot = p, !.until = until, !.mode = mode])

Acquire(w) ==
  /\ job[w].pc = "lock" /\ lock = NoJob
  /\ lock' = w
  /\ Go(w, IF w = Cron THEN "fee" ELSE "gate")
  /\ UNCHANGED <<now, books, bank, todo, bounds>>

\* The wait for the lock times out, the key was used before, the account is
\* frozen, the bank cannot be read, the owner has not confirmed, or the gate says no.
Refuse(w) ==
  /\ job[w].pc \in {"lock", "gate"}
  /\ Finish(w)
  /\ UNCHANGED <<now, books, bank, todo, bounds>>

Gate(j, op) == job[j].pc = "gate" /\ job[j].op = op

PassGate(j, pc, fee) ==
  /\ job' = [job EXCEPT ![j].pc = pc, ![j].fee = fee]
  /\ UNCHANGED <<now, books, bank, lock, todo, bounds>>

\* The amount and the fee on top must be free.
GateDeposit(j) ==
  /\ Gate(j, "deposit") /\ pot[job[j].pot].status = "active" /\ ~move[job[j].key].done
  /\ Amount(j) + DepositFee <= Spendable
  /\ PassGate(j, "save", DepositFee)

\* lockAllows: an Unbreakable pot stays shut, an early withdrawal costs a fee.
GateWithdraw(j) ==
  LET p == job[j].pot
  IN  /\ Gate(j, "withdraw") /\ pot[p].status = "active" /\ ~move[job[j].key].done
      /\ IsLocked(p) => pot[p].mode = "flexible"
      /\ PassGate(j, "save", IF IsLocked(p) THEN BreakFee ELSE 0)

\* Mutant: the send looks at what the bank holds.
GateSendGross(j) ==
  /\ Gate(j, "send") /\ Amount(j) <= gross
  /\ PassGate(j, "pay", 0)

GateSend(j) ==
  /\ Gate(j, "send") /\ Amount(j) <= Spendable
  /\ PassGate(j, "pay", 0)

\* Mutant: a pot is closed whatever it holds.
GateCloseAny(j) ==
  /\ Gate(j, "close") /\ pot[job[j].pot].status = "active"
  /\ PassGate(j, "save", 0)

GateClose(j) ==
  /\ Gate(j, "close") /\ pot[job[j].pot].status = "active" /\ pot[job[j].pot].balance = 0
  /\ PassGate(j, "save", 0)

\* Mutant: only an Unbreakable pot keeps its day.
GateRelockStrict(j) ==
  LET p == job[j].pot  unbreakable == IsLocked(p) /\ pot[p].mode = "strict"
  IN  /\ Gate(j, "relock") /\ pot[p].status = "active" /\ job[j].until > now
      /\ unbreakable => job[j].mode = "strict" /\ job[j].until >= pot[p].until
      /\ PassGate(j, "save", 0)

\* updatePot: until a pot opens, its day only moves later when it is Unbreakable
\* (which it then stays) or holds money.
GateRelock(j) ==
  LET p == job[j].pot  unbreakable == IsLocked(p) /\ pot[p].mode = "strict"
  IN  /\ Gate(j, "relock") /\ pot[p].status = "active" /\ job[j].until > now
      /\ unbreakable => job[j].mode = "strict"
      /\ unbreakable \/ (IsLocked(p) /\ pot[p].balance > 0) => job[j].until >= pot[p].until
      /\ PassGate(j, "save", 0)

-----------------------------------------------------------------------------
(* The writes: each one database transaction, guarded on an active pot *)

Record(k, fee) == move' = [move EXCEPT ![k] = [done |-> TRUE, fee |-> fee, claimed |-> FALSE]]

SaveDeposit(j) ==
  LET p == job[j].pot
  IN  /\ job[j].pc = "save" /\ job[j].op = "deposit" /\ pot[p].status = "active"
      /\ SetPot(p, [pot[p] EXCEPT !.balance = @ + Amount(j)])
      /\ Record(job[j].key, job[j].fee)
      /\ IF job[j].fee > 0 THEN Go(j, "fee") /\ UNCHANGED lock ELSE Finish(j)
      /\ UNCHANGED <<now, feeRows, bank, todo, bounds>>

\* Mutant: the balance is not part of the claim.
SaveWithdrawalAny(j) ==
  LET p == job[j].pot
  IN  /\ job[j].pc = "save" /\ job[j].op = "withdraw" /\ pot[p].status = "active"
      /\ SetPot(p, [pot[p] EXCEPT !.balance = @ - Amount(j)])
      /\ Record(job[j].key, job[j].fee)
      /\ IF job[j].fee > 0 THEN Go(j, "fee") /\ UNCHANGED lock ELSE Finish(j)
      /\ UNCHANGED <<now, feeRows, bank, todo, bounds>>

SaveWithdrawal(j) ==
  LET p == job[j].pot
  IN  /\ job[j].pc = "save" /\ job[j].op = "withdraw"
      /\ pot[p].status = "active" /\ Amount(j) <= pot[p].balance
      /\ SetPot(p, [pot[p] EXCEPT !.balance = @ - Amount(j)])
      /\ Record(job[j].key, job[j].fee)
      /\ IF job[j].fee > 0 THEN Go(j, "fee") /\ UNCHANGED lock ELSE Finish(j)
      /\ UNCHANGED <<now, feeRows, bank, todo, bounds>>

\* The claim finds no row: "this pot has ...", "pot changed".
SaveRefused(j) ==
  LET p == job[j].pot
  IN  /\ job[j].pc = "save" /\ job[j].op # "relock"
      /\ pot[p].status # "active" \/ (job[j].op = "withdraw" /\ pot[p].balance < Amount(j))
      /\ Finish(j)
      /\ UNCHANGED <<now, books, bank, todo, bounds>>

SaveClose(j) ==
  LET p == job[j].pot
  IN  /\ job[j].pc = "save" /\ job[j].op = "close" /\ pot[p].status = "active"
      /\ SetPot(p, [pot[p] EXCEPT !.status = "closed", !.balance = 0])
      /\ Finish(j)
      /\ UNCHANGED <<now, move, feeRows, bank, todo, bounds>>

SaveLock(j) ==
  LET p == job[j].pot
  IN  /\ job[j].pc = "save" /\ job[j].op = "relock"
      /\ SetPot(p, [pot[p] EXCEPT !.until = job[j].until, !.mode = job[j].mode])
      /\ Finish(j)
      /\ UNCHANGED <<now, move, feeRows, bank, todo, bounds>>

-----------------------------------------------------------------------------
(* A send, reduced to its gate and its call *)

Owes(k) == IF k \in sent THEN 0 ELSE Ask[k].amount

PayAccepted(j) ==
  /\ job[j].pc = "pay" /\ Owes(job[j].key) <= gross
  /\ gross' = gross - Owes(job[j].key) /\ sent' = sent \cup {job[j].key}
  /\ Finish(j)
  /\ UNCHANGED <<now, books, taken, wire, late, todo, bounds>>

PayRefused(j) ==
  /\ job[j].pc = "pay"
  /\ Finish(j)
  /\ UNCHANGED <<now, books, bank, todo, bounds>>

PayUnknown(j) ==
  /\ job[j].pc = "pay" /\ faults < MaxFaults
  /\ wire' = wire \cup {[what |-> "send", key |-> job[j].key]} /\ faults' = faults + 1
  /\ Finish(j)
  /\ UNCHANGED <<now, books, gross, taken, sent, late, todo, starts, credits>>

-----------------------------------------------------------------------------
(* collectSavingsFee: by the handler that made the movement, or by the loop *)

FeeOf(w) == move[job[w].key].fee

\* Taken by another meanwhile.
FeeSkipped(w) ==
  /\ job[w].pc = "fee" /\ move[job[w].key].claimed
  /\ Finish(w)
  /\ UNCHANGED <<now, books, bank, todo, bounds>>

\* Frozen, the bank unreadable, or not enough money free; the loop leaves the
\* business alone for the rest of its round.
FeeWaits(w) ==
  /\ job[w].pc = "fee" /\ ~move[job[w].key].claimed
  /\ todo' = IF w = Cron THEN {} ELSE todo
  /\ Finish(w)
  /\ UNCHANGED <<now, books, bank, bounds>>

FeePasses(w) ==
  /\ job[w].pc = "fee" /\ ~move[job[w].key].claimed /\ FeeOf(w) <= Spendable
  /\ Go(w, "claim")
  /\ UNCHANGED <<now, books, bank, lock, todo, bounds>>

\* feeCollectedAt is set before the transfer, guarded on null.
Claim(w) ==
  /\ job[w].pc = "claim"
  /\ IF move[job[w].key].claimed THEN Finish(w) /\ UNCHANGED move
     ELSE /\ move' = [move EXCEPT ![job[w].key].claimed = TRUE]
          /\ Go(w, "sweep") /\ UNCHANGED lock
  /\ UNCHANGED <<now, pot, held, feeRows, bank, todo, bounds>>

SweepAccepted(w) ==
  /\ job[w].pc = "sweep" /\ FeeOf(w) <= gross
  /\ gross' = gross - FeeOf(w) /\ taken' = [taken EXCEPT ![job[w].key] = @ + 1]
  /\ Go(w, "row")
  /\ UNCHANGED <<now, books, sent, wire, late, lock, todo, bounds>>

\* bankRefused: nothing moved, a person is told.
SweepRefused(w) ==
  /\ job[w].pc = "sweep"
  /\ Finish(w)
  /\ UNCHANGED <<now, books, bank, todo, bounds>>

\* Mutant: a sweep without an answer is tried again later.
SweepReleased(w) ==
  /\ job[w].pc = "sweep" /\ faults < MaxFaults
  /\ wire' = wire \cup {[what |-> "fee", key |-> job[w].key]} /\ faults' = faults + 1
  /\ move' = [move EXCEPT ![job[w].key].claimed = FALSE]
  /\ Finish(w)
  /\ UNCHANGED <<now, pot, held, feeRows, gross, taken, sent, late, todo, starts, credits>>

\* The outcome is unknown: it stays claimed and is booked, the safe side.
SweepUnknown(w) ==
  /\ job[w].pc = "sweep" /\ faults < MaxFaults
  /\ wire' = wire \cup {[what |-> "fee", key |-> job[w].key]} /\ faults' = faults + 1
  /\ Go(w, "row")
  /\ UNCHANGED <<now, books, gross, taken, sent, late, lock, todo, starts, credits>>

BookFee(w) ==
  /\ job[w].pc = "row"
  /\ feeRows' = feeRows \cup {job[w].key}
  /\ Finish(w)
  /\ UNCHANGED <<now, pot, held, move, bank, todo, bounds>>

\* Both attempts at the insert fail: a person is told.
BookFeeFails(w) ==
  /\ job[w].pc = "row" /\ faults < MaxFaults
  /\ faults' = faults + 1
  /\ Finish(w)
  /\ UNCHANGED <<now, books, bank, todo, starts, credits>>

-----------------------------------------------------------------------------
(* The loop, faults, late calls, money received, time *)

Waiting(k) == move[k].done /\ move[k].fee > 0 /\ ~move[k].claimed

\* Mutant: the loop looks for early-withdrawal fees only.
WaitingBreakFees == {k \in Keys : Waiting(k) /\ Ask[k].op = "withdraw"}

WaitingFees == {k \in Keys : Waiting(k)}

StartLoop ==
  /\ job[Cron].pc = "idle"
  /\ todo' = WaitingFees
  /\ Go(Cron, "loop")
  /\ UNCHANGED <<now, books, bank, lock, bounds>>

Take(k) ==
  /\ job[Cron].pc = "loop" /\ k \in todo
  /\ todo' = todo \ {k}
  /\ job' = [job EXCEPT ![Cron] = [Idle EXCEPT !.pc = "lock", !.op = "sweep", !.key = k]]
  /\ UNCHANGED <<now, books, bank, lock, bounds>>

EndLoop ==
  /\ job[Cron].pc = "loop" /\ todo = {}
  /\ Go(Cron, "idle")
  /\ UNCHANGED <<now, books, bank, lock, todo, bounds>>

\* The process dies or a query fails; a call that was out may still arrive.
Crash(w) ==
  /\ job[w].pc # "idle" /\ faults < MaxFaults
  /\ faults' = faults + 1
  /\ lock' = Freed(w) /\ job' = [job EXCEPT ![w] = Idle]
  /\ todo' = IF w = Cron THEN {} ELSE todo
  /\ wire' = CASE job[w].pc = "pay"   -> wire \cup {[what |-> "send", key |-> job[w].key]}
               [] job[w].pc = "sweep" -> wire \cup {[what |-> "fee", key |-> job[w].key]}
               [] OTHER               -> wire
  /\ UNCHANGED <<now, books, gross, taken, sent, late, starts, credits>>

WireArrives(call) ==
  LET k == call.key
      cost == IF call.what = "send" THEN Owes(k) ELSE move[k].fee
  IN  /\ call \in wire /\ cost <= gross
      /\ wire' = wire \ {call}
      /\ gross' = gross - cost /\ late' = late + cost
      /\ sent' = IF call.what = "send" THEN sent \cup {k} ELSE sent
      /\ taken' = IF call.what = "fee" THEN [taken EXCEPT ![k] = @ + 1] ELSE taken
      /\ UNCHANGED <<now, books, lock, job, todo, bounds>>

WireLost(call) ==
  /\ call \in wire
  /\ wire' = wire \ {call}
  /\ UNCHANGED <<now, books, gross, taken, sent, late, lock, job, todo, bounds>>

Credit ==
  /\ credits < MaxCredits
  /\ credits' = credits + 1 /\ gross' = gross + 1
  /\ UNCHANGED <<now, books, taken, sent, wire, late, lock, job, todo, starts, faults>>

Tick ==
  /\ now < Horizon
  /\ now' = now + 1
  /\ UNCHANGED <<books, bank, lock, job, todo, bounds>>

Handle(w) ==
  \/ Refuse(w) \/ GateDeposit(w) \/ GateWithdraw(w) \/ GateSend(w) \/ GateClose(w) \/ GateRelock(w)
  \/ SaveDeposit(w) \/ SaveWithdrawal(w) \/ SaveRefused(w) \/ SaveClose(w) \/ SaveLock(w)
  \/ PayAccepted(w) \/ PayRefused(w) \/ PayUnknown(w)

Collect(w) ==
  \/ FeeSkipped(w) \/ FeeWaits(w) \/ FeePasses(w) \/ Claim(w)
  \/ SweepAccepted(w) \/ SweepRefused(w) \/ SweepUnknown(w) \/ BookFee(w) \/ BookFeeFails(w)

Next ==
  \/ \E p \in Pots, d \in 1..Horizon, m \in Modes :
       Create(p, d, m) \/ \E j \in Jobs : Relock(j, p, d, m)
  \/ \E j \in Jobs : (\E k \in Keys : Request(j, k)) \/ (\E p \in Pots : Close(j, p))
  \/ \E w \in Workers : Acquire(w) \/ Handle(w) \/ Collect(w) \/ Crash(w)
  \/ StartLoop \/ EndLoop \/ \E k \in todo : Take(k)
  \/ \E call \in wire : WireArrives(call) \/ WireLost(call)
  \/ Credit \/ Tick

Spec == Init /\ [][Next]_vars

\* Handlers go on or die, the loop runs every half hour and gets to every waiting
\* fee (the least recently tried come first), the bank can be read and the
\* business is active now and then.
FairSpec ==
  /\ Spec
  /\ WF_vars(StartLoop \/ EndLoop) /\ SF_vars(Acquire(Cron)) /\ WF_vars(Collect(Cron))
  /\ \A j \in Jobs : WF_vars(Handle(j) \/ Collect(j))
  /\ \A k \in Keys : SF_vars(Take(k)) /\ SF_vars(job[Cron].key = k /\ FeePasses(Cron))

-----------------------------------------------------------------------------
(* Properties *)

TypeOK ==
  /\ now \in Nat /\ pot \in [Pots -> Pot] /\ held \in [Pots -> Nat]
  /\ move \in [Keys -> Movement] /\ feeRows \subseteq Keys
  /\ gross \in Nat /\ taken \in [Keys -> Nat] /\ sent \subseteq Keys
  /\ wire \subseteq Call /\ late \in Nat
  /\ lock \in Workers \cup {NoJob}
  /\ job \in [Workers -> [pc: PCs, op: Ops, key: Keys, pot: Pots, until: Nat, mode: Modes, fee: Nat]]
  /\ todo \subseteq Keys
  /\ starts \in Nat /\ faults \in Nat /\ credits \in Nat

\* What the pots set aside is there: no deposit, send or fee takes money that
\* another has been promised.  Only a call that arrives after its caller gave it
\* up, and with it the lock, can eat into the reserve.
ReserveBacked == Reserved <= gross + late

\* A movement's fee leaves the account at most once, whatever is retried or lost.
FeeTakenOnce ==
  \A k \in Keys : taken[k] + Cardinality({call \in wire : call = [what |-> "fee", key |-> k]}) <= 1

\* What a pot's movements of a kind come to.
Moved(p, op) ==
  SumFunction([k \in {k \in Keys : move[k].done /\ Ask[k].pot = p /\ Ask[k].op = op} |-> Ask[k].amount])

\* A pot holds exactly what its movements say (the loop alerts on a drift).
PotsMatchMoves == \A p \in Pots : pot[p].balance = Moved(p, "deposit") - Moved(p, "withdraw")

\* No edit of a lock is a way round it: money leaves a pot before the day it was
\* promised to stay to only from a Breakable pot, and then with the fee.
NoWayRoundTheLock ==
  [][\A p \in Pots :
       pot'[p].balance < pot[p].balance /\ now < held[p] =>
         /\ pot[p].mode = "flexible"
         /\ \E k \in Keys : ~move[k].done /\ move'[k].done /\ move'[k].fee = BreakFee]_vars

\* A waiting fee does not wait for ever: it is claimed, unless the money runs out.
FeesAreClaimed == \A k \in Keys : Waiting(k) ~> ~Waiting(k) \/ Spendable < move[k].fee

\* savings.js: under the lock, "a deposit and a send can never both pass the gate
\* on the same naira".
NeverOverReserved == Reserved <= gross

=============================================================================

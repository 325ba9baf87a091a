---------------------------- MODULE SavingsProofs ----------------------------
(***************************************************************************)
(* What Savings promises for any number of pots, keys and handlers: typing; *)
(* a movement's fee leaves the account at most once; no sequence of         *)
(* requests lets money out of a pot before the day it was promised to stay  *)
(* to, except early from a Breakable pot and for the fee; what the pots set *)
(* aside is there; and a pot holds what its movements say.                  *)
(***************************************************************************)
EXTENDS Savings, SumLemmas, TLAPS, FiniteSetTheorems

-----------------------------------------------------------------------------
(* Records: what the handlers write keeps its shape *)

JobState == [pc: PCs, op: Ops, key: Keys, pot: Pots, until: Nat, mode: Modes, fee: Nat]

LEMMA IdleType == Idle \in JobState /\ Idle.pc = "idle"
  BY KeysAssumption DEF Idle, JobState, PCs, Ops, Modes

LEMMA AskType ==
  ASSUME NEW k \in Keys
  PROVE  Ask[k].op \in Ops /\ Ask[k].pot \in Pots /\ Ask[k].amount \in Nat \ {0}
  BY AskAssumption DEF Ops

LEMMA JobAt ==
  ASSUME TypeOK, NEW w \in Workers
  PROVE  /\ job \in [Workers -> JobState] /\ job[w] \in JobState
         /\ job[w].key \in Keys /\ job[w].pot \in Pots /\ job[w].fee \in Nat
         /\ job[w].until \in Nat /\ job[w].mode \in Modes
         /\ Amount(w) \in Nat \ {0} /\ FeeOf(w) \in Nat
         /\ move[job[w].key] \in Movement /\ pot[job[w].pot] \in Pot
<1>1. job[w] \in JobState /\ job \in [Workers -> JobState]
  BY DEF TypeOK, JobState
<1>2. job[w].key \in Keys /\ job[w].pot \in Pots
  BY <1>1 DEF JobState
<1>3. move[job[w].key] \in Movement /\ pot[job[w].pot] \in Pot
  BY <1>2 DEF TypeOK
<1> QED
  BY <1>1, <1>2, <1>3, AskType DEF JobState, Amount, FeeOf, Movement

LEMMA WriteType ==
  ASSUME job \in [Workers -> JobState], NEW w \in Workers, NEW rec \in JobState,
         job' = [job EXCEPT ![w] = rec]
  PROVE  job' \in [Workers -> JobState]
  OBVIOUS

LEMMA GoType ==
  ASSUME job \in [Workers -> JobState], NEW w \in Workers, NEW pc \in PCs, Go(w, pc)
  PROVE  /\ job' \in [Workers -> JobState]
         /\ job' = [job EXCEPT ![w] = [job[w] EXCEPT !.pc = pc]]
<1>1. [job[w] EXCEPT !.pc = pc] \in JobState
  BY DEF JobState
<1> QED
  BY <1>1, WriteType DEF Go

LEMMA FinishType ==
  ASSUME TypeOK, NEW w \in Workers, Finish(w)
  PROVE  job' \in [Workers -> JobState] /\ lock' \in Workers \cup {NoJob}
<1>1. [Idle EXCEPT !.pc = "loop"] \in JobState
  BY IdleType DEF JobState, PCs
<1>2. (IF w = Cron THEN [Idle EXCEPT !.pc = "loop"] ELSE Idle) \in JobState
  BY <1>1, IdleType
<1> QED
  BY <1>2, JobAt, WriteType DEF Finish, Freed, TypeOK

LEMMA SetPotType ==
  ASSUME TypeOK, NEW p \in Pots, NEW q \in Pot, SetPot(p, q)
  PROVE  pot' \in [Pots -> Pot] /\ held' \in [Pots -> Nat]
<1>1. Promise(p, q) \in Nat
  BY DEF Promise, TypeOK, Pot
<1> QED
  BY <1>1 DEF SetPot, TypeOK

LEMMA RecordType ==
  ASSUME TypeOK, NEW k \in Keys, NEW fee \in Nat, Record(k, fee)
  PROVE  move' \in [Keys -> Movement]
  BY DEF Record, TypeOK, Movement

\* A handler after a movement: it goes on to the fee, or is through.
LEMMA AfterMovementType ==
  ASSUME TypeOK, NEW w \in Workers,
         IF job[w].fee > 0 THEN Go(w, "fee") /\ UNCHANGED lock ELSE Finish(w)
  PROVE  job' \in [Workers -> JobState] /\ lock' \in Workers \cup {NoJob}
<1>1. CASE job[w].fee > 0
  BY <1>1, JobAt, GoType DEF TypeOK, PCs
<1>2. CASE ~(job[w].fee > 0)
  BY <1>2, FinishType
<1> QED
  BY <1>1, <1>2

LEMMA CallType ==
  ASSUME NEW k \in Keys
  PROVE  [what |-> "send", key |-> k] \in Call /\ [what |-> "fee", key |-> k] \in Call
  BY DEF Call

-----------------------------------------------------------------------------
(* Type correctness *)

LEMMA TypeInit == Init => TypeOK
<1> SUFFICES ASSUME Init PROVE TypeOK
  OBVIOUS
<1>1. job \in [Workers -> JobState]
  BY IdleType DEF Init
<1> QED
  BY <1>1, NumbersAssumption DEF Init, TypeOK, JobState, Pot, Movement, Modes

USE DEF bank, books, bounds

\* The steps that start a request or pass a gate.
LEMMA StartType ==
  ASSUME TypeOK, NEW j \in Jobs, NEW rec \in JobState, Start(j, rec)
  PROVE  TypeOK'
<1>1. job' \in [Workers -> JobState]
  BY JobAt, WriteType DEF Start, Workers
<1> QED
  BY <1>1 DEF Start, TypeOK, JobState

LEMMA PassGateType ==
  ASSUME TypeOK, NEW w \in Workers, NEW pc \in PCs, NEW fee \in Nat, PassGate(w, pc, fee)
  PROVE  TypeOK' /\ job' = [job EXCEPT ![w] = [job[w] EXCEPT !.pc = pc, !.fee = fee]]
<1>1. [job[w] EXCEPT !.pc = pc, !.fee = fee] \in JobState
  BY JobAt DEF JobState
<1>2. job' = [job EXCEPT ![w] = [job[w] EXCEPT !.pc = pc, !.fee = fee]]
  BY JobAt DEF PassGate
<1> QED
  BY <1>1, <1>2, JobAt, WriteType DEF PassGate, TypeOK, JobState

LEMMA HandleTypes ==
  ASSUME TypeOK, NEW w \in Workers, Handle(w)
  PROVE  TypeOK'
<1>0. {"save", "pay", "fee", "gate"} \subseteq PCs
  BY DEF PCs
<1>1. CASE Refuse(w)
  BY <1>1, FinishType DEF Refuse, TypeOK, JobState
<1>2. CASE GateDeposit(w)
  BY <1>0, <1>2, PassGateType, NumbersAssumption DEF GateDeposit
<1>3. CASE GateWithdraw(w)
  BY <1>0, <1>3, PassGateType, NumbersAssumption DEF GateWithdraw
<1>4. CASE GateSend(w)
  BY <1>0, <1>4, PassGateType DEF GateSend
<1>5. CASE GateClose(w)
  <2>1. PassGate(w, "save", 0)
    BY <1>5 DEF GateClose
  <2> QED
    BY <1>0, <2>1, PassGateType
<1>6. CASE GateRelock(w)
  BY <1>0, <1>6, PassGateType DEF GateRelock
<1>7. CASE SaveDeposit(w)
  <2>1. [pot[job[w].pot] EXCEPT !.balance = @ + Amount(w)] \in Pot
    BY JobAt DEF Pot
  <2> QED
    BY <1>7, <2>1, JobAt, SetPotType, RecordType, AfterMovementType DEF SaveDeposit, TypeOK, JobState
<1>8. CASE SaveWithdrawal(w)
  <2>1. [pot[job[w].pot] EXCEPT !.balance = @ - Amount(w)] \in Pot
    BY <1>8, JobAt DEF Pot, SaveWithdrawal
  <2> QED
    BY <1>8, <2>1, JobAt, SetPotType, RecordType, AfterMovementType DEF SaveWithdrawal, TypeOK, JobState
<1>9. CASE SaveRefused(w)
  BY <1>9, FinishType DEF SaveRefused, TypeOK, JobState
<1>10. CASE SaveClose(w)
  <2>1. [pot[job[w].pot] EXCEPT !.status = "closed", !.balance = 0] \in Pot
    BY JobAt DEF Pot
  <2> QED
    BY <1>10, <2>1, JobAt, SetPotType, FinishType DEF SaveClose, TypeOK, JobState
<1>11. CASE SaveLock(w)
  <2>1. [pot[job[w].pot] EXCEPT !.until = job[w].until, !.mode = job[w].mode] \in Pot
    BY JobAt DEF Pot
  <2> QED
    BY <1>11, <2>1, JobAt, SetPotType, FinishType DEF SaveLock, TypeOK, JobState
<1>12. CASE PayAccepted(w)
  <2>1. Owes(job[w].key) \in Nat
    BY JobAt, AskType DEF Owes
  <2> QED
    BY <1>12, <2>1, JobAt, FinishType DEF PayAccepted, TypeOK, JobState
<1>13. CASE PayRefused(w)
  BY <1>13, FinishType DEF PayRefused, TypeOK, JobState
<1>14. CASE PayUnknown(w)
  <2>1. wire' \subseteq Call
    BY <1>14, JobAt, CallType DEF PayUnknown, TypeOK
  <2> QED
    BY <1>14, <2>1, FinishType DEF PayUnknown, TypeOK, JobState
<1> QED
  BY <1>1, <1>2, <1>3, <1>4, <1>5, <1>6, <1>7, <1>8, <1>9, <1>10, <1>11, <1>12, <1>13, <1>14
     DEF Handle

LEMMA CollectTypes ==
  ASSUME TypeOK, NEW w \in Workers, Collect(w)
  PROVE  TypeOK'
<1>0. {"claim", "sweep", "row"} \subseteq PCs
  BY DEF PCs
<1>1. CASE FeeSkipped(w)
  BY <1>1, FinishType DEF FeeSkipped, TypeOK, JobState
<1>2. CASE FeeWaits(w)
  BY <1>2, FinishType DEF FeeWaits, TypeOK, JobState
<1>3. CASE FeePasses(w)
  BY <1>0, <1>3, JobAt, GoType DEF FeePasses, TypeOK, JobState
<1>4. CASE Claim(w)
  <2>1. CASE move[job[w].key].claimed
    BY <1>4, <2>1, FinishType DEF Claim, TypeOK, JobState
  <2>2. CASE ~move[job[w].key].claimed
    <3>1. [move[job[w].key] EXCEPT !.claimed = TRUE] \in Movement
      BY JobAt DEF Movement
    <3>2. move' \in [Keys -> Movement]
      BY <1>4, <2>2, <3>1, JobAt DEF Claim, TypeOK
    <3> QED
      BY <1>0, <1>4, <2>2, <3>2, JobAt, GoType DEF Claim, TypeOK, JobState
  <2> QED
    BY <2>1, <2>2
<1>5. CASE SweepAccepted(w)
  BY <1>0, <1>5, JobAt, GoType DEF SweepAccepted, TypeOK, JobState
<1>6. CASE SweepRefused(w)
  BY <1>6, FinishType DEF SweepRefused, TypeOK, JobState
<1>7. CASE SweepUnknown(w)
  <2>1. wire' \subseteq Call
    BY <1>7, JobAt, CallType DEF SweepUnknown, TypeOK
  <2>2. job' \in [Workers -> JobState]
    BY <1>0, <1>7, JobAt, GoType DEF SweepUnknown
  <2> QED
    BY <1>7, <2>1, <2>2 DEF SweepUnknown, TypeOK, JobState
<1>8. CASE BookFee(w)
  BY <1>8, JobAt, FinishType DEF BookFee, TypeOK, JobState
<1>9. CASE BookFeeFails(w)
  BY <1>9, FinishType DEF BookFeeFails, TypeOK, JobState
<1> QED
  BY <1>1, <1>2, <1>3, <1>4, <1>5, <1>6, <1>7, <1>8, <1>9 DEF Collect

\* Every step keeps every variable in its type.
LEMMA TypeNext == TypeOK /\ [Next]_vars => TypeOK'
<1> SUFFICES ASSUME TypeOK, [Next]_vars PROVE TypeOK'
  OBVIOUS
<1>0. Cron \in Workers
  BY DEF Workers
<1>1. ASSUME NEW p \in Pots, NEW d \in 1..Horizon, NEW m \in Modes, Create(p, d, m) PROVE TypeOK'
  <2>1. [status |-> "active", balance |-> 0, until |-> d, mode |-> m] \in Pot
    BY NumbersAssumption DEF Pot
  <2> QED
    BY <1>1, <2>1, SetPotType DEF Create, TypeOK
<1>2. ASSUME NEW j \in Jobs, NEW p \in Pots, NEW d \in 1..Horizon, NEW m \in Modes, Relock(j, p, d, m)
      PROVE TypeOK'
  <2>1. d \in Nat
    BY NumbersAssumption
  <2>2. [Idle EXCEPT !.pc = "lock", !.op = "relock", !.pot = p, !.until = d, !.mode = m] \in JobState
    BY <2>1, IdleType DEF JobState, PCs, Ops
  <2> QED
    BY <1>2, <2>2, StartType DEF Relock
<1>3. ASSUME NEW j \in Jobs, NEW k \in Keys, Request(j, k) PROVE TypeOK'
  <2>1. [Idle EXCEPT !.pc = "lock", !.op = Ask[k].op, !.key = k, !.pot = Ask[k].pot] \in JobState
    BY IdleType, AskType DEF JobState, PCs
  <2> QED
    BY <1>3, <2>1, StartType DEF Request
<1>4. ASSUME NEW j \in Jobs, NEW p \in Pots, Close(j, p) PROVE TypeOK'
  <2>1. [Idle EXCEPT !.pc = "lock", !.op = "close", !.pot = p] \in JobState
    BY IdleType DEF JobState, PCs, Ops
  <2> QED
    BY <1>4, <2>1, StartType DEF Close
<1>5. ASSUME NEW w \in Workers, Acquire(w) PROVE TypeOK'
  <2>1. job' \in [Workers -> JobState]
    BY <1>5, JobAt, GoType DEF Acquire, PCs
  <2> QED
    BY <1>5, <2>1 DEF Acquire, TypeOK, JobState
<1>6. ASSUME NEW w \in Workers, Handle(w) PROVE TypeOK'
  BY <1>6, HandleTypes
<1>7. ASSUME NEW w \in Workers, Collect(w) PROVE TypeOK'
  BY <1>7, CollectTypes
<1>8. ASSUME NEW w \in Workers, Crash(w) PROVE TypeOK'
  <2>1. job' \in [Workers -> JobState] /\ wire' \subseteq Call
    BY <1>8, JobAt, IdleType, WriteType, CallType DEF Crash, TypeOK
  <2> QED
    BY <1>8, <2>1 DEF Crash, TypeOK, JobState, Freed
<1>9. CASE StartLoop
  <2>1. job' \in [Workers -> JobState]
    BY <1>0, <1>9, JobAt, GoType DEF StartLoop, PCs
  <2> QED
    BY <1>9, <2>1 DEF StartLoop, WaitingFees, TypeOK, JobState
<1>10. CASE EndLoop
  <2>1. job' \in [Workers -> JobState]
    BY <1>0, <1>10, JobAt, GoType DEF EndLoop, PCs
  <2> QED
    BY <1>10, <2>1 DEF EndLoop, TypeOK, JobState
<1>11. ASSUME NEW k \in todo, Take(k) PROVE TypeOK'
  <2>1. [Idle EXCEPT !.pc = "lock", !.op = "sweep", !.key = k] \in JobState
    BY IdleType DEF TypeOK, JobState, PCs, Ops
  <2> QED
    BY <1>0, <1>11, <2>1, JobAt, WriteType DEF Take, TypeOK, JobState
<1>12. ASSUME NEW call \in wire, WireArrives(call) PROVE TypeOK'
  <2>1. call.key \in Keys
    BY DEF TypeOK, Call
  <2>2. Owes(call.key) \in Nat /\ move[call.key].fee \in Nat /\ taken[call.key] \in Nat
    BY <2>1, AskType DEF Owes, TypeOK, Movement
  <2> QED
    BY <1>12, <2>1, <2>2 DEF WireArrives, TypeOK
<1>13. ASSUME NEW call \in wire, WireLost(call) PROVE TypeOK'
  BY <1>13 DEF WireLost, TypeOK
<1>14. CASE Credit
  BY <1>14 DEF Credit, TypeOK
<1>15. CASE Tick
  BY <1>15 DEF Tick, TypeOK
<1>16. CASE UNCHANGED vars
  BY <1>16 DEF vars, TypeOK
<1> QED
  BY <1>1, <1>2, <1>3, <1>4, <1>5, <1>6, <1>7, <1>8, <1>9, <1>10, <1>11, <1>12, <1>13, <1>14,
     <1>15, <1>16 DEF Next

\* Every reachable state is well typed.
THEOREM TypeCorrect == Spec => []TypeOK
<1>1. Init => TypeOK
  BY TypeInit
<1>2. TypeOK /\ [Next]_vars => TypeOK'
  BY TypeNext
<1> QED
  BY <1>1, <1>2, PTL DEF Spec

-----------------------------------------------------------------------------
(* The fee of a movement: who may sweep it, and what the bank has of it *)

Critical == {"gate", "save", "pay", "fee", "claim", "sweep", "row"}

FeeCall(k) == [what |-> "fee", key |-> k]

\* Where a worker is says what has happened to the movement it works on.
WorkerOK(w) ==
  LET k == job[w].key
  IN  /\ job[w].pc \in Critical => lock = w
      /\ job[w].pc \in {"fee", "claim", "sweep", "row"} => move[k].done
      /\ job[w].pc \in {"sweep", "row"} => move[k].claimed
      /\ job[w].pc = "sweep" => taken[k] = 0 /\ FeeCall(k) \notin wire
      /\ job[w].pc = "save" /\ job[w].op \in {"deposit", "withdraw"} => ~move[k].done
      /\ w = Cron /\ job[w].pc = "lock" => move[k].done

\* A fee is claimed before the bank hears of it, and the bank hears of it once.
MoveOK(k) ==
  /\ taken[k] <= 1
  /\ move[k].claimed => move[k].done
  /\ ~move[k].claimed => taken[k] = 0 /\ FeeCall(k) \notin wire
  /\ taken[k] = 1 => FeeCall(k) \notin wire
  /\ k \in todo => move[k].done

FeeInv == TypeOK /\ (\A w \in Workers : WorkerOK(w)) /\ (\A k \in Keys : MoveOK(k))

\* One worker is inside the lock, so whoever is in is alone.
LEMMA OneInside ==
  ASSUME FeeInv, NEW v \in Workers, NEW w \in Workers, v # w,
         job[w].pc \in Critical
  PROVE  job[v].pc \notin Critical /\ lock = w
  BY DEF FeeInv, WorkerOK

\* Whoever is inside may write: those outside only rely on what is done.
LEMMA Alone ==
  ASSUME FeeInv, NEW w \in Workers, job[w].pc \in Critical,
         \A v \in Workers : v # w => job'[v] = job[v],
         \A k \in Keys : move[k].done => move'[k].done
  PROVE  \A v \in Workers : v # w => WorkerOK(v)'
<1> SUFFICES ASSUME NEW v \in Workers, v # w PROVE WorkerOK(v)'
  OBVIOUS
<1>1. job'[v] = job[v] /\ job[v].key \in Keys /\ job[v].pc \notin Critical
  BY JobAt, OneInside DEF FeeInv
<1> QED
  BY <1>1 DEF FeeInv, WorkerOK, Critical

\* A step that only moves one worker and its lock.
LEMMA Moves ==
  ASSUME FeeInv, TypeOK', NEW w \in Workers, NEW rec \in JobState,
         job' = [job EXCEPT ![w] = rec],
         lock' = lock \/ lock' = Freed(w),
         UNCHANGED <<move, taken, wire>>, todo' \subseteq todo,
         WorkerOK(w)'
  PROVE  FeeInv'
<1>1. ASSUME NEW v \in Workers, v # w PROVE WorkerOK(v)'
  <2>1. job'[v] = job[v]
    BY <1>1 DEF FeeInv, TypeOK
  <2>2. job[v].pc \in Critical => lock' = v
    BY <1>1 DEF FeeInv, WorkerOK, Freed
  <2> QED
    BY <1>1, <2>1, <2>2 DEF FeeInv, WorkerOK
<1>2. ASSUME NEW k \in Keys PROVE MoveOK(k)'
  BY <1>2 DEF FeeInv, MoveOK
<1> QED
  BY <1>1, <1>2 DEF FeeInv

\* A worker that is through, or has not begun, has nothing to answer for.
LEMMA Outside ==
  ASSUME FeeInv, NEW w \in Workers, job'[w].pc \in {"idle", "loop"}
  PROVE  WorkerOK(w)'
  BY DEF WorkerOK, Critical

LEMMA FinishForm ==
  ASSUME FeeInv, NEW w \in Workers, Finish(w)
  PROVE  \E rec \in JobState :
           /\ job' = [job EXCEPT ![w] = rec] /\ rec.pc \in {"idle", "loop"}
           /\ job'[w] = rec /\ lock' = Freed(w)
<1> DEFINE rec == IF w = Cron THEN [Idle EXCEPT !.pc = "loop"] ELSE Idle
<1>1. rec \in JobState /\ rec.pc \in {"idle", "loop"}
  BY IdleType DEF JobState, PCs
<1>2. job' = [job EXCEPT ![w] = rec] /\ job'[w] = rec
  BY DEF Finish, FeeInv, TypeOK
<1> QED
  BY <1>1, <1>2 DEF Finish

\* A handler gives up without having touched a movement or a fee.
LEMMA Finishes ==
  ASSUME FeeInv, TypeOK', NEW w \in Workers, Finish(w),
         UNCHANGED <<move, taken, wire>>, todo' \subseteq todo
  PROVE  FeeInv'
<1>1. PICK rec \in JobState : /\ job' = [job EXCEPT ![w] = rec] /\ rec.pc \in {"idle", "loop"}
                              /\ job'[w] = rec /\ lock' = Freed(w)
  BY FinishForm
<1>2. WorkerOK(w)'
  BY <1>1, Outside
<1> QED
  BY <1>1, <1>2, Moves

\* A request begins.
LEMMA Starts ==
  ASSUME FeeInv, TypeOK', NEW j \in Jobs, NEW rec \in JobState, Start(j, rec), rec.pc = "lock"
  PROVE  FeeInv'
<1>1. j \in Workers /\ j # Cron
  BY WorkersAssumption DEF Workers
<1>2. job' = [job EXCEPT ![j] = rec] /\ job'[j] = rec
  BY <1>1 DEF Start, FeeInv, TypeOK
<1>3. WorkerOK(j)'
  BY <1>1, <1>2 DEF WorkerOK, Critical
<1> QED
  BY <1>1, <1>2, <1>3, Moves DEF Start

\* The gates: the key has not been used, and the lock is held.
LEMMA Gates ==
  ASSUME FeeInv, TypeOK', NEW w \in Workers, NEW pc \in {"save", "pay"}, NEW fee \in Nat,
         job[w].pc = "gate", PassGate(w, pc, fee),
         job[w].op \in {"deposit", "withdraw"} => ~move[job[w].key].done
  PROVE  FeeInv'
<1> DEFINE rec == [job[w] EXCEPT !.pc = pc, !.fee = fee]
<1>0. TypeOK /\ pc \in PCs
  BY DEF FeeInv, PCs
<1>1. rec \in JobState /\ rec.pc = pc /\ rec.key = job[w].key /\ rec.op = job[w].op
  BY <1>0, JobAt DEF JobState
<1>2. job' = [job EXCEPT ![w] = rec] /\ job'[w] = rec
  <2>1. job \in [Workers -> JobState]
    BY <1>0, JobAt
  <2>2. job' = [job EXCEPT ![w] = rec]
    BY <1>0, PassGateType
  <2> HIDE DEF rec
  <2> QED
    BY <2>1, <2>2
<1>3. lock = w
  BY DEF FeeInv, WorkerOK, Critical
<1>4. UNCHANGED <<lock, move, taken, wire, todo>>
  BY DEF PassGate
<1> HIDE DEF rec
<1>5. WorkerOK(w)'
  BY <1>1, <1>2, <1>3, <1>4 DEF WorkerOK
<1> QED
  BY <1>1, <1>2, <1>4, <1>5, Moves

\* A movement is committed: nothing of its fee has been seen yet.
LEMMA Movements ==
  ASSUME FeeInv, TypeOK', NEW w \in Workers, NEW fee \in Nat,
         job[w].pc = "save", job[w].op \in {"deposit", "withdraw"}, Record(job[w].key, fee),
         IF job[w].fee > 0 THEN Go(w, "fee") /\ UNCHANGED lock ELSE Finish(w),
         UNCHANGED <<taken, wire, todo>>
  PROVE  FeeInv'
<1> DEFINE k == job[w].key
<1>0. TypeOK /\ k \in Keys /\ job \in [Workers -> JobState] /\ "fee" \in PCs
  BY JobAt DEF FeeInv, PCs
<1>1. ~move[k].done /\ lock = w
  BY DEF FeeInv, WorkerOK, Critical
<1>2. move'[k].done /\ ~move'[k].claimed /\ \A l \in Keys : l # k => move'[l] = move[l]
  BY <1>0 DEF Record, TypeOK
<1>3. PICK rec \in JobState : /\ job' = [job EXCEPT ![w] = rec] /\ job'[w] = rec
                              /\ \/ rec.pc \in {"idle", "loop"}
                                 \/ rec.pc = "fee" /\ rec.key = k /\ lock' = w
  <2>1. CASE job[w].fee > 0
    <3>1. [job[w] EXCEPT !.pc = "fee"] \in JobState
      BY <1>0, JobAt DEF JobState
    <3> QED
      BY <1>0, <1>1, <2>1, <3>1, GoType DEF JobState
  <2>2. CASE ~(job[w].fee > 0)
    BY <2>2, FinishForm
  <2> QED
    BY <2>1, <2>2
<1>4. WorkerOK(w)'
  BY <1>2, <1>3 DEF WorkerOK, Critical
<1>5. \A v \in Workers : v # w => WorkerOK(v)'
  <2>1. \A v \in Workers : v # w => job'[v] = job[v]
    BY <1>0, <1>3
  <2> QED
    BY <1>0, <1>2, <2>1, Alone DEF Critical
<1>6. ASSUME NEW l \in Keys PROVE MoveOK(l)'
  BY <1>0, <1>1, <1>2, <1>6 DEF FeeInv, MoveOK
<1> QED
  BY <1>4, <1>5, <1>6 DEF FeeInv

\* A send is left on the wire: no fee is touched.
LEMMA SendsOut ==
  ASSUME FeeInv, TypeOK', NEW w \in Workers, Finish(w) \/ job' = [job EXCEPT ![w] = Idle],
         lock' = Freed(w), NEW k \in Keys, wire' = wire \cup {[what |-> "send", key |-> k]},
         UNCHANGED <<move, taken>>, todo' \subseteq todo
  PROVE  FeeInv'
<1>1. \A l \in Keys : FeeCall(l) \in wire' <=> FeeCall(l) \in wire
  BY DEF FeeCall
<1>2. \E rec \in JobState : /\ job' = [job EXCEPT ![w] = rec] /\ job'[w] = rec
                            /\ rec.pc \in {"idle", "loop"}
  BY FinishForm, IdleType DEF FeeInv, TypeOK
<1>3. \A v \in Workers : v # w => job'[v] = job[v]
  BY <1>2
<1>4. ASSUME NEW v \in Workers, v # w PROVE WorkerOK(v)'
  <2>1. job[v].key \in Keys
    BY JobAt DEF FeeInv
  <2>2. job[v].pc \in Critical => lock' = v
    BY <1>4 DEF FeeInv, WorkerOK, Freed
  <2> QED
    BY <1>1, <1>3, <1>4, <2>1, <2>2 DEF FeeInv, WorkerOK
<1>5. WorkerOK(w)'
  BY <1>2, Outside
<1>6. ASSUME NEW l \in Keys PROVE MoveOK(l)'
  BY <1>1, <1>6 DEF FeeInv, MoveOK
<1> QED
  BY <1>4, <1>5, <1>6 DEF FeeInv

-----------------------------------------------------------------------------
(* Every step keeps it *)

LEMMA HandleFees ==
  ASSUME FeeInv, TypeOK', NEW w \in Workers, Handle(w)
  PROVE  FeeInv'
<1>0. TypeOK /\ job[w].fee \in Nat
  BY JobAt DEF FeeInv
<1>1. CASE Refuse(w)
  BY <1>1, Finishes DEF Refuse
<1>2. CASE GateDeposit(w)
  <2>1. PassGate(w, "save", DepositFee) /\ job[w].pc = "gate" /\ ~move[job[w].key].done
    BY <1>2 DEF GateDeposit, Gate
  <2> QED
    BY <2>1, Gates, NumbersAssumption
<1>3. CASE GateWithdraw(w)
  <2>1. PICK fee \in {0, BreakFee} : PassGate(w, "save", fee)
    BY <1>3 DEF GateWithdraw
  <2>2. job[w].pc = "gate" /\ ~move[job[w].key].done
    BY <1>3 DEF GateWithdraw, Gate
  <2> QED
    BY <2>1, <2>2, Gates, NumbersAssumption
<1>4. CASE GateSend(w)
  <2>1. PassGate(w, "pay", 0) /\ job[w].pc = "gate" /\ job[w].op = "send"
    BY <1>4 DEF GateSend, Gate
  <2> QED
    BY <2>1, Gates
<1>5. CASE GateClose(w)
  <2>1. PassGate(w, "save", 0) /\ job[w].pc = "gate" /\ job[w].op = "close"
    BY <1>5 DEF GateClose, Gate
  <2> QED
    BY <2>1, Gates
<1>6. CASE GateRelock(w)
  <2>1. PassGate(w, "save", 0) /\ job[w].pc = "gate" /\ job[w].op = "relock"
    BY <1>6 DEF GateRelock, Gate
  <2> QED
    BY <2>1, Gates
<1>7. CASE SaveDeposit(w)
  BY <1>0, <1>7, Movements DEF SaveDeposit
<1>8. CASE SaveWithdrawal(w)
  BY <1>0, <1>8, Movements DEF SaveWithdrawal
<1>9. CASE SaveRefused(w)
  BY <1>9, Finishes DEF SaveRefused
<1>10. CASE SaveClose(w)
  BY <1>10, Finishes DEF SaveClose
<1>11. CASE SaveLock(w)
  BY <1>11, Finishes DEF SaveLock
<1>12. CASE PayAccepted(w)
  BY <1>12, Finishes DEF PayAccepted
<1>13. CASE PayRefused(w)
  BY <1>13, Finishes DEF PayRefused
<1>14. CASE PayUnknown(w)
  <2>1. job[w].key \in Keys
    BY <1>0, JobAt
  <2>2. Finish(w) /\ lock' = Freed(w) /\ wire' = wire \cup {[what |-> "send", key |-> job[w].key]}
    BY <1>14 DEF PayUnknown, Finish
  <2>3. UNCHANGED <<move, taken, todo>>
    BY <1>14 DEF PayUnknown
  <2> QED
    BY <2>1, <2>2, <2>3, SendsOut
<1> QED
  BY <1>1, <1>2, <1>3, <1>4, <1>5, <1>6, <1>7, <1>8, <1>9, <1>10, <1>11, <1>12, <1>13, <1>14
     DEF Handle

\* A step of the worker that is inside, to another pc.
LEMMA GoForm ==
  ASSUME FeeInv, NEW w \in Workers, NEW pc \in PCs, Go(w, pc)
  PROVE  \E rec \in JobState :
           /\ job' = [job EXCEPT ![w] = rec] /\ job'[w] = rec
           /\ rec.pc = pc /\ rec.key = job[w].key /\ rec.op = job[w].op
           /\ \A v \in Workers : v # w => job'[v] = job[v]
<1> DEFINE rec == [job[w] EXCEPT !.pc = pc]
<1>0. TypeOK /\ job \in [Workers -> JobState]
  BY JobAt DEF FeeInv
<1>1. rec \in JobState /\ rec.pc = pc /\ rec.key = job[w].key /\ rec.op = job[w].op
  BY <1>0, JobAt DEF JobState
<1>2. job' = [job EXCEPT ![w] = rec]
  BY <1>0, GoType
<1> HIDE DEF rec
<1> QED
  BY <1>0, <1>1, <1>2

LEMMA CollectFees ==
  ASSUME FeeInv, TypeOK', NEW w \in Workers, Collect(w)
  PROVE  FeeInv'
<1> DEFINE k == job[w].key
<1>0. TypeOK /\ k \in Keys /\ {"claim", "sweep", "row"} \subseteq PCs
  BY JobAt DEF FeeInv, PCs
<1>1. CASE FeeSkipped(w)
  BY <1>1, Finishes DEF FeeSkipped
<1>2. CASE FeeWaits(w)
  BY <1>2, Finishes DEF FeeWaits
<1>3. CASE FeePasses(w)
  <2>1. PICK rec \in JobState : /\ job' = [job EXCEPT ![w] = rec] /\ job'[w] = rec
                                /\ rec.pc = "claim" /\ rec.key = k
    BY <1>0, <1>3, GoForm DEF FeePasses
  <2>2. UNCHANGED <<move, taken, wire, todo, lock>> /\ lock = w /\ move[k].done
    BY <1>3 DEF FeePasses, FeeInv, WorkerOK, Critical
  <2>3. WorkerOK(w)'
    BY <2>1, <2>2 DEF WorkerOK
  <2> QED
    BY <2>1, <2>2, <2>3, Moves
<1>4. CASE Claim(w) /\ move[k].claimed
  BY <1>4, Finishes DEF Claim
<1>5. CASE Claim(w) /\ ~move[k].claimed
  <2>1. /\ job[w].pc = "claim" /\ Go(w, "sweep") /\ UNCHANGED <<taken, wire, todo, lock>>
        /\ move' = [move EXCEPT ![k].claimed = TRUE]
    BY <1>5 DEF Claim
  <2>2. lock = w /\ move[k].done /\ taken[k] = 0 /\ FeeCall(k) \notin wire
    BY <1>0, <1>5, <2>1 DEF FeeInv, WorkerOK, MoveOK, Critical
  <2>3. PICK rec \in JobState : /\ job'[w] = rec /\ rec.pc = "sweep" /\ rec.key = k
                                /\ \A v \in Workers : v # w => job'[v] = job[v]
    BY <1>0, <2>1, GoForm
  <2>4. /\ move'[k].claimed /\ \A l \in Keys : move'[l].done = move[l].done
        /\ \A l \in Keys : l # k => move'[l] = move[l]
    BY <1>0, <2>1 DEF TypeOK, Movement
  <2>5. \A v \in Workers : v # w => WorkerOK(v)'
    BY <2>1, <2>3, <2>4, Alone DEF Critical
  <2>6. WorkerOK(w)'
    BY <1>0, <2>1, <2>2, <2>3, <2>4 DEF WorkerOK
  <2>7. ASSUME NEW l \in Keys PROVE MoveOK(l)'
    BY <1>0, <2>1, <2>2, <2>4, <2>7 DEF FeeInv, MoveOK
  <2> QED
    BY <2>5, <2>6, <2>7 DEF FeeInv
<1>6. CASE SweepAccepted(w) \/ SweepUnknown(w)
  <2>1. job[w].pc = "sweep" /\ Go(w, "row") /\ UNCHANGED <<move, todo, lock>>
    BY <1>6 DEF SweepAccepted, SweepUnknown
  <2>2. lock = w /\ move[k].done /\ move[k].claimed /\ taken[k] = 0 /\ FeeCall(k) \notin wire
    BY <2>1 DEF FeeInv, WorkerOK, Critical
  <2>3. PICK rec \in JobState : /\ job'[w] = rec /\ rec.pc = "row" /\ rec.key = k
                                /\ \A v \in Workers : v # w => job'[v] = job[v]
    BY <1>0, <2>1, GoForm
  <2>4. \A v \in Workers : v # w => WorkerOK(v)'
    BY <2>1, <2>3, Alone DEF Critical
  <2>5. WorkerOK(w)'
    BY <1>0, <2>1, <2>2, <2>3 DEF WorkerOK
  <2>6. \/ wire' = wire /\ taken' = [taken EXCEPT ![k] = @ + 1]
        \/ wire' = wire \cup {FeeCall(k)} /\ taken' = taken
    BY <1>6 DEF SweepAccepted, SweepUnknown, FeeCall
  <2>7. \A l \in Keys : /\ l # k => taken'[l] = taken[l] /\ (FeeCall(l) \in wire' <=> FeeCall(l) \in wire)
                        /\ l = k => \/ taken'[l] = 1 /\ FeeCall(l) \notin wire'
                                    \/ taken'[l] = 0
    <3>1. CASE wire' = wire /\ taken' = [taken EXCEPT ![k] = @ + 1]
      BY <1>0, <2>2, <3>1 DEF TypeOK
    <3>2. CASE wire' = wire \cup {FeeCall(k)} /\ taken' = taken
      BY <1>0, <2>2, <3>2 DEF FeeCall
    <3> QED
      BY <2>6, <3>1, <3>2
  <2>8. ASSUME NEW l \in Keys PROVE MoveOK(l)'
    <3>1. CASE l = k
      BY <2>1, <2>2, <2>7, <3>1 DEF MoveOK
    <3>2. CASE l # k
      <4>1. taken'[l] = taken[l] /\ (FeeCall(l) \in wire' <=> FeeCall(l) \in wire)
        BY <2>7, <3>2
      <4> QED
        BY <2>1, <4>1 DEF FeeInv, MoveOK
    <3> QED
      BY <3>1, <3>2
  <2> QED
    BY <2>4, <2>5, <2>8 DEF FeeInv
<1>7. CASE SweepRefused(w)
  BY <1>7, Finishes DEF SweepRefused
<1>8. CASE BookFee(w)
  BY <1>8, Finishes DEF BookFee
<1>9. CASE BookFeeFails(w)
  BY <1>9, Finishes DEF BookFeeFails
<1> QED
  BY <1>1, <1>2, <1>3, <1>4, <1>5, <1>6, <1>7, <1>8, <1>9 DEF Collect

\* A worker dies; if it was sweeping a fee, the call may still arrive.
LEMMA CrashFees ==
  ASSUME FeeInv, TypeOK', NEW w \in Workers, Crash(w)
  PROVE  FeeInv'
<1> DEFINE k == job[w].key
<1>0. TypeOK /\ k \in Keys
  BY JobAt DEF FeeInv
<1>1. /\ job' = [job EXCEPT ![w] = Idle] /\ job'[w] = Idle /\ lock' = Freed(w)
      /\ todo' \subseteq todo /\ UNCHANGED <<move, taken>>
      /\ \A v \in Workers : v # w => job'[v] = job[v]
  BY <1>0, JobAt DEF Crash
<1>2. WorkerOK(w)'
  BY <1>1, IdleType, Outside
<1>3. CASE job[w].pc = "pay"
  <2>1. wire' = wire \cup {[what |-> "send", key |-> k]}
    BY <1>3 DEF Crash
  <2> QED
    BY <1>0, <1>1, <2>1, SendsOut
<1>4. CASE job[w].pc = "sweep"
  <2>1. wire' = wire \cup {FeeCall(k)}
    BY <1>4 DEF Crash, FeeCall
  <2>2. taken[k] = 0 /\ move[k].claimed
    BY <1>4 DEF FeeInv, WorkerOK
  <2>3. \A v \in Workers : v # w => WorkerOK(v)'
    BY <1>1, <1>4, Alone DEF Critical
  <2>4. \A l \in Keys : l # k => (FeeCall(l) \in wire' <=> FeeCall(l) \in wire)
    BY <2>1 DEF FeeCall
  <2>5. ASSUME NEW l \in Keys PROVE MoveOK(l)'
    BY <1>0, <1>1, <2>2, <2>4, <2>5 DEF FeeInv, MoveOK
  <2> QED
    BY <1>2, <2>3, <2>5 DEF FeeInv
<1>5. CASE job[w].pc \notin {"pay", "sweep"}
  <2>1. wire' = wire
    BY <1>5 DEF Crash
  <2> QED
    BY <1>1, <1>2, <2>1, IdleType, Moves
<1> QED
  BY <1>3, <1>4, <1>5

\* A step of the bank, of time, or of a pot that has no lock yet.
LEMMA WorldFees ==
  ASSUME FeeInv, TypeOK', UNCHANGED <<move, job, lock>>, todo' \subseteq todo,
         \A k \in Keys : \/ taken'[k] = taken[k] /\ (FeeCall(k) \in wire' => FeeCall(k) \in wire)
                         \/ /\ FeeCall(k) \in wire /\ FeeCall(k) \notin wire'
                            /\ taken'[k] = taken[k] + 1
  PROVE  FeeInv'
<1>0. TypeOK
  BY DEF FeeInv
<1>1. ASSUME NEW w \in Workers PROVE WorkerOK(w)'
  <2>1. job[w].key \in Keys
    BY <1>0, JobAt
  <2> QED
    BY <1>1, <2>1 DEF FeeInv, WorkerOK
<1>2. ASSUME NEW k \in Keys PROVE MoveOK(k)'
  <2>1. taken[k] \in Nat
    BY <1>0 DEF TypeOK
  <2> QED
    BY <1>2, <2>1 DEF FeeInv, MoveOK
<1> QED
  BY <1>1, <1>2 DEF FeeInv

LEMMA FeeInit == Init => FeeInv
<1> SUFFICES ASSUME Init PROVE FeeInv
  OBVIOUS
<1>1. TypeOK
  BY TypeInit
<1>2. ASSUME NEW w \in Workers PROVE WorkerOK(w)
  BY IdleType DEF Init, WorkerOK, Critical
<1>3. ASSUME NEW k \in Keys PROVE MoveOK(k)
  BY DEF Init, MoveOK
<1> QED
  BY <1>1, <1>2, <1>3 DEF FeeInv

LEMMA FeeNext == FeeInv /\ [Next]_vars => FeeInv'
<1> SUFFICES ASSUME FeeInv, [Next]_vars PROVE FeeInv'
  OBVIOUS
<1>0. TypeOK /\ TypeOK' /\ Cron \in Workers
  BY TypeNext DEF FeeInv, Workers
<1>1. ASSUME NEW p \in Pots, NEW d \in 1..Horizon, NEW m \in Modes, Create(p, d, m) PROVE FeeInv'
  BY <1>0, <1>1, WorldFees DEF Create
<1>2. ASSUME NEW j \in Jobs, NEW p \in Pots, NEW d \in 1..Horizon, NEW m \in Modes, Relock(j, p, d, m)
      PROVE FeeInv'
  <2>1. d \in Nat
    BY NumbersAssumption
  <2> DEFINE rec == [Idle EXCEPT !.pc = "lock", !.op = "relock", !.pot = p, !.until = d, !.mode = m]
  <2>2. rec \in JobState /\ rec.pc = "lock"
    BY <2>1, IdleType DEF JobState, PCs, Ops
  <2> QED
    BY <1>0, <1>2, <2>2, Starts DEF Relock
<1>3. ASSUME NEW j \in Jobs, NEW k \in Keys, Request(j, k) PROVE FeeInv'
  <2> DEFINE rec == [Idle EXCEPT !.pc = "lock", !.op = Ask[k].op, !.key = k, !.pot = Ask[k].pot]
  <2>1. rec \in JobState /\ rec.pc = "lock"
    BY IdleType, AskType DEF JobState, PCs
  <2> QED
    BY <1>0, <1>3, <2>1, Starts DEF Request
<1>4. ASSUME NEW j \in Jobs, NEW p \in Pots, Close(j, p) PROVE FeeInv'
  <2> DEFINE rec == [Idle EXCEPT !.pc = "lock", !.op = "close", !.pot = p]
  <2>1. rec \in JobState /\ rec.pc = "lock"
    BY IdleType DEF JobState, PCs, Ops
  <2> QED
    BY <1>0, <1>4, <2>1, Starts DEF Close
<1>5. ASSUME NEW w \in Workers, Acquire(w) PROVE FeeInv'
  <2>1. PICK rec \in JobState : /\ job'[w] = rec /\ rec.key = job[w].key /\ rec.op = job[w].op
                                /\ rec.pc = IF w = Cron THEN "fee" ELSE "gate"
                                /\ \A v \in Workers : v # w => job'[v] = job[v]
    BY <1>5, GoForm DEF Acquire, PCs
  <2>2. job[w].pc = "lock" /\ lock = NoJob /\ lock' = w /\ UNCHANGED <<move, taken, wire, todo>>
    BY <1>5 DEF Acquire
  <2>3. ASSUME NEW v \in Workers PROVE job[v].pc \notin Critical
    BY <2>2, <2>3, WorkersAssumption DEF FeeInv, WorkerOK, Workers
  <2>4. WorkerOK(w)'
    BY <2>1, <2>2 DEF FeeInv, WorkerOK
  <2>5. ASSUME NEW v \in Workers, v # w PROVE WorkerOK(v)'
    BY <2>1, <2>2, <2>3, <2>5 DEF FeeInv, WorkerOK
  <2>6. ASSUME NEW k \in Keys PROVE MoveOK(k)'
    BY <2>2, <2>6 DEF FeeInv, MoveOK
  <2> QED
    BY <1>0, <2>4, <2>5, <2>6 DEF FeeInv
<1>6. ASSUME NEW w \in Workers, Handle(w) PROVE FeeInv'
  BY <1>0, <1>6, HandleFees
<1>7. ASSUME NEW w \in Workers, Collect(w) PROVE FeeInv'
  BY <1>0, <1>7, CollectFees
<1>8. ASSUME NEW w \in Workers, Crash(w) PROVE FeeInv'
  BY <1>0, <1>8, CrashFees
<1>9. CASE StartLoop
  <2>1. PICK rec \in JobState : job'[Cron] = rec /\ rec.pc = "loop" /\ \A v \in Workers : v # Cron => job'[v] = job[v]
    BY <1>0, <1>9, GoForm DEF StartLoop, PCs
  <2>2. UNCHANGED <<move, taken, wire, lock>> /\ \A k \in todo' : move[k].done
    BY <1>9 DEF StartLoop, WaitingFees, Waiting
  <2>3. ASSUME NEW v \in Workers PROVE WorkerOK(v)'
    BY <2>1, <2>2, <2>3, Outside DEF FeeInv, WorkerOK
  <2>4. ASSUME NEW k \in Keys PROVE MoveOK(k)'
    BY <2>2, <2>4 DEF FeeInv, MoveOK
  <2> QED
    BY <1>0, <2>3, <2>4 DEF FeeInv
<1>10. CASE EndLoop
  <2>1. PICK rec \in JobState : /\ job' = [job EXCEPT ![Cron] = rec] /\ job'[Cron] = rec /\ rec.pc = "idle"
    BY <1>0, <1>10, GoForm DEF EndLoop, PCs
  <2>2. WorkerOK(Cron)'
    BY <1>0, <2>1, Outside
  <2> QED
    BY <1>0, <1>10, <2>1, <2>2, Moves DEF EndLoop
<1>11. ASSUME NEW k \in todo, Take(k) PROVE FeeInv'
  <2> DEFINE rec == [Idle EXCEPT !.pc = "lock", !.op = "sweep", !.key = k]
  <2>1. rec \in JobState /\ rec.pc = "lock" /\ rec.key = k /\ k \in Keys
    BY <1>0, IdleType DEF TypeOK, JobState, PCs, Ops
  <2>2. job' = [job EXCEPT ![Cron] = rec] /\ job'[Cron] = rec
    BY <1>0, <1>11, JobAt DEF Take
  <2>3. move[k].done /\ UNCHANGED <<move, taken, wire, lock>> /\ todo' \subseteq todo
    BY <1>11, <2>1 DEF Take, FeeInv, MoveOK
  <2> HIDE DEF rec
  <2>4. WorkerOK(Cron)'
    BY <2>1, <2>2, <2>3 DEF WorkerOK, Critical
  <2> QED
    BY <1>0, <2>1, <2>2, <2>3, <2>4, Moves
<1>12. ASSUME NEW call \in wire, WireArrives(call) PROVE FeeInv'
  <2>1. call \in Call /\ call.key \in Keys
    BY <1>0 DEF TypeOK, Call
  <2>2. \A k \in Keys : call = FeeCall(k) <=> call.what = "fee" /\ call.key = k
    BY <2>1 DEF Call, FeeCall
  <2>3. \A k \in Keys : \/ taken'[k] = taken[k] /\ (FeeCall(k) \in wire' => FeeCall(k) \in wire)
                        \/ /\ FeeCall(k) \in wire /\ FeeCall(k) \notin wire'
                           /\ taken'[k] = taken[k] + 1
    <3>1. CASE call.what = "fee"
      BY <1>0, <1>12, <2>1, <2>2, <3>1 DEF WireArrives, TypeOK
    <3>2. CASE call.what # "fee"
      BY <1>12, <3>2 DEF WireArrives
    <3> QED
      BY <3>1, <3>2
  <2> QED
    BY <1>0, <1>12, <2>3, WorldFees DEF WireArrives
<1>13. ASSUME NEW call \in wire, WireLost(call) PROVE FeeInv'
  BY <1>0, <1>13, WorldFees DEF WireLost
<1>14. CASE Credit
  BY <1>0, <1>14, WorldFees DEF Credit
<1>15. CASE Tick
  BY <1>0, <1>15, WorldFees DEF Tick
<1>16. CASE UNCHANGED vars
  BY <1>0, <1>16, WorldFees DEF vars
<1> QED
  BY <1>1, <1>2, <1>3, <1>4, <1>5, <1>6, <1>7, <1>8, <1>9, <1>10, <1>11, <1>12, <1>13, <1>14,
     <1>15, <1>16 DEF Next

LEMMA OneFee == FeeInv => FeeTakenOnce
<1> SUFFICES ASSUME FeeInv, NEW k \in Keys
             PROVE  taken[k] + Cardinality({call \in wire : call = FeeCall(k)}) <= 1
  BY DEF FeeTakenOnce, FeeCall
<1>0. taken[k] \in Nat
  BY DEF FeeInv, TypeOK
<1>1. CASE FeeCall(k) \in wire
  <2>1. {call \in wire : call = FeeCall(k)} = {FeeCall(k)}
    BY <1>1
  <2>2. Cardinality({FeeCall(k)}) = 1
    BY FS_Singleton
  <2>3. taken[k] = 0
    BY <1>0, <1>1 DEF FeeInv, MoveOK
  <2> QED
    BY <2>1, <2>2, <2>3
<1>2. CASE FeeCall(k) \notin wire
  <2>1. {call \in wire : call = FeeCall(k)} = {}
    BY <1>2
  <2>2. Cardinality({}) = 0
    BY FS_EmptySet
  <2>3. taken[k] <= 1
    BY DEF FeeInv, MoveOK
  <2> QED
    BY <1>0, <2>1, <2>2, <2>3
<1> QED
  BY <1>1, <1>2

\* A movement's fee is swept at most once, whoever sweeps it, whatever is lost
\* and whoever dies: it is claimed before the bank hears of it, never released,
\* and claimed once because the sweep holds the business lock.
THEOREM FeeOnce == Spec => []FeeTakenOnce
<1>1. Init => FeeInv
  BY FeeInit
<1>2. FeeInv /\ [Next]_vars => FeeInv'
  BY FeeNext
<1>3. FeeInv => FeeTakenOnce
  BY OneFee
<1> QED
  BY <1>1, <1>2, <1>3, PTL DEF Spec

-----------------------------------------------------------------------------
(* No way round the lock of a pot *)

\* A promise is kept by an active pot, up to its opening day at most.
HeldOK(p) ==
  held[p] # 0 => /\ pot[p].status = "active" /\ held[p] <= pot[p].until
                 /\ pot[p].balance > 0 \/ pot[p].mode = "strict"

\* What the gate has seen still holds when the pot is written.
SaveOK(w) ==
  LET p == job[w].pot
  IN  job[w].pc = "save" =>
        /\ pot[p].status # "none"
        /\ job[w].op = "close" => pot[p].balance = 0
        /\ job[w].op = "relock" => held[p] <= job[w].until
        /\ job[w].op = "withdraw" /\ now < held[p] =>
             pot[p].mode = "flexible" /\ job[w].fee = BreakFee

LockInv == FeeInv /\ (\A p \in Pots : HeldOK(p)) /\ (\A w \in Workers : SaveOK(w))

Kept(p) ==
  pot'[p].balance < pot[p].balance /\ now < held[p] =>
    /\ pot[p].mode = "flexible"
    /\ \E k \in Keys : ~move[k].done /\ move'[k].done /\ move'[k].fee = BreakFee

LEMMA PotAt ==
  ASSUME TypeOK, NEW p \in Pots
  PROVE  /\ pot[p] \in Pot /\ pot[p].balance \in Nat /\ pot[p].until \in Nat
         /\ pot[p].mode \in Modes /\ held[p] \in Nat /\ now \in Nat
  BY DEF TypeOK, Pot

\* Steps that write no pot and let nobody through a gate.
LEMMA Elsewhere ==
  ASSUME LockInv, FeeInv', UNCHANGED <<pot, held>>, now' >= now,
         \A w \in Workers : job'[w].pc = "save" => job'[w] = job[w]
  PROVE  LockInv' /\ \A p \in Pots : Kept(p)
<1>0. TypeOK
  BY DEF LockInv, FeeInv
<1>1. ASSUME NEW p \in Pots PROVE HeldOK(p)'
  BY <1>1 DEF LockInv, HeldOK
<1>2. ASSUME NEW w \in Workers PROVE SaveOK(w)'
  <2>1. SUFFICES ASSUME job'[w].pc = "save" PROVE SaveOK(w)'
    BY DEF SaveOK
  <2>2. job'[w] = job[w] /\ SaveOK(w) /\ job[w].pot \in Pots
    BY <1>0, <2>1, JobAt DEF LockInv
  <2>3. now' < held[job[w].pot] => now < held[job[w].pot]
    BY <1>0, <2>2, PotAt DEF FeeInv, TypeOK
  <2> QED
    BY <2>1, <2>2, <2>3 DEF SaveOK
<1>3. ASSUME NEW p \in Pots PROVE Kept(p)
  BY <1>0, <1>3, PotAt DEF Kept
<1> QED
  BY <1>1, <1>2, <1>3 DEF LockInv

\* Steps of one worker that ends up neither at a write nor in a pot.
LEMMA Passes ==
  ASSUME LockInv, FeeInv', UNCHANGED <<now, pot, held>>, NEW w \in Workers,
         job'[w].pc # "save", \A v \in Workers : v # w => job'[v] = job[v]
  PROVE  LockInv' /\ \A p \in Pots : Kept(p)
<1>1. now' >= now
  BY DEF LockInv, FeeInv, TypeOK
<1> QED
  BY <1>1, Elsewhere

LEMMA FinishAt ==
  ASSUME LockInv, NEW w \in Workers, Finish(w)
  PROVE  job'[w].pc # "save" /\ \A v \in Workers : v # w => job'[v] = job[v]
<1>1. FeeInv /\ job \in [Workers -> JobState]
  BY JobAt DEF LockInv, FeeInv
<1> QED
  BY <1>1, FinishForm

LEMMA GoAt ==
  ASSUME LockInv, NEW w \in Workers, NEW pc \in PCs, pc # "save", Go(w, pc)
  PROVE  job'[w].pc # "save" /\ \A v \in Workers : v # w => job'[v] = job[v]
  BY GoForm DEF LockInv

LEMMA PassAt ==
  ASSUME LockInv, NEW w \in Workers, NEW pc \in PCs, NEW fee \in Nat, PassGate(w, pc, fee)
  PROVE  /\ job'[w].pot = job[w].pot /\ job'[w].op = job[w].op /\ job'[w].until = job[w].until
         /\ job'[w].pc = pc /\ job'[w].fee = fee /\ \A v \in Workers : v # w => job'[v] = job[v]
<1>1. TypeOK /\ job \in [Workers -> JobState] /\ job[w] \in JobState
  BY JobAt DEF LockInv, FeeInv
<1>2. job' = [job EXCEPT ![w] = [job[w] EXCEPT !.pc = pc, !.fee = fee]]
  BY <1>1 DEF PassGate
<1> QED
  BY <1>1, <1>2 DEF JobState

\* Through a gate: what the write relies on is known.
LEMMA Enters ==
  ASSUME LockInv, FeeInv', NEW w \in Workers, NEW fee \in Nat, PassGate(w, "save", fee),
         pot[job[w].pot].status = "active",
         job[w].op = "close" => pot[job[w].pot].balance = 0,
         job[w].op = "relock" => held[job[w].pot] <= job[w].until,
         job[w].op = "withdraw" /\ now < held[job[w].pot] =>
           pot[job[w].pot].mode = "flexible" /\ fee = BreakFee
  PROVE  LockInv' /\ \A p \in Pots : Kept(p)
<1>0. TypeOK /\ "save" \in PCs
  BY DEF LockInv, FeeInv, PCs
<1>2. /\ job'[w].pot = job[w].pot /\ job'[w].op = job[w].op /\ job'[w].until = job[w].until
      /\ job'[w].fee = fee /\ \A v \in Workers : v # w => job'[v] = job[v]
  BY <1>0, PassAt
<1>3. UNCHANGED <<now, pot, held>>
  BY DEF PassGate
<1>4. SaveOK(w)'
  BY <1>2, <1>3 DEF SaveOK
<1>5. ASSUME NEW v \in Workers, v # w PROVE SaveOK(v)'
  BY <1>2, <1>3, <1>5 DEF LockInv, SaveOK
<1>6. ASSUME NEW p \in Pots PROVE HeldOK(p)' /\ Kept(p)
  BY <1>0, <1>3, <1>6, PotAt DEF LockInv, HeldOK, Kept
<1> QED
  BY <1>4, <1>5, <1>6 DEF LockInv

\* A write: the writer is alone inside, and leaves with the promise kept.
LEMMA Writes ==
  ASSUME LockInv, FeeInv', NEW w \in Workers, job[w].pc = "save", now' = now,
         NEW p \in Pots, NEW q \in Pot, SetPot(p, q),
         job'[w].pc # "save", \A v \in Workers : v # w => job'[v] = job[v],
         q.status = "active" /\ (q.balance > 0 \/ q.mode = "strict") => held[p] <= q.until
  PROVE  LockInv'
<1>0. TypeOK /\ q.until \in Nat /\ q.balance \in Nat
  BY DEF LockInv, FeeInv, Pot
<1>1. pot'[p] = q /\ held'[p] = Promise(p, q)
  BY <1>0 DEF SetPot, TypeOK
<1>2. \A r \in Pots : r # p => pot'[r] = pot[r] /\ held'[r] = held[r]
  BY <1>0 DEF SetPot, TypeOK
<1>3. HeldOK(p)'
  BY <1>0, <1>1, PotAt DEF HeldOK, Promise
<1>4. ASSUME NEW r \in Pots PROVE HeldOK(r)'
  <2>1. CASE r = p
    BY <1>3, <2>1
  <2>2. CASE r # p
    BY <1>2, <2>2 DEF LockInv, HeldOK
  <2> QED
    BY <2>1, <2>2
<1>5. ASSUME NEW v \in Workers PROVE SaveOK(v)'
  <2>1. v # w => job[v].pc \notin Critical
    BY OneInside DEF LockInv, Critical
  <2>2. job'[v].pc # "save"
    BY <2>1 DEF Critical
  <2> QED
    BY <2>2 DEF SaveOK
<1> QED
  BY <1>4, <1>5 DEF LockInv

\* A movement ends at the fee or nowhere.
LEMMA AfterMovement ==
  ASSUME LockInv, NEW w \in Workers,
         IF job[w].fee > 0 THEN Go(w, "fee") /\ UNCHANGED lock ELSE Finish(w)
  PROVE  job'[w].pc # "save" /\ \A v \in Workers : v # w => job'[v] = job[v]
<1>1. CASE job[w].fee > 0
  BY <1>1, GoAt DEF PCs
<1>2. CASE ~(job[w].fee > 0)
  BY <1>2, FinishAt
<1> QED
  BY <1>1, <1>2

-----------------------------------------------------------------------------
LEMMA HandleLocks ==
  ASSUME LockInv, FeeInv', NEW w \in Workers, Handle(w)
  PROVE  LockInv' /\ \A p \in Pots : Kept(p)
<1> DEFINE p == job[w].pot
<1>0. /\ TypeOK /\ p \in Pots /\ job[w].fee \in Nat /\ job[w].until \in Nat /\ job[w].mode \in Modes
      /\ Amount(w) \in Nat \ {0} /\ pot[p] \in Pot /\ job[w].key \in Keys
  BY JobAt DEF LockInv, FeeInv
<1>00. /\ pot[p].balance \in Nat /\ pot[p].until \in Nat /\ held[p] \in Nat /\ now \in Nat
       /\ pot[p].mode \in Modes /\ HeldOK(p) /\ SaveOK(w)
  BY <1>0, PotAt DEF LockInv
<1>1. CASE Refuse(w)
  BY <1>1, FinishAt, Passes DEF Refuse
<1>2. CASE GateDeposit(w)
  <2>1. PassGate(w, "save", DepositFee) /\ job[w].op = "deposit" /\ pot[p].status = "active"
    BY <1>2 DEF GateDeposit, Gate
  <2> QED
    BY <2>1, Enters, NumbersAssumption
<1>3. CASE GateWithdraw(w)
  <2>1. /\ PassGate(w, "save", IF IsLocked(p) THEN BreakFee ELSE 0) /\ job[w].op = "withdraw"
        /\ pot[p].status = "active" /\ (IsLocked(p) => pot[p].mode = "flexible")
    BY <1>3 DEF GateWithdraw, Gate
  <2>2. now < held[p] => IsLocked(p)
    BY <1>00 DEF HeldOK, IsLocked
  <2>3. CASE IsLocked(p)
    BY <2>1, <2>3, Enters, NumbersAssumption
  <2>4. CASE ~IsLocked(p)
    BY <2>1, <2>2, <2>4, Enters
  <2> QED
    BY <2>3, <2>4
<1>4. CASE GateSend(w)
  <2>1. PassGate(w, "pay", 0) /\ "pay" \in PCs
    BY <1>4 DEF GateSend, PCs
  <2>2. job'[w].pc = "pay" /\ \A v \in Workers : v # w => job'[v] = job[v]
    BY <2>1, PassAt
  <2> QED
    BY <2>1, <2>2, Passes DEF PassGate
<1>5. CASE GateClose(w)
  <2>1. /\ PassGate(w, "save", 0) /\ job[w].op = "close" /\ pot[p].status = "active"
        /\ pot[p].balance = 0
    BY <1>5 DEF GateClose, Gate
  <2> QED
    BY <2>1, Enters
<1>6. CASE GateRelock(w)
  <2>1. /\ PassGate(w, "save", 0) /\ job[w].op = "relock" /\ pot[p].status = "active"
    BY <1>6 DEF GateRelock, Gate
  <2>2. job[w].until > now
    BY <1>6 DEF GateRelock
  <2>3. (IsLocked(p) /\ (pot[p].mode = "strict" \/ pot[p].balance > 0)) => job[w].until >= pot[p].until
    BY <1>6 DEF GateRelock
  <2>4. held[p] <= job[w].until
    BY <1>0, <1>00, <2>2, <2>3 DEF HeldOK, IsLocked
  <2> QED
    BY <2>1, <2>4, Enters
<1>7. CASE SaveDeposit(w)
  <2> DEFINE q == [pot[p] EXCEPT !.balance = @ + Amount(w)]
  <2>1. q \in Pot /\ q.until = pot[p].until /\ q.balance >= pot[p].balance
    BY <1>0, <1>00 DEF Pot
  <2>2. SetPot(p, q) /\ now' = now /\ job[w].pc = "save"
    BY <1>7 DEF SaveDeposit
  <2>3. held[p] <= q.until
    BY <1>00, <2>1 DEF HeldOK
  <2>4. job'[w].pc # "save" /\ \A v \in Workers : v # w => job'[v] = job[v]
    BY <1>7, AfterMovement DEF SaveDeposit
  <2>5. pot' = [pot EXCEPT ![p] = q]
    BY <2>2 DEF SetPot
  <2> HIDE DEF q
  <2>6. LockInv'
    BY <1>0, <2>1, <2>2, <2>3, <2>4, Writes
  <2>7. ASSUME NEW r \in Pots PROVE Kept(r)
    BY <1>0, <2>1, <2>5, PotAt DEF Kept, TypeOK, Pot
  <2> QED
    BY <2>6, <2>7
<1>8. CASE SaveWithdrawal(w)
  <2> DEFINE q == [pot[p] EXCEPT !.balance = @ - Amount(w)]
  <2>1. q \in Pot /\ q.until = pot[p].until
    BY <1>0, <1>00, <1>8 DEF Pot, SaveWithdrawal
  <2>2. /\ SetPot(p, q) /\ now' = now /\ job[w].pc = "save" /\ job[w].op = "withdraw"
        /\ Record(job[w].key, job[w].fee)
    BY <1>8 DEF SaveWithdrawal
  <2>3. held[p] <= q.until
    BY <1>00, <2>1 DEF HeldOK
  <2>4. job'[w].pc # "save" /\ \A v \in Workers : v # w => job'[v] = job[v]
    BY <1>8, AfterMovement DEF SaveWithdrawal
  <2>5. pot' = [pot EXCEPT ![p] = q]
    BY <2>2 DEF SetPot
  <2> HIDE DEF q
  <2>6. LockInv'
    BY <1>0, <2>1, <2>2, <2>3, <2>4, Writes
  <2>7. ~move[job[w].key].done
    BY <2>2 DEF LockInv, FeeInv, WorkerOK
  <2>8. move'[job[w].key].done /\ move'[job[w].key].fee = job[w].fee
    BY <1>0, <2>2 DEF Record, TypeOK
  <2>9. Kept(p)
    BY <1>0, <1>00, <2>2, <2>7, <2>8 DEF Kept, SaveOK
  <2>10. ASSUME NEW r \in Pots, r # p PROVE Kept(r)
    BY <1>0, <2>5, <2>10, PotAt DEF Kept, TypeOK
  <2> QED
    BY <2>6, <2>9, <2>10
<1>9. CASE SaveRefused(w)
  BY <1>9, FinishAt, Passes DEF SaveRefused
<1>10. CASE SaveClose(w)
  <2> DEFINE q == [pot[p] EXCEPT !.status = "closed", !.balance = 0]
  <2>1. q \in Pot /\ q.status = "closed" /\ q.balance = 0
    BY <1>0 DEF Pot
  <2>2. SetPot(p, q) /\ now' = now /\ job[w].pc = "save" /\ job[w].op = "close"
    BY <1>10 DEF SaveClose
  <2>3. job'[w].pc # "save" /\ \A v \in Workers : v # w => job'[v] = job[v]
    BY <1>10, FinishAt DEF SaveClose
  <2>4. pot' = [pot EXCEPT ![p] = q] /\ pot[p].balance = 0
    BY <1>00, <2>2 DEF SetPot, SaveOK
  <2> HIDE DEF q
  <2>5. LockInv'
    BY <1>0, <2>1, <2>2, <2>3, Writes
  <2>6. ASSUME NEW r \in Pots PROVE Kept(r)
    BY <1>0, <2>1, <2>4, PotAt DEF Kept, TypeOK
  <2> QED
    BY <2>5, <2>6
<1>11. CASE SaveLock(w)
  <2> DEFINE q == [pot[p] EXCEPT !.until = job[w].until, !.mode = job[w].mode]
  <2>1. q \in Pot /\ q.until = job[w].until /\ q.balance = pot[p].balance
    BY <1>0 DEF Pot
  <2>2. SetPot(p, q) /\ now' = now /\ job[w].pc = "save" /\ job[w].op = "relock"
    BY <1>11 DEF SaveLock
  <2>3. held[p] <= q.until
    BY <1>00, <2>1, <2>2 DEF SaveOK
  <2>4. job'[w].pc # "save" /\ \A v \in Workers : v # w => job'[v] = job[v]
    BY <1>11, FinishAt DEF SaveLock
  <2>5. pot' = [pot EXCEPT ![p] = q]
    BY <2>2 DEF SetPot
  <2> HIDE DEF q
  <2>6. LockInv'
    BY <1>0, <2>1, <2>2, <2>3, <2>4, Writes
  <2>7. ASSUME NEW r \in Pots PROVE Kept(r)
    BY <1>0, <2>1, <2>5, PotAt DEF Kept, TypeOK
  <2> QED
    BY <2>6, <2>7
<1>12. CASE PayAccepted(w)
  BY <1>12, FinishAt, Passes DEF PayAccepted
<1>13. CASE PayRefused(w)
  BY <1>13, FinishAt, Passes DEF PayRefused
<1>14. CASE PayUnknown(w)
  BY <1>14, FinishAt, Passes DEF PayUnknown
<1> QED
  BY <1>1, <1>2, <1>3, <1>4, <1>5, <1>6, <1>7, <1>8, <1>9, <1>10, <1>11, <1>12, <1>13, <1>14
     DEF Handle

LEMMA CollectLocks ==
  ASSUME LockInv, FeeInv', NEW w \in Workers, Collect(w)
  PROVE  LockInv' /\ \A p \in Pots : Kept(p)
<1>0. {"claim", "sweep", "row"} \subseteq PCs
  BY DEF PCs
<1>1. CASE FeeSkipped(w) \/ FeeWaits(w) \/ SweepRefused(w) \/ BookFee(w) \/ BookFeeFails(w)
  BY <1>1, FinishAt, Passes DEF FeeSkipped, FeeWaits, SweepRefused, BookFee, BookFeeFails
<1>2. CASE FeePasses(w) \/ SweepAccepted(w) \/ SweepUnknown(w)
  BY <1>0, <1>2, GoAt, Passes DEF FeePasses, SweepAccepted, SweepUnknown
<1>3. CASE Claim(w)
  <2>1. job'[w].pc # "save" /\ \A v \in Workers : v # w => job'[v] = job[v]
    BY <1>0, <1>3, GoAt, FinishAt DEF Claim
  <2> QED
    BY <1>3, <2>1, Passes DEF Claim
<1> QED
  BY <1>1, <1>2, <1>3 DEF Collect

LEMMA LockInit == Init => LockInv
<1> SUFFICES ASSUME Init PROVE LockInv
  OBVIOUS
<1>1. FeeInv
  BY FeeInit
<1>2. ASSUME NEW p \in Pots PROVE HeldOK(p)
  BY DEF Init, HeldOK
<1>3. ASSUME NEW w \in Workers PROVE SaveOK(w)
  BY IdleType DEF Init, SaveOK
<1> QED
  BY <1>1, <1>2, <1>3 DEF LockInv

LEMMA LockNext == LockInv /\ [Next]_vars => LockInv' /\ \A p \in Pots : Kept(p)
<1> DEFINE Goal == LockInv' /\ \A p \in Pots : Kept(p)
<1> SUFFICES ASSUME LockInv, [Next]_vars PROVE Goal
  OBVIOUS
<1>0. FeeInv' /\ TypeOK /\ Cron \in Workers /\ job \in [Workers -> JobState]
  BY FeeNext, JobAt DEF LockInv, FeeInv, Workers
<1>1. ASSUME NEW p \in Pots, NEW d \in 1..Horizon, NEW m \in Modes, Create(p, d, m) PROVE Goal
  <2> DEFINE q == [status |-> "active", balance |-> 0, until |-> d, mode |-> m]
  <2>1. pot[p].status = "none" /\ SetPot(p, q) /\ UNCHANGED <<now, job>>
    BY <1>1 DEF Create
  <2>2. held[p] = 0
    BY <2>1 DEF LockInv, HeldOK
  <2>3. d \in Nat /\ q.until = d /\ q.status = "active" /\ q.mode = m /\ q.balance = 0
    BY NumbersAssumption
  <2>4. /\ pot'[p] = q /\ held'[p] = Promise(p, q)
        /\ \A r \in Pots : r # p => pot'[r] = pot[r] /\ held'[r] = held[r]
    BY <1>0, <2>1 DEF SetPot, TypeOK
  <2> HIDE DEF q
  <2>5. HeldOK(p)'
    BY <2>2, <2>3, <2>4 DEF HeldOK, Promise
  <2>6. ASSUME NEW r \in Pots, r # p PROVE HeldOK(r)'
    BY <2>4, <2>6 DEF LockInv, HeldOK
  <2>7. ASSUME NEW w \in Workers PROVE SaveOK(w)'
    <3>1. job[w].pc = "save" => job[w].pot # p
      BY <2>1, <2>7 DEF LockInv, SaveOK
    <3>2. job[w].pot \in Pots
      BY <1>0, JobAt
    <3> QED
      BY <2>1, <2>4, <3>1, <3>2 DEF LockInv, SaveOK
  <2>8. ASSUME NEW r \in Pots PROVE Kept(r)
    BY <1>0, <2>2, <2>4, <2>8, PotAt DEF Kept
  <2> QED
    BY <1>0, <2>5, <2>6, <2>7, <2>8 DEF LockInv
<1>2. ASSUME NEW j \in Jobs, NEW rec, Start(j, rec), rec.pc = "lock" PROVE Goal
  <2>1. j \in Workers /\ job'[j].pc # "save" /\ \A v \in Workers : v # j => job'[v] = job[v]
    BY <1>0, <1>2 DEF Start, Workers
  <2> QED
    BY <1>0, <1>2, <2>1, Passes DEF Start
<1>3. ASSUME NEW j \in Jobs, NEW p \in Pots, NEW d \in 1..Horizon, NEW m \in Modes, Relock(j, p, d, m)
      PROVE Goal
  BY <1>2, <1>3, IdleType DEF Relock, JobState
<1>4. ASSUME NEW j \in Jobs, NEW k \in Keys, Request(j, k) PROVE Goal
  BY <1>2, <1>4, IdleType DEF Request, JobState
<1>5. ASSUME NEW j \in Jobs, NEW p \in Pots, Close(j, p) PROVE Goal
  BY <1>2, <1>5, IdleType DEF Close, JobState
<1>6. ASSUME NEW w \in Workers, Acquire(w) PROVE Goal
  <2>1. job'[w].pc # "save" /\ \A v \in Workers : v # w => job'[v] = job[v]
    BY <1>6, GoAt DEF Acquire, PCs
  <2> QED
    BY <1>0, <1>6, <2>1, Passes DEF Acquire
<1>7. ASSUME NEW w \in Workers, Handle(w) PROVE Goal
  BY <1>0, <1>7, HandleLocks
<1>8. ASSUME NEW w \in Workers, Collect(w) PROVE Goal
  BY <1>0, <1>8, CollectLocks
<1>9. ASSUME NEW w \in Workers, Crash(w) PROVE Goal
  <2>1. job'[w].pc # "save" /\ \A v \in Workers : v # w => job'[v] = job[v]
    BY <1>0, <1>9, IdleType DEF Crash
  <2> QED
    BY <1>0, <1>9, <2>1, Passes DEF Crash
<1>10. CASE StartLoop \/ EndLoop
  <2>1. job'[Cron].pc # "save" /\ \A v \in Workers : v # Cron => job'[v] = job[v]
    BY <1>0, <1>10, GoAt DEF StartLoop, EndLoop, PCs
  <2> QED
    BY <1>0, <1>10, <2>1, Passes DEF StartLoop, EndLoop
<1>11. ASSUME NEW k \in todo, Take(k) PROVE Goal
  <2>1. job'[Cron].pc # "save" /\ \A v \in Workers : v # Cron => job'[v] = job[v]
    BY <1>0, <1>11, IdleType DEF Take, JobState
  <2> QED
    BY <1>0, <1>11, <2>1, Passes DEF Take
<1>12. ASSUME NEW call \in wire, WireArrives(call) \/ WireLost(call) PROVE Goal
  BY <1>0, <1>12, Elsewhere DEF WireArrives, WireLost, TypeOK
<1>13. CASE Credit \/ Tick
  BY <1>0, <1>13, Elsewhere DEF Credit, Tick, TypeOK
<1>14. CASE UNCHANGED vars
  BY <1>0, <1>14, Elsewhere DEF vars, TypeOK
<1> QED
  BY <1>1, <1>3, <1>4, <1>5, <1>6, <1>7, <1>8, <1>9, <1>10, <1>11, <1>12, <1>13, <1>14 DEF Next

\* However a merchant re-locks, empties, closes and refills pots, money leaves one
\* before its promised day only early, from a Breakable pot, and with the fee
\* (lockAllows, updatePot).
THEOREM NoWayRound == Spec => NoWayRoundTheLock
<1>1. Init => LockInv
  BY LockInit
<1>2. LockInv /\ [Next]_vars => LockInv'
  BY LockNext
<1>3. LockInv /\ [Next]_vars =>
        [\A p \in Pots :
           pot'[p].balance < pot[p].balance /\ now < held[p] =>
             /\ pot[p].mode = "flexible"
             /\ \E k \in Keys : ~move[k].done /\ move'[k].done /\ move'[k].fee = BreakFee]_vars
  BY LockNext DEF Kept
<1> QED
  BY <1>1, <1>2, <1>3, PTL DEF Spec, NoWayRoundTheLock

-----------------------------------------------------------------------------
(* What the pots set aside, and what their movements say *)

Room(x) == Reserved + x <= gross + late

\* What a worker has seen free is still free when it moves the money.
RoomOK(w) ==
  /\ job[w].pc = "save" /\ job[w].op = "deposit" => Room(Amount(w))
  /\ job[w].pc = "pay" => Room(Amount(w))
  /\ job[w].pc \in {"claim", "sweep"} => Room(FeeOf(w))

\* A movement's handler works on the pot the client named.
AskedOK(w) ==
  job[w].op \in {"deposit", "withdraw"} =>
    Ask[job[w].key].op = job[w].op /\ Ask[job[w].key].pot = job[w].pot

\* Only an open pot holds money.
EmptyOK(p) == pot[p].status # "active" => pot[p].balance = 0

BackInv ==
  /\ LockInv /\ ReserveBacked /\ PotsMatchMoves
  /\ \A w \in Workers : RoomOK(w) /\ AskedOK(w)
  /\ \A p \in Pots : EmptyOK(p)

-----------------------------------------------------------------------------
(* The two sums *)

\* What the pots hold is a finite sum.
LEMMA ActiveFinite == IsFiniteSet(Active)
  BY KeysAssumption, FS_Subset DEF Active

LEMMA ReservedNat == ASSUME TypeOK PROVE Reserved \in Nat
<1> DEFINE f == [p \in Active |-> pot[p].balance]
<1>1. IsFiniteSet(DOMAIN f) /\ \A p \in DOMAIN f : f[p] \in Nat
  BY ActiveFinite, PotAt DEF Active
<1>2. Reserved = SumFunction(f)
  BY DEF Reserved
<1> HIDE DEF f
<1> QED
  BY <1>1, <1>2, SumNat

\* A pot is written: the reserve changes by what the pot does.
LEMMA ReservedPut ==
  ASSUME TypeOK, NEW p \in Pots, NEW q \in Pot, pot' = [pot EXCEPT ![p] = q],
         EmptyOK(p), q.status # "active" => q.balance = 0
  PROVE  Reserved' = Reserved - pot[p].balance + q.balance
<1> DEFINE f == [r \in Active |-> pot[r].balance]
           g == [r \in Active' |-> pot'[r].balance]
<1>1. Reserved = SumFunction(f) /\ Reserved' = SumFunction(g)
  BY DEF Reserved
<1>2. pot'[p] = q /\ q.balance \in Nat /\ pot[p].balance \in Nat /\ \A r \in Pots : r # p => pot'[r] = pot[r]
  BY PotAt DEF TypeOK, Pot
<1>3. /\ \A r \in Pots : r # p => (r \in Active' <=> r \in Active)
      /\ p \in Active <=> pot[p].status = "active"
      /\ p \in Active' <=> q.status = "active"
      /\ Active \subseteq Pots /\ Active' \subseteq Pots
  BY <1>2 DEF Active
<1>4. DOMAIN f = Active /\ DOMAIN g = Active' /\ IsFiniteSet(Active) /\ IsFiniteSet(Active')
  BY <1>3, KeysAssumption, FS_Subset
<1>5. /\ \A r \in Active : f[r] = pot[r].balance /\ f[r] \in Nat
      /\ \A r \in Active' : g[r] = pot'[r].balance /\ g[r] \in Nat
  BY <1>2, <1>3, PotAt
<1>6. SumFunction(f) \in Int
  BY <1>1, ReservedNat
<1> HIDE DEF f, g
<1>7. CASE p \in Active /\ p \in Active'
  <2>1. DOMAIN g = DOMAIN f
    BY <1>3, <1>4, <1>7
  <2>2. SumFunction(g) = SumFunction(f) - f[p] + g[p]
    <3>1. \A y \in DOMAIN f : f[y] \in Int /\ g[y] \in Int
      BY <1>4, <1>5, <2>1
    <3>2. \A y \in DOMAIN f \ {p} : g[y] = f[y]
      BY <1>2, <1>3, <1>4, <1>5, <2>1
    <3> QED
      BY <1>4, <1>7, <2>1, <3>1, <3>2, SumChanged
  <2> QED
    BY <1>1, <1>2, <1>5, <1>7, <2>2
<1>8. CASE p \notin Active /\ p \in Active'
  <2>1. DOMAIN g = DOMAIN f \cup {p} /\ p \notin DOMAIN f
    BY <1>3, <1>4, <1>8
  <2>2. SumFunction(g) = SumFunction(f) + g[p]
    <3>1. \A y \in DOMAIN g : g[y] \in Int
      BY <1>4, <1>5
    <3>2. \A y \in DOMAIN f : g[y] = f[y]
      BY <1>2, <1>3, <1>4, <1>5, <1>8
    <3> QED
      BY <1>4, <2>1, <3>1, <3>2, SumWith
  <2>3. pot[p].balance = 0 /\ g[p] = q.balance
    BY <1>2, <1>3, <1>5, <1>8 DEF EmptyOK
  <2> QED
    BY <1>1, <1>2, <1>6, <2>2, <2>3
<1>9. CASE p \in Active /\ p \notin Active'
  <2>1. DOMAIN f = DOMAIN g \cup {p} /\ p \notin DOMAIN g
    BY <1>3, <1>4, <1>9
  <2>2. SumFunction(f) = SumFunction(g) + f[p]
    <3>1. \A y \in DOMAIN f : f[y] \in Int
      BY <1>4, <1>5
    <3>2. \A y \in DOMAIN g : f[y] = g[y]
      BY <1>2, <1>3, <1>4, <1>5, <1>9
    <3> QED
      BY <1>4, <2>1, <3>1, <3>2, SumWith
  <2>3. q.balance = 0 /\ f[p] = pot[p].balance
    BY <1>2, <1>3, <1>5, <1>9
  <2>4. SumFunction(g) \in Int
    <3>1. \A y \in DOMAIN g : g[y] \in Int
      BY <1>4, <1>5
    <3> QED
      BY <1>4, <3>1, SumInt
  <2> QED
    BY <1>1, <1>2, <1>6, <2>2, <2>3, <2>4
<1>10. CASE p \notin Active /\ p \notin Active'
  <2>1. pot[p].balance = 0 /\ q.balance = 0
    BY <1>3, <1>10 DEF EmptyOK
  <2>2. Active' = Active /\ \A r \in Active : pot'[r].balance = pot[r].balance
    BY <1>2, <1>3, <1>10
  <2>3. Reserved' = Reserved
    BY <2>2 DEF Reserved
  <2> QED
    BY <1>1, <1>6, <2>1, <2>3
<1> QED
  BY <1>7, <1>8, <1>9, <1>10

Counted(p, op) == {k \in Keys : move[k].done /\ Ask[k].pot = p /\ Ask[k].op = op}

\* What the movements of a kind come to.
LEMMA MovedNat ==
  ASSUME NEW p, NEW op
  PROVE  Moved(p, op) \in Nat
<1> DEFINE f == [k \in Counted(p, op) |-> Ask[k].amount]
<1>1. IsFiniteSet(DOMAIN f) /\ \A k \in DOMAIN f : f[k] \in Nat
  BY KeysAssumption, FS_Subset, AskType DEF Counted
<1>2. Moved(p, op) = SumFunction(f)
  BY DEF Moved, Counted
<1> HIDE DEF f
<1> QED
  BY <1>1, <1>2, SumNat

\* No movement is added.
LEMMA MovedSame ==
  ASSUME NEW p, NEW op, Counted(p, op)' = Counted(p, op)
  PROVE  Moved(p, op)' = Moved(p, op)
  BY DEF Moved, Counted

\* A movement is added.
LEMMA MovedMore ==
  ASSUME NEW p, NEW op, NEW k \in Keys, k \notin Counted(p, op),
         Counted(p, op)' = Counted(p, op) \cup {k}
  PROVE  Moved(p, op)' = Moved(p, op) + Ask[k].amount
<1> DEFINE f == [l \in Counted(p, op) |-> Ask[l].amount]
           g == [l \in Counted(p, op)' |-> Ask[l].amount]
<1>1. Moved(p, op) = SumFunction(f) /\ Moved(p, op)' = SumFunction(g)
  BY DEF Moved, Counted
<1>2. /\ DOMAIN f = Counted(p, op) /\ IsFiniteSet(DOMAIN f) /\ DOMAIN g = DOMAIN f \cup {k}
      /\ \A l \in DOMAIN f : g[l] = f[l]
      /\ \A l \in DOMAIN g : g[l] \in Int
      /\ g[k] = Ask[k].amount
  BY KeysAssumption, FS_Subset, AskType DEF Counted
<1> HIDE DEF f, g
<1>3. SumFunction(g) = SumFunction(f) + g[k]
  BY <1>2, SumWith
<1> QED
  BY <1>1, <1>2, <1>3

\* A step that records no movement.
LEMMA MatchSame ==
  ASSUME PotsMatchMoves, \A p \in Pots : pot'[p].balance = pot[p].balance,
         \A k \in Keys : move'[k].done = move[k].done
  PROVE  PotsMatchMoves'
<1> SUFFICES ASSUME NEW p \in Pots
             PROVE  pot'[p].balance = Moved(p, "deposit")' - Moved(p, "withdraw")'
  BY DEF PotsMatchMoves
<1>1. Counted(p, "deposit")' = Counted(p, "deposit") /\ Counted(p, "withdraw")' = Counted(p, "withdraw")
  BY DEF Counted
<1> QED
  BY <1>1, MovedSame DEF PotsMatchMoves

\* A deposit or a withdrawal is written to its pot and recorded.
LEMMA MatchMore ==
  ASSUME TypeOK, PotsMatchMoves, NEW p \in Pots, NEW k \in Keys,
         ~move[k].done, move'[k].done, \A l \in Keys : l # k => move'[l].done = move[l].done,
         Ask[k].pot = p, \A r \in Pots : r # p => pot'[r].balance = pot[r].balance,
         \/ Ask[k].op = "deposit" /\ pot'[p].balance = pot[p].balance + Ask[k].amount
         \/ Ask[k].op = "withdraw" /\ pot'[p].balance = pot[p].balance - Ask[k].amount
  PROVE  PotsMatchMoves'
<1> SUFFICES ASSUME NEW r \in Pots
             PROVE  pot'[r].balance = Moved(r, "deposit")' - Moved(r, "withdraw")'
  BY DEF PotsMatchMoves
<1>0. /\ Moved(r, "deposit") \in Nat /\ Moved(r, "withdraw") \in Nat /\ Ask[k].amount \in Nat
      /\ pot[r].balance = Moved(r, "deposit") - Moved(r, "withdraw")
  BY MovedNat, AskType DEF PotsMatchMoves
<1>1. ASSUME NEW op, r # p \/ op # Ask[k].op PROVE Moved(r, op)' = Moved(r, op)
  <2>1. Counted(r, op)' = Counted(r, op)
    BY <1>1 DEF Counted
  <2> QED
    BY <2>1, MovedSame
<1>2. CASE r # p
  BY <1>0, <1>1, <1>2
<1>3. CASE r = p
  <2>1. k \notin Counted(p, Ask[k].op) /\ Counted(p, Ask[k].op)' = Counted(p, Ask[k].op) \cup {k}
    BY DEF Counted
  <2>2. Moved(p, Ask[k].op)' = Moved(p, Ask[k].op) + Ask[k].amount
    BY <2>1, MovedMore
  <2>3. CASE Ask[k].op = "deposit"
    BY <1>0, <1>1, <1>3, <2>2, <2>3
  <2>4. CASE Ask[k].op = "withdraw"
    BY <1>0, <1>1, <1>3, <2>2, <2>4
  <2> QED
    BY <2>3, <2>4
<1> QED
  BY <1>2, <1>3

-----------------------------------------------------------------------------
(* Steps *)

LEMMA BankNat ==
  ASSUME TypeOK, TypeOK'
  PROVE  gross + late \in Nat /\ gross' + late' \in Nat
<1>1. gross \in Nat /\ late \in Nat
  BY DEF TypeOK
<1>2. gross' \in Nat /\ late' \in Nat
  BY DEF TypeOK
<1>3. gross + late \in Nat
  BY <1>1
<1>4. gross' + late' \in Nat
  <2>1. \A a, b \in Nat : a + b \in Nat
    OBVIOUS
  <2> QED
    BY <1>2, <2>1, Zenon
<1> QED
  BY <1>3, <1>4

\* The other workers: they are outside, or nothing they count on goes away.
LEMMA OthersBacked ==
  ASSUME BackInv, NEW w, \A v \in Workers : v # w => job'[v] = job[v],
         \/ w \in Workers /\ job[w].pc \in Critical
         \/ /\ Reserved' = Reserved /\ gross' + late' >= gross + late /\ gross' + late' \in Nat
            /\ \A k \in Keys : move'[k].fee = move[k].fee
  PROVE  \A v \in Workers : v # w => RoomOK(v)' /\ AskedOK(v)'
<1> SUFFICES ASSUME NEW v \in Workers, v # w PROVE RoomOK(v)' /\ AskedOK(v)'
  OBVIOUS
<1>0. /\ TypeOK /\ FeeInv /\ job'[v] = job[v] /\ RoomOK(v) /\ AskedOK(v)
      /\ job[v].key \in Keys /\ Amount(v) \in Nat /\ FeeOf(v) \in Nat
  BY JobAt DEF BackInv, LockInv, FeeInv
<1>1. AskedOK(v)'
  BY <1>0 DEF AskedOK
<1>2. CASE w \in Workers /\ job[w].pc \in Critical
  <2>1. job[v].pc \notin Critical
    BY <1>0, <1>2, OneInside
  <2> QED
    BY <1>0, <1>1, <2>1 DEF RoomOK, Critical
<1>3. CASE /\ Reserved' = Reserved /\ gross' + late' >= gross + late /\ gross' + late' \in Nat
           /\ \A k \in Keys : move'[k].fee = move[k].fee
  <2>1. Reserved \in Nat /\ gross + late \in Nat
    BY <1>0, ReservedNat DEF TypeOK
  <2>2. Amount(v)' = Amount(v) /\ FeeOf(v)' = FeeOf(v)
    BY <1>0, <1>3 DEF Amount, FeeOf
  <2>3. ASSUME NEW x \in Nat, Room(x) PROVE Reserved' + x <= gross' + late'
    BY <1>3, <2>1, <2>3 DEF Room
  <2> QED
    BY <1>0, <1>1, <2>2, <2>3 DEF RoomOK, Room
<1> QED
  BY <1>2, <1>3

\* A step that writes no pot.
LEMMA Spends ==
  ASSUME BackInv, LockInv', NEW w \in Workers, \A v \in Workers : v # w => job'[v] = job[v],
         pot' = pot, \A k \in Keys : move'[k].done = move[k].done /\ move'[k].fee = move[k].fee,
         gross' + late' >= gross + late \/ (job[w].pc \in Critical /\ Reserved <= gross' + late'),
         RoomOK(w)', AskedOK(w)'
  PROVE  BackInv'
<1>0. TypeOK /\ TypeOK' /\ Reserved \in Nat /\ ReserveBacked /\ PotsMatchMoves
  BY ReservedNat DEF BackInv, LockInv, FeeInv
<1>1. Reserved' = Reserved /\ gross' + late' \in Nat /\ gross + late \in Nat
  <2>1. Reserved' = Reserved
    BY DEF Reserved, Active
  <2> QED
    BY <1>0, <2>1, BankNat
<1>2. ReserveBacked'
  BY <1>0, <1>1 DEF ReserveBacked
<1>3. PotsMatchMoves'
  BY <1>0, MatchSame
<1>4. \A p \in Pots : EmptyOK(p)'
  BY DEF BackInv, EmptyOK
<1>5. \A v \in Workers : v # w => RoomOK(v)' /\ AskedOK(v)'
  BY <1>1, OthersBacked
<1> QED
  BY <1>2, <1>3, <1>4, <1>5 DEF BackInv

\* A step of the world, or of a pot that only now comes to be.
LEMMA WorldBacked ==
  ASSUME BackInv, LockInv', job' = job, move' = move, pot' = pot, gross' + late' >= gross + late
  PROVE  BackInv'
<1>0. TypeOK /\ TypeOK' /\ Reserved \in Nat /\ ReserveBacked /\ PotsMatchMoves
  BY ReservedNat DEF BackInv, LockInv, FeeInv
<1>1. Reserved' = Reserved /\ gross' + late' \in Nat /\ gross + late \in Nat
  <2>1. Reserved' = Reserved
    BY DEF Reserved, Active
  <2> QED
    BY <1>0, <2>1, BankNat
<1>2. ReserveBacked'
  BY <1>0, <1>1 DEF ReserveBacked
<1>3. PotsMatchMoves'
  BY <1>0, MatchSame
<1>4. \A p \in Pots : EmptyOK(p)'
  BY DEF BackInv, EmptyOK
<1>5. \A v \in Workers : RoomOK(v)' /\ AskedOK(v)'
  <2> DEFINE none == CHOOSE x : x \notin Workers
  <2>1. none \notin Workers
    BY NoSetContainsEverything
  <2> HIDE DEF none
  <2> QED
    BY <1>1, <2>1, OthersBacked
<1> QED
  BY <1>2, <1>3, <1>4, <1>5 DEF BackInv

LEMMA FinishBacked ==
  ASSUME BackInv, NEW w \in Workers, Finish(w)
  PROVE  RoomOK(w)' /\ AskedOK(w)' /\ \A v \in Workers : v # w => job'[v] = job[v]
<1>1. job \in [Workers -> JobState] /\ Idle \in JobState
  BY JobAt, IdleType DEF BackInv, LockInv, FeeInv
<1>2. job'[w] = (IF w = Cron THEN [Idle EXCEPT !.pc = "loop"] ELSE Idle)
  BY <1>1 DEF Finish
<1>3. job'[w].pc \in {"idle", "loop"} /\ job'[w].op = "send"
  BY <1>1, <1>2 DEF Idle
<1>4. \A v \in Workers : v # w => job'[v] = job[v]
  BY <1>1 DEF Finish
<1> QED
  BY <1>3, <1>4 DEF RoomOK, AskedOK

LEMMA GoBacked ==
  ASSUME BackInv, NEW w \in Workers, NEW pc \in PCs, Go(w, pc)
  PROVE  /\ AskedOK(w)' /\ job'[w].pc = pc /\ job'[w].key = job[w].key
         /\ \A v \in Workers : v # w => job'[v] = job[v]
<1>1. job \in [Workers -> JobState] /\ job[w] \in JobState /\ AskedOK(w)
  BY JobAt DEF BackInv, LockInv, FeeInv
<1>2. job'[w] = [job[w] EXCEPT !.pc = pc]
  BY <1>1 DEF Go
<1>3. /\ job'[w].op = job[w].op /\ job'[w].key = job[w].key /\ job'[w].pot = job[w].pot
      /\ job'[w].pc = pc
  BY <1>1, <1>2 DEF JobState
<1> QED
  BY <1>1, <1>3 DEF AskedOK, Go

\* A step of a handler that is through and has spent nothing.
LEMMA LeavesBacked ==
  ASSUME BackInv, LockInv', NEW w \in Workers, Finish(w), UNCHANGED <<pot, move, gross, late>>
  PROVE  BackInv'
<1>1. gross' + late' >= gross + late
  BY DEF BackInv, LockInv, FeeInv, TypeOK
<1> QED
  BY <1>1, FinishBacked, Spends

\* Through a gate with room for what the handler is to move.
LEMMA EntersBacked ==
  ASSUME BackInv, LockInv', NEW w \in Workers, NEW pc \in {"save", "pay"}, NEW fee \in Nat,
         PassGate(w, pc, fee),
         job[w].op = "deposit" \/ pc = "pay" => Room(Amount(w))
  PROVE  BackInv'
<1>0. TypeOK /\ pc \in PCs /\ job \in [Workers -> JobState] /\ job[w] \in JobState /\ AskedOK(w)
  BY JobAt DEF BackInv, LockInv, FeeInv, PCs
<1>1. job'[w] = [job[w] EXCEPT !.pc = pc, !.fee = fee] /\ \A v \in Workers : v # w => job'[v] = job[v]
  BY <1>0 DEF PassGate
<1>2. /\ job'[w].op = job[w].op /\ job'[w].key = job[w].key /\ job'[w].pot = job[w].pot
      /\ job'[w].pc = pc
  BY <1>0, <1>1 DEF JobState
<1>3. UNCHANGED <<pot, move, gross, late>>
  BY DEF PassGate
<1>4. gross' + late' >= gross + late
  BY <1>0, <1>3 DEF TypeOK
<1>5. Reserved' = Reserved /\ Amount(w)' = Amount(w)
  BY <1>2, <1>3 DEF Reserved, Active, Amount
<1>6. RoomOK(w)'
  BY <1>2, <1>3, <1>5 DEF RoomOK, Room
<1>7. AskedOK(w)'
  BY <1>0, <1>2 DEF AskedOK
<1> QED
  BY <1>1, <1>3, <1>4, <1>6, <1>7, Spends

\* A pot is written under the lock.
LEMMA PotBacked ==
  ASSUME BackInv, LockInv', NEW w \in Workers, job[w].pc \in Critical,
         NEW p \in Pots, NEW q \in Pot, SetPot(p, q), q.status # "active" => q.balance = 0,
         Reserved - pot[p].balance + q.balance <= gross + late, UNCHANGED <<gross, late>>,
         \A v \in Workers : v # w => job'[v] = job[v],
         RoomOK(w)', AskedOK(w)', PotsMatchMoves'
  PROVE  BackInv'
<1>0. TypeOK /\ EmptyOK(p)
  BY DEF BackInv, LockInv, FeeInv
<1>1. pot' = [pot EXCEPT ![p] = q]
  BY DEF SetPot
<1>2. Reserved' = Reserved - pot[p].balance + q.balance
  BY <1>0, <1>1, ReservedPut
<1>3. ReserveBacked'
  BY <1>2 DEF ReserveBacked
<1>4. \A r \in Pots : EmptyOK(r)'
  BY <1>0, <1>1 DEF BackInv, EmptyOK, TypeOK
<1>5. \A v \in Workers : v # w => RoomOK(v)' /\ AskedOK(v)'
  BY OthersBacked
<1> QED
  BY <1>3, <1>4, <1>5 DEF BackInv

-----------------------------------------------------------------------------
(* Every step keeps it *)

\* The gate: what is spendable is what nothing has set aside.
LEMMA FreeIsRoom ==
  ASSUME BackInv, NEW x \in Nat, x <= Spendable
  PROVE  Room(x)
<1>1. Reserved \in Nat /\ gross \in Nat /\ late \in Nat /\ Reserved <= gross + late
  BY ReservedNat DEF BackInv, LockInv, FeeInv, TypeOK, ReserveBacked
<1>2. CASE gross > Reserved
  <2>1. x <= gross - Reserved
    BY <1>2 DEF Spendable
  <2> QED
    BY <1>1, <2>1 DEF Room
<1>3. CASE ~(gross > Reserved)
  <2>1. x = 0
    BY <1>3 DEF Spendable
  <2> QED
    BY <1>1, <2>1 DEF Room
<1> QED
  BY <1>2, <1>3

\* A deposit or a withdrawal is committed.
LEMMA MovementBacked ==
  ASSUME BackInv, LockInv', NEW w \in Workers, job[w].pc = "save", job[w].op \in {"deposit", "withdraw"},
         NEW b \in Nat, SetPot(job[w].pot, [pot[job[w].pot] EXCEPT !.balance = b]),
         pot[job[w].pot].status = "active",
         \/ job[w].op = "deposit" /\ b = pot[job[w].pot].balance + Amount(w)
         \/ job[w].op = "withdraw" /\ b = pot[job[w].pot].balance - Amount(w),
         Record(job[w].key, job[w].fee),
         IF job[w].fee > 0 THEN Go(w, "fee") /\ UNCHANGED lock ELSE Finish(w),
         UNCHANGED <<gross, late>>
  PROVE  BackInv'
<1> DEFINE p == job[w].pot
           k == job[w].key
           q == [pot[p] EXCEPT !.balance = b]
<1>0. /\ TypeOK /\ p \in Pots /\ k \in Keys /\ pot[p] \in Pot /\ Amount(w) = Ask[k].amount
      /\ Amount(w) \in Nat /\ "fee" \in PCs /\ RoomOK(w) /\ AskedOK(w) /\ PotsMatchMoves /\ ReserveBacked
  BY JobAt DEF BackInv, LockInv, FeeInv, PCs, Amount
<1>1. q \in Pot /\ q.status = "active" /\ q.balance = b /\ pot[p].balance \in Nat
  BY <1>0 DEF Pot
<1>2. pot' = [pot EXCEPT ![p] = q]
  BY DEF SetPot
<1>3. pot'[p].balance = b /\ \A r \in Pots : r # p => pot'[r] = pot[r]
  BY <1>0, <1>1, <1>2 DEF TypeOK
<1>4. ~move[k].done /\ move'[k].done /\ \A l \in Keys : l # k => move'[l] = move[l]
  BY <1>0 DEF Record, TypeOK, BackInv, LockInv, FeeInv, WorkerOK
<1>5. Ask[k].op = job[w].op /\ Ask[k].pot = p
  BY <1>0 DEF AskedOK
<1>6. PotsMatchMoves'
  <2>1. \/ Ask[k].op = "deposit" /\ pot'[p].balance = pot[p].balance + Ask[k].amount
        \/ Ask[k].op = "withdraw" /\ pot'[p].balance = pot[p].balance - Ask[k].amount
    BY <1>0, <1>3, <1>5
  <2> HIDE DEF p, k, q
  <2> QED
    BY <1>0, <1>3, <1>4, <1>5, <2>1, MatchMore
<1>7. Reserved - pot[p].balance + b <= gross + late
  <2>1. Reserved \in Nat /\ gross \in Nat /\ late \in Nat /\ Reserved <= gross + late
    BY <1>0, ReservedNat DEF TypeOK, ReserveBacked
  <2>2. CASE job[w].op = "deposit"
    <3>1. Reserved + Amount(w) <= gross + late /\ b = pot[p].balance + Amount(w)
      BY <1>0, <2>2 DEF RoomOK, Room
    <3> HIDE DEF p
    <3> QED
      BY <1>0, <1>1, <2>1, <3>1
  <2>3. CASE job[w].op = "withdraw"
    <3>1. b = pot[p].balance - Amount(w)
      BY <2>3
    <3> HIDE DEF p
    <3> QED
      BY <1>0, <1>1, <2>1, <3>1
  <2> QED
    BY <2>2, <2>3
<1>8. RoomOK(w)' /\ AskedOK(w)' /\ \A v \in Workers : v # w => job'[v] = job[v]
  <2>1. CASE job[w].fee > 0
    <3>1. job'[w].pc = "fee"
      BY <1>0, <2>1, GoBacked
    <3> QED
      BY <1>0, <2>1, <3>1, GoBacked DEF RoomOK
  <2>2. CASE ~(job[w].fee > 0)
    BY <2>2, FinishBacked
  <2> QED
    BY <2>1, <2>2
<1> HIDE DEF q
<1> QED
  BY <1>0, <1>1, <1>6, <1>7, <1>8, PotBacked DEF Critical, q

LEMMA HandleBacked ==
  ASSUME BackInv, LockInv', NEW w \in Workers, Handle(w)
  PROVE  BackInv'
<1> DEFINE p == job[w].pot
<1>0. /\ TypeOK /\ p \in Pots /\ job[w].key \in Keys /\ pot[p] \in Pot /\ pot[p].balance \in Nat
      /\ Amount(w) \in Nat /\ job[w].until \in Nat /\ job[w].mode \in Modes /\ RoomOK(w)
      /\ ReserveBacked /\ PotsMatchMoves /\ SaveOK(w) /\ EmptyOK(p)
  BY JobAt DEF BackInv, LockInv, FeeInv, Pot
<1>00. Reserved \in Nat /\ gross \in Nat /\ late \in Nat /\ gross' \in Nat /\ late' \in Nat
  BY <1>0, ReservedNat DEF TypeOK, LockInv, FeeInv
<1>1. CASE Refuse(w) \/ SaveRefused(w) \/ PayRefused(w) \/ PayUnknown(w)
  BY <1>1, LeavesBacked DEF Refuse, SaveRefused, PayRefused, PayUnknown
<1>2. CASE GateDeposit(w)
  <2>1. PassGate(w, "save", DepositFee) /\ Amount(w) + DepositFee <= Spendable
    BY <1>2 DEF GateDeposit
  <2>2. Room(Amount(w) + DepositFee) /\ DepositFee \in Nat
    BY <1>0, <2>1, FreeIsRoom, NumbersAssumption
  <2>3. Room(Amount(w))
    BY <1>0, <1>00, <2>2 DEF Room
  <2> QED
    BY <2>1, <2>2, <2>3, EntersBacked
<1>3. CASE GateWithdraw(w)
  <2>1. PICK fee \in Nat : PassGate(w, "save", fee)
    BY <1>3, NumbersAssumption DEF GateWithdraw
  <2>2. job[w].op = "withdraw"
    BY <1>3 DEF GateWithdraw, Gate
  <2> QED
    BY <2>1, <2>2, EntersBacked
<1>4. CASE GateSend(w)
  <2>1. PassGate(w, "pay", 0) /\ Room(Amount(w))
    BY <1>0, <1>4, FreeIsRoom DEF GateSend
  <2> QED
    BY <2>1, EntersBacked
<1>5. CASE GateClose(w) \/ GateRelock(w)
  <2>1. PassGate(w, "save", 0) /\ job[w].op \in {"close", "relock"}
    BY <1>5 DEF GateClose, GateRelock, Gate
  <2> QED
    BY <2>1, EntersBacked
<1>6. CASE SaveDeposit(w)
  <2>1. pot[p].balance + Amount(w) \in Nat
    BY <1>0
  <2>2. SetPot(p, [pot[p] EXCEPT !.balance = pot[p].balance + Amount(w)])
    BY <1>0, <1>6 DEF SaveDeposit, Pot
  <2> QED
    BY <1>6, <2>1, <2>2, MovementBacked DEF SaveDeposit
<1>7. CASE SaveWithdrawal(w)
  <2>1. pot[p].balance - Amount(w) \in Nat
    BY <1>0, <1>7 DEF SaveWithdrawal
  <2>2. SetPot(p, [pot[p] EXCEPT !.balance = pot[p].balance - Amount(w)])
    BY <1>0, <1>7 DEF SaveWithdrawal, Pot
  <2> QED
    BY <1>7, <2>1, <2>2, MovementBacked DEF SaveWithdrawal
<1>8. ASSUME SaveClose(w) \/ SaveLock(w) PROVE BackInv'
  <2>1. PICK q \in Pot : /\ SetPot(p, q) /\ q.balance = pot[p].balance
                         /\ q.status # "active" => q.balance = 0
    <3>1. CASE SaveClose(w)
      <4>1. [pot[p] EXCEPT !.status = "closed", !.balance = 0] \in Pot
        BY <1>0 DEF Pot
      <4>2. pot[p].balance = 0
        BY <1>0, <3>1 DEF SaveClose, SaveOK
      <4>3. SetPot(p, [pot[p] EXCEPT !.status = "closed", !.balance = 0])
        BY <3>1 DEF SaveClose
      <4> QED
        BY <1>0, <4>1, <4>2, <4>3 DEF Pot
    <3>2. CASE SaveLock(w)
      <4>1. [pot[p] EXCEPT !.until = job[w].until, !.mode = job[w].mode] \in Pot
        BY <1>0 DEF Pot
      <4>2. SetPot(p, [pot[p] EXCEPT !.until = job[w].until, !.mode = job[w].mode])
        BY <3>2 DEF SaveLock
      <4> QED
        BY <1>0, <4>1, <4>2 DEF Pot, EmptyOK
    <3> QED
      BY <1>8, <3>1, <3>2
  <2>2. Finish(w) /\ UNCHANGED <<move, gross, late>> /\ job[w].pc \in Critical
    BY <1>8 DEF SaveClose, SaveLock, Critical
  <2>3. \A r \in Pots : pot'[r].balance = pot[r].balance
    BY <1>0, <2>1 DEF SetPot, TypeOK
  <2>4. PotsMatchMoves'
    BY <1>0, <2>2, <2>3, MatchSame
  <2>5. Reserved - pot[p].balance + q.balance <= gross + late
    <3>1. Reserved - pot[p].balance + q.balance = Reserved
      BY <1>0, <1>00, <2>1
    <3> QED
      BY <1>0, <3>1 DEF ReserveBacked
  <2> HIDE DEF p
  <2> QED
    BY <1>0, <2>1, <2>2, <2>4, <2>5, FinishBacked, PotBacked
<1>9. CASE PayAccepted(w)
  <2>1. /\ job[w].pc = "pay" /\ Owes(job[w].key) <= gross /\ gross' = gross - Owes(job[w].key)
        /\ Finish(w) /\ UNCHANGED <<pot, move, late>>
    BY <1>9 DEF PayAccepted
  <2>2. Owes(job[w].key) \in Nat /\ Owes(job[w].key) <= Amount(w)
    BY <1>0, AskType DEF Owes, Amount
  <2>3. Reserved + Amount(w) <= gross + late
    BY <1>0, <2>1 DEF RoomOK, Room
  <2>4. Reserved <= gross' + late'
    BY <1>0, <1>00, <2>1, <2>2, <2>3
  <2> QED
    BY <2>1, <2>4, FinishBacked, Spends DEF Critical
<1> QED
  BY <1>1, <1>2, <1>3, <1>4, <1>5, <1>6, <1>7, <1>8, <1>9 DEF Handle

LEMMA CollectBacked ==
  ASSUME BackInv, LockInv', NEW w \in Workers, Collect(w)
  PROVE  BackInv'
<1> DEFINE k == job[w].key
<1>0. /\ TypeOK /\ k \in Keys /\ FeeOf(w) = move[k].fee /\ FeeOf(w) \in Nat /\ RoomOK(w)
      /\ {"claim", "sweep", "row"} \subseteq PCs
  BY JobAt DEF BackInv, LockInv, FeeInv, PCs, FeeOf
<1>00. Reserved \in Nat /\ gross \in Nat /\ late \in Nat /\ gross' \in Nat /\ late' \in Nat
  BY <1>0, ReservedNat DEF TypeOK, LockInv, FeeInv
<1>1. CASE FeeSkipped(w) \/ FeeWaits(w) \/ SweepRefused(w) \/ BookFee(w) \/ BookFeeFails(w)
  BY <1>1, LeavesBacked DEF FeeSkipped, FeeWaits, SweepRefused, BookFee, BookFeeFails
<1>2. CASE FeePasses(w)
  <2>1. Go(w, "claim") /\ UNCHANGED <<pot, move, gross, late>> /\ Room(FeeOf(w))
    BY <1>0, <1>2, FreeIsRoom DEF FeePasses
  <2>2. /\ AskedOK(w)' /\ job'[w].pc = "claim" /\ job'[w].key = k
        /\ \A v \in Workers : v # w => job'[v] = job[v]
    BY <1>0, <2>1, GoBacked
  <2>3. Reserved' = Reserved /\ FeeOf(w)' = FeeOf(w)
    BY <2>1, <2>2 DEF Reserved, Active, FeeOf
  <2>4. RoomOK(w)'
    BY <2>1, <2>2, <2>3 DEF RoomOK, Room
  <2>5. gross' + late' >= gross + late
    BY <1>00, <2>1
  <2> QED
    BY <2>1, <2>2, <2>4, <2>5, Spends
<1>3. CASE Claim(w) /\ move[k].claimed
  BY <1>3, LeavesBacked DEF Claim
<1>4. CASE Claim(w) /\ ~move[k].claimed
  <2>1. /\ job[w].pc = "claim" /\ Go(w, "sweep") /\ UNCHANGED <<pot, gross, late>>
        /\ move' = [move EXCEPT ![k].claimed = TRUE]
    BY <1>4 DEF Claim
  <2>2. /\ AskedOK(w)' /\ job'[w].pc = "sweep" /\ job'[w].key = k
        /\ \A v \in Workers : v # w => job'[v] = job[v]
    BY <1>0, <2>1, GoBacked
  <2>3. \A l \in Keys : move'[l].done = move[l].done /\ move'[l].fee = move[l].fee
    BY <1>0, <2>1 DEF TypeOK, Movement
  <2>4. Reserved' = Reserved /\ FeeOf(w)' = FeeOf(w)
    BY <1>0, <2>1, <2>2, <2>3 DEF Reserved, Active, FeeOf
  <2>5. RoomOK(w)'
    BY <1>0, <2>1, <2>2, <2>4 DEF RoomOK, Room
  <2>6. gross' + late' >= gross + late
    BY <1>00, <2>1
  <2> QED
    BY <2>1, <2>2, <2>3, <2>5, <2>6, Spends
<1>5. CASE SweepAccepted(w) \/ SweepUnknown(w)
  <2>1. /\ job[w].pc = "sweep" /\ Go(w, "row") /\ UNCHANGED <<pot, move, late>>
        /\ gross' = gross - FeeOf(w) \/ gross' = gross
    BY <1>5 DEF SweepAccepted, SweepUnknown
  <2>2. /\ AskedOK(w)' /\ job'[w].pc = "row"
        /\ \A v \in Workers : v # w => job'[v] = job[v]
    BY <1>0, <2>1, GoBacked
  <2>3. Reserved + FeeOf(w) <= gross + late
    BY <1>0, <2>1 DEF RoomOK, Room
  <2>4. Reserved <= gross' + late'
    <3>1. CASE gross' = gross
      BY <1>0, <1>00, <2>1, <2>3, <3>1
    <3>2. CASE gross' = gross - FeeOf(w)
      BY <1>0, <1>00, <2>1, <2>3, <3>2
    <3> QED
      BY <2>1, <3>1, <3>2
  <2>5. RoomOK(w)'
    BY <2>2 DEF RoomOK
  <2> QED
    BY <2>1, <2>2, <2>4, <2>5, Spends DEF Critical
<1> QED
  BY <1>1, <1>2, <1>3, <1>4, <1>5 DEF Collect

\* A request, or the loop's next fee, waits for the lock.
LEMMA WaitsBacked ==
  ASSUME BackInv, LockInv', NEW w \in Workers, NEW rec, job' = [job EXCEPT ![w] = rec],
         rec.pc \in {"lock", "idle"},
         rec.op \in {"deposit", "withdraw"} => Ask[rec.key].op = rec.op /\ Ask[rec.key].pot = rec.pot,
         UNCHANGED <<pot, move, gross, late>>
  PROVE  BackInv'
<1>0. job \in [Workers -> JobState] /\ gross \in Nat /\ late \in Nat
  BY JobAt DEF BackInv, LockInv, FeeInv, TypeOK
<1>1. job'[w] = rec /\ \A v \in Workers : v # w => job'[v] = job[v]
  BY <1>0
<1>2. RoomOK(w)' /\ AskedOK(w)'
  BY <1>1 DEF RoomOK, AskedOK
<1>3. gross' + late' >= gross + late
  BY <1>0
<1> QED
  BY <1>1, <1>2, <1>3, Spends

LEMMA BackInit == Init => BackInv
<1> SUFFICES ASSUME Init PROVE BackInv
  OBVIOUS
<1>1. LockInv /\ TypeOK
  BY LockInit DEF LockInv, FeeInv
<1>2. ReserveBacked
  <2> DEFINE f == [p \in Active |-> pot[p].balance]
  <2>1. DOMAIN f = {}
    BY DEF Active, Init
  <2>2. Reserved = SumFunction(f)
    BY DEF Reserved
  <2> HIDE DEF f
  <2>3. Reserved = 0
    BY <2>1, <2>2, SumEmpty
  <2> QED
    BY <2>3, NumbersAssumption DEF ReserveBacked, Init
<1>3. ASSUME NEW p \in Pots, NEW op PROVE Moved(p, op) = 0
  <2> DEFINE f == [k \in Counted(p, op) |-> Ask[k].amount]
  <2>1. DOMAIN f = {}
    BY DEF Counted, Init
  <2>2. Moved(p, op) = SumFunction(f)
    BY DEF Moved, Counted
  <2> HIDE DEF f
  <2> QED
    BY <2>1, <2>2, SumEmpty
<1>4. PotsMatchMoves
  BY <1>3 DEF PotsMatchMoves, Init
<1>5. ASSUME NEW w \in Workers PROVE RoomOK(w) /\ AskedOK(w)
  BY <1>5 DEF Init, Idle, RoomOK, AskedOK
<1>6. ASSUME NEW p \in Pots PROVE EmptyOK(p)
  BY <1>6 DEF Init, EmptyOK
<1> QED
  BY <1>1, <1>2, <1>4, <1>5, <1>6 DEF BackInv

LEMMA BackNext == BackInv /\ [Next]_vars => BackInv'
<1> SUFFICES ASSUME BackInv, [Next]_vars PROVE BackInv'
  OBVIOUS
<1>0. /\ LockInv' /\ TypeOK /\ Cron \in Workers /\ job \in [Workers -> JobState]
      /\ Reserved \in Nat /\ gross \in Nat /\ late \in Nat
  BY LockNext, JobAt, ReservedNat DEF BackInv, LockInv, FeeInv, Workers, TypeOK
<1>1. ASSUME NEW p \in Pots, NEW d \in 1..Horizon, NEW m \in Modes, Create(p, d, m) PROVE BackInv'
  <2> DEFINE q == [status |-> "active", balance |-> 0, until |-> d, mode |-> m]
  <2>1. /\ pot[p].status = "none" /\ pot' = [pot EXCEPT ![p] = q]
        /\ UNCHANGED <<job, move, gross, late>>
    BY <1>1 DEF Create, SetPot
  <2>2. q \in Pot /\ q.status = "active" /\ q.balance = 0
    BY NumbersAssumption DEF Pot
  <2>3. pot[p].balance = 0 /\ EmptyOK(p)
    BY <2>1 DEF BackInv, EmptyOK
  <2> HIDE DEF q
  <2>4. Reserved' = Reserved
    <3>1. Reserved' = Reserved - pot[p].balance + q.balance
      BY <1>0, <2>1, <2>2, <2>3, ReservedPut
    <3> QED
      BY <1>0, <2>2, <2>3, <3>1
  <2>5. \A r \in Pots : pot'[r].balance = pot[r].balance /\ EmptyOK(r)'
    BY <1>0, <2>1, <2>2, <2>3 DEF BackInv, EmptyOK, TypeOK
  <2>6. PotsMatchMoves'
    BY <2>1, <2>5, MatchSame DEF BackInv
  <2>7. ReserveBacked'
    BY <2>1, <2>4 DEF BackInv, ReserveBacked
  <2>8. ASSUME NEW w \in Workers PROVE RoomOK(w)' /\ AskedOK(w)'
    BY <2>1, <2>4, <2>8 DEF BackInv, RoomOK, AskedOK, Room, Amount, FeeOf
  <2> QED
    BY <1>0, <2>5, <2>6, <2>7, <2>8 DEF BackInv
<1>2. ASSUME NEW j \in Jobs, NEW rec, Start(j, rec), rec.pc = "lock",
             rec.op \in {"deposit", "withdraw"} => Ask[rec.key].op = rec.op /\ Ask[rec.key].pot = rec.pot
      PROVE  BackInv'
  BY <1>0, <1>2, WaitsBacked DEF Start, Workers
<1>3. ASSUME NEW j \in Jobs, NEW p \in Pots, NEW d \in 1..Horizon, NEW m \in Modes, Relock(j, p, d, m)
      PROVE BackInv'
  <2> DEFINE rec == [Idle EXCEPT !.pc = "lock", !.op = "relock", !.pot = p, !.until = d, !.mode = m]
  <2>1. rec.pc = "lock" /\ rec.op = "relock"
    BY IdleType DEF JobState
  <2> QED
    BY <1>2, <1>3, <2>1 DEF Relock
<1>4. ASSUME NEW j \in Jobs, NEW k \in Keys, Request(j, k) PROVE BackInv'
  <2> DEFINE rec == [Idle EXCEPT !.pc = "lock", !.op = Ask[k].op, !.key = k, !.pot = Ask[k].pot]
  <2>1. rec.pc = "lock" /\ rec.op = Ask[k].op /\ rec.key = k /\ rec.pot = Ask[k].pot
    BY IdleType DEF JobState
  <2>2. Start(j, rec)
    BY <1>4 DEF Request
  <2> HIDE DEF rec
  <2> QED
    BY <1>2, <2>1, <2>2
<1>5. ASSUME NEW j \in Jobs, NEW p \in Pots, Close(j, p) PROVE BackInv'
  <2> DEFINE rec == [Idle EXCEPT !.pc = "lock", !.op = "close", !.pot = p]
  <2>1. rec.pc = "lock" /\ rec.op = "close"
    BY IdleType DEF JobState
  <2> QED
    BY <1>2, <1>5, <2>1 DEF Close
<1>6. ASSUME NEW w \in Workers, NEW pc \in {"fee", "gate", "loop", "idle"}, Go(w, pc),
             UNCHANGED <<pot, move, gross, late>>
      PROVE  BackInv'
  <2>1. AskedOK(w)' /\ job'[w].pc = pc /\ \A v \in Workers : v # w => job'[v] = job[v]
    BY <1>6, GoBacked DEF PCs
  <2>2. RoomOK(w)' /\ gross' + late' >= gross + late
    BY <1>0, <1>6, <2>1 DEF RoomOK
  <2> QED
    BY <1>0, <1>6, <2>1, <2>2, Spends
<1>7. ASSUME NEW w \in Workers, Acquire(w) PROVE BackInv'
  BY <1>6, <1>7 DEF Acquire
<1>8. ASSUME NEW w \in Workers, Handle(w) PROVE BackInv'
  BY <1>0, <1>8, HandleBacked
<1>9. ASSUME NEW w \in Workers, Collect(w) PROVE BackInv'
  BY <1>0, <1>9, CollectBacked
<1>10. ASSUME NEW w \in Workers, Crash(w) PROVE BackInv'
  <2>1. Idle.pc = "idle" /\ Idle.op = "send"
    BY DEF Idle
  <2> QED
    BY <1>0, <1>10, <2>1, WaitsBacked DEF Crash
<1>11. CASE StartLoop \/ EndLoop
  BY <1>0, <1>6, <1>11 DEF StartLoop, EndLoop
<1>12. ASSUME NEW k \in todo, Take(k) PROVE BackInv'
  <2> DEFINE rec == [Idle EXCEPT !.pc = "lock", !.op = "sweep", !.key = k]
  <2>1. rec.pc = "lock" /\ rec.op = "sweep"
    BY IdleType DEF JobState
  <2>2. job' = [job EXCEPT ![Cron] = rec] /\ UNCHANGED <<pot, move, gross, late>>
    BY <1>12 DEF Take
  <2> HIDE DEF rec
  <2> QED
    BY <1>0, <2>1, <2>2, WaitsBacked
<1>13. ASSUME NEW call \in wire, WireArrives(call) PROVE BackInv'
  <2> DEFINE cost == IF call.what = "send" THEN Owes(call.key) ELSE move[call.key].fee
  <2>1. call.key \in Keys
    BY <1>0 DEF TypeOK, Call
  <2>2. cost \in Nat
    BY <1>0, <2>1, AskType DEF Owes, TypeOK, Movement
  <2>3. /\ gross' = gross - cost /\ late' = late + cost /\ UNCHANGED <<job, move, pot>>
    BY <1>13 DEF WireArrives
  <2> HIDE DEF cost
  <2>4. gross' + late' >= gross + late
    BY <1>0, <2>2, <2>3
  <2> QED
    BY <1>0, <2>3, <2>4, WorldBacked
<1>14. ASSUME NEW call \in wire, WireLost(call) PROVE BackInv'
  BY <1>0, <1>14, WorldBacked DEF WireLost
<1>15. CASE Credit
  BY <1>0, <1>15, WorldBacked DEF Credit
<1>16. CASE Tick
  BY <1>0, <1>16, WorldBacked DEF Tick
<1>17. CASE UNCHANGED vars
  BY <1>0, <1>17, WorldBacked DEF vars
<1> QED
  BY <1>1, <1>3, <1>4, <1>5, <1>7, <1>8, <1>9, <1>10, <1>11, <1>12, <1>13, <1>14, <1>15, <1>16, <1>17
     DEF Next

\* Deposits, sends and fees never take what a pot has set aside: each looks under
\* the business lock, and what it saw free is still free when it acts (getSpendableBalance).
THEOREM ReserveKept == Spec => []ReserveBacked
<1>1. Init => BackInv
  BY BackInit
<1>2. BackInv /\ [Next]_vars => BackInv'
  BY BackNext
<1>3. BackInv => ReserveBacked
  BY DEF BackInv
<1> QED
  BY <1>1, <1>2, <1>3, PTL DEF Spec

\* However movements, closings and retries interleave, a pot holds its completed
\* deposits less its completed withdrawals (depositToPot, withdrawFromPot, closePot).
THEOREM PotsAddUp == Spec => []PotsMatchMoves
<1>1. Init => BackInv
  BY BackInit
<1>2. BackInv /\ [Next]_vars => BackInv'
  BY BackNext
<1>3. BackInv => PotsMatchMoves
  BY DEF BackInv
<1> QED
  BY <1>1, <1>2, <1>3, PTL DEF Spec

=============================================================================

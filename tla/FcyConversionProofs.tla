------------------------- MODULE FcyConversionProofs -------------------------
(***************************************************************************)
(* FcyConversion for any number of conversions, businesses and handlers:    *)
(* what every step of a worker may rely on, and from it that naira follow   *)
(* euros, that no conversion is offered twice, that "paid" means landed     *)
(* and that confirmations do not overdraw a holding.                        *)
(***************************************************************************)
EXTENDS FcyConversion, SumLemmas, TLAPS

-----------------------------------------------------------------------------
(* What a worker at each step may rely on *)

\* Where a confirm handler alone can be, where the loop can be too, and where
\* the claim on the row has been made.
Asking   == {"lock", "check", "claim"}
Leg1     == {"convert", "fail", "note", "book"}
Leg2     == {"payup", "send", "settle", "unpaid"}
Carrying == Leg1 \cup Leg2

\* Past the answer of the convert call.
HasNaira == {"note", "book"} \cup Leg2

\* The row says that the euros are gone.
Gone == {"converted", "paying_out", "payout_failed", "paid"}

Started(c) == status[c] \notin {"none", "quoted"}

\* Who works on what.
Placed ==
  \A w \in Workers :
    /\ job[w].pc \in Asking \cup Leg1 => w \in Jobs
    /\ job[w].pc = "loop" => w = Cron
    /\ job[w].pc \in Asking \cup Carrying => job[w].conv \in Convs

\* What a worker holds in its hands is still so when it writes.
WorkersKnow ==
  \A w \in Workers :
    /\ job[w].pc \in Carrying => Started(job[w].conv)
    /\ job[w].pc \in HasNaira => job[w].conv \in legs
    /\ job[w].pc = "settle" /\ job[w].settled => payout[job[w].conv] = "successful"

\* What the rows, the loop's list and the webhooks say of Fincra.
RowsKnow ==
  /\ \A c \in Convs : status[c] \in Gone => c \in legs
  /\ \A c \in legs \cup legWire : Started(c)
  /\ \A t \in todo : t.conv \in legs
  /\ \A h \in hooks : h.conv \in legs /\ (h.outcome = "successful" => payout[h.conv] = "successful")

MoneyInv ==
  /\ TypeOK /\ Placed /\ WorkersKnow /\ RowsKnow
  /\ NairaAfterEuros /\ PaidMeansLanded

\* From the balance check to the end a handler holds its business, and from
\* the check to the booking there is room for its euros.
Committed == {"claim", "convert", "note", "book"}

Room(c) == c \in booked \/ Spent(BizOf(c)) + Order[c].amount <= Received[BizOf(c)]

LocksHeld ==
  \A j \in Jobs : job[j].pc \in {"check", "claim"} \cup Carrying => lock[BizOf(job[j].conv)] = j

RoomKept == \A j \in Jobs : job[j].pc \in Committed => Room(job[j].conv)

BookInv == IsFiniteSet(booked) /\ LocksHeld /\ RoomKept /\ NotOverdrawn

-----------------------------------------------------------------------------
(* Jobs and locks: what a step of a worker changes of them *)

JobState == [pc: PCs, conv: Convs \cup {NoConv}, settled: BOOLEAN]

\* Worker w has come to pc with the same conversion, and nobody else has moved.
Moved(w, pc) ==
  /\ job' \in [Workers -> JobState]
  /\ job'[w].pc = pc /\ job'[w].conv = job[w].conv /\ job'[w].settled = job[w].settled
  /\ \A v \in Workers \ {w} : job'[v] = job[v]

\* Worker w has left its conversion and its lock, and nobody else has moved.
Left(w) ==
  /\ job' \in [Workers -> JobState]
  /\ job'[w].pc = "idle" \/ (job'[w].pc = "loop" /\ w = Cron)
  /\ \A v \in Workers \ {w} : job'[v] = job[v]
  /\ lock' \in [Biz -> Jobs \cup {NoJob}]
  /\ \A b \in Biz : lock[b] # w => lock'[b] = lock[b]

LEMMA GoMoves ==
  ASSUME TypeOK, NEW w \in Workers, NEW pc \in PCs, Go(w, pc)
  PROVE  Moved(w, pc)
  BY DEF TypeOK, Go, Moved, JobState

LEMMA LeaveLeaves ==
  ASSUME TypeOK, NEW w \in Workers, Leave(w)
  PROVE  Left(w)
  BY DEF TypeOK, Leave, Left, Freed, Idle, JobState, PCs

-----------------------------------------------------------------------------
(* Money follows euros: MoneyInv is inductive *)

LEMMA MoneyInit == Init => MoneyInv
  BY DEF Init, MoneyInv, TypeOK, Placed, WorkersKnow, RowsKnow, NairaAfterEuros,
         PaidMeansLanded, Idle, Status, Payout, PCs, Asking, Leg1, Leg2, Carrying, HasNaira,
         Gone, Started

USE DEF row, fincra, bounds, Workers, Status, Payout, PCs, Hook, JobState, Asking, Leg1, Leg2,
        Carrying, HasNaira, Gone, Started, Moved, Left,
        MoneyInv, TypeOK, Placed, WorkersKnow, RowsKnow, NairaAfterEuros, PaidMeansLanded

LEMMA LegArrivesMoney ==
  ASSUME MoneyInv, NEW c \in Convs, LegArrives(c)
  PROVE  MoneyInv'
  BY DEF LegArrives

LEMMA LegLostMoney ==
  ASSUME MoneyInv, NEW c \in Convs, LegLost(c)
  PROVE  MoneyInv'
  BY DEF LegLost

LEMMA PayArrivesMoney ==
  ASSUME MoneyInv, NEW c \in Convs, PayArrives(c)
  PROVE  MoneyInv'
  BY DEF PayArrives, Sent

LEMMA PayLostMoney ==
  ASSUME MoneyInv, NEW c \in Convs, PayLost(c)
  PROVE  MoneyInv'
  BY DEF PayLost

LEMMA AgeMoney ==
  ASSUME MoneyInv, NEW c \in Convs, Age(c)
  PROVE  MoneyInv'
  BY DEF Age, Owed

LEMMA QuoteMoney ==
  ASSUME MoneyInv, NEW c \in Convs, Quote(c)
  PROVE  MoneyInv'
  BY DEF Quote, Write

LEMMA ConfirmMoney ==
  ASSUME MoneyInv, NEW j \in Jobs, NEW c \in Convs, Confirm(j, c)
  PROVE  MoneyInv'
<1>2. job' \in [Workers -> JobState] /\ job'[j].pc = "lock" /\ job'[j].conv = c
  BY DEF Confirm, Idle
<1>3. \A v \in Workers \ {j} : job'[v] = job[v]
  BY DEF Confirm
<1> QED
  BY <1>2, <1>3 DEF Confirm

LEMMA ResolveMoney ==
  ASSUME MoneyInv, NEW c \in Convs, NEW p \in {"successful", "failed"}, Resolve(c, p)
  PROVE  MoneyInv'
  BY DEF Resolve

LEMMA LockMoney ==
  ASSUME MoneyInv, NEW j \in Jobs, Lock(j)
  PROVE  MoneyInv'
<1>1. BizOf(job[j].conv) \in Biz
  BY OrderAssumption DEF Lock, BizOf
<1>2. lock' \in [Biz -> Jobs \cup {NoJob}]
  BY <1>1 DEF Lock
<1>3. Moved(j, "check")
  BY GoMoves DEF Lock
<1> QED
  BY <1>2, <1>3 DEF Lock

LEMMA RefuseMoney ==
  ASSUME MoneyInv, NEW j \in Jobs, Refuse(j)
  PROVE  MoneyInv'
  BY LeaveLeaves DEF Refuse

LEMMA CheckMoney ==
  ASSUME MoneyInv, NEW j \in Jobs, Check(j)
  PROVE  MoneyInv'
  BY GoMoves DEF Check

LEMMA ClaimMoney ==
  ASSUME MoneyInv, NEW j \in Jobs, Claim(j)
  PROVE  MoneyInv'
  BY GoMoves, LeaveLeaves DEF Claim, Write

LEMMA ConvertsMoney ==
  ASSUME MoneyInv, NEW j \in Jobs, Converts(j)
  PROVE  MoneyInv'
  BY GoMoves DEF Converts

LEMMA ConvertRefusedMoney ==
  ASSUME MoneyInv, NEW j \in Jobs, ConvertRefused(j)
  PROVE  MoneyInv'
  BY GoMoves DEF ConvertRefused

LEMMA ConvertUnknownMoney ==
  ASSUME MoneyInv, NEW j \in Jobs, ConvertUnknown(j)
  PROVE  MoneyInv'
  BY GoMoves DEF ConvertUnknown

LEMMA MarkFailedMoney ==
  ASSUME MoneyInv, NEW j \in Jobs, MarkFailed(j)
  PROVE  MoneyInv'
  BY LeaveLeaves DEF MarkFailed, Write

LEMMA MarkConvertedMoney ==
  ASSUME MoneyInv, NEW j \in Jobs, MarkConverted(j)
  PROVE  MoneyInv'
  BY GoMoves DEF MarkConverted, Write

LEMMA BookMoney ==
  ASSUME MoneyInv, NEW j \in Jobs, Book(j)
  PROVE  MoneyInv'
  BY GoMoves DEF Book

LEMMA BookFailsMoney ==
  ASSUME MoneyInv, NEW j \in Jobs, BookFails(j)
  PROVE  MoneyInv'
  BY GoMoves DEF BookFails

LEMMA PayUpMoney ==
  ASSUME MoneyInv, NEW w \in Workers, PayUp(w)
  PROVE  MoneyInv'
  BY GoMoves DEF PayUp, Write

LEMMA SendAnsweredMoney ==
  ASSUME MoneyInv, NEW w \in Workers, SendAnswered(w)
  PROVE  MoneyInv'
  BY DEF SendAnswered, Sent

LEMMA SendRefusedMoney ==
  ASSUME MoneyInv, NEW w \in Workers, SendRefused(w)
  PROVE  MoneyInv'
  BY GoMoves DEF SendRefused

LEMMA SendUnknownMoney ==
  ASSUME MoneyInv, NEW w \in Workers, SendUnknown(w)
  PROVE  MoneyInv'
  BY GoMoves DEF SendUnknown

LEMMA SettleMoney ==
  ASSUME MoneyInv, NEW w \in Workers, Settle(w)
  PROVE  MoneyInv'
  BY LeaveLeaves DEF Settle, Write

LEMMA SettleFailsMoney ==
  ASSUME MoneyInv, NEW w \in Workers, SettleFails(w)
  PROVE  MoneyInv'
  BY GoMoves DEF SettleFails

LEMMA MarkUnpaidMoney ==
  ASSUME MoneyInv, NEW w \in Workers, MarkUnpaid(w)
  PROVE  MoneyInv'
  BY LeaveLeaves DEF MarkUnpaid, Write

LEMMA CrashMoney ==
  ASSUME MoneyInv, NEW w \in Workers, Crash(w)
  PROVE  MoneyInv'
  BY DEF Crash, Idle, Freed

LEMMA StartLoopMoney ==
  ASSUME MoneyInv, StartLoop
  PROVE  MoneyInv'
  BY GoMoves DEF StartLoop, Owed

LEMMA EndLoopMoney ==
  ASSUME MoneyInv, EndLoop
  PROVE  MoneyInv'
  BY GoMoves DEF EndLoop

LEMMA LookMoney ==
  ASSUME MoneyInv, NEW t \in todo, Look(t)
  PROVE  MoneyInv'
<1>1. t.conv \in Convs /\ t.conv \in legs
  OBVIOUS
<1> DEFINE next == [Idle EXCEPT !.pc = "payup", !.conv = t.conv]
<1>2. next \in JobState /\ next.pc = "payup" /\ next.conv = t.conv
  BY <1>1 DEF Idle
<1> HIDE DEF next
<1>3. UNCHANGED job \/ job' = [job EXCEPT ![Cron] = next]
  BY DEF Look, next
<1>4. TypeOK'
  BY <1>1, <1>2, <1>3 DEF Look, Write
<1>5. UNCHANGED row \/ (payout[t.conv] = "successful" /\ Write(t.conv, "paid"))
  BY DEF Look
<1> QED
  BY <1>1, <1>2, <1>3, <1>4, <1>5 DEF Look, Write

LEMMA LookBlindMoney ==
  ASSUME MoneyInv, NEW t \in todo, LookBlind(t)
  PROVE  MoneyInv'
  BY DEF LookBlind

LEMMA HookReadsMoney ==
  ASSUME MoneyInv, NEW h \in hooks, HookReads(h)
  PROVE  MoneyInv'
  BY DEF HookReads

LEMMA HookWritesMoney ==
  ASSUME MoneyInv, NEW h \in hooks, HookWrites(h)
  PROVE  MoneyInv'
  BY DEF HookWrites, Write

LEMMA MoneyNext == MoneyInv /\ [Next]_vars => MoneyInv'
<1> SUFFICES ASSUME MoneyInv, [Next]_vars PROVE MoneyInv'
  OBVIOUS
<1>1. ASSUME NEW c \in Convs,
             \/ Quote(c) \/ \E j \in Jobs : Confirm(j, c)
             \/ LegArrives(c) \/ LegLost(c) \/ PayArrives(c) \/ PayLost(c)
             \/ Resolve(c, "successful") \/ Resolve(c, "failed") \/ Age(c)
      PROVE  MoneyInv'
  BY <1>1, QuoteMoney, ConfirmMoney, LegArrivesMoney, LegLostMoney, PayArrivesMoney, PayLostMoney,
     ResolveMoney, AgeMoney
<1>2. ASSUME NEW j \in Jobs, Confirming(j) PROVE MoneyInv'
  BY <1>2, LockMoney, RefuseMoney, CheckMoney, ClaimMoney, ConvertsMoney, ConvertRefusedMoney,
     ConvertUnknownMoney, MarkFailedMoney, MarkConvertedMoney, BookMoney, BookFailsMoney
     DEF Confirming
<1>3. ASSUME NEW w \in Workers, Paying(w) \/ Crash(w) PROVE MoneyInv'
  BY <1>3, PayUpMoney, SendAnsweredMoney, SendRefusedMoney, SendUnknownMoney, SettleMoney, SettleFailsMoney,
     MarkUnpaidMoney, CrashMoney
     DEF Paying
<1>4. CASE StartLoop \/ EndLoop
  BY <1>4, StartLoopMoney, EndLoopMoney
<1>5. ASSUME NEW t \in todo, Look(t) \/ LookBlind(t) PROVE MoneyInv'
  BY <1>5, LookMoney, LookBlindMoney
<1>6. ASSUME NEW h \in hooks, HookReads(h) \/ HookWrites(h) PROVE MoneyInv'
  BY <1>6, HookReadsMoney, HookWritesMoney
<1>7. CASE UNCHANGED vars
  BY <1>7 DEF vars
<1> QED
  BY <1>1, <1>2, <1>3, <1>4, <1>5, <1>6, <1>7 DEF Next

HIDE DEF MoneyInv, WorkersKnow, RowsKnow, NairaAfterEuros, PaidMeansLanded

\* Every variable has its type: a handler's step leaves it at a step of its
\* code, on a conversion that exists, and no row has a status nobody wrote.
THEOREM TypeCorrect == Spec => []TypeOK
<1>1. Init => MoneyInv
  BY MoneyInit
<1>2. MoneyInv /\ [Next]_vars => MoneyInv'
  BY MoneyNext
<1>3. MoneyInv => TypeOK
  BY DEF MoneyInv
<1> QED
  BY <1>1, <1>2, <1>3, PTL DEF Spec

\* No naira without euros, whatever is retried, given up on or sent late: every
\* path to the payout starts from a row, a list entry or a handler that has the
\* answer of the convert call.
THEOREM NairaNeedEuros == Spec => []NairaAfterEuros
<1>1. Init => MoneyInv
  BY MoneyInit
<1>2. MoneyInv /\ [Next]_vars => MoneyInv'
  BY MoneyNext
<1>3. MoneyInv => NairaAfterEuros
  BY DEF MoneyInv
<1> QED
  BY <1>1, <1>2, <1>3, PTL DEF Spec

\* A conversion that Fincra carries out, or whose convert call is still on the
\* wire, is never open for confirmation again: nothing writes "quoted" over a
\* row that was claimed.
THEOREM NeverOfferedAgain == Spec => []NotOfferedAgain
<1>1. Init => MoneyInv
  BY MoneyInit
<1>2. MoneyInv /\ [Next]_vars => MoneyInv'
  BY MoneyNext
<1>3. MoneyInv => NotOfferedAgain
  BY DEF MoneyInv, RowsKnow, NotOfferedAgain
<1> QED
  BY <1>1, <1>2, <1>3, PTL DEF Spec

\* "paid" is only ever written on Fincra's word that the naira arrived, and
\* Fincra does not take it back: stale answers and late webhooks included.
THEOREM PaidHasLanded == Spec => []PaidMeansLanded
<1>1. Init => MoneyInv
  BY MoneyInit
<1>2. MoneyInv /\ [Next]_vars => MoneyInv'
  BY MoneyNext
<1>3. MoneyInv => PaidMeansLanded
  BY DEF MoneyInv
<1> QED
  BY <1>1, <1>2, <1>3, PTL DEF Spec

-----------------------------------------------------------------------------
(* The holding is not overdrawn: BookInv is inductive beside MoneyInv *)

LEMMA SpentSame ==
  ASSUME UNCHANGED booked
  PROVE  \A b \in Biz : Spent(b)' = Spent(b)
  BY DEF Spent, BizOf

LEMMA OrderType ==
  ASSUME NEW c \in Convs
  PROVE  BizOf(c) \in Biz /\ Order[c].amount \in Nat
  BY OrderAssumption DEF BizOf

LEMMA BookInit == Init => BookInv
<1> SUFFICES ASSUME Init PROVE BookInv
  OBVIOUS
<1>1. IsFiniteSet(booked)
  BY FS_EmptySet DEF Init
<1>2. ASSUME NEW b \in Biz PROVE Spent(b) = 0
  <2>1. {c \in booked : BizOf(c) = b} = {}
    BY DEF Init
  <2>2. DOMAIN [c \in {c \in booked : BizOf(c) = b} |-> Order[c].amount] = {}
    BY <2>1
  <2> QED
    BY <2>2, SumEmpty DEF Spent
<1>3. \A j \in Jobs : job[j].pc = "idle"
  BY DEF Init, Idle
<1>4. LocksHeld /\ RoomKept
  BY <1>3 DEF LocksHeld, RoomKept, Committed
<1>5. NotOverdrawn
  BY <1>2, ReceivedAssumption DEF NotOverdrawn
<1> QED
  BY <1>1, <1>4, <1>5 DEF BookInv

LEMMA SpentType ==
  ASSUME TypeOK, IsFiniteSet(booked), NEW b \in Biz
  PROVE  Spent(b) \in Nat
<1> DEFINE f == [c \in {c \in booked : BizOf(c) = b} |-> Order[c].amount]
<1>1. DOMAIN f \in SUBSET booked
  OBVIOUS
<1>2. \A c \in DOMAIN f : f[c] \in Nat
  BY OrderType DEF TypeOK
<1>3. IsFiniteSet(DOMAIN f)
  BY <1>1, FS_Subset
<1> HIDE DEF f
<1>4. SumFunction(f) \in Nat
  BY <1>2, <1>3, SumNat
<1> QED
  BY <1>4 DEF Spent, f

\* What booking a conversion adds.
LEMMA SpentBooked ==
  ASSUME TypeOK, IsFiniteSet(booked), NEW c \in Convs, c \notin booked,
         booked' = booked \cup {c}
  PROVE  /\ Spent(BizOf(c))' = Spent(BizOf(c)) + Order[c].amount
         /\ \A b \in Biz \ {BizOf(c)} : Spent(b)' = Spent(b)
<1>1. ASSUME NEW b \in Biz \ {BizOf(c)} PROVE Spent(b)' = Spent(b)
  <2>1. {x \in booked' : BizOf(x) = b} = {x \in booked : BizOf(x) = b}
    OBVIOUS
  <2> QED
    BY <2>1 DEF Spent, BizOf
<1>2. Spent(BizOf(c))' = Spent(BizOf(c)) + Order[c].amount
  <2> DEFINE b == BizOf(c)
             f == [x \in {x \in booked : BizOf(x) = b} |-> Order[x].amount]
             g == [x \in {x \in booked' : BizOf(x) = b} |-> Order[x].amount]
  <2>1. DOMAIN f \in SUBSET booked /\ c \notin DOMAIN f /\ DOMAIN g = DOMAIN f \cup {c}
    BY DEF BizOf
  <2>2. \A x \in DOMAIN g : g[x] \in Int
    BY OrderType DEF TypeOK
  <2>3. (\A x \in DOMAIN f : g[x] = f[x]) /\ g[c] = Order[c].amount
    OBVIOUS
  <2>4. IsFiniteSet(DOMAIN f)
    BY <2>1, FS_Subset
  <2>5. SumFunction(g) = SumFunction(f) + g[c]
    <3> HIDE DEF f, g
    <3> QED
      BY <2>1, <2>2, <2>3, <2>4, SumWith
  <2> QED
    BY <2>3, <2>5 DEF Spent, BizOf
<1> QED
  BY <1>1, <1>2

\* Nothing is booked and nobody comes closer to booking: only the locks matter.
LEMMA BookKept ==
  ASSUME BookInv, Placed', UNCHANGED booked, LocksHeld',
         \A j \in Jobs : job'[j].pc \in Committed =>
           job[j].pc \in Committed /\ job'[j].conv = job[j].conv
  PROVE  BookInv'
<1>1. \A c \in Convs : Room(c) => Room(c)'
  BY SpentSame, OrderType DEF Room, BizOf
<1>2. RoomKept'
  BY <1>1 DEF BookInv, RoomKept, Committed
<1> QED
  BY <1>2, SpentSame DEF BookInv, NotOverdrawn

\* A booking that there was room for: no other business notices.
LEMMA BookOne ==
  ASSUME TypeOK, BookInv, NEW c \in Convs, Room(c), booked' = booked \cup {c}
  PROVE  /\ IsFiniteSet(booked)' /\ NotOverdrawn'
         /\ \A d \in Convs : BizOf(d) # BizOf(c) /\ Room(d) => Room(d)'
<1>1. IsFiniteSet(booked)'
  BY FS_AddElement DEF BookInv
<1>2. BizOf(c) \in Biz /\ IsFiniteSet(booked) /\ \A b \in Biz : Spent(b) <= Received[b]
  BY OrderType DEF BookInv, NotOverdrawn
<1>3. \A b \in Biz \ {BizOf(c)} : Spent(b)' = Spent(b)
  BY <1>2, SpentBooked, SpentSame
<1>4. Spent(BizOf(c))' <= Received[BizOf(c)]
  BY <1>2, SpentBooked, SpentSame DEF Room
<1>5. NotOverdrawn'
  BY <1>2, <1>3, <1>4 DEF NotOverdrawn
<1>6. ASSUME NEW d \in Convs, BizOf(d) # BizOf(c), Room(d) PROVE Room(d)'
  <2>1. Spent(BizOf(d))' = Spent(BizOf(d))
    BY <1>3, <1>6, OrderType
  <2> QED
    BY <1>6, <2>1 DEF Room, BizOf
<1> QED
  BY <1>1, <1>5, <1>6

\* A worker that leaves gives up no lock but its own.
LEMMA LeftBooks ==
  ASSUME Placed, Placed', BookInv, NEW w \in Workers, Left(w), UNCHANGED booked
  PROVE  BookInv'
<1>1. ASSUME NEW k \in Jobs, job'[k].pc \in {"check", "claim"} \cup Carrying
      PROVE  job'[k] = job[k] /\ lock'[BizOf(job[k].conv)] = k
  <2>1. k # w /\ job'[k] = job[k]
    BY <1>1, WorkersAssumption
  <2>2. lock[BizOf(job[k].conv)] = k /\ BizOf(job[k].conv) \in Biz
    BY <1>1, <2>1, OrderType DEF BookInv, LocksHeld
  <2> QED
    BY <2>1, <2>2
<1>2. LocksHeld'
  BY <1>1 DEF LocksHeld, BizOf
<1> QED
  BY <1>1, <1>2, BookKept DEF Committed

USE DEF Committed

\* Every step but the booking itself and those before it that take the lock and
\* pass the check.
LEMMA LegArrivesBooks ==
  ASSUME TypeOK, Placed, Placed', BookInv, NEW c \in Convs, LegArrives(c)
  PROVE  BookInv'
  BY BookKept DEF LegArrives, BookInv, LocksHeld, BizOf

LEMMA LegLostBooks ==
  ASSUME TypeOK, Placed, Placed', BookInv, NEW c \in Convs, LegLost(c)
  PROVE  BookInv'
  BY BookKept DEF LegLost, BookInv, LocksHeld, BizOf

LEMMA PayArrivesBooks ==
  ASSUME TypeOK, Placed, Placed', BookInv, NEW c \in Convs, PayArrives(c)
  PROVE  BookInv'
  BY BookKept DEF PayArrives, BookInv, LocksHeld, BizOf

LEMMA PayLostBooks ==
  ASSUME TypeOK, Placed, Placed', BookInv, NEW c \in Convs, PayLost(c)
  PROVE  BookInv'
  BY BookKept DEF PayLost, BookInv, LocksHeld, BizOf

LEMMA AgeBooks ==
  ASSUME TypeOK, Placed, Placed', BookInv, NEW c \in Convs, Age(c)
  PROVE  BookInv'
  BY BookKept DEF Age, BookInv, LocksHeld, BizOf

LEMMA QuoteBooks ==
  ASSUME TypeOK, Placed, Placed', BookInv, NEW c \in Convs, Quote(c)
  PROVE  BookInv'
  BY BookKept DEF Quote, BookInv, LocksHeld, BizOf

LEMMA ConfirmBooks ==
  ASSUME TypeOK, Placed, Placed', BookInv, NEW j \in Jobs, NEW c \in Convs, Confirm(j, c)
  PROVE  BookInv'
  BY BookKept DEF Confirm, Idle, BookInv, LocksHeld, BizOf

LEMMA ResolveBooks ==
  ASSUME TypeOK, Placed, Placed', BookInv, NEW c \in Convs, NEW p \in {"successful", "failed"}, Resolve(c, p)
  PROVE  BookInv'
  BY BookKept DEF Resolve, BookInv, LocksHeld, BizOf

LEMMA LockBooks ==
  ASSUME TypeOK, Placed, Placed', BookInv, NEW j \in Jobs, Lock(j)
  PROVE  BookInv'
<1>1. lock[BizOf(job[j].conv)] = NoJob /\ BizOf(job[j].conv) \in Biz
  BY OrderType DEF Lock
<1>2. Moved(j, "check")
  BY GoMoves DEF Lock
<1>3. ASSUME NEW k \in Jobs, job'[k].pc \in {"check", "claim"} \cup Carrying
      PROVE  lock'[BizOf(job'[k].conv)] = k
  <2>1. CASE k = j
    BY <1>1, <1>2, <2>1 DEF Lock
  <2>2. CASE k # j
    <3>1. lock[BizOf(job[k].conv)] = k /\ BizOf(job[k].conv) \in Biz
      BY <1>2, <1>3, <2>2, OrderType DEF BookInv, LocksHeld
    <3> QED
      BY <1>1, <1>2, <2>2, <3>1, WorkersAssumption DEF Lock
  <2> QED
    BY <2>1, <2>2
<1>4. \A b : BizOf(b)' = BizOf(b)
  BY DEF BizOf
<1> QED
  BY <1>2, <1>3, <1>4, BookKept DEF Lock, LocksHeld

LEMMA RefuseBooks ==
  ASSUME TypeOK, Placed, Placed', BookInv, NEW j \in Jobs, Refuse(j)
  PROVE  BookInv'
  BY LeaveLeaves, LeftBooks DEF Refuse

LEMMA CheckBooks ==
  ASSUME TypeOK, Placed, Placed', BookInv, NEW j \in Jobs, Check(j)
  PROVE  BookInv'
<1> DEFINE c == job[j].conv
           b == BizOf(c)
<1>1. c \in Convs /\ b \in Biz /\ Order[c].amount \in Nat
  BY OrderType DEF Check
<1>2. Spent(b) \in Nat /\ Spent(b) <= Received[b] /\ Received[b] \in Nat
  BY <1>1, SpentType, ReceivedAssumption DEF BookInv, NotOverdrawn
<1>3. Room(c)
  BY <1>1, <1>2 DEF Check, Balance, Room
<1>4. Moved(j, "claim")
  BY GoMoves DEF Check
<1>5. LocksHeld'
  BY <1>4 DEF Check, BookInv, LocksHeld, BizOf
<1>6. RoomKept'
  BY <1>3, <1>4, SpentSame, OrderType DEF Check, BookInv, RoomKept, Room, Committed, BizOf
<1> QED
  BY <1>5, <1>6, SpentSame DEF Check, BookInv, NotOverdrawn

LEMMA ClaimBooks ==
  ASSUME TypeOK, Placed, Placed', BookInv, NEW j \in Jobs, Claim(j)
  PROVE  BookInv'
<1>1. CASE status[job[j].conv] = "quoted"
  <2>1. Moved(j, "convert") /\ UNCHANGED <<booked, lock>> /\ job[j].pc = "claim"
    BY <1>1, GoMoves DEF Claim
  <2> QED
    BY <2>1, BookKept DEF BookInv, LocksHeld, BizOf
<1>2. CASE status[job[j].conv] # "quoted"
  BY <1>2, LeaveLeaves, LeftBooks DEF Claim
<1> QED
  BY <1>1, <1>2

LEMMA ConvertsBooks ==
  ASSUME TypeOK, Placed, Placed', BookInv, NEW j \in Jobs, Converts(j)
  PROVE  BookInv'
  BY BookKept, GoMoves DEF Converts, BookInv, LocksHeld, BizOf

LEMMA ConvertRefusedBooks ==
  ASSUME TypeOK, Placed, Placed', BookInv, NEW j \in Jobs, ConvertRefused(j)
  PROVE  BookInv'
  BY BookKept, GoMoves DEF ConvertRefused, BookInv, LocksHeld, BizOf

LEMMA ConvertUnknownBooks ==
  ASSUME TypeOK, Placed, Placed', BookInv, NEW j \in Jobs, ConvertUnknown(j)
  PROVE  BookInv'
  BY BookKept, GoMoves DEF ConvertUnknown, BookInv, LocksHeld, BizOf

LEMMA MarkFailedBooks ==
  ASSUME TypeOK, Placed, Placed', BookInv, NEW j \in Jobs, MarkFailed(j)
  PROVE  BookInv'
  BY LeaveLeaves, LeftBooks DEF MarkFailed

LEMMA MarkConvertedBooks ==
  ASSUME TypeOK, Placed, Placed', BookInv, NEW j \in Jobs, MarkConverted(j)
  PROVE  BookInv'
  BY BookKept, GoMoves DEF MarkConverted, BookInv, LocksHeld, BizOf

LEMMA BookBooks ==
  ASSUME TypeOK, Placed, Placed', BookInv, NEW j \in Jobs, Book(j)
  PROVE  BookInv'
<1>1. PICK c \in Convs : c = job[j].conv
  BY DEF Book
<1>2. BizOf(c) \in Biz /\ lock[BizOf(c)] = j /\ Room(c)
  BY <1>1, OrderType DEF Book, BookInv, LocksHeld, RoomKept
<1>3. Moved(j, "payup") /\ booked' = booked \cup {c} /\ UNCHANGED lock
  BY <1>1, GoMoves DEF Book
<1>4. /\ IsFiniteSet(booked)' /\ NotOverdrawn'
      /\ \A d \in Convs : BizOf(d) # BizOf(c) /\ Room(d) => Room(d)'
  <2> HIDE DEF TypeOK, Moved
  <2> QED
    BY <1>1, <1>2, <1>3, BookOne
<1>5. LocksHeld'
  BY <1>3 DEF Book, BookInv, LocksHeld, BizOf
<1>6. ASSUME NEW k \in Jobs, job'[k].pc \in Committed PROVE Room(job[k].conv)'
  <2>1. k # j /\ job'[k] = job[k]
    BY <1>3, <1>6
  <2>2. PICK d \in Convs : d = job[k].conv /\ d = job'[k].conv
    BY <1>6, <2>1
  <2>3. BizOf(d) \in Biz /\ lock[BizOf(d)] = k /\ Room(d)
    BY <1>6, <2>1, <2>2, OrderType DEF BookInv, LocksHeld, RoomKept
  <2>4. Room(d)'
    BY <1>2, <1>4, <2>1, <2>3
  <2> QED
    BY <2>2, <2>4 DEF Room, BizOf
<1> QED
  BY <1>4, <1>5, <1>6 DEF BookInv, RoomKept

LEMMA BookFailsBooks ==
  ASSUME TypeOK, Placed, Placed', BookInv, NEW j \in Jobs, BookFails(j)
  PROVE  BookInv'
  BY BookKept, GoMoves DEF BookFails, BookInv, LocksHeld, BizOf

LEMMA PayUpBooks ==
  ASSUME TypeOK, Placed, Placed', BookInv, NEW w \in Workers, PayUp(w)
  PROVE  BookInv'
  BY BookKept, GoMoves DEF PayUp, BookInv, LocksHeld, BizOf

LEMMA SendAnsweredBooks ==
  ASSUME TypeOK, Placed, Placed', BookInv, NEW w \in Workers, SendAnswered(w)
  PROVE  BookInv'
  BY BookKept DEF SendAnswered, BookInv, LocksHeld, BizOf

LEMMA SendRefusedBooks ==
  ASSUME TypeOK, Placed, Placed', BookInv, NEW w \in Workers, SendRefused(w)
  PROVE  BookInv'
  BY BookKept, GoMoves DEF SendRefused, BookInv, LocksHeld, BizOf

LEMMA SendUnknownBooks ==
  ASSUME TypeOK, Placed, Placed', BookInv, NEW w \in Workers, SendUnknown(w)
  PROVE  BookInv'
  BY BookKept, GoMoves DEF SendUnknown, BookInv, LocksHeld, BizOf

LEMMA SettleBooks ==
  ASSUME TypeOK, Placed, Placed', BookInv, NEW w \in Workers, Settle(w)
  PROVE  BookInv'
  BY LeaveLeaves, LeftBooks DEF Settle

LEMMA SettleFailsBooks ==
  ASSUME TypeOK, Placed, Placed', BookInv, NEW w \in Workers, SettleFails(w)
  PROVE  BookInv'
  BY BookKept, GoMoves DEF SettleFails, BookInv, LocksHeld, BizOf

LEMMA MarkUnpaidBooks ==
  ASSUME TypeOK, Placed, Placed', BookInv, NEW w \in Workers, MarkUnpaid(w)
  PROVE  BookInv'
  BY LeaveLeaves, LeftBooks DEF MarkUnpaid

LEMMA CrashBooks ==
  ASSUME TypeOK, Placed, Placed', BookInv, NEW w \in Workers, Crash(w)
  PROVE  BookInv'
<1>1. Left(w)
  BY DEF Crash, Freed, Idle
<1> QED
  BY <1>1, LeftBooks DEF Crash

LEMMA StartLoopBooks ==
  ASSUME TypeOK, Placed, Placed', BookInv, StartLoop
  PROVE  BookInv'
  BY BookKept, GoMoves DEF StartLoop, BookInv, LocksHeld, BizOf

LEMMA EndLoopBooks ==
  ASSUME TypeOK, Placed, Placed', BookInv, EndLoop
  PROVE  BookInv'
  BY BookKept, GoMoves DEF EndLoop, BookInv, LocksHeld, BizOf

LEMMA LookBooks ==
  ASSUME TypeOK, Placed, Placed', BookInv, NEW t \in todo, Look(t)
  PROVE  BookInv'
<1>1. \A j \in Jobs : job'[j] = job[j]
  BY WorkersAssumption DEF Look
<1> QED
  BY <1>1, BookKept DEF Look, BookInv, LocksHeld, BizOf

LEMMA LookBlindBooks ==
  ASSUME TypeOK, Placed, Placed', BookInv, NEW t \in todo, LookBlind(t)
  PROVE  BookInv'
  BY BookKept DEF LookBlind, BookInv, LocksHeld, BizOf

LEMMA HookReadsBooks ==
  ASSUME TypeOK, Placed, Placed', BookInv, NEW h \in hooks, HookReads(h)
  PROVE  BookInv'
  BY BookKept DEF HookReads, BookInv, LocksHeld, BizOf

LEMMA HookWritesBooks ==
  ASSUME TypeOK, Placed, Placed', BookInv, NEW h \in hooks, HookWrites(h)
  PROVE  BookInv'
  BY BookKept DEF HookWrites, BookInv, LocksHeld, BizOf

LEMMA BookNext == TypeOK /\ Placed /\ Placed' /\ BookInv /\ [Next]_vars => BookInv'
<1> SUFFICES ASSUME TypeOK /\ Placed /\ Placed' /\ BookInv, [Next]_vars
             PROVE  BookInv'
  OBVIOUS
<1>1. ASSUME NEW c \in Convs,
             \/ Quote(c) \/ \E j \in Jobs : Confirm(j, c)
             \/ LegArrives(c) \/ LegLost(c) \/ PayArrives(c) \/ PayLost(c)
             \/ Resolve(c, "successful") \/ Resolve(c, "failed") \/ Age(c)
      PROVE  BookInv'
  BY <1>1, QuoteBooks, ConfirmBooks, LegArrivesBooks, LegLostBooks, PayArrivesBooks, PayLostBooks,
     ResolveBooks, AgeBooks
<1>2. ASSUME NEW j \in Jobs, Confirming(j) PROVE BookInv'
  BY <1>2, LockBooks, RefuseBooks, CheckBooks, ClaimBooks, ConvertsBooks, ConvertRefusedBooks,
     ConvertUnknownBooks, MarkFailedBooks, MarkConvertedBooks, BookBooks, BookFailsBooks
     DEF Confirming
<1>3. ASSUME NEW w \in Workers, Paying(w) \/ Crash(w) PROVE BookInv'
  BY <1>3, PayUpBooks, SendAnsweredBooks, SendRefusedBooks, SendUnknownBooks, SettleBooks, SettleFailsBooks,
     MarkUnpaidBooks, CrashBooks
     DEF Paying
<1>4. CASE StartLoop \/ EndLoop
  BY <1>4, StartLoopBooks, EndLoopBooks
<1>5. ASSUME NEW t \in todo, Look(t) \/ LookBlind(t) PROVE BookInv'
  BY <1>5, LookBooks, LookBlindBooks
<1>6. ASSUME NEW h \in hooks, HookReads(h) \/ HookWrites(h) PROVE BookInv'
  BY <1>6, HookReadsBooks, HookWritesBooks
<1>7. CASE UNCHANGED vars
  BY <1>7, BookKept DEF vars, BookInv, LocksHeld, BizOf
<1> QED
  BY <1>1, <1>2, <1>3, <1>4, <1>5, <1>6, <1>7 DEF Next

\* Two confirmations of one business never take the same euros: whoever has
\* passed the balance check holds the business until the euros are booked, and
\* nobody else books out of it meanwhile.
THEOREM NeverOverdrawn == Spec => []NotOverdrawn
<1>1. Init => MoneyInv /\ BookInv
  BY MoneyInit, BookInit
<1>2. MoneyInv /\ [Next]_vars => MoneyInv'
  BY MoneyNext
<1>3. MoneyInv /\ MoneyInv' /\ BookInv /\ [Next]_vars => BookInv'
  BY BookNext DEF MoneyInv
<1>4. BookInv => NotOverdrawn
  BY DEF BookInv
<1> QED
  BY <1>1, <1>2, <1>3, <1>4, PTL DEF Spec

=============================================================================

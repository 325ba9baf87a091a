----------------------------- MODULE ShopProofs -----------------------------
(***************************************************************************)
(* What the shop keeps, for any number of goods, records, debts and         *)
(* requests.  CustomerDebts: a debt has been paid what its payments add up  *)
(* to, and each of them counted once.  Stock: an item stands at what its    *)
(* movements come to, and a record's movements are its lines.               *)
(***************************************************************************)
EXTENDS CustomerDebts, Stock, SumLemmas, SequenceTheorems, TLAPS

-----------------------------------------------------------------------------
(* What a payment under way may rely on *)

\* There is something left to pay of the debt, as it was read.
WritesKnow == \A j \in Jobs : At(j, "write") => job[j].seen < Amount[Of(j)]

\* A transaction that has written holds its debt: it is there as it was read,
\* the payment is not recorded yet, and no other transaction is on that debt.
CommitsKnow ==
  \A j \in Jobs : At(j, "commit") =>
    /\ Of(j) \in debts /\ ~Recorded(Now(j))
    /\ paid[Of(j)] = job[j].seen /\ job[j].seen < Amount[Of(j)]
    /\ \A k \in Jobs : At(k, "commit") /\ Of(k) = Of(j) => k = j

PayInv == TypeOK /\ IsFiniteSet(rows) /\ PaymentsAddUp /\ WritesKnow /\ CommitsKnow
-----------------------------------------------------------------------------
(* What a queue keeps is a queue *)

\* One step of the recursion in Without, and a function that takes m of them.
KeptStep(queue, done, f, n) ==
  IF n = 0 THEN <<>> ELSE IF queue[n] \in done THEN f[n - 1] ELSE Append(f[n - 1], queue[n])

KeptUpTo(queue, done, f, m) == f = [n \in 0..m |-> KeptStep(queue, done, f, n)]

LEMMA KeptExists ==
  ASSUME NEW queue, NEW done, NEW m \in Nat
  PROVE  \E f : KeptUpTo(queue, done, f, m)
<1> DEFINE B == {n \in Nat : ~ \E f : KeptUpTo(queue, done, f, n)}
<1>1. ASSUME B # {} PROVE FALSE
  <2>1. PICK n \in B : \A k \in B : n <= k
    <3> HIDE DEF B
    <3>1. B \subseteq Nat BY DEF B
    <3> QED BY <1>1, <3>1, LeastNumber
  <2>2. n \in Nat /\ n # 0
    <3>1. KeptUpTo(queue, done, [k \in 0..0 |-> <<>>], 0)
      BY DEF KeptUpTo, KeptStep
    <3> QED BY <2>1, <3>1
  <2>3. PICK f : KeptUpTo(queue, done, f, n - 1)
    <3>1. n - 1 \in Nat /\ n - 1 \notin B BY <2>1, <2>2
    <3> QED BY <3>1
  <2> DEFINE g == [k \in 0..n |-> KeptStep(queue, done, f, k)]
  <2>4. ASSUME NEW k \in 0..n PROVE KeptStep(queue, done, g, k) = KeptStep(queue, done, f, k)
    <3>1. CASE k = 0 BY <3>1 DEF KeptStep
    <3>2. CASE k # 0
      <4>1. k - 1 \in 0..(n - 1) /\ k - 1 \in 0..n BY <2>2, <3>2
      <4>2. g[k - 1] = f[k - 1] BY <4>1, <2>3 DEF KeptUpTo
      <4> QED BY <3>2, <4>2 DEF KeptStep
    <3> QED BY <3>1, <3>2
  <2>5. KeptUpTo(queue, done, g, n) BY <2>4, Zenon DEF KeptUpTo
  <2> QED BY <2>1, <2>5
<1> QED BY <1>1

LEMMA WithoutType ==
  ASSUME NEW S, NEW queue \in Seq(S), NEW done
  PROVE  Without(queue, done) \in Seq(S)
<1> DEFINE f == CHOOSE f : KeptUpTo(queue, done, f, Len(queue))
           m == Len(queue)
           B == {n \in 0..m : f[n] \notin Seq(S)}
<1>0. m \in Nat OBVIOUS
<1>1. KeptUpTo(queue, done, f, m)
  <2> DEFINE P(x) == KeptUpTo(queue, done, x, m)
  <2> HIDE DEF m
  <2>1. \E x : P(x) BY <1>0, KeptExists
  <2>2. P(CHOOSE x : P(x))
    <3> HIDE DEF P
    <3> QED BY <2>1, Zenon
  <2> QED BY <2>2 DEF m
<1>2. Without(queue, done) = f[m]
  BY Zenon DEF Without, KeptUpTo, KeptStep
<1> HIDE DEF f
<1>3. \A n \in 0..m : f[n] = KeptStep(queue, done, f, n) BY <1>1 DEF KeptUpTo
<1>5. \A n \in 1..m : queue[n] \in S OBVIOUS
<1> HIDE DEF m
<1>4. ASSUME B # {} PROVE FALSE
  <2>1. PICK n \in B : \A k \in B : n <= k
    <3> HIDE DEF B
    <3>1. B \subseteq Nat BY <1>0 DEF B
    <3> QED BY <1>4, <3>1, LeastNumber
  <2>2. CASE n = 0
    <3>1. f[0] = <<>> BY <1>0, <1>3 DEF KeptStep
    <3>2. f[n] \in Seq(S)
      <4>1. <<>> \in Seq(S) OBVIOUS
      <4> QED BY <4>1, <3>1, <2>2
    <3> QED BY <3>2, <2>1, Zenon
  <2>3. CASE n # 0
    <3>1. n - 1 \in 0..m /\ f[n - 1] \in Seq(S) BY <2>1, <2>3, <1>0
    <3>2. queue[n] \in S BY <2>1, <2>3, <1>0, <1>5
    <3>3. f[n] = IF queue[n] \in done THEN f[n - 1] ELSE Append(f[n - 1], queue[n])
      BY <2>1, <2>3, <1>3 DEF KeptStep
    <3>4. f[n] \in Seq(S) BY <3>1, <3>2, <3>3
    <3> QED BY <2>1, <3>4, Zenon
  <2> QED BY <2>2, <2>3
<1> QED
  <2>1. m \notin B
    <3> HIDE DEF B
    <3> QED BY <1>4
  <2> QED BY <1>0, <1>2, <2>1

-----------------------------------------------------------------------------
(* Requests: what a step changes of them *)

JobState == [pc : PCs, rest : Seq(Ops), done : SUBSET Ops, seen : Nat, sum : Nat, lost : BOOLEAN]

\* No request has come to an operation without having one.
Busy == \A j \in Jobs : job[j].rest = <<>> => At(j, "idle") \/ At(j, "answer")

JobsOK == job \in [Jobs -> JobState] /\ Busy

\* Nobody but j has moved.
Alone(j) == \A k \in Jobs \ {j} : job'[k] = job[k]

LEMMA IdleType == Idle \in JobState /\ Idle.pc = "idle"
<1>1. <<>> \in Seq(Ops)
  OBVIOUS
<1> QED
  BY <1>1, Zenon DEF Idle, JobState, PCs

LEMMA OpType ==
  ASSUME NEW o \in Ops
  PROVE  Op[o].kind \in Kinds /\ Op[o].debt \in Debts /\ Op[o].amount \in Nat \ {0}
  BY DebtsAssumption

LEMMA QueuedOps == Queued \subseteq Ops
  BY DebtsAssumption DEF Queued

\* The operation a request is at.
LEMMA NowType ==
  ASSUME JobsOK, NEW j \in Jobs, ~At(j, "idle"), ~At(j, "answer")
  PROVE  /\ job[j].rest \in Seq(Ops) /\ job[j].rest # <<>>
         /\ Now(j) \in Ops /\ Of(j) \in Debts /\ Op[Now(j)].amount \in Nat \ {0}
         /\ Tail(job[j].rest) \in Seq(Ops)
         /\ Len(job[j].rest) # 1 => Tail(job[j].rest) # <<>>
<1>1. job[j].rest \in Seq(Ops) /\ job[j].rest # <<>>
  BY DEF JobsOK, Busy, JobState
<1>2. Now(j) \in Ops
  <2>1. Head(job[j].rest) \in Ops
    BY <1>1, HeadTailProperties, Zenon
  <2> QED
    BY <2>1, Zenon DEF Now
<1>3. Tail(job[j].rest) \in Seq(Ops) /\ (Len(job[j].rest) # 1 => Tail(job[j].rest) # <<>>)
  <2> DEFINE s == job[j].rest
  <2>1. s \in Seq(Ops) /\ s # <<>>
    BY <1>1
  <2> HIDE DEF s
  <2>2. Tail(s) \in Seq(Ops) /\ Len(Tail(s)) = Len(s) - 1 /\ Len(s) \in Nat
    BY <2>1, HeadTailProperties
  <2>3. Len(s) # 1 => Tail(s) # <<>>
    <3>1. Len(<<>>) = 0
      OBVIOUS
    <3>2. Len(s) # 0
      BY <2>1, EmptySeq
    <3> QED
      BY <2>2, <3>1, <3>2
  <2> QED
    BY <2>2, <2>3 DEF s
<1> QED
  BY <1>1, <1>2, <1>3, OpType DEF Of

LEMMA GoType ==
  ASSUME JobsOK, NEW j \in Jobs, NEW pc \in PCs, ~At(j, "idle"), ~At(j, "answer"), Go(j, pc)
  PROVE  /\ JobsOK' /\ Alone(j)
         /\ job'[j] = [job[j] EXCEPT !.pc = pc]
<1>1. [job[j] EXCEPT !.pc = pc] \in JobState
  BY DEF JobsOK, JobState
<1>2. job' = [job EXCEPT ![j] = [job[j] EXCEPT !.pc = pc]]
  BY DEF Go
<1>3. job' \in [Jobs -> JobState] /\ Alone(j) /\ job'[j] = [job[j] EXCEPT !.pc = pc]
  BY <1>1, <1>2 DEF JobsOK, Alone
<1>4. job'[j].rest # <<>>
  BY <1>3, NowType
<1> QED
  BY <1>3, <1>4 DEF JobsOK, Busy, Alone, At

LEMMA EndType ==
  ASSUME JobsOK, lock \in Jobs \cup {NoJob}, NEW j \in Jobs, ~At(j, "idle"), ~At(j, "answer"),
         NEW ok \in BOOLEAN, End(j, ok)
  PROVE  /\ JobsOK' /\ Alone(j) /\ lock' \in Jobs \cup {NoJob}
         /\ job'[j].pc \in {"answer", "look"}
<1> DEFINE done == IF ok /\ ~job[j].lost THEN job[j].done \cup {Now(j)} ELSE job[j].done
           rec  == [Idle EXCEPT
                      !.pc = IF Len(job[j].rest) = 1 THEN "answer" ELSE "look",
                      !.rest = Tail(job[j].rest), !.done = done]
<1>1. done \in SUBSET Ops
  BY NowType DEF JobsOK, JobState
<1>2. rec \in JobState /\ rec.pc \in {"answer", "look"} /\ (rec.rest = <<>> => rec.pc = "answer")
  <2> HIDE DEF done
  <2> QED
    BY <1>1, NowType DEF Idle, JobState, PCs
<1>3. job' = [job EXCEPT ![j] = rec]
  BY DEF End
<1> HIDE DEF rec
<1>4. job' \in [Jobs -> JobState] /\ Alone(j) /\ job'[j] = rec
  BY <1>2, <1>3 DEF JobsOK, Alone
<1> QED
  BY <1>2, <1>4 DEF JobsOK, Busy, Alone, At, End

\* A step that writes a request's record with one that has an operation left.
LEMMA PutType ==
  ASSUME JobsOK, NEW j \in Jobs, NEW rec \in JobState,
         rec.rest = <<>> => rec.pc \in {"idle", "answer"}, job' = [job EXCEPT ![j] = rec]
  PROVE  JobsOK' /\ Alone(j) /\ job'[j] = rec
<1>1. job' \in [Jobs -> JobState] /\ Alone(j) /\ job'[j] = rec
  BY DEF JobsOK, Alone
<1> QED
  BY <1>1 DEF JobsOK, Busy, Alone, At

LEMMA TypeJobs == TypeOK <=> /\ customer \in BOOLEAN /\ closed \in BOOLEAN /\ owed \in Nat
                             /\ debts \subseteq Debts /\ paid \in [Debts -> Nat]
                             /\ rows \subseteq [id : Ops, of : Debts, amount : Nat \ {0}]
                             /\ lock \in Jobs \cup {NoJob} /\ waiting \in Jobs \cup {NoJob}
                             /\ JobsOK /\ left \in Seq(Queued) /\ asked \subseteq Desk
  BY DEF TypeOK, JobsOK, Busy, JobState

-----------------------------------------------------------------------------
(* The rows: what a step does to the payments *)

RowsInv == IsFiniteSet(rows) /\ PaymentsAddUp /\ WritesKnow /\ CommitsKnow

LEMMA PayParts == PayInv <=> TypeOK /\ RowsInv
  BY DEF PayInv, RowsInv

\* What the debts of a set still owe, when none has been paid too much.
LEMMA OwingNat ==
  ASSUME NEW of \in [Debts -> Nat], debts \subseteq Debts, \A x \in debts : of[x] <= Amount[x]
  PROVE  Owing(of) \in Nat
<1> DEFINE f == [x \in debts |-> Amount[x] - of[x]]
<1>1. IsFiniteSet(DOMAIN f)
  BY FS_Subset, DebtsAssumption
<1>2. \A x \in DOMAIN f : f[x] \in Nat
  BY DebtsAssumption
<1> HIDE DEF f
<1>3. SumFunction(f) \in Nat
  BY <1>1, <1>2, SumNat
<1> QED
  BY <1>3 DEF Owing, f

\* No row was written, and who has moved is not about to write one.
LEMMA PaidOn ==
  ASSUME RowsInv, UNCHANGED <<debts, paid, rows>>, NEW j \in Jobs, Alone(j),
         job'[j].pc \notin {"write", "commit"}
  PROVE  RowsInv'
<1>1. PaymentsAddUp' /\ IsFiniteSet(rows)'
  BY DEF RowsInv, PaymentsAddUp
<1>2. \A k \in Jobs : At(k, "write")' \/ At(k, "commit")' => k # j /\ job'[k] = job[k]
  BY DEF Alone, At
<1>3. WritesKnow'
  BY <1>2 DEF RowsInv, WritesKnow, At, Of, Now
<1>4. CommitsKnow'
  BY <1>2 DEF RowsInv, CommitsKnow, At, Of, Now, Recorded
<1> QED
  BY <1>1, <1>3, <1>4 DEF RowsInv

LEMMA Unmoved ==
  ASSUME RowsInv, UNCHANGED <<debts, paid, rows, job>>
  PROVE  RowsInv'
  BY DEF RowsInv, PaymentsAddUp, WritesKnow, CommitsKnow, At, Of, Now, Recorded

-----------------------------------------------------------------------------
(* The steps that leave the rows alone *)

LEMMA TypeThen ==
  ASSUME customer' \in BOOLEAN, closed' \in BOOLEAN, owed' \in Nat,
         debts' \subseteq Debts, paid' \in [Debts -> Nat],
         rows' \subseteq [id : Ops, of : Debts, amount : Nat \ {0}],
         lock' \in Jobs \cup {NoJob}, waiting' \in Jobs \cup {NoJob},
         JobsOK', left' \in Seq(Queued), asked' \subseteq Desk
  PROVE  TypeOK'
  BY DEF TypeOK, JobsOK, Busy, JobState

USE DEF rowvars, phone

LEMMA EndsQuietly ==
  ASSUME PayInv, NEW j \in Jobs, ~At(j, "idle"), ~At(j, "answer"), NEW ok \in BOOLEAN, End(j, ok),
         customer' \in BOOLEAN, closed' \in BOOLEAN, owed' \in Nat,
         UNCHANGED <<debts, paid, rows, phone>>
  PROVE  PayInv'
<1>1. TypeOK'
  BY EndType, TypeThen, TypeJobs, PayParts
<1>2. RowsInv'
  BY EndType, TypeJobs, PayParts, PaidOn
<1> QED
  BY <1>1, <1>2 DEF PayInv, RowsInv

LEMMA GoesQuietly ==
  ASSUME PayInv, NEW j \in Jobs, ~At(j, "idle"), ~At(j, "answer"), NEW pc \in PCs \ {"write", "commit"},
         Go(j, pc), lock' \in Jobs \cup {NoJob}, UNCHANGED <<rowvars, closed, phone>>
  PROVE  PayInv'
<1>0. job'[j].pc = pc
  <2>1. JobsOK /\ job'[j] = [job[j] EXCEPT !.pc = pc]
    BY GoType, TypeJobs, PayParts
  <2>2. job[j] \in JobState
    BY <2>1 DEF JobsOK
  <2> QED
    BY <2>1, <2>2 DEF JobState
<1>1. TypeOK'
  BY GoType, TypeThen, TypeJobs, PayParts
<1>2. RowsInv'
  BY <1>0, GoType, TypeJobs, PayParts, PaidOn
<1> QED
  BY <1>1, <1>2 DEF PayInv, RowsInv

LEMMA PutsQuietly ==
  ASSUME PayInv, NEW j \in Jobs, NEW rec \in JobState, rec.rest = <<>> => rec.pc \in {"idle", "answer"},
         job' = [job EXCEPT ![j] = rec], rec.pc \notin {"write", "commit"},
         lock' \in Jobs \cup {NoJob}, waiting' \in Jobs \cup {NoJob}, left' \in Seq(Queued), asked' \subseteq Desk,
         UNCHANGED <<rowvars, closed>>
  PROVE  PayInv'
<1>1. TypeOK'
  BY PutType, TypeThen, TypeJobs, PayParts
<1>2. RowsInv'
  BY PutType, TypeJobs, PayParts, PaidOn
<1> QED
  BY <1>1, <1>2 DEF PayInv, RowsInv

LEMMA PayInvFacts ==
  PayInv => /\ customer \in BOOLEAN /\ closed \in BOOLEAN /\ owed \in Nat
            /\ debts \subseteq Debts /\ paid \in [Debts -> Nat] /\ IsFiniteSet(rows)
            /\ rows \subseteq [id : Ops, of : Debts, amount : Nat \ {0}]
            /\ lock \in Jobs \cup {NoJob} /\ waiting \in Jobs \cup {NoJob}
            /\ JobsOK /\ left \in Seq(Queued) /\ asked \subseteq Desk
            /\ PaymentsAddUp /\ WritesKnow /\ CommitsKnow /\ RowsInv
  BY TypeJobs, PayParts DEF RowsInv

LEMMA AddCustomerPay == ASSUME PayInv, NEW j \in Jobs, AddCustomer(j) PROVE PayInv'
  BY PayInvFacts, EndsQuietly DEF AddCustomer, At

LEMMA LookDebtPay == ASSUME PayInv, NEW j \in Jobs, LookDebt(j) PROVE PayInv'
<1>1. ~At(j, "idle") /\ ~At(j, "answer")
  BY DEF LookDebt, At
<1>2. ASSUME NEW ok \in BOOLEAN, End(j, ok) PROVE PayInv'
  BY <1>1, <1>2, PayInvFacts, EndsQuietly DEF LookDebt
<1>3. ASSUME NEW pc \in {"lock", "create"}, Go(j, pc), UNCHANGED lock PROVE PayInv'
  BY <1>1, <1>3, PayInvFacts, GoesQuietly DEF LookDebt, PCs
<1>4. (Of(j) \in debts) \in BOOLEAN
  OBVIOUS
<1> QED
  BY <1>2, <1>3, <1>4, Zenon DEF LookDebt

LEMMA LookPayPay == ASSUME PayInv, NEW j \in Jobs, LookPay(j) PROVE PayInv'
  BY PayInvFacts, EndsQuietly, GoesQuietly DEF LookPay, At, PCs

LEMMA LookDropPay == ASSUME PayInv, NEW j \in Jobs, LookDrop(j) PROVE PayInv'
  BY PayInvFacts, EndsQuietly, GoesQuietly DEF LookDrop, At, PCs

LEMMA ReadLockDatePay == ASSUME PayInv, NEW j \in Jobs, ReadLockDate(j) PROVE PayInv'
  BY PayInvFacts, EndsQuietly, GoesQuietly DEF ReadLockDate, At, PCs

LEMMA AcquirePay == ASSUME PayInv, NEW j \in Jobs, Acquire(j) PROVE PayInv'
  BY PayInvFacts, GoesQuietly DEF Acquire, At, PCs

LEMMA SaveOwedPay == ASSUME PayInv, NEW j \in Jobs, SaveOwed(j) PROVE PayInv'
  BY PayInvFacts, EndsQuietly DEF SaveOwed, At, JobsOK, JobState

LEMMA FailsPay == ASSUME PayInv, NEW j \in Jobs, Fails(j) PROVE PayInv'
  BY PayInvFacts, EndsQuietly DEF Fails

LEMMA SumDebtsPay == ASSUME PayInv, NEW j \in Jobs, SumDebts(j) PROVE PayInv'
<1> DEFINE rec == [job[j] EXCEPT !.pc = "owed", !.sum = Owing(paid)]
<1>1. Owing(paid) \in Nat
  BY PayInvFacts, OwingNat DEF PaymentsAddUp
<1>2. job[j] \in JobState /\ job[j].rest # <<>>
  BY PayInvFacts DEF SumDebts, At, JobsOK, Busy
<1>3. rec \in JobState /\ rec.pc = "owed" /\ rec.rest # <<>>
  BY <1>1, <1>2 DEF JobState, PCs
<1>4. job' = [job EXCEPT ![j] = rec]
  BY DEF SumDebts
<1> HIDE DEF rec
<1> QED
  BY <1>3, <1>4, PayInvFacts, PutsQuietly DEF SumDebts

LEMMA BeginType ==
  ASSUME NEW queue \in Seq(Ops)
  PROVE  Begin(queue) \in JobState /\ Begin(queue).pc = "look" /\ Begin(queue).rest = queue
  BY DEF Begin, Idle, JobState, PCs

LEMMA QueueSeq == ASSUME NEW s \in Seq(Queued) PROVE s \in Seq(Ops)
  BY QueuedOps

LEMMA SendPay == ASSUME PayInv, NEW j \in Jobs, Send(j) PROVE PayInv'
  BY PayInvFacts, BeginType, QueueSeq, PutsQuietly DEF Send

LEMMA AskPay == ASSUME PayInv, NEW j \in Jobs, NEW o \in Desk, Ask(j, o) PROVE PayInv'
<1>1. <<o>> \in Seq(Ops) /\ <<o>> # <<>>
  BY DEF Desk
<1>2. Begin(<<o>>) \in JobState /\ Begin(<<o>>).pc = "look" /\ Begin(<<o>>).rest # <<>>
  <2> DEFINE s == <<o>>
  <2> HIDE DEF s
  <2>1. s \in Seq(Ops) /\ s # <<>>
    BY <1>1 DEF s
  <2>2. Begin(s) \in JobState /\ Begin(s).pc = "look" /\ Begin(s).rest # <<>>
    BY <2>1, BeginType
  <2> QED
    BY <2>2 DEF s
<1> DEFINE rec == Begin(<<o>>)
<1>3. job' = [job EXCEPT ![j] = rec]
  BY DEF Ask
<1> HIDE DEF rec
<1>4. rec \in JobState /\ rec.pc = "look" /\ rec.rest # <<>>
  BY <1>2 DEF rec
<1> QED
  BY <1>3, <1>4, PayInvFacts, PutsQuietly DEF Ask

LEMMA AnswerPay == ASSUME PayInv, NEW j \in Jobs, Answer(j) PROVE PayInv'
<1>1. left' \in Seq(Queued) /\ waiting' \in Jobs \cup {NoJob}
  <2>1. Without(left, job[j].done) \in Seq(Queued)
    BY PayInvFacts, WithoutType
  <2> QED
    BY <2>1, PayInvFacts DEF Answer
<1> QED
  BY <1>1, PayInvFacts, IdleType, PutsQuietly DEF Answer

LEMMA CrashPay == ASSUME PayInv, NEW j \in Jobs, Crash(j) PROVE PayInv'
  BY PayInvFacts, IdleType, PutsQuietly DEF Crash

LEMMA GiveUpPay == ASSUME PayInv, GiveUp PROVE PayInv'
<1>1. TypeOK'
  BY PayInvFacts, TypeThen DEF GiveUp, JobsOK, Busy, At
<1> QED
  BY <1>1, PayInvFacts, Unmoved DEF GiveUp, PayInv, RowsInv

LEMMA SetLockPay == ASSUME PayInv, SetLock PROVE PayInv'
<1>1. TypeOK'
  BY PayInvFacts, TypeThen DEF SetLock, JobsOK, Busy, At
<1> QED
  BY <1>1, PayInvFacts, Unmoved DEF SetLock, PayInv, RowsInv

\* A payment goes on when the lock's connection drops under it.
LEMMA LockLostPay == ASSUME PayInv, NEW j \in Jobs, LockLost(j) PROVE PayInv'
<1> DEFINE rec == [job[j] EXCEPT !.lost = TRUE]
<1>1. job[j] \in JobState /\ (job[j].rest = <<>> => job[j].pc \in {"idle", "answer"})
  BY PayInvFacts DEF JobsOK, Busy, At
<1>2. rec \in JobState /\ rec.pc = job[j].pc /\ rec.rest = job[j].rest /\ rec.seen = job[j].seen
  BY <1>1 DEF JobState
<1>3. job' = [job EXCEPT ![j] = rec]
  BY DEF LockLost
<1> HIDE DEF rec
<1>4. JobsOK' /\ Alone(j) /\ job'[j] = rec
  BY <1>1, <1>2, <1>3, PayInvFacts, PutType
<1>5. TypeOK'
  BY <1>4, PayInvFacts, TypeThen DEF LockLost
<1>6. \A k \in Jobs : job'[k].pc = job[k].pc /\ job'[k].rest = job[k].rest /\ job'[k].seen = job[k].seen
  BY <1>2, <1>4 DEF Alone
<1>7. RowsInv'
  <2>1. PaymentsAddUp' /\ IsFiniteSet(rows)'
    BY PayInvFacts DEF LockLost, PaymentsAddUp
  <2>2. WritesKnow'
    BY <1>6, PayInvFacts DEF WritesKnow, At, Of, Now
  <2>3. CommitsKnow'
    <3>1. \A k \in Jobs : /\ At(k, "commit")' <=> At(k, "commit")
                          /\ Of(k)' = Of(k) /\ Now(k)' = Now(k)
      BY <1>6 DEF At, Of, Now
    <3> QED
      BY <1>6, <3>1, PayInvFacts DEF LockLost, CommitsKnow, Recorded
  <2> QED
    BY <2>1, <2>2, <2>3 DEF RowsInv
<1> QED
  BY <1>5, <1>7 DEF PayInv, RowsInv

-----------------------------------------------------------------------------
(* The steps that write *)

LEMMA ReadPayPay == ASSUME PayInv, NEW j \in Jobs, ReadPay(j) PROVE PayInv'
<1> DEFINE rec == [job[j] EXCEPT !.pc = "write", !.seen = paid[Of(j)]]
<1>0. ~At(j, "idle") /\ ~At(j, "answer")
  BY DEF ReadPay, At
<1>1. ASSUME NEW ok \in BOOLEAN, End(j, ok)
      PROVE  PayInv'
  BY <1>0, <1>1, PayInvFacts, EndsQuietly DEF ReadPay
<1>2. ASSUME Of(j) \in debts, Due(Of(j)) # 0, job' = [job EXCEPT ![j] = rec], UNCHANGED lock
      PROVE  PayInv'
  <2>1. job[j] \in JobState /\ job[j].rest # <<>>
    BY <1>0, PayInvFacts DEF JobsOK, Busy
  <2>2. rec \in JobState /\ rec.pc = "write" /\ rec.rest = job[j].rest /\ rec.seen = paid[Of(j)]
    BY <1>2, <2>1, PayInvFacts DEF JobState, PCs
  <2> HIDE DEF rec
  <2>3. JobsOK' /\ Alone(j) /\ job'[j] = rec
    BY <1>2, <2>1, <2>2, PayInvFacts, PutType
  <2>4. TypeOK'
    BY <1>2, <2>3, PayInvFacts, TypeThen DEF ReadPay
  <2>5. paid[Of(j)] < Amount[Of(j)]
    <3>1. paid[Of(j)] <= Amount[Of(j)] /\ paid[Of(j)] \in Nat /\ Amount[Of(j)] \in Nat
      BY <1>2, PayInvFacts, DebtsAssumption DEF PaymentsAddUp
    <3> QED
      BY <1>2, <3>1 DEF Due
  <2>6. WritesKnow'
    <3> SUFFICES ASSUME NEW k \in Jobs, At(k, "write")'
                 PROVE  job'[k].seen < Amount[Of(k)']
      BY DEF WritesKnow
    <3>1. CASE k = j
      BY <2>2, <2>3, <2>5, <3>1 DEF Of, Now
    <3>2. CASE k # j
      BY <2>3, <3>2, PayInvFacts DEF Alone, WritesKnow, At, Of, Now
    <3> QED
      BY <3>1, <3>2
  <2>7. CommitsKnow'
    <3>1. \A k \in Jobs : At(k, "commit")' => k # j /\ job'[k] = job[k]
      BY <2>2, <2>3 DEF Alone, At
    <3> QED
      BY <3>1, PayInvFacts DEF ReadPay, CommitsKnow, At, Of, Now, Recorded
  <2>8. PaymentsAddUp' /\ IsFiniteSet(rows)'
    BY PayInvFacts DEF ReadPay, PaymentsAddUp
  <2> QED
    BY <2>4, <2>6, <2>7, <2>8 DEF PayInv
<1> QED
  BY <1>1, <1>2 DEF ReadPay

\* What is taken of the debt that was read.
LEMMA TakenType ==
  ASSUME PayInv, NEW j \in Jobs, ~At(j, "idle"), ~At(j, "answer"), job[j].seen < Amount[Of(j)]
  PROVE  /\ Taken(j) \in Nat \ {0} /\ job[j].seen + Taken(j) <= Amount[Of(j)] /\ job[j].seen \in Nat
<1>1. job[j].seen \in Nat
  BY PayInvFacts DEF JobsOK, JobState
<1>2. Of(j) \in Debts /\ Op[Now(j)].amount \in Nat \ {0}
  BY PayInvFacts, NowType
<1>3. Amount[Of(j)] \in Nat
  BY <1>2, DebtsAssumption
<1> QED
  BY <1>1, <1>2, <1>3 DEF Taken, Least

LEMMA WritePayPay == ASSUME PayInv, NEW j \in Jobs, WritePay(j) PROVE PayInv'
<1> DEFINE of  == [paid EXCEPT ![Of(j)] = @ + Taken(j)]
           rec == [job[j] EXCEPT !.pc = "commit", !.sum = Owing(of)]
<1>0. ~At(j, "idle") /\ ~At(j, "answer") /\ At(j, "write")
  BY DEF WritePay, At
<1>1. ASSUME End(j, FALSE) PROVE PayInv'
  BY <1>0, <1>1, PayInvFacts, EndsQuietly DEF WritePay
<1>2. ASSUME Of(j) \in debts, ~Recorded(Now(j)), paid[Of(j)] = job[j].seen,
             job' = [job EXCEPT ![j] = rec], UNCHANGED lock
      PROVE  PayInv'
  <2>1. job[j] \in JobState /\ job[j].rest # <<>>
    BY <1>0, PayInvFacts DEF JobsOK, Busy
  <2>2. job[j].seen < Amount[Of(j)]
    BY <1>0, PayInvFacts DEF WritesKnow
  <2>3. of \in [Debts -> Nat] /\ \A x \in debts : of[x] <= Amount[x]
    <3>1. Taken(j) \in Nat \ {0} /\ job[j].seen + Taken(j) <= Amount[Of(j)] /\ job[j].seen \in Nat
      BY <1>0, <2>2, TakenType
    <3>2. Of(j) \in Debts /\ paid \in [Debts -> Nat] /\ debts \subseteq Debts
      BY <1>0, PayInvFacts, NowType
    <3>3. paid[Of(j)] + Taken(j) \in Nat /\ paid[Of(j)] + Taken(j) <= Amount[Of(j)]
      BY <1>2, <3>1, <3>2
    <3>4. \A x \in debts : paid[x] <= Amount[x]
      BY PayInvFacts DEF PaymentsAddUp
    <3>5. of \in [Debts -> Nat] /\ of[Of(j)] = paid[Of(j)] + Taken(j)
          /\ \A x \in Debts \ {Of(j)} : of[x] = paid[x]
      BY <3>2, <3>3
    <3> QED
      BY <3>2, <3>3, <3>4, <3>5
  <2>4. Owing(of) \in Nat
    <3> HIDE DEF of
    <3> QED
      BY <2>3, PayInvFacts, OwingNat
  <2> HIDE DEF of
  <2>5. rec \in JobState /\ rec.pc = "commit" /\ rec.rest = job[j].rest /\ rec.seen = job[j].seen
    BY <2>1, <2>4 DEF JobState, PCs
  <2> HIDE DEF rec
  <2>6. JobsOK' /\ Alone(j) /\ job'[j] = rec
    BY <1>2, <2>1, <2>5, PayInvFacts, PutType
  <2>7. TypeOK'
    BY <1>2, <2>6, PayInvFacts, TypeThen DEF WritePay
  <2>8. \A k \in Jobs : Of(k)' = Of(k) /\ Now(k)' = Now(k) /\ job'[k].seen = job[k].seen
    BY <2>5, <2>6 DEF Alone, Of, Now
  <2>9. WritesKnow'
    <3>1. \A k \in Jobs : At(k, "write")' => At(k, "write")
      BY <2>5, <2>6 DEF Alone, At
    <3> QED
      BY <2>8, <3>1, PayInvFacts DEF WritesKnow
  <2>10. CommitsKnow'
    <3>1. \A k \in Jobs : At(k, "commit")' <=> At(k, "commit") \/ k = j
      BY <2>5, <2>6 DEF Alone, At
    <3>2. \A k \in Jobs : At(k, "commit") => Of(k) # Of(j)
      BY DEF WritePay, Writing
    <3> QED
      BY <1>2, <2>2, <2>8, <3>1, <3>2, PayInvFacts DEF WritePay, CommitsKnow, Recorded
  <2>11. PaymentsAddUp' /\ IsFiniteSet(rows)'
    BY PayInvFacts DEF WritePay, PaymentsAddUp
  <2> QED
    BY <2>7, <2>9, <2>10, <2>11 DEF PayInv
<1> QED
  BY <1>1, <1>2 DEF WritePay

\* A debt that is added has been paid nothing, and there is no payment of it.
LEMMA CreateDebtPay == ASSUME PayInv, NEW j \in Jobs, CreateDebt(j) PROVE PayInv'
<1>0. ~At(j, "idle") /\ ~At(j, "answer")
  BY DEF CreateDebt, At
<1>1. ASSUME End(j, FALSE), UNCHANGED <<debts, paid>> PROVE PayInv'
  BY <1>0, <1>1, PayInvFacts, EndsQuietly DEF CreateDebt
<1>2. ASSUME Of(j) \notin debts, debts' = debts \cup {Of(j)}, paid' = [paid EXCEPT ![Of(j)] = 0],
             Go(j, "sum"), UNCHANGED lock
      PROVE  PayInv'
  <2>1. Of(j) \in Debts /\ Amount[Of(j)] \in Nat
    BY <1>0, PayInvFacts, NowType, DebtsAssumption
  <2>2. JobsOK' /\ Alone(j) /\ job'[j].pc = "sum"
    <3>1. "sum" \in PCs
      BY DEF PCs
    <3>2. JobsOK' /\ Alone(j) /\ job'[j] = [job[j] EXCEPT !.pc = "sum"]
      BY <1>0, <1>2, <3>1, PayInvFacts, GoType
    <3>3. job[j] \in JobState
      BY PayInvFacts DEF JobsOK
    <3> QED
      BY <3>2, <3>3 DEF JobState
  <2>3. TypeOK'
    <3>1. UNCHANGED <<customer, owed, rows, closed, left, waiting, asked, lock>>
      BY <1>2 DEF CreateDebt
    <3>2. debts' \subseteq Debts /\ paid' \in [Debts -> Nat]
      BY <1>2, <2>1, PayInvFacts
    <3> QED
      BY <2>2, <3>1, <3>2, PayInvFacts, TypeThen
  <2>4. paid'[Of(j)] = 0 /\ (\A x \in Debts \ {Of(j)} : paid'[x] = paid[x]) /\ rows' = rows
    BY <1>2, <2>1, PayInvFacts DEF CreateDebt
  <2>5. PaymentsAddUp'
    <3>1. {r \in rows : r.of = Of(j)} = {}
      BY <1>2, PayInvFacts DEF PaymentsAddUp
    <3>2. SumFunction([r \in {r \in rows : r.of = Of(j)} |-> r.amount]) = 0
      <4> DEFINE f == [r \in {r \in rows : r.of = Of(j)} |-> r.amount]
      <4>1. DOMAIN f = {}
        BY <3>1
      <4> HIDE DEF f
      <4>2. SumFunction(f) = 0
        BY <4>1, SumEmpty
      <4> QED
        BY <4>2 DEF f
    <3>3. ASSUME NEW x \in debts'
          PROVE  /\ paid'[x] = SumFunction([r \in {r \in rows : r.of = x} |-> r.amount])
                 /\ paid'[x] <= Amount[x]
      <4>1. CASE x = Of(j)
        BY <2>1, <2>4, <3>2, <4>1
      <4>2. CASE x # Of(j)
        BY <1>2, <2>4, <4>2, PayInvFacts DEF PaymentsAddUp
      <4> QED
        BY <4>1, <4>2
    <3>4. \A x \in debts' : /\ paid'[x] = SumFunction([r \in {r \in rows' : r.of = x} |-> r.amount])
                            /\ paid'[x] <= Amount[x]
      BY <2>4, <3>3
    <3>5. (\A r \in rows' : r.of \in debts') /\ (\A r, s \in rows' : r.id = s.id => r = s)
      BY <1>2, <2>4, PayInvFacts DEF PaymentsAddUp
    <3> QED
      BY <3>4, <3>5 DEF PaymentsAddUp
  <2>6. \A k \in Jobs : At(k, "write")' \/ At(k, "commit")' => k # j /\ job'[k] = job[k]
    BY <2>2 DEF Alone, At
  <2>7. WritesKnow'
    BY <2>6, PayInvFacts DEF WritesKnow, At, Of, Now
  <2>8. CommitsKnow'
    <3>1. \A k \in Jobs : At(k, "commit")' => At(k, "commit") /\ Of(k)' = Of(k) /\ Now(k)' = Now(k) /\ job'[k] = job[k]
      BY <2>6 DEF At, Of, Now
    <3>2. \A k \in Jobs : At(k, "commit") => Of(k) \in debts /\ paid'[Of(k)] = paid[Of(k)]
      BY <1>2, <2>4, PayInvFacts DEF CommitsKnow
    <3> QED
      BY <1>2, <2>4, <3>1, <3>2, PayInvFacts DEF CommitsKnow, Recorded
  <2> QED
    BY <2>3, <2>4, <2>5, <2>7, <2>8, PayInvFacts DEF PayInv
<1> QED
  BY <1>1, <1>2 DEF CreateDebt

\* The payments of the debt add up to what they did and what was taken.
LEMMA CommitPayPay == ASSUME PayInv, NEW j \in Jobs, CommitPay(j) PROVE PayInv'
<1> DEFINE x == Of(j)
           t == Taken(j)
           r0 == [id |-> Now(j), of |-> x, amount |-> t]
<1>0. ~At(j, "idle") /\ ~At(j, "answer") /\ At(j, "commit")
  BY DEF CommitPay, At
<1>1. /\ x \in debts /\ ~Recorded(Now(j)) /\ paid[x] = job[j].seen /\ job[j].seen < Amount[x]
      /\ \A k \in Jobs : At(k, "commit") /\ Of(k) = x => k = j
  BY <1>0, PayInvFacts DEF CommitsKnow
<1>2. t \in Nat \ {0} /\ paid[x] + t <= Amount[x] /\ x \in Debts /\ Now(j) \in Ops /\ paid[x] \in Nat
  BY <1>0, <1>1, PayInvFacts, TakenType, NowType
<1>3. rows' = rows \cup {r0} /\ paid' = [paid EXCEPT ![x] = paid[x] + t] /\ debts' = debts
  BY <1>1 DEF CommitPay
<1>4. JobsOK' /\ Alone(j) /\ lock' \in Jobs \cup {NoJob} /\ job'[j].pc \in {"answer", "look"}
  BY <1>0, PayInvFacts, EndType DEF CommitPay
<1>5. r0.id = Now(j) /\ r0.of = x /\ r0.amount = t /\ r0 \in [id : Ops, of : Debts, amount : Nat \ {0}]
  BY <1>2
<1>6. owed' \in Nat
  BY PayInvFacts DEF CommitPay, JobsOK, JobState
<1>7. \A k \in Jobs : At(k, "write")' \/ At(k, "commit")' => k # j /\ job'[k] = job[k]
  BY <1>4 DEF Alone, At
<1> HIDE DEF r0, t
<1>8. paid' \in [Debts -> Nat] /\ paid'[x] = paid[x] + t /\ (\A y \in Debts \ {x} : paid'[y] = paid[y])
  BY <1>2, <1>3, PayInvFacts
<1>9. TypeOK'
  BY <1>3, <1>4, <1>5, <1>6, <1>8, PayInvFacts, TypeThen DEF CommitPay
<1>10. IsFiniteSet(rows)'
  BY <1>3, PayInvFacts, FS_AddElement
<1>11. PaymentsAddUp'
  <2>1. r0 \notin rows /\ \A r \in rows : r.id # r0.id
    BY <1>1, <1>5 DEF Recorded
  <2>2. SumFunction([r \in {r \in rows' : r.of = x} |-> r.amount]) = paid[x] + t
    <3> DEFINE S == {r \in rows : r.of = x}
               T == {r \in rows' : r.of = x}
               f == [r \in S |-> r.amount]
               g == [r \in T |-> r.amount]
    <3>1. T = S \cup {r0} /\ r0 \notin S
      BY <1>3, <1>5, <2>1
    <3>2. IsFiniteSet(DOMAIN f)
      BY PayInvFacts, FS_Subset
    <3>3. DOMAIN f = S /\ DOMAIN g = T /\ (\A y \in S : g[y] = f[y])
      BY <3>1
    <3>4. g[r0] = t /\ \A y \in T : g[y] \in Int
      BY <1>3, <1>5, <1>2, <3>1, PayInvFacts
    <3>5. SumFunction(f) = paid[x]
      BY <1>1, PayInvFacts DEF PaymentsAddUp
    <3> HIDE DEF f, g
    <3>6. SumFunction(g) = SumFunction(f) + g[r0]
      <4> HIDE DEF S, T
      <4> QED
        BY <3>1, <3>2, <3>3, <3>4, SumWith
    <3>7. SumFunction(g) = paid[x] + t
      BY <3>4, <3>5, <3>6
    <3> QED
      BY <3>7 DEF g
  <2>3. ASSUME NEW y \in debts
        PROVE  /\ paid'[y] = SumFunction([r \in {r \in rows' : r.of = y} |-> r.amount])
               /\ paid'[y] <= Amount[y]
    <3>1. CASE y = x
      BY <1>2, <1>8, <2>2, <3>1
    <3>2. CASE y # x
      <4>1. {r \in rows' : r.of = y} = {r \in rows : r.of = y}
        BY <1>3, <1>5, <3>2
      <4> QED
        BY <1>8, <3>2, <4>1, PayInvFacts DEF PaymentsAddUp
    <3> QED
      BY <3>1, <3>2
  <2>4. (\A r \in rows' : r.of \in debts') /\ (\A r, s \in rows' : r.id = s.id => r = s)
    BY <1>1, <1>3, <1>5, <2>1, PayInvFacts DEF PaymentsAddUp
  <2>5. \A y \in debts' : /\ paid'[y] = SumFunction([r \in {r \in rows' : r.of = y} |-> r.amount])
                          /\ paid'[y] <= Amount[y]
    BY <1>3, <2>3
  <2> QED
    BY <2>4, <2>5 DEF PaymentsAddUp
<1>12. WritesKnow'
  BY <1>7, PayInvFacts DEF WritesKnow, At, Of, Now
<1>13. CommitsKnow'
  <2>1. \A k \in Jobs : At(k, "commit")' =>
          k # j /\ At(k, "commit") /\ Of(k)' = Of(k) /\ Now(k)' = Now(k) /\ job'[k] = job[k]
    BY <1>7 DEF At, Of, Now
  <2>2. \A k \in Jobs \ {j} : At(k, "commit") => Of(k) # x /\ Now(k) # Now(j)
    BY <1>1 DEF Of
  <2>3. \A k \in Jobs \ {j} : At(k, "commit") => Of(k) \in Debts /\ paid'[Of(k)] = paid[Of(k)]
    BY <1>8, <2>2, PayInvFacts DEF CommitsKnow
  <2>4. \A k \in Jobs \ {j} : At(k, "commit") => ~ \E r \in rows' : r.id = Now(k)
    BY <1>3, <1>5, <2>2, PayInvFacts DEF CommitsKnow, Recorded
  <2> QED
    BY <1>3, <2>1, <2>2, <2>3, <2>4, PayInvFacts DEF CommitsKnow, Recorded
<1> QED
  BY <1>9, <1>10, <1>11, <1>12, <1>13 DEF PayInv

\* A deletion waits for the transactions on its debts, and takes every row.
LEMMA DropPay == ASSUME PayInv, NEW j \in Jobs, Drop(j) PROVE PayInv'
<1>0. ~At(j, "idle") /\ ~At(j, "answer")
  BY DEF Drop, At
<1>1. JobsOK' /\ Alone(j) /\ lock' \in Jobs \cup {NoJob} /\ job'[j].pc \in {"answer", "look"}
  BY <1>0, PayInvFacts, EndType DEF Drop
<1>2. TypeOK'
  BY <1>1, PayInvFacts, TypeThen DEF Drop
<1>3. \A k \in Jobs : ~At(k, "commit")
  BY PayInvFacts DEF Drop, CommitsKnow, Writing
<1>4. \A k \in Jobs : At(k, "write")' \/ At(k, "commit")' => k # j /\ job'[k] = job[k]
  BY <1>1 DEF Alone, At
<1>5. WritesKnow'
  BY <1>4, PayInvFacts DEF WritesKnow, At, Of, Now
<1>6. CommitsKnow'
  BY <1>3, <1>4 DEF CommitsKnow, At
<1>7. PaymentsAddUp' /\ IsFiniteSet(rows)'
  BY FS_EmptySet DEF Drop, PaymentsAddUp
<1> QED
  BY <1>2, <1>5, <1>6, <1>7 DEF PayInv

-----------------------------------------------------------------------------
(* Every step *)

LEMMA PayInit == Init => PayInv
<1> SUFFICES ASSUME Init PROVE PayInv
  OBVIOUS
<1>1. customer \in BOOLEAN /\ debts \subseteq Debts /\ paid \in [Debts -> Nat]
      /\ (\A x \in Debts : paid[x] = 0) /\ rows = {}
  BY DEF Init
<1>2. owed \in Nat
  <2> DEFINE f == [x \in debts |-> Amount[x]]
  <2>1. IsFiniteSet(DOMAIN f)
    BY <1>1, FS_Subset, DebtsAssumption
  <2>2. \A x \in DOMAIN f : f[x] \in Nat
    BY <1>1, DebtsAssumption
  <2> HIDE DEF f
  <2>3. SumFunction(f) \in Nat
    BY <2>1, <2>2, SumNat
  <2> QED
    BY <2>3 DEF f, Init
<1>3. JobsOK /\ (\A j \in Jobs : At(j, "idle"))
  BY IdleType DEF Init, JobsOK, Busy, At
<1>4. left \in Seq(Queued)
  BY DebtsAssumption DEF Init, Queued
<1>5. TypeOK
  BY <1>1, <1>2, <1>3, <1>4, TypeJobs DEF Init
<1>6. PaymentsAddUp
  <2>1. SumFunction([r \in {r \in rows : FALSE} |-> r.amount]) = 0
    <3> DEFINE f == [r \in {r \in rows : FALSE} |-> r.amount]
    <3>1. DOMAIN f = {}
      OBVIOUS
    <3> HIDE DEF f
    <3>2. SumFunction(f) = 0
      BY <3>1, SumEmpty
    <3> QED
      BY <3>2 DEF f
  <2>2. \A x : {r \in rows : r.of = x} = {r \in rows : FALSE}
    BY <1>1
  <2>3. \A x \in debts : 0 <= Amount[x]
    BY <1>1, DebtsAssumption
  <2> QED
    BY <1>1, <2>1, <2>2, <2>3 DEF PaymentsAddUp
<1>7. WritesKnow /\ CommitsKnow
  BY <1>3 DEF WritesKnow, CommitsKnow, At
<1> QED
  BY <1>1, <1>5, <1>6, <1>7, FS_EmptySet DEF PayInv

LEMMA PayNext == PayInv /\ [Next]_vars => PayInv'
<1> SUFFICES ASSUME PayInv, [Next]_vars PROVE PayInv'
  OBVIOUS
<1>1. ASSUME NEW j \in Jobs, Step(j) PROVE PayInv'
  BY <1>1, AddCustomerPay, LookDebtPay, CreateDebtPay, SumDebtsPay, SaveOwedPay, LookPayPay, AcquirePay,
     ReadPayPay, WritePayPay, CommitPayPay, LookDropPay, ReadLockDatePay, DropPay, AnswerPay DEF Step
<1>2. ASSUME NEW j \in Jobs, Send(j) \/ (\E o \in Desk : Ask(j, o)) PROVE PayInv'
  BY <1>2, SendPay, AskPay
<1>3. ASSUME NEW j \in Jobs, Fails(j) \/ LockLost(j) \/ Crash(j) PROVE PayInv'
  BY <1>3, FailsPay, LockLostPay, CrashPay
<1>4. CASE GiveUp \/ SetLock
  BY <1>4, GiveUpPay, SetLockPay
<1>5. CASE UNCHANGED vars
  <2>1. TypeOK'
    BY <1>5, PayInvFacts, TypeThen DEF vars, JobsOK, Busy, At
  <2> QED
    BY <1>5, <2>1, PayInvFacts, Unmoved DEF vars, PayInv, RowsInv
<1> QED
  BY <1>1, <1>2, <1>3, <1>4, <1>5 DEF Next

LEMMA PayAlways == Spec => []PayInv
  BY PayInit, PayNext, PTL DEF Spec

-----------------------------------------------------------------------------
(* What the runs check *)

\* The rows, the queue and the handlers have the fields the code gives them,
\* for any number of debts, operations and requests.
THEOREM TypeCorrect == Spec => []TypeOK
<1>1. PayInv => TypeOK
  BY DEF PayInv
<1> QED
  BY <1>1, PayAlways, PTL

\* Debts and their payments agree and each request has counted once, however
\* many phones, desks, lost locks, crashes and replays there are.
THEOREM PaymentsCounted == Spec => []PaymentsAddUp
<1>1. PayInv => PaymentsAddUp
  BY DEF PayInv
<1> QED
  BY <1>1, PayAlways, PTL

-----------------------------------------------------------------------------
(* Movements and what they add up to *)

Fraction == [k : Nat, m : Nat \ {0}]
ItemRow == [state : {"none", "open", "archived"}, qty : Nat, value : Nat, avg : {None} \cup Fraction]
Movement == [key : MoveKeys, kind : MoveKinds, item : Items, qty : Int, value : Int, day : Days]
Mine(M, i) == {m \in M : m.item = i}

\* Movements add up to whole numbers.
LEMMA TotalsInt ==
  ASSUME NEW M, M \subseteq Movement, IsFiniteSet(M)
  PROVE  Qty(M) \in Int /\ Value(M) \in Int
<1> DEFINE f == [m \in M |-> m.qty]
           g == [m \in M |-> m.value]
<1>1. /\ DOMAIN f = M /\ \A x \in DOMAIN f : f[x] \in Int
      /\ DOMAIN g = M /\ \A x \in DOMAIN g : g[x] \in Int
  BY DEF Movement
<1> HIDE DEF f, g
<1>2. SumFunction(f) \in Int /\ SumFunction(g) \in Int
  BY <1>1, SumInt
<1> QED
  BY <1>2 DEF Qty, Value, f, g

\* No movements add up to nothing.
LEMMA TotalsEmpty == Qty({}) = 0 /\ Value({}) = 0
<1> DEFINE f == [m \in {} |-> m.qty]
           g == [m \in {} |-> m.value]
<1>1. DOMAIN f = {} /\ DOMAIN g = {}
  OBVIOUS
<1> HIDE DEF f, g
<1>2. SumFunction(f) = 0 /\ SumFunction(g) = 0
  BY <1>1, SumEmpty
<1> QED
  BY <1>2 DEF Qty, Value, f, g

\* The totals of two sets of movements that share none.
LEMMA TotalsParts ==
  ASSUME NEW A, NEW B, A \subseteq Movement, B \subseteq Movement, IsFiniteSet(A), IsFiniteSet(B), A \cap B = {}
  PROVE  Qty(A \cup B) = Qty(A) + Qty(B) /\ Value(A \cup B) = Value(A) + Value(B)
<1>1. ASSUME NEW f, NEW g, NEW h, f = [m \in A \cup B |-> m.qty], g = [m \in A |-> m.qty], h = [m \in B |-> m.qty]
      PROVE  SumFunction(f) = SumFunction(g) + SumFunction(h)
  <2>1. /\ DOMAIN f = DOMAIN g \cup DOMAIN h /\ DOMAIN g \cap DOMAIN h = {} /\ IsFiniteSet(DOMAIN f)
        /\ \A x \in DOMAIN f : f[x] \in Int
        /\ \A x \in DOMAIN g : g[x] = f[x]
        /\ \A x \in DOMAIN h : h[x] = f[x]
    BY <1>1, FS_Union DEF Movement
  <2> QED
    BY <2>1, SumParts
<1>2. ASSUME NEW f, NEW g, NEW h, f = [m \in A \cup B |-> m.value], g = [m \in A |-> m.value], h = [m \in B |-> m.value]
      PROVE  SumFunction(f) = SumFunction(g) + SumFunction(h)
  <2>1. /\ DOMAIN f = DOMAIN g \cup DOMAIN h /\ DOMAIN g \cap DOMAIN h = {} /\ IsFiniteSet(DOMAIN f)
        /\ \A x \in DOMAIN f : f[x] \in Int
        /\ \A x \in DOMAIN g : g[x] = f[x]
        /\ \A x \in DOMAIN h : h[x] = f[x]
    BY <1>2, FS_Union DEF Movement
  <2> QED
    BY <2>1, SumParts
<1>3. Qty(A \cup B) = Qty(A) + Qty(B)
  BY <1>1 DEF Qty
<1>4. Value(A \cup B) = Value(A) + Value(B)
  BY <1>2 DEF Value
<1> QED
  BY <1>3, <1>4

\* One movement's.
LEMMA TotalsOne ==
  ASSUME NEW m \in Movement
  PROVE  Qty({m}) = m.qty /\ Value({m}) = m.value
<1> DEFINE f == [x \in {m} |-> x.qty]
           g == [x \in {m} |-> x.value]
<1>1. DOMAIN f = {m} /\ DOMAIN g = {m} /\ f[m] = m.qty /\ g[m] = m.value /\ f[m] \in Int /\ g[m] \in Int
  BY DEF Movement
<1> HIDE DEF f, g
<1>2. SumFunction(f) = f[m] /\ SumFunction(g) = g[m]
  BY <1>1, SumOne
<1> QED
  BY <1>1, <1>2 DEF Qty, Value, f, g

\* One movement more.
LEMMA TotalsWith ==
  ASSUME NEW M, M \subseteq Movement, IsFiniteSet(M), NEW m \in Movement, m \notin M
  PROVE  Qty(M \cup {m}) = Qty(M) + m.qty /\ Value(M \cup {m}) = Value(M) + m.value
<1>1. IsFiniteSet({m})
  BY FS_Singleton
<1>2. /\ Qty(M \cup {m}) = Qty(M) + Qty({m})
      /\ Value(M \cup {m}) = Value(M) + Value({m})
  BY <1>1, TotalsParts
<1> QED
  BY <1>2, TotalsOne

\* What carries a movement to another, one for one, with its goods and its worth.
Carries(M, g) ==
  /\ \A m, n \in M : g[m] = g[n] => m = n
  /\ \A m \in M : g[m].qty = m.qty /\ g[m].value = m.value

\* Telling movements anew one by one, with what each is worth, keeps the sums.
LEMMA TotalsCarried ==
  ASSUME NEW M, M \subseteq Movement, IsFiniteSet(M), NEW g, Carries(M, g)
  PROVE  /\ IsFiniteSet({g[m] : m \in M})
         /\ Qty({g[m] : m \in M}) = Qty(M) /\ Value({g[m] : m \in M}) = Value(M)
<1> DEFINE N == {g[m] : m \in M}
<1>1. IsFiniteSet(N)
  <2> DEFINE h == [m \in M |-> g[m]]
  <2>1. h \in Surjection(M, N)
    BY DEF Surjection
  <2> QED
    BY <2>1, FS_Surjection
<1>2. ASSUME NEW a, NEW b, a = [m \in M |-> m.qty], b = [n \in N |-> n.qty]
      PROVE  SumFunction(b) = SumFunction(a)
  <2>1. /\ DOMAIN a = M /\ DOMAIN b = N
        /\ \A x \in M : a[x] \in Int /\ b[g[x]] = a[x]
        /\ \A x, y \in M : g[x] = g[y] => x = y
    BY <1>2 DEF Movement, Carries
  <2>2. DOMAIN b = {g[x] : x \in DOMAIN a}
    BY <2>1
  <2> HIDE DEF N
  <2> QED
    BY <1>1, <2>1, <2>2, SumRenamed
<1>3. ASSUME NEW a, NEW b, a = [m \in M |-> m.value], b = [n \in N |-> n.value]
      PROVE  SumFunction(b) = SumFunction(a)
  <2>1. /\ DOMAIN a = M /\ DOMAIN b = N
        /\ \A x \in M : a[x] \in Int /\ b[g[x]] = a[x]
        /\ \A x, y \in M : g[x] = g[y] => x = y
    BY <1>3 DEF Movement, Carries
  <2>2. DOMAIN b = {g[x] : x \in DOMAIN a}
    BY <2>1
  <2> HIDE DEF N
  <2> QED
    BY <1>1, <2>1, <2>2, SumRenamed
<1> QED
  BY <1>1, <1>2, <1>3 DEF Qty, Value

-----------------------------------------------------------------------------
(* Divisions *)

\* What a division by a whole number gives, and leaves.
LEMMA Quotient == ASSUME NEW a \in Nat, NEW b \in Nat \ {0} PROVE a \div b \in Nat
OBVIOUS

LEMMA QuotientPart == ASSUME NEW a \in Nat, NEW b \in Nat \ {0} PROVE b * (a \div b) <= a
OBVIOUS

LEMMA QuotientSome == ASSUME NEW a \in Nat, NEW b \in 1..a PROVE a \div b >= 1
OBVIOUS

LEMMA Rest == ASSUME NEW a \in Nat, NEW b \in Nat \ {0} PROVE a % b \in 0..(b - 1)
OBVIOUS

\* Rounding to the nearest kobo never gives less than nothing ...
LEMMA RoundNat ==
  ASSUME NEW a \in Nat, NEW b \in Nat \ {0}
  PROVE  RoundDiv(a, b) \in Nat
<1>1. 2 * a + b \in Nat /\ 2 * b \in Nat \ {0}
  OBVIOUS
<1> QED
  BY <1>1, Quotient DEF RoundDiv

\* ... nor, of a part, more than the whole.
LEMMA RoundPart ==
  ASSUME NEW q \in Nat, NEW v \in Nat, NEW n \in Nat, q < n
  PROVE  RoundDiv(q * v, n) <= v
<1> DEFINE a == 2 * (q * v) + n
           b == 2 * n
           d == a \div b
<1>1. q * v \in Nat /\ n * v \in Nat /\ q * v <= n * v
  <2>1. n * v = q * v + (n - q) * v /\ (n - q) * v \in Nat /\ q * v \in Nat
    OBVIOUS
  <2> QED
    BY <2>1
<1>2. a \in Nat /\ b \in Nat \ {0}
  BY <1>1
<1>3. d \in Nat /\ b * d <= a
  <2> HIDE DEF a, b
  <2> QED
    BY <1>2, Quotient, QuotientPart
<1>4. ASSUME d > v PROVE FALSE
  <2>1. b * d >= b * (v + 1)
    <3>1. d - (v + 1) \in Nat /\ b \in Nat
      BY <1>2, <1>3, <1>4
    <3>2. b * d = b * (v + 1) + b * (d - (v + 1)) /\ b * (d - (v + 1)) \in Nat
      <4> HIDE DEF b, d
      <4> QED
        BY <1>3, <3>1
    <3>3. b * (v + 1) \in Nat
      BY <3>1
    <3> HIDE DEF b, d
    <3> QED
      BY <3>2, <3>3
  <2>2. b * (v + 1) = 2 * (n * v) + 2 * n
    OBVIOUS
  <2>3. a >= 2 * (n * v) + 2 * n
    <3>1. b * d \in Nat /\ a >= b * d
      <4> HIDE DEF d
      <4> QED
        BY <1>2, <1>3
    <3> HIDE DEF d
    <3>2. 2 * (n * v) + 2 * n \in Nat /\ a \in Nat
      BY <1>1, <1>2
    <3> HIDE DEF a, b
    <3> QED
      BY <2>1, <2>2, <3>1, <3>2
  <2>4. n > 0 /\ a <= 2 * (n * v) + n
    BY <1>1
  <2> QED
    BY <1>1, <2>3, <2>4
<1>5. d <= v
  BY <1>3, <1>4
<1> QED
  BY <1>5 DEF RoundDiv

\* A unit cost is a fraction: the largest common divisor divides both.
Common(k, m, g) == k % g = 0 /\ m % g = 0

\* A fraction has a largest common divisor, so the average is well defined.
LEMMA LargestCommon ==
  ASSUME NEW k \in Nat, NEW m \in Nat \ {0}
  PROVE  \E g \in 1..m : Common(k, m, g) /\ \A h \in (g + 1)..m : ~Common(k, m, h)
<1> DEFINE B == {n \in Nat : n < m /\ Common(k, m, m - n)}
<1>1. Common(k, m, 1)
  <2>1. 1 \in Nat \ {0} /\ k \in Nat /\ m \in Nat
    OBVIOUS
  <2>2. k % 1 \in 0..0 /\ m % 1 \in 0..0
    BY <2>1, Rest
  <2> QED
    BY <2>2 DEF Common
<1>2. m - 1 \in B
  BY <1>1
<1>3. B \subseteq Nat
  OBVIOUS
<1>4. PICK n \in B : \A x \in B : n <= x
  <2> HIDE DEF B
  <2> QED
    BY <1>2, <1>3, LeastNumber
<1>5. m - n \in 1..m /\ Common(k, m, m - n)
  OBVIOUS
<1>6. ASSUME NEW h \in (m - n + 1)..m, Common(k, m, h) PROVE FALSE
  <2>1. m - h \in Nat /\ m - h < n /\ m - (m - h) = h /\ m - h < m
    BY <1>5
  <2>2. m - h \in B
    BY <1>6, <2>1
  <2> QED
    BY <1>4, <2>1, <2>2
<1> QED
  BY <1>5, <1>6

\* The average is a fraction, whatever was on the shelf.
LEMMA AverageType ==
  ASSUME NEW k \in Nat, NEW m \in Nat \ {0}
  PROVE  Average(k, m) \in Fraction
<1> DEFINE P(g) == Common(k, m, g) /\ \A h \in (g + 1)..m : ~Common(k, m, h)
           G == CHOOSE g \in 1..m : P(g)
<1>1. G \in 1..m /\ P(G)
  BY LargestCommon
<1>2. Average(k, m) = [k |-> k \div G, m |-> m \div G]
  BY DEF Average, Common
<1> HIDE DEF G
<1>3. G \in Nat \ {0} /\ k \div G \in Nat /\ m \div G \in Nat /\ m \div G >= 1
  BY <1>1, Quotient, QuotientSome
<1> QED
  BY <1>2, <1>3 DEF Fraction

-----------------------------------------------------------------------------
(* The engine *)

\* An item's row and its movements agree, and an empty shelf is worth nothing.
Agrees(s, M) ==
  /\ s.qty = Qty(M) /\ s.value = Value(M)
  /\ s.qty = 0 => s.value = 0
  /\ s.state = "none" => M = {}

\* The store of a transaction: rows of the type, keys unique, rows and movements agree.
Typed(st) == st \in [shelf : [Items -> ItemRow], moves : SUBSET Movement, ok : BOOLEAN]
Unique(M) == IsFiniteSet(M) /\ \A m, n \in M : m.key = n.key => m = n
Sound(st) == Typed(st) /\ Unique(st.moves) /\ \A i \in Items : Agrees(st.shelf[i], Mine(st.moves, i))

\* What t made of st, when nothing was refused: at most one movement more.
Wrote(st, t, m) == t.moves = st.moves \cup {m}
Writes(st, t, key, i, q, day) ==
  t.ok => /\ st.ok
          /\ HasKey(st, key) => t.moves = st.moves
          /\ ~HasKey(st, key) => \E m \in Movement : /\ m.key = key /\ m.item = i /\ m.qty = q /\ m.day = day
                                                    /\ Wrote(st, t, m)

\* What is refused is as sound as it was.
LEMMA RefusedSound == ASSUME NEW st, Sound(st) PROVE Sound(Refused(st)) /\ ~Refused(st).ok
<1>1. /\ Refused(st) \in [shelf : [Items -> ItemRow], moves : SUBSET Movement, ok : BOOLEAN]
      /\ Refused(st).shelf = st.shelf /\ Refused(st).moves = st.moves /\ ~Refused(st).ok
  BY DEF Sound, Typed, Refused
<1> QED
  BY <1>1 DEF Sound, Typed

\* A movement written keeps the rows and the movements together.
LEMMA MovedSound ==
  ASSUME NEW st, Sound(st), NEW key \in MoveKeys, ~HasKey(st, key), NEW kind \in MoveKinds, NEW i \in Items,
         NEW q \in Int, NEW v \in Int, NEW avg \in {None} \cup Fraction, NEW day \in Days,
         st.shelf[i].state # "none", st.shelf[i].qty + q >= 0, st.shelf[i].value + v >= 0,
         st.shelf[i].qty + q = 0 => st.shelf[i].value + v = 0
  PROVE  LET t == Moved(st, key, kind, i, q, v, avg, day)
             m == [key |-> key, kind |-> kind, item |-> i, qty |-> q, value |-> v, day |-> day]
         IN  Sound(t) /\ t.ok = st.ok /\ m \in Movement /\ Wrote(st, t, m)
<1> DEFINE t == Moved(st, key, kind, i, q, v, avg, day)
           m == [key |-> key, kind |-> kind, item |-> i, qty |-> q, value |-> v, day |-> day]
           s == [st.shelf[i] EXCEPT !.qty = @ + q, !.value = @ + v, !.avg = avg]
<1>1. /\ st.shelf \in [Items -> ItemRow] /\ st.moves \subseteq Movement /\ st.ok \in BOOLEAN
      /\ st.shelf[i] \in ItemRow
  BY DEF Sound, Typed
<1>2. m \in Movement
  BY DEF Movement
<1>3. s \in ItemRow /\ s.qty = st.shelf[i].qty + q /\ s.value = st.shelf[i].value + v /\ s.state = st.shelf[i].state
  <2>1. PICK x, a, b : x = st.shelf[i] /\ a = x.qty + q /\ b = x.value + v
    OBVIOUS
  <2>2. x \in ItemRow /\ a \in Nat /\ b \in Nat
    <3>1. x \in ItemRow
      BY <1>1, <2>1
    <3>2. x.qty \in Nat /\ x.value \in Nat
      BY <3>1 DEF ItemRow
    <3> QED
      BY <2>1, <3>1, <3>2
  <2>3. s = [x EXCEPT !.qty = a, !.value = b, !.avg = avg]
    BY <2>1
  <2>4. s \in ItemRow /\ s.qty = a /\ s.value = b /\ s.state = x.state
    <3> HIDE DEF s
    <3> QED
      BY <2>2, <2>3 DEF ItemRow
  <2> QED
    BY <2>1, <2>4
<1>4. t = [shelf |-> [st.shelf EXCEPT ![i] = s], moves |-> st.moves \cup {m}, ok |-> st.ok]
  <2>1. t = [st EXCEPT !.shelf = [st.shelf EXCEPT ![i] = s], !.moves = st.moves \cup {m}]
    BY DEF Moved
  <2> HIDE DEF t, s, m
  <2> QED
    BY <2>1 DEF Sound, Typed
<1> HIDE DEF s
<1>5. /\ t.shelf = [st.shelf EXCEPT ![i] = s] /\ t.moves = st.moves \cup {m} /\ t.ok = st.ok
      /\ Typed(t)
  BY <1>1, <1>2, <1>3, <1>4 DEF Typed
<1>6. m \notin st.moves /\ m.item = i /\ m.qty = q /\ m.value = v /\ m.key = key
  BY DEF HasKey
<1> HIDE DEF t, m
<1>7. Unique(t.moves)
  BY <1>5, <1>6, FS_AddElement DEF Sound, Unique, HasKey
<1>8. ASSUME NEW j \in Items PROVE Agrees(t.shelf[j], Mine(t.moves, j))
  <2>1. Agrees(st.shelf[j], Mine(st.moves, j)) /\ Mine(st.moves, j) \subseteq Movement /\ IsFiniteSet(Mine(st.moves, j))
    BY <1>1, FS_Subset DEF Sound, Unique, Mine
  <2>2. CASE j # i
    <3>1. Mine(t.moves, j) = Mine(st.moves, j) /\ t.shelf[j] = st.shelf[j]
      BY <1>1, <1>5, <1>6, <2>2 DEF Mine
    <3> QED
      BY <2>1, <3>1
  <2>3. CASE j = i
    <3>1. Mine(t.moves, j) = Mine(st.moves, j) \cup {m} /\ t.shelf[j] = s /\ m \notin Mine(st.moves, j)
      BY <1>1, <1>5, <1>6, <2>3 DEF Mine
    <3>2. /\ Qty(Mine(t.moves, j)) = Qty(Mine(st.moves, j)) + q
          /\ Value(Mine(t.moves, j)) = Value(Mine(st.moves, j)) + v
      BY <1>2, <1>6, <2>1, <3>1, TotalsWith
    <3> QED
      BY <1>3, <2>1, <2>3, <3>1, <3>2 DEF Agrees
  <2> QED
    BY <2>2, <2>3
<1> QED
  BY <1>2, <1>5, <1>7, <1>8 DEF Sound, Wrote, t, m

\* Goods that leave take their share of the worth with them, all of it when all leave.
LEMMA TakeOutSound ==
  ASSUME NEW st, Sound(st), NEW key \in MoveKeys, NEW kind \in MoveKinds, NEW i \in Items, NEW q \in Nat \ {0},
         NEW day \in Days
  PROVE  Sound(TakeOut(st, key, kind, i, q, day)) /\ Writes(st, TakeOut(st, key, kind, i, q, day), key, i, -q, day)
<1> DEFINE s == st.shelf[i]
           value == IF q = s.qty THEN s.value ELSE RoundDiv(q * s.value, s.qty)
           t == TakeOut(st, key, kind, i, q, day)
           m == [key |-> key, kind |-> kind, item |-> i, qty |-> -q, value |-> -value, day |-> day]
<1>1. CASE HasKey(st, key)
  <2>1. t = st
    BY <1>1 DEF TakeOut
  <2> HIDE DEF t
  <2> QED
    BY <1>1, <2>1 DEF Writes, t
<1>2. CASE ~HasKey(st, key) /\ (s.state # "open" \/ q > s.qty)
  <2>1. t = Refused(st)
    BY <1>2 DEF TakeOut
  <2> HIDE DEF t
  <2> QED
    BY <1>2, <2>1, RefusedSound DEF Writes, t
<1>3. CASE ~HasKey(st, key) /\ s.state = "open" /\ ~(q > s.qty)
  <2>1. t = Moved(st, key, kind, i, -q, -value, s.avg, day)
    BY <1>3 DEF TakeOut
  <2>2. s \in ItemRow /\ s.qty \in Nat /\ s.value \in Nat /\ s.avg \in {None} \cup Fraction
    BY DEF Sound, Typed, ItemRow
  <2>3. value \in Nat /\ value <= s.value /\ (q = s.qty => value = s.value)
    <3>1. CASE q = s.qty
      BY <2>2, <3>1
    <3>2. CASE q # s.qty
      <4>1. q \in Nat /\ q < s.qty /\ s.qty \in Nat \ {0} /\ q * s.value \in Nat
        BY <1>3, <2>2, <3>2
      <4> HIDE DEF s
      <4> QED
        BY <2>2, <3>2, <4>1, RoundPart, RoundNat
    <3> QED
      BY <3>1, <3>2
  <2>4. /\ -q \in Int /\ -value \in Int /\ s.qty + (-q) >= 0 /\ s.value + (-value) >= 0
        /\ s.qty + (-q) = 0 => s.value + (-value) = 0
        /\ s.state # "none"
    <3> HIDE DEF value, s
    <3> QED
      BY <1>3, <2>2, <2>3
  <2> HIDE DEF value, t
  <2>5. Sound(t) /\ t.ok = st.ok /\ m \in Movement /\ Wrote(st, t, m)
    <3>1. PICK a \in Int, b \in Int, avg \in {None} \cup Fraction : a = -q /\ b = -value /\ avg = s.avg
      BY <2>2, <2>4
    <3>2. t = Moved(st, key, kind, i, a, b, avg, day)
      BY <2>1, <3>1
    <3>3. /\ st.shelf[i].qty + a >= 0 /\ st.shelf[i].value + b >= 0 /\ st.shelf[i].state # "none"
          /\ st.shelf[i].qty + a = 0 => st.shelf[i].value + b = 0
      BY <2>4, <3>1
    <3>4. m = [key |-> key, kind |-> kind, item |-> i, qty |-> a, value |-> b, day |-> day]
      BY <3>1
    <3> HIDE DEF m, s
    <3> QED
      BY <1>3, <3>2, <3>3, <3>4, MovedSound
  <2>6. m.key = key /\ m.item = i /\ m.qty = -q /\ m.day = day
    OBVIOUS
  <2> HIDE DEF m
  <2> QED
    BY <1>3, <2>5, <2>6 DEF Writes, t
<1> QED
  BY <1>1, <1>2, <1>3

\* Goods that come in bring what they cost.
Brings(st, t, key, value) ==
  t.ok /\ ~HasKey(st, key) => \E m \in t.moves : m.key = key /\ m.value = value

\* What comes in leaves the store sound, and is one movement at its key.
LEMMA PutInSound ==
  ASSUME NEW st, Sound(st), NEW key \in MoveKeys, NEW kind \in MoveKinds, NEW i \in Items, NEW q \in Nat \ {0},
         NEW value \in Nat, NEW known, NEW day \in Days
  PROVE  LET t == PutIn(st, key, kind, i, q, value, known, day)
         IN  Sound(t) /\ Writes(st, t, key, i, q, day) /\ Brings(st, t, key, value)
<1> DEFINE s == st.shelf[i]
           avg == IF ~known /\ s.avg = None /\ s.value + value = 0 THEN None ELSE Average(s.value + value, s.qty + q)
           t == PutIn(st, key, kind, i, q, value, known, day)
           m == [key |-> key, kind |-> kind, item |-> i, qty |-> q, value |-> value, day |-> day]
<1>1. CASE HasKey(st, key)
  <2>1. t = st
    BY <1>1 DEF PutIn
  <2> HIDE DEF t
  <2> QED
    BY <1>1, <2>1 DEF Writes, Brings, t
<1>2. CASE ~HasKey(st, key) /\ (s.state # "open" \/ s.qty + q > MaxQty \/ s.value + value > MaxValue)
  <2>1. t = Refused(st)
    BY <1>2 DEF PutIn
  <2> HIDE DEF t
  <2> QED
    BY <1>2, <2>1, RefusedSound DEF Writes, Brings, t
<1>3. CASE ~HasKey(st, key) /\ ~(s.state # "open" \/ s.qty + q > MaxQty \/ s.value + value > MaxValue)
  <2>1. t = Moved(st, key, kind, i, q, value, avg, day)
    BY <1>3 DEF PutIn
  <2>2. s \in ItemRow /\ s.qty \in Nat /\ s.value \in Nat
    BY DEF Sound, Typed, ItemRow
  <2>3. avg \in {None} \cup Fraction
    <3>1. s.value + value \in Nat /\ s.qty + q \in Nat \ {0}
      BY <2>2
    <3> HIDE DEF s
    <3> QED
      BY <3>1, AverageType
  <2>4. /\ s.qty + q >= 0 /\ s.value + value >= 0
        /\ s.qty + q = 0 => s.value + value = 0
        /\ s.state # "none" /\ q \in Int /\ value \in Int
    <3> HIDE DEF s
    <3> QED
      BY <1>3, <2>2
  <2> HIDE DEF avg, t
  <2>5. Sound(t) /\ t.ok = st.ok /\ m \in Movement /\ Wrote(st, t, m)
    BY <1>3, <2>1, <2>3, <2>4, MovedSound
  <2>6. m.key = key /\ m.item = i /\ m.qty = q /\ m.day = day /\ m.value = value
    OBVIOUS
  <2> HIDE DEF m
  <2>7. m \in t.moves
    BY <2>5 DEF Wrote
  <2> QED
    BY <1>3, <2>5, <2>6, <2>7 DEF Writes, Brings, t
<1> QED
  BY <1>1, <1>2, <1>3

\* Goods found or returned are put in at the average.
LEMMA PutBackSound ==
  ASSUME NEW st, Sound(st), NEW key \in MoveKeys, NEW kind \in MoveKinds, NEW i \in Items, NEW q \in Nat \ {0},
         NEW day \in Days
  PROVE  Sound(PutBack(st, key, kind, i, q, day)) /\ Writes(st, PutBack(st, key, kind, i, q, day), key, i, q, day)
<1> DEFINE avg == st.shelf[i].avg
           value == IF avg = None THEN 0 ELSE CostKobo(q, avg)
<1>1. avg \in {None} \cup Fraction
  BY DEF Sound, Typed, ItemRow
<1>2. value \in Nat
  <2>1. ASSUME avg # None PROVE CostKobo(q, avg) \in Nat
    <3>1. avg.k \in Nat /\ avg.m \in Nat \ {0}
      BY <1>1, <2>1 DEF Fraction
    <3>2. q * avg.k \in Nat
      BY <3>1
    <3> QED
      BY <3>1, <3>2, RoundNat DEF CostKobo
  <2> QED
    BY <2>1
<1>3. PutBack(st, key, kind, i, q, day) = PutIn(st, key, kind, i, q, value, avg # None, day)
  BY DEF PutBack
<1> HIDE DEF value, avg
<1> QED
  BY <1>2, <1>3, PutInSound

\* What t made of st, when nothing was refused: no movement, or one of this key.
MayWrite(st, t, key, i, day) ==
  t.ok => /\ st.ok
          /\ \/ t.moves = st.moves
             \/ \E m \in Movement : m.key = key /\ m.item = i /\ m.day = day /\ Wrote(st, t, m)

\* A write is no movement or one.
LEMMA WritesAdds ==
  ASSUME NEW st, NEW t, NEW key, NEW i, NEW q, NEW day, Writes(st, t, key, i, q, day)
  PROVE  MayWrite(st, t, key, i, day)
<1> SUFFICES ASSUME t.ok PROVE st.ok /\ (t.moves = st.moves \/ \E m \in Movement : m.key = key /\ m.item = i /\ m.day = day /\ Wrote(st, t, m))
  BY DEF MayWrite
<1> QED
  BY DEF Writes

\* A new cost makes the shelf worth its quantity at that cost.
LEMMA RevalueSound ==
  ASSUME NEW st, Sound(st), NEW key, NEW i \in Items, NEW cost \in Nat, Today \in Days,
         st.shelf[i].qty = 0 \/ (key \in MoveKeys /\ ~HasKey(st, key))
  PROVE  Sound(Revalue(st, key, i, cost)) /\ MayWrite(st, Revalue(st, key, i, cost), key, i, Today)
<1> DEFINE s == st.shelf[i]
           value == IF s.qty = 0 THEN s.value ELSE s.qty * cost
           kind == IF s.avg = None THEN "opening_value" ELSE "revalue"
           t == Revalue(st, key, i, cost)
<1>1. /\ st.shelf \in [Items -> ItemRow] /\ st.moves \subseteq Movement /\ st.ok \in BOOLEAN
      /\ s \in ItemRow
  BY DEF Sound, Typed
<1>2. s.qty \in Nat /\ s.value \in Nat
  BY <1>1 DEF ItemRow
<1>3. value \in Nat
  <2> HIDE DEF s
  <2> QED
    BY <1>2
<1>4. Whole(cost) \in Fraction
  BY DEF Whole, Fraction
<1>5. CASE s.state # "open" \/ value > MaxValue
  <2>1. t = Refused(st)
    BY <1>5 DEF Revalue
  <2> HIDE DEF t
  <2> QED
    BY <2>1, RefusedSound DEF MayWrite, t
<1>6. CASE ~(s.state # "open" \/ value > MaxValue) /\ value = s.value
  <2> DEFINE u == [s EXCEPT !.avg = Whole(cost)]
  <2>1. t = [st EXCEPT !.shelf = [@ EXCEPT ![i] = u]]
    BY <1>6 DEF Revalue
  <2>2. u \in ItemRow /\ u.qty = s.qty /\ u.value = s.value /\ u.state = s.state
    BY <1>1, <1>4 DEF ItemRow
  <2> HIDE DEF u, t
  <2>3. t.shelf = [st.shelf EXCEPT ![i] = u] /\ t.moves = st.moves /\ t.ok = st.ok /\ Typed(t)
    BY <1>1, <2>1, <2>2 DEF Sound, Typed
  <2>4. ASSUME NEW j \in Items PROVE Agrees(t.shelf[j], Mine(t.moves, j))
    <3>1. Agrees(st.shelf[j], Mine(st.moves, j))
      BY DEF Sound
    <3> QED
      BY <1>1, <2>2, <2>3, <3>1 DEF Agrees
  <2> QED
    BY <2>3, <2>4 DEF Sound, MayWrite, t
<1>7. CASE ~(s.state # "open" \/ value > MaxValue) /\ value # s.value
  <2> DEFINE m == [key |-> key, kind |-> kind, item |-> i, qty |-> 0, value |-> value - s.value, day |-> Today]
  <2>1. t = Moved(st, key, kind, i, 0, value - s.value, Whole(cost), Today)
    BY <1>7 DEF Revalue
  <2>2. key \in MoveKeys /\ ~HasKey(st, key) /\ s.qty # 0
    BY <1>7
  <2>3. /\ 0 \in Int /\ value - s.value \in Int /\ s.qty + 0 >= 0 /\ s.value + (value - s.value) >= 0
        /\ s.qty + 0 = 0 => s.value + (value - s.value) = 0
        /\ s.state # "none" /\ kind \in MoveKinds
    <3>1. kind \in MoveKinds
      BY DEF MoveKinds
    <3>2. s.state # "none"
      BY <1>7
    <3> HIDE DEF s, value, kind
    <3> QED
      BY <1>2, <1>3, <1>7, <2>2, <3>1, <3>2
  <2> HIDE DEF value, kind, t
  <2>4. Sound(t) /\ t.ok = st.ok /\ m \in Movement /\ Wrote(st, t, m)
    BY <1>4, <2>1, <2>2, <2>3, MovedSound
  <2>5. m.key = key /\ m.item = i /\ m.day = Today
    OBVIOUS
  <2> HIDE DEF m
  <2> QED
    BY <2>4, <2>5 DEF MayWrite, t
<1> QED
  BY <1>5, <1>6, <1>7

\* An adjustment takes out or puts back.
LEMMA AdjustedSound ==
  ASSUME NEW st, Sound(st), NEW key \in MoveKeys, NEW i \in Items, NEW q \in Int \ {0}, NEW day \in Days
  PROVE  Sound(Adjusted(st, key, i, q, day)) /\ MayWrite(st, Adjusted(st, key, i, q, day), key, i, day)
<1>0. PICK kind \in MoveKinds : kind = "adjustment"
  BY DEF MoveKinds
<1>1. CASE q < 0
  <2>1. -q \in Nat \ {0} /\ -(-q) = q
    BY <1>1
  <2>2. Adjusted(st, key, i, q, day) = TakeOut(st, key, kind, i, -q, day)
    BY <1>0, <1>1 DEF Adjusted
  <2>3. PICK p : p = -q
    OBVIOUS
  <2> QED
    <3>1. p \in Nat \ {0} /\ -p = q
      BY <2>1, <2>3
    <3>2. Sound(TakeOut(st, key, kind, i, p, day)) /\ Writes(st, TakeOut(st, key, kind, i, p, day), key, i, -p, day)
      BY <3>1, TakeOutSound
    <3> QED
      BY <2>2, <2>3, <3>1, <3>2, WritesAdds
<1>2. CASE ~(q < 0)
  <2>1. q \in Nat \ {0}
    BY <1>2
  <2>2. Adjusted(st, key, i, q, day) = PutBack(st, key, kind, i, q, day)
    BY <1>0, <1>2 DEF Adjusted
  <2> QED
    <3>1. Sound(PutBack(st, key, kind, i, q, day)) /\ Writes(st, PutBack(st, key, kind, i, q, day), key, i, q, day)
      BY <2>1, PutBackSound
    <3> QED
      BY <2>2, <3>1, WritesAdds
<1> QED
  BY <1>1, <1>2

\* A count that finds nothing, or was written, changes nothing.
LEMMA CountedSound ==
  ASSUME NEW st, Sound(st), NEW key \in MoveKeys, NEW i \in Items, NEW q \in Nat, NEW day \in Days
  PROVE  Sound(Counted(st, key, i, q, day)) /\ MayWrite(st, Counted(st, key, i, q, day), key, i, day)
<1> DEFINE t == Counted(st, key, i, q, day)
           d == q - st.shelf[i].qty
<1>1. st.shelf[i].qty \in Nat
  BY DEF Sound, Typed, ItemRow
<1>2. CASE t = st
  BY <1>2 DEF MayWrite
<1>3. CASE t = Refused(st)
  <2> HIDE DEF t
  <2> QED
    BY <1>3, RefusedSound DEF MayWrite, t
<1>4. CASE t = Adjusted(st, key, i, d, day) /\ q # st.shelf[i].qty
  <2>1. d \in Int \ {0}
    BY <1>1, <1>4
  <2> HIDE DEF d, t
  <2> QED
    BY <1>4, <2>1, AdjustedSound DEF t
<1>5. t = st \/ t = Refused(st) \/ (t = Adjusted(st, key, i, d, day) /\ q # st.shelf[i].qty)
  BY DEF Counted
<1> HIDE DEF t
<1> QED
  BY <1>2, <1>3, <1>4, <1>5 DEF t

\* Undoing leaves each item what its other movements add up to.
LEMMA UndoneSound ==
  ASSUME NEW st, Sound(st), NEW keys
  PROVE  LET t == RemoveBySource(st, keys)
         IN  Sound(t) /\ (t.ok => st.ok /\ t.moves = st.moves \ AtKeys(st, keys))
<1> DEFINE rest == LeftOver(st, keys)
           t == RemoveBySource(st, keys)
           gone == AtKeys(st, keys)
           D == {m.item : m \in gone}
           Share(i) == {m \in gone : m.item = i}
<1>1. /\ st.shelf \in [Items -> ItemRow] /\ st.moves \subseteq Movement /\ st.ok \in BOOLEAN
      /\ IsFiniteSet(st.moves) /\ \A m, n \in st.moves : m.key = n.key => m = n
  BY DEF Sound, Typed, Unique
<1>2. /\ DOMAIN rest = D
      /\ \A i \in D : /\ rest[i].qty = st.shelf[i].qty - Qty(Share(i))
                      /\ rest[i].value = st.shelf[i].value - Value(Share(i))
  BY DEF LeftOver
<1> HIDE DEF rest
<1>3. gone \subseteq st.moves /\ D \subseteq Items
  BY <1>1 DEF AtKeys, Movement
<1>4. CASE \E i \in D : \/ rest[i].qty < 0 \/ rest[i].value < 0
                        \/ (rest[i].qty = 0 /\ rest[i].value # 0)
  <2>1. t = Refused(st)
    BY <1>2, <1>4 DEF RemoveBySource, rest
  <2> HIDE DEF t
  <2> QED
    BY <2>1, RefusedSound DEF t
<1>5. CASE ~ \E i \in D : \/ rest[i].qty < 0 \/ rest[i].value < 0
                          \/ (rest[i].qty = 0 /\ rest[i].value # 0)
  <2>1. t = Undone(st, keys, rest)
    BY <1>2, <1>5 DEF RemoveBySource, rest
  <2> DEFINE row(i) == [st.shelf[i] EXCEPT !.qty = rest[i].qty, !.value = rest[i].value,
                          !.avg = IF rest[i].qty > 0 THEN Average(rest[i].value, rest[i].qty) ELSE @]
             sh == [i \in Items |-> IF i \in DOMAIN rest THEN row(i) ELSE st.shelf[i]]
  <2>2. t = [st EXCEPT !.moves = @ \ gone, !.shelf = sh]
    BY <2>1 DEF Undone
  <2>3. ASSUME NEW i \in D
        PROVE  /\ row(i) \in ItemRow /\ row(i).qty = rest[i].qty /\ row(i).value = rest[i].value
               /\ row(i).state = st.shelf[i].state /\ rest[i].qty \in Nat /\ rest[i].value \in Nat
               /\ rest[i].qty = Qty(Mine(st.moves \ gone, i)) /\ rest[i].value = Value(Mine(st.moves \ gone, i))
    <3> DEFINE A == Share(i)
               B == Mine(st.moves \ gone, i)
    <3>1. A \cup B = Mine(st.moves, i) /\ A \cap B = {} /\ A \subseteq st.moves /\ B \subseteq st.moves
      BY <1>3 DEF Mine
    <3>2. Agrees(st.shelf[i], Mine(st.moves, i)) /\ st.shelf[i] \in ItemRow
      BY <1>1, <1>3 DEF Sound
    <3>3. rest[i].qty = st.shelf[i].qty - Qty(A) /\ rest[i].value = st.shelf[i].value - Value(A)
      BY <1>2
    <3> HIDE DEF A, B
    <3>4. IsFiniteSet(A) /\ IsFiniteSet(B) /\ A \subseteq Movement /\ B \subseteq Movement
      BY <1>1, <3>1, FS_Subset
    <3>5. Qty(A \cup B) = Qty(A) + Qty(B) /\ Value(A \cup B) = Value(A) + Value(B)
      BY <3>1, <3>4, TotalsParts
    <3>6. Qty(A) \in Int /\ Qty(B) \in Int /\ Value(A) \in Int /\ Value(B) \in Int
      BY <3>4, TotalsInt
    <3>7. rest[i].qty = Qty(B) /\ rest[i].value = Value(B)
      <4>1. st.shelf[i].qty = Qty(A \cup B) /\ st.shelf[i].value = Value(A \cup B)
        BY <3>1, <3>2 DEF Agrees
      <4>2. rest[i].qty = (Qty(A) + Qty(B)) - Qty(A) /\ rest[i].value = (Value(A) + Value(B)) - Value(A)
        BY <3>3, <3>5, <4>1
      <4> QED
        BY <3>6, <4>2
    <3>8. rest[i].qty \in Nat /\ rest[i].value \in Nat
      BY <1>5, <3>6, <3>7
    <3>9. PICK x, a, b, v : x = st.shelf[i] /\ a = rest[i].qty /\ b = rest[i].value
                            /\ v = IF a > 0 THEN Average(b, a) ELSE x.avg
      OBVIOUS
    <3>10. v \in {None} \cup Fraction
      <4>1. x.avg \in {None} \cup Fraction
        BY <3>2, <3>9 DEF ItemRow
      <4>2. a \in Nat /\ b \in Nat
        BY <3>8, <3>9
      <4>3. CASE a > 0
        <5>1. a \in Nat \ {0}
          BY <4>2, <4>3
        <5> QED
          BY <3>9, <4>2, <4>3, <5>1, AverageType
      <4> QED
        BY <3>9, <4>1, <4>3
    <3>11. row(i) = [x EXCEPT !.qty = a, !.value = b, !.avg = v]
      BY <3>9
    <3>12. row(i) \in ItemRow /\ row(i).qty = a /\ row(i).value = b /\ row(i).state = x.state
      <4>1. x \in ItemRow /\ a \in Nat /\ b \in Nat
        BY <3>2, <3>8, <3>9
      <4> HIDE DEF row
      <4> QED
        BY <3>10, <3>11, <4>1 DEF ItemRow
    <3> HIDE DEF row
    <3> QED
      BY <3>7, <3>8, <3>9, <3>12 DEF B
  <2> HIDE DEF row
  <2>4. sh \in [Items -> ItemRow]
    BY <1>1, <1>2, <2>3
  <2>5. \A i \in Items : sh[i] = IF i \notin D THEN st.shelf[i] ELSE row(i)
    BY <1>2
  <2> HIDE DEF sh, t
  <2>6. t.shelf = sh /\ t.moves = st.moves \ gone /\ t.ok = st.ok /\ Typed(t)
    BY <1>1, <2>2, <2>4 DEF Sound, Typed
  <2>7. Unique(t.moves)
    BY <1>1, <2>6, FS_Subset DEF Unique
  <2>8. ASSUME NEW i \in Items PROVE Agrees(t.shelf[i], Mine(t.moves, i))
    <3>1. Agrees(st.shelf[i], Mine(st.moves, i))
      BY DEF Sound
    <3>2. CASE i \notin D
      <4>1. Mine(t.moves, i) = Mine(st.moves, i) /\ t.shelf[i] = st.shelf[i]
        BY <2>5, <2>6, <3>2 DEF Mine
      <4> QED
        BY <3>1, <4>1
    <3>3. CASE i \in D
      <4>1. PICK x : x = row(i)
        OBVIOUS
      <4>2. t.shelf[i] = x
        BY <2>5, <2>6, <3>3, <4>1
      <4>3. /\ x.qty = rest[i].qty /\ x.value = rest[i].value /\ x.state = st.shelf[i].state
            /\ rest[i].qty = Qty(Mine(t.moves, i)) /\ rest[i].value = Value(Mine(t.moves, i))
        BY <2>3, <2>6, <3>3, <4>1
      <4>4. rest[i].qty = 0 => rest[i].value = 0
        BY <1>5, <3>3
      <4>5. Mine(t.moves, i) \subseteq Mine(st.moves, i)
        BY <2>6 DEF Mine
      <4> QED
        BY <3>1, <4>2, <4>3, <4>4, <4>5 DEF Agrees
    <3> QED
      BY <3>2, <3>3
  <2> QED
    BY <2>6, <2>7, <2>8 DEF Sound, t
<1> QED
  BY <1>4, <1>5

\* Movements told apart by another key, or put on another day, are the same goods.
Retells(M, g) ==
  /\ \A m \in M : g[m] \in Movement /\ g[m].item = m.item /\ g[m].qty = m.qty /\ g[m].value = m.value
  /\ \A m, n \in M : g[m].key = g[n].key => m = n
Retold(st, g, t) == Sound(st) /\ Retells(st.moves, g) /\ t = [st EXCEPT !.moves = {g[m] : m \in st.moves}]

\* Movements told anew under other keys, with what each is worth, come to what
\* they came to: the shelf need not move.
LEMMA RetoldSound ==
  ASSUME NEW st, NEW g, NEW t, Retold(st, g, t)
  PROVE  Sound(t) /\ t.ok = st.ok /\ t.moves = {g[m] : m \in st.moves}
<1> USE DEF Retold
<1> DEFINE M == st.moves
           N == {g[m] : m \in M}
<1>1. /\ st.shelf \in [Items -> ItemRow] /\ M \subseteq Movement /\ st.ok \in BOOLEAN
      /\ IsFiniteSet(M) /\ \A m, n \in M : m.key = n.key => m = n
  BY DEF Sound, Typed, Unique
<1>2. N \subseteq Movement
  BY DEF Retells
<1>3. t.ok = st.ok /\ t.shelf = st.shelf /\ t.moves = N /\ Typed(t)
  <2> HIDE DEF N
  <2>1. t = [st EXCEPT !.moves = N]
    BY DEF N
  <2> QED
    BY <1>2, <2>1 DEF Sound, Typed
<1>4. Unique(N)
  <2>1. Carries(M, g)
    BY DEF Carries, Retells
  <2>2. IsFiniteSet(N)
    BY <1>1, <2>1, TotalsCarried
  <2> QED
    BY <2>2 DEF Unique, Retells
<1>5. ASSUME NEW i \in Items PROVE Agrees(t.shelf[i], Mine(t.moves, i))
  <2> DEFINE A == Mine(M, i)
  <2>1. A \subseteq Movement /\ IsFiniteSet(A) /\ Carries(A, g)
    BY <1>1, FS_Subset DEF Mine, Carries, Retells
  <2>2. Mine(N, i) = {g[m] : m \in A}
    BY DEF Mine, Retells
  <2> HIDE DEF A
  <2>3. Qty(Mine(N, i)) = Qty(A) /\ Value(Mine(N, i)) = Value(A)
    BY <2>1, <2>2, TotalsCarried
  <2>4. A = {} => Mine(N, i) = {}
    BY <2>2
  <2>5. Agrees(st.shelf[i], A)
    BY DEF A, Sound
  <2> HIDE DEF N
  <2> QED
    BY <1>3, <2>3, <2>4, <2>5 DEF Agrees
<1> QED
  BY <1>3, <1>4, <1>5 DEF Sound

-----------------------------------------------------------------------------
(* Lines *)

\* The keys of lines and of adjustments are movements' keys.
LEMMA KeysType ==
  /\ \A r \in Records, n \in Nat : Key(r, n) \in MoveKeys /\ Was(r, n) \in MoveKeys
  /\ \A i \in Items, k \in Keys : AdjKey(i, k) \in MoveKeys
  /\ \A i \in Items : <<i, 1, 0>> \in MoveKeys
BY DEF Key, Was, AdjKey, MoveKeys

\* Two lines' keys are two keys, and no item's.
LEMMA KeysApart ==
  /\ \A r, s, n, k : Key(r, n) = Key(s, k) => r = s /\ n = k
  /\ \A r, s, n, k : Was(r, n) = Was(s, k) => r = s /\ n = k
  /\ \A r, s, n, k : Key(r, n) # Was(s, k)
  /\ \A r, n : Key(r, n)[1] = r /\ Key(r, n)[3] = n /\ Was(r, n)[1] = r
BY DEF Key, Was

LineOK(kind, l) == l.item \in Items /\ l.qty \in Nat \ {0} /\ (kind = "bill" => l.cost \in Nat)
LineMoved(m, kind, l, key, day) ==
  m.key = key /\ m.item = l.item /\ Abs(m.qty) = l.qty /\ m.day = day /\ (kind = "bill" => m.value = l.cost)

\* A line moves its goods, whichever way the record's goes.
LEMMA MoveLineSound ==
  ASSUME NEW st, Sound(st), NEW kind \in RecordKinds, NEW key \in MoveKeys, ~HasKey(st, key),
         NEW l, LineOK(kind, l), NEW day \in Days
  PROVE  LET t == MoveLine(st, kind, key, l, day)
         IN  /\ Sound(t)
             /\ t.ok => st.ok /\ \E m \in Movement : LineMoved(m, kind, l, key, day) /\ Wrote(st, t, m)
<1> DEFINE t == MoveLine(st, kind, key, l, day)
<1> PICK i, q, c : i = l.item /\ q = l.qty /\ c = l.cost
  OBVIOUS
<1>0. i \in Items /\ q \in Nat \ {0} /\ Abs(-q) = q /\ Abs(q) = q
  BY DEF LineOK, Abs
<1>1. CASE kind \in {"sale", "invoice"}
  <2>1. t = TakeOut(st, key, kind, i, q, day) /\ kind \in MoveKinds /\ kind # "bill"
    BY <1>1 DEF MoveLine, MoveKinds
  <2> HIDE DEF t
  <2>2. Sound(t) /\ Writes(st, t, key, i, -q, day)
    BY <1>0, <2>1, TakeOutSound
  <2>3. t.ok => st.ok /\ \E m \in Movement : m.key = key /\ m.item = i /\ m.qty = -q /\ m.day = day /\ Wrote(st, t, m)
    BY <2>2 DEF Writes
  <2> QED
    BY <1>0, <2>1, <2>2, <2>3 DEF LineMoved, t
<1>2. CASE kind = "credit_note"
  <2>1. t = PutBack(st, key, kind, i, q, day) /\ kind \in MoveKinds /\ kind # "bill"
    BY <1>2 DEF MoveLine, MoveKinds
  <2> HIDE DEF t
  <2>2. Sound(t) /\ Writes(st, t, key, i, q, day)
    BY <1>0, <2>1, PutBackSound
  <2>3. t.ok => st.ok /\ \E m \in Movement : m.key = key /\ m.item = i /\ m.qty = q /\ m.day = day /\ Wrote(st, t, m)
    BY <2>2 DEF Writes
  <2> QED
    BY <1>0, <2>1, <2>2, <2>3 DEF LineMoved, t
<1>3. CASE kind = "bill"
  <2> PICK p, known : p = "purchase" /\ known = TRUE
    OBVIOUS
  <2>1. p \in MoveKinds
    BY DEF MoveKinds
  <2>2. t = PutIn(st, key, p, i, q, c, known, day) /\ c \in Nat
    BY <1>3 DEF MoveLine, LineOK
  <2> HIDE DEF t
  <2>3. Sound(t) /\ Writes(st, t, key, i, q, day) /\ Brings(st, t, key, c)
    BY <1>0, <2>1, <2>2, PutInSound
  <2>4. ASSUME t.ok PROVE st.ok /\ \E m \in Movement : LineMoved(m, kind, l, key, day) /\ Wrote(st, t, m)
    <3>1. PICK m \in Movement : m.key = key /\ m.item = i /\ m.qty = q /\ m.day = day /\ Wrote(st, t, m)
      BY <2>3, <2>4 DEF Writes
    <3>2. PICK n \in t.moves : n.key = key /\ n.value = c
      BY <2>3, <2>4 DEF Brings
    <3>3. m = n
      BY <2>3, <3>1, <3>2 DEF Sound, Unique, Wrote
    <3> QED
      BY <1>0, <2>3, <2>4, <3>1, <3>2, <3>3 DEF LineMoved, Writes
  <2> QED
    BY <2>3, <2>4 DEF t
<1> QED
  BY <1>1, <1>2, <1>3 DEF RecordKinds

\* One step of the recursion in MoveLines, and a function that takes k of them.
LineStep(st, kind, r, lines, N, day, f, n) ==
  IF n = 0 THEN st
  ELSE IF n \in N /\ f[n - 1].ok THEN MoveLine(f[n - 1], kind, Key(r, n), lines[n], day)
  ELSE f[n - 1]
LinesUpTo(st, kind, r, lines, N, day, f, k) == f = [n \in 0..k |-> LineStep(st, kind, r, lines, N, day, f, n)]

\* The recursion over the lines of a record is defined up to every line.
LEMMA LinesExist ==
  ASSUME NEW st, NEW kind, NEW r, NEW lines, NEW N, NEW day, NEW k \in Nat
  PROVE  \E f : LinesUpTo(st, kind, r, lines, N, day, f, k)
<1> DEFINE Take(f, n) == LineStep(st, kind, r, lines, N, day, f, n)
           UpToK(f, n) == LinesUpTo(st, kind, r, lines, N, day, f, n)
           B == {n \in Nat : ~ \E f : UpToK(f, n)}
<1>1. ASSUME B # {} PROVE FALSE
  <2>1. PICK n \in B : \A j \in B : n <= j
    <3> HIDE DEF B
    <3>1. B \subseteq Nat BY DEF B
    <3> QED BY <1>1, <3>1, LeastNumber
  <2>2. n \in Nat /\ n # 0
    <3>1. UpToK([j \in 0..0 |-> st], 0)
      BY DEF LinesUpTo, LineStep
    <3> QED BY <2>1, <3>1
  <2>3. PICK f : UpToK(f, n - 1)
    <3>1. n - 1 \in Nat /\ n - 1 \notin B BY <2>1, <2>2
    <3> QED BY <3>1
  <2> DEFINE g == [j \in 0..n |-> Take(f, j)]
  <2>4. ASSUME NEW j \in 0..n PROVE Take(g, j) = Take(f, j)
    <3>1. CASE j = 0 BY <3>1 DEF LineStep
    <3>2. CASE j # 0
      <4>1. j - 1 \in 0..(n - 1) /\ j - 1 \in 0..n BY <2>2, <3>2
      <4>2. g[j - 1] = f[j - 1] BY <4>1, <2>3 DEF LinesUpTo
      <4> HIDE DEF g
      <4> QED BY <3>2, <4>2 DEF LineStep
    <3> QED BY <3>1, <3>2
  <2>5. UpToK(g, n) BY <2>4, Zenon DEF LinesUpTo
  <2> QED BY <2>1, <2>5
<1> QED BY <1>1

\* What the first n lines of those that move have made of the store.
Progress(st, u, kind, r, lines, N, day, n) ==
  /\ Sound(u)
  /\ u.ok => /\ st.ok /\ st.moves \subseteq u.moves
             /\ \A k \in N : k <= n => \E m \in u.moves : LineMoved(m, kind, lines[k], Key(r, k), day)
             /\ \A m \in u.moves \ st.moves : \E k \in N : k <= n /\ LineMoved(m, kind, lines[k], Key(r, k), day)

\* The lines of N move, each once, and nothing else does.
LEMMA MoveLinesSound ==
  ASSUME NEW st, Sound(st), NEW kind \in RecordKinds, NEW r \in Records, NEW lines, Len(lines) \in Nat,
         NEW N, N \subseteq 1..Len(lines), \A n \in N : LineOK(kind, lines[n]) /\ ~HasKey(st, Key(r, n)),
         NEW day \in Days
  PROVE  Progress(st, MoveLines(st, kind, r, lines, N, day), kind, r, lines, N, day, Len(lines))
<1> DEFINE len == Len(lines)
           f == CHOOSE f : LinesUpTo(st, kind, r, lines, N, day, f, len)
           P(n) == Progress(st, f[n], kind, r, lines, N, day, n)
           B == {n \in 0..len : ~P(n)}
<1>1. LinesUpTo(st, kind, r, lines, N, day, f, len)
  <2> DEFINE R(x) == LinesUpTo(st, kind, r, lines, N, day, x, len)
  <2>1. \E x : R(x) BY LinesExist
  <2>2. R(CHOOSE x : R(x))
    <3> HIDE DEF R
    <3> QED BY <2>1, Zenon
  <2> QED BY <2>2
<1>2. MoveLines(st, kind, r, lines, N, day) = f[len]
  BY Zenon DEF MoveLines, LinesUpTo, LineStep
<1> HIDE DEF f
<1>3. \A n \in 0..len : f[n] = LineStep(st, kind, r, lines, N, day, f, n)
  BY <1>1, Zenon DEF LinesUpTo
<1>4. ASSUME B # {} PROVE FALSE
  <2>1. PICK n \in B : \A j \in B : n <= j
    <3> HIDE DEF B
    <3>1. B \subseteq Nat BY DEF B
    <3> QED BY <1>4, <3>1, LeastNumber
  <2>2. n \in 0..len /\ ~P(n)
    BY <2>1
  <2>3. CASE n = 0
    <3>1. f[0] = st
      BY <1>3, <2>2, <2>3 DEF LineStep
    <3>2. Progress(st, st, kind, r, lines, N, day, 0)
      BY DEF Progress
    <3> QED
      BY <2>2, <2>3, <3>1, <3>2, Zenon
  <2>4. CASE n # 0
    <3> PICK u : u = f[n - 1]
      OBVIOUS
    <3>1. n - 1 \in 0..len /\ n \in Nat
      BY <2>2, <2>4
    <3>2. Progress(st, u, kind, r, lines, N, day, n - 1)
      <4>1. n - 1 \notin B
        <5> HIDE DEF B
        <5> QED
          BY <2>1, <3>1
      <4> HIDE DEF Progress
      <4> QED
        BY <3>1, <4>1
    <3>3. f[n] = IF n \in N /\ u.ok THEN MoveLine(u, kind, Key(r, n), lines[n], day) ELSE u
      BY <1>3, <2>2, <2>4 DEF LineStep
    <3>4. CASE ~(n \in N /\ u.ok)
      <4>1. f[n] = u
        BY <3>3, <3>4
      <4>2. u.ok => \A k \in N : k <= n <=> k <= n - 1
        BY <3>1, <3>4
      <4>3. Progress(st, u, kind, r, lines, N, day, n)
        BY <3>2, <4>2 DEF Progress
      <4> QED
        BY <2>2, <4>1, <4>3, Zenon
    <3>5. CASE n \in N /\ u.ok
      <4> PICK t : t = MoveLine(u, kind, Key(r, n), lines[n], day)
        OBVIOUS
      <4>1. f[n] = t
        BY <3>3, <3>5
      <4>2. /\ Sound(u) /\ st.ok /\ st.moves \subseteq u.moves
            /\ \A k \in N : k <= n - 1 => \E m \in u.moves : LineMoved(m, kind, lines[k], Key(r, k), day)
            /\ \A m \in u.moves \ st.moves : \E k \in N : k <= n - 1 /\ LineMoved(m, kind, lines[k], Key(r, k), day)
        BY <3>2, <3>5 DEF Progress
      <4>3. ~HasKey(u, Key(r, n)) /\ LineOK(kind, lines[n]) /\ Key(r, n) \in MoveKeys
        <5>1. ~HasKey(st, Key(r, n)) /\ LineOK(kind, lines[n]) /\ Key(r, n) \in MoveKeys
          BY <3>1, <3>5, KeysType
        <5>2. ASSUME NEW m \in u.moves, m.key = Key(r, n) PROVE FALSE
          <6>1. m \notin st.moves
            BY <5>1, <5>2 DEF HasKey
          <6>2. PICK k \in N : k <= n - 1 /\ m.key = Key(r, k)
            BY <4>2, <6>1 DEF LineMoved
          <6>3. k = n
            <7>1. Key(r, k) = Key(r, n)
              BY <5>2, <6>2
            <7> QED
              BY <7>1 DEF Key
          <6>4. k \in Nat
            OBVIOUS
          <6> QED
            BY <3>1, <6>2, <6>3, <6>4
        <5> QED
          BY <5>1, <5>2 DEF HasKey
      <4>4. /\ Sound(t)
            /\ t.ok => \E m \in Movement : LineMoved(m, kind, lines[n], Key(r, n), day) /\ Wrote(u, t, m)
        BY <4>2, <4>3, MoveLineSound
      <4>5. ASSUME t.ok
            PROVE  /\ st.moves \subseteq t.moves
                   /\ \A k \in N : k <= n => \E m \in t.moves : LineMoved(m, kind, lines[k], Key(r, k), day)
                   /\ \A m \in t.moves \ st.moves : \E k \in N : k <= n /\ LineMoved(m, kind, lines[k], Key(r, k), day)
        <5>1. PICK m \in Movement : LineMoved(m, kind, lines[n], Key(r, n), day) /\ t.moves = u.moves \cup {m}
          BY <4>4, <4>5 DEF Wrote
        <5>2. \A k \in N : k <= n => k <= n - 1 \/ k = n
          BY <3>1
        <5>3. \A k \in N : k <= n - 1 => k <= n
          BY <3>1
        <5>4. n <= n
          BY <3>1
        <5>5. st.moves \subseteq t.moves
          BY <4>2, <5>1
        <5>6. ASSUME NEW k \in N, k <= n PROVE \E x \in t.moves : LineMoved(x, kind, lines[k], Key(r, k), day)
          <6>1. CASE k = n
            BY <5>1, <6>1
          <6>2. CASE k <= n - 1
            <7>1. PICK x \in u.moves : LineMoved(x, kind, lines[k], Key(r, k), day)
              BY <4>2, <6>2
            <7> QED
              BY <5>1, <7>1
          <6> QED
            BY <5>2, <5>6, <6>1, <6>2
        <5>7. ASSUME NEW x \in t.moves \ st.moves
              PROVE  \E k \in N : k <= n /\ LineMoved(x, kind, lines[k], Key(r, k), day)
          <6>1. CASE x = m
            BY <3>5, <5>1, <5>4, <6>1
          <6>2. CASE x \in u.moves \ st.moves
            <7>1. PICK k \in N : k <= n - 1 /\ LineMoved(x, kind, lines[k], Key(r, k), day)
              BY <4>2, <6>2
            <7> QED
              BY <5>3, <7>1
          <6> QED
            BY <5>1, <5>7, <6>1, <6>2
        <5> QED
          BY <5>5, <5>6, <5>7
      <4>6. Progress(st, t, kind, r, lines, N, day, n)
        BY <4>2, <4>4, <4>5 DEF Progress
      <4> QED
        BY <2>2, <4>1, <4>6, Zenon
    <3> QED
      BY <3>4, <3>5
  <2> QED
    BY <2>3, <2>4
<1> QED
  <2>1. len \notin B
    <3> HIDE DEF B
    <3> QED BY <1>4
  <2>2. P(len)
    BY <2>1
  <2> QED BY <1>2, <2>2, Zenon

-----------------------------------------------------------------------------
(* The invariant *)

LineRow == [item : Items, qty : Nat \ {0}, stocked : BOOLEAN, cost : Nat]
RecordRow == [kind : RecordKinds \cup {"none"}, status : Statuses, day : Days, lines : Seq(LineRow)]

\* The lines that have moved, in a record of this status.
Gone(status, lines) == IF MovesStock(status) THEN Moving(lines) ELSE {}

\* The lines of S have their movement in M, on the record's day, and the record has no other.
Holds(M, r, lines, S, day) ==
  /\ \A n \in S : \E m \in M : /\ m.key = Key(r, n) /\ m.item = lines[n].item
                              /\ Abs(m.qty) = lines[n].qty /\ m.day = day
  /\ \A m \in M : m.key[1] = r => \E n \in S : m.key = Key(r, n)

\* A line that has moved costs what its movement took; any other costs nothing.
Costed(M, r, lines, S) ==
  /\ \A n \in S : \A m \in M : m.key = Key(r, n) => lines[n].cost = Abs(m.value)
  /\ \A n \in DOMAIN lines \ S : lines[n].cost = 0

\* A record is in order: its row is, its movements are its lines', each at its cost.
RecordOK(rec, r, M) ==
  /\ rec \in RecordRow
  /\ Holds(M, r, rec.lines, Gone(rec.status, rec.lines), rec.day)
  /\ Costed(M, r, rec.lines, Gone(rec.status, rec.lines))
  /\ rec.kind = "none" => rec = NoRecord
  /\ rec.kind \in {"sale", "bill"} => rec.status = "SENT"

\* The lock date and what is remembered are in their ranges.
RestOK == lockDay \in 0..Today /\ costed \subseteq Items /\ answered \subseteq Items \X Keys /\ ops \in Nat

\* The inductive invariant: the store is sound, and each record in order beside it.
StockInv ==
  /\ Sound(Store) /\ RestOK /\ record \in [Records -> RecordRow]
  /\ \A r \in Records : RecordOK(record[r], r, moves)

\* What differs is of one owner (a record, or an item), and on days that are open.
Only(M, N, o) == \A m \in (M \ N) \cup (N \ M) : m.key[1] = o /\ m.day > lockDay

\* Two changes of one owner are a change of his.
LEMMA OnlyThen ==
  ASSUME NEW L, NEW M, NEW N, NEW o, Only(L, M, o), Only(M, N, o)
  PROVE  Only(L, N, o)
BY DEF Only

\* A closed day's movements are those it had.
Frozen == {m \in moves' : m.day <= lockDay} = {m \in moves : m.day <= lockDay}

\* What changes open days only leaves the closed ones.
LEMMA OnlyFrozen == ASSUME StockInv, NEW o, Only(moves, moves', o), moves' \subseteq Movement PROVE Frozen
<1>1. \A m \in moves \cup moves' : m.day \in Int
  BY DEF StockInv, Sound, Typed, Store, Movement, Days
<1>2. lockDay \in Int
  BY DEF StockInv, RestOK
<1> QED
  BY <1>1, <1>2 DEF Only, Frozen

\* A store that is committed is sound.
LEMMA CommittedSound ==
  ASSUME NEW st, Sound(st), NEW sh, NEW M, sh = st.shelf, M = st.moves
  PROVE  Sound([shelf |-> sh, moves |-> M, ok |-> TRUE])
<1> PICK t : t = [shelf |-> sh, moves |-> M, ok |-> TRUE]
  OBVIOUS
<1>1. t.shelf = st.shelf /\ t.moves = st.moves /\ Typed(t)
  BY DEF Sound, Typed
<1> QED
  BY <1>1 DEF Sound

\* Another owner's movements are another record's business.
LEMMA RecordApart ==
  ASSUME NEW rec, NEW r, NEW M, NEW N, RecordOK(rec, r, M), NEW o, o # r, Only(M, N, o)
  PROVE  RecordOK(rec, r, N)
<1>1. \A m : m.key[1] = r => (m \in M <=> m \in N)
  BY DEF Only
<1>2. \A n : Key(r, n)[1] = r
  BY KeysApart
<1>3. Holds(N, r, rec.lines, Gone(rec.status, rec.lines), rec.day)
  BY <1>1, <1>2 DEF RecordOK, Holds
<1>4. Costed(N, r, rec.lines, Gone(rec.status, rec.lines))
  BY <1>1, <1>2 DEF RecordOK, Costed
<1> QED
  BY <1>3, <1>4 DEF RecordOK

\* A request about one record, or one item, that commits a sound store.
LEMMA RecordStep ==
  ASSUME StockInv, NEW r \in Records, NEW st, Sound(st), shelf' = st.shelf, moves' = st.moves,
         NEW rec, record' = [record EXCEPT ![r] = rec], RecordOK(rec, r, st.moves),
         Only(moves, st.moves, r), RestOK'
  PROVE  StockInv' /\ Frozen
<1>1. Sound(Store)'
  BY CommittedSound DEF Store
<1>2. record' \in [Records -> RecordRow]
  <2>1. rec \in RecordRow
    BY DEF RecordOK
  <2> HIDE DEF RecordRow
  <2> QED
    BY <2>1 DEF StockInv
<1>3. ASSUME NEW s \in Records PROVE RecordOK(record'[s], s, moves')
  <2>1. CASE s = r
    BY <2>1 DEF StockInv
  <2>2. CASE s # r
    BY <2>2, RecordApart DEF StockInv
  <2> QED
    BY <2>1, <2>2
<1>4. moves' \subseteq Movement
  BY DEF Sound, Typed
<1> QED
  BY <1>1, <1>2, <1>3, <1>4, OnlyFrozen DEF StockInv

\* A request about an item keeps the invariant: the records' movements are apart.
LEMMA ItemStep ==
  ASSUME StockInv, NEW i \in Items, NEW st, Sound(st), shelf' = st.shelf, moves' = st.moves,
         record' = record, Only(moves, st.moves, i), RestOK'
  PROVE  StockInv' /\ Frozen
<1>1. Sound(Store)'
  BY CommittedSound DEF Store
<1>2. i \notin Records
  BY StockAssumption
<1>3. ASSUME NEW s \in Records PROVE RecordOK(record'[s], s, moves')
  BY <1>2, RecordApart DEF StockInv
<1>4. moves' \subseteq Movement
  BY DEF Sound, Typed
<1> QED
  BY <1>1, <1>3, <1>4, OnlyFrozen DEF StockInv

\* The facts every request starts from.
LEMMA Start ==
  ASSUME StockInv
  PROVE  /\ Sound(Store) /\ Store.shelf = shelf /\ Store.moves = moves /\ Store.ok
         /\ moves \subseteq Movement /\ Unique(moves) /\ shelf \in [Items -> ItemRow]
         /\ \A r \in Records : RecordOK(record[r], r, moves)
BY DEF StockInv, Store, Sound, Typed

\* A movement written on an open day is its owner's alone.
LEMMA AddsOnly ==
  ASSUME NEW st, NEW t, NEW key, NEW i, NEW day, MayWrite(st, t, key, i, day), t.ok, day > lockDay
  PROVE  Only(st.moves, t.moves, key[1])
BY DEF MayWrite, Wrote, Only

-----------------------------------------------------------------------------
(* Records and their movements *)

OwnedBy(M, r) == {m \in M : m.key[1] = r}
AtCost(M, r, lines, N) == \A n \in N : \A m \in M : m.key = Key(r, n) => m.value = lines[n].cost
Beside(M, D) == {m \in M : m.key \notin D}
ListRow == [item : Items, qty : Nat \ {0}, stocked : BOOLEAN]
LinesOK(lines) ==
  /\ Len(lines) \in Nat /\ DOMAIN lines = 1..Len(lines)
  /\ \A n \in DOMAIN lines : lines[n].item \in Items /\ lines[n].qty \in Nat \ {0} /\ lines[n].stocked \in BOOLEAN

\* What a record is sent with, or was saved with, may be moved.
LEMMA ListsOK ==
  /\ \A list \in Lists : LinesOK(list)
  /\ \A lines \in Seq(LineRow) : LinesOK(lines) /\ \A n \in DOMAIN lines : lines[n].cost \in Nat
<1>1. ASSUME NEW list \in Lists PROVE LinesOK(list)
  <2>1. list \in Seq(ListRow)
    BY StockAssumption DEF ListRow
  <2>2. Len(list) \in Nat /\ DOMAIN list = 1..Len(list) /\ \A n \in DOMAIN list : list[n] \in ListRow
    <3> HIDE DEF ListRow
    <3> QED
      BY <2>1
  <2> QED
    BY <2>2 DEF LinesOK, ListRow
<1>2. ASSUME NEW lines \in Seq(LineRow) PROVE LinesOK(lines) /\ \A n \in DOMAIN lines : lines[n].cost \in Nat
  <2>1. Len(lines) \in Nat /\ DOMAIN lines = 1..Len(lines) /\ \A n \in DOMAIN lines : lines[n] \in LineRow
    OBVIOUS
  <2> QED
    BY <2>1 DEF LinesOK, LineRow
<1> QED
  BY <1>1, <1>2

\* A record's movements are those of its lines, on its day.
LEMMA Owned ==
  ASSUME StockInv, NEW r \in Records
  PROVE  /\ AtKeys(Store, KeysOf(r)) = OwnedBy(moves, r)
         /\ \A m \in OwnedBy(moves, r) : m.day = record[r].day
         /\ ~MovesStock(record[r].status) => OwnedBy(moves, r) = {}
         /\ New(r) => OwnedBy(moves, r) = {}
<1>1. /\ RecordOK(record[r], r, moves) /\ Store.moves = moves
      /\ \A m, n \in moves : m.key = n.key => m = n
  BY Start DEF Unique
<1> PICK rec, S : rec = record[r] /\ S = Gone(rec.status, rec.lines)
  OBVIOUS
<1>2. Holds(moves, r, rec.lines, S, rec.day) /\ S \subseteq DOMAIN rec.lines
  BY <1>1 DEF RecordOK, Gone, Moving
<1>3. \A n : Key(r, n)[1] = r
  BY KeysApart
<1>4. AtKeys(Store, KeysOf(r)) = OwnedBy(moves, r)
  BY <1>1, <1>2, <1>3 DEF AtKeys, KeysOf, OwnedBy, Holds
<1>5. ASSUME NEW m \in OwnedBy(moves, r) PROVE m.day = rec.day
  <2>1. PICK n \in S : m.key = Key(r, n)
    BY <1>2 DEF Holds, OwnedBy
  <2>2. PICK x \in moves : x.key = Key(r, n) /\ x.day = rec.day
    BY <1>2 DEF Holds
  <2> QED
    BY <1>1, <2>1, <2>2 DEF OwnedBy
<1>6. S = {} => OwnedBy(moves, r) = {}
  BY <1>2 DEF Holds, OwnedBy
<1>7. New(r) => S = {}
  <2>1. New(r) => rec.lines = <<>>
    BY <1>1 DEF RecordOK, New, NoRecord
  <2> QED
    BY <1>2, <2>1
<1> QED
  BY <1>4, <1>5, <1>6, <1>7 DEF Gone

\* What a record's lines moved is undone.
LEMMA ReleasedSound ==
  ASSUME StockInv, NEW r \in Records, RemoveBySource(Store, KeysOf(r)).ok, record[r].day > lockDay
  PROVE  LET t == RemoveBySource(Store, KeysOf(r))
         IN  Sound(t) /\ Only(moves, t.moves, r) /\ OwnedBy(t.moves, r) = {}
<1> PICK t : t = RemoveBySource(Store, KeysOf(r))
  OBVIOUS
<1>1. Sound(t) /\ t.moves = moves \ OwnedBy(moves, r)
  BY Start, UndoneSound, Owned
<1>2. Only(moves, t.moves, r) /\ OwnedBy(t.moves, r) = {}
  BY <1>1, Owned DEF Only, OwnedBy
<1> QED
  BY <1>1, <1>2

\* The lines of N may move, beside those of K that have: what is set aside (D) stays there.
MayMove(st, kind, r, lines, N, day, D, K) ==
  /\ Sound(st) /\ kind \in RecordKinds /\ r \in Records /\ LinesOK(lines) /\ day \in Days
  /\ N \subseteq DOMAIN lines /\ K \cap N = {}
  /\ kind = "bill" => \A n \in N : lines[n].cost \in Nat
  /\ N # {} => day > lockDay
  /\ \A n : Key(r, n) \notin D
  /\ Holds(Beside(st.moves, D), r, lines, K, day)
HaveMoved(st, t, kind, r, lines, N, day, D, K) ==
  /\ Sound(t) /\ Only(st.moves, t.moves, r) /\ st.moves \subseteq t.moves
  /\ Holds(Beside(t.moves, D), r, lines, K \cup N, day)
  /\ kind = "bill" => AtCost(t.moves, r, lines, N)

\* After the lines N were moved, the record holds them beside those of K.
LEMMA LinesMoved ==
  ASSUME NEW st, NEW kind, NEW r, NEW lines, NEW N, NEW day, NEW D, NEW K, MayMove(st, kind, r, lines, N, day, D, K),
         NEW t, t = MoveLines(st, kind, r, lines, N, day), t.ok
  PROVE  HaveMoved(st, t, kind, r, lines, N, day, D, K)
<1> USE DEF MayMove
<1>1. \A n \in N : LineOK(kind, lines[n])
  BY DEF LinesOK, LineOK
<1>2. ASSUME NEW n \in N, HasKey(st, Key(r, n)) PROVE FALSE
  <2>1. PICK m \in st.moves : m.key = Key(r, n)
    BY <1>2 DEF HasKey
  <2>2. m.key[1] = r /\ m.key \notin D
    BY <2>1, KeysApart
  <2>3. PICK k \in K : m.key = Key(r, k)
    BY <2>2 DEF Holds, Beside
  <2>4. k = n
    BY <2>1, <2>3 DEF Key
  <2> QED
    BY <2>4
<1>3. Progress(st, t, kind, r, lines, N, day, Len(lines))
  <2>1. Len(lines) \in Nat /\ N \subseteq 1..Len(lines)
    BY DEF LinesOK
  <2> QED
    BY <1>1, <1>2, <2>1, MoveLinesSound
<1>4. /\ Sound(t) /\ st.moves \subseteq t.moves
      /\ \A k \in N : \E m \in t.moves : LineMoved(m, kind, lines[k], Key(r, k), day)
      /\ \A m \in t.moves \ st.moves : \E k \in N : LineMoved(m, kind, lines[k], Key(r, k), day)
  <2>1. \A k \in N : k <= Len(lines)
    BY DEF LinesOK
  <2> QED
    BY <1>3, <2>1 DEF Progress
<1>5. \A n : Key(r, n)[1] = r
  BY KeysApart
<1>6. Only(st.moves, t.moves, r)
  BY <1>4, <1>5 DEF Only, LineMoved
<1>7. Holds(Beside(t.moves, D), r, lines, K \cup N, day)
  <2>1. ASSUME NEW n \in K \cup N
        PROVE  \E m \in Beside(t.moves, D) : /\ m.key = Key(r, n) /\ m.item = lines[n].item
                                                           /\ Abs(m.qty) = lines[n].qty /\ m.day = day
    <3>1. CASE n \in K
      BY <1>4, <3>1 DEF Holds, Beside
    <3>2. CASE n \in N
      BY <1>4, <3>2 DEF LineMoved, Beside
    <3> QED
      BY <2>1, <3>1, <3>2
  <2>2. ASSUME NEW m \in Beside(t.moves, D), m.key[1] = r PROVE \E n \in K \cup N : m.key = Key(r, n)
    <3>1. CASE m \in st.moves
      BY <2>2, <3>1 DEF Holds, Beside
    <3>2. CASE m \notin st.moves
      BY <1>4, <2>2, <3>2 DEF LineMoved, Beside
    <3> QED
      BY <3>1, <3>2
  <2> QED
    BY <2>1, <2>2 DEF Holds
<1>8. ASSUME kind = "bill", NEW n \in N, NEW m \in t.moves, m.key = Key(r, n) PROVE m.value = lines[n].cost
  <2>1. PICK x \in t.moves : LineMoved(x, kind, lines[n], Key(r, n), day)
    BY <1>4
  <2>2. x = m
    BY <1>4, <1>8, <2>1 DEF Sound, Unique, LineMoved
  <2> QED
    BY <1>8, <2>1, <2>2 DEF LineMoved
<1> QED
  BY <1>4, <1>6, <1>7, <1>8 DEF AtCost, HaveMoved

\* The lines are saved with what their goods cost.
LEMMA SavedOK ==
  ASSUME NEW st, Sound(st), NEW r \in Records, NEW list, LinesOK(list), NEW kind \in RecordKinds,
         NEW status \in Statuses, kind \in {"sale", "bill"} => status = "SENT", NEW day \in Days,
         Holds(st.moves, r, list, Gone(status, list), day)
  PROVE  RecordOK([kind |-> kind, status |-> status, day |-> day, lines |-> WithCosts(st, r, list)], r, st.moves)
<1> DEFINE CostAt(key) == IF HasKey(st, key) THEN Abs((CHOOSE m \in st.moves : m.key = key).value) ELSE 0
           w == [n \in DOMAIN list |-> Line(list[n], list[n].stocked, CostAt(Key(r, n)))]
           S == Gone(status, list)
<1>1. WithCosts(st, r, list) = w
  BY DEF WithCosts
<1>2. /\ st.moves \subseteq Movement /\ \A m, n \in st.moves : m.key = n.key => m = n
  BY DEF Sound, Typed, Unique
<1>3. ASSUME NEW m \in st.moves PROVE CostAt(m.key) = Abs(m.value)
  <2> PICK c : c = CHOOSE x \in st.moves : x.key = m.key
    OBVIOUS
  <2>1. c \in st.moves /\ c.key = m.key
    OBVIOUS
  <2>2. c = m
    BY <1>2, <2>1
  <2>3. HasKey(st, m.key)
    BY DEF HasKey
  <2> QED
    BY <2>2, <2>3
<1>4. \A key : ~HasKey(st, key) => CostAt(key) = 0
  OBVIOUS
<1>5. ASSUME NEW key PROVE CostAt(key) \in Nat
  <2>1. CASE HasKey(st, key)
    <3>1. PICK m \in st.moves : m.key = key
      BY <2>1 DEF HasKey
    <3>2. CostAt(key) = Abs(m.value) /\ m.value \in Int
      BY <1>2, <1>3, <3>1 DEF Movement
    <3> HIDE DEF CostAt
    <3> QED
      BY <3>2 DEF Abs
  <2>2. CASE ~HasKey(st, key)
    BY <2>2
  <2> QED
    BY <2>1, <2>2
<1> HIDE DEF CostAt
<1>6. \A n \in DOMAIN list : /\ w[n].item = list[n].item /\ w[n].qty = list[n].qty /\ w[n].stocked = list[n].stocked
                             /\ w[n].cost = CostAt(Key(r, n)) /\ w[n] \in LineRow
  BY <1>5 DEF Line, LinesOK, LineRow
<1>7. DOMAIN w = DOMAIN list
  OBVIOUS
<1>8. w \in Seq(LineRow)
  <2>1. w \in [1..Len(list) -> LineRow]
    <3>1. DOMAIN list = 1..Len(list) /\ \A n \in DOMAIN list : w[n] \in LineRow
      BY <1>6 DEF LinesOK
    <3> HIDE DEF LineRow
    <3> QED
      BY <3>1
  <2> HIDE DEF w, LineRow
  <2> QED
    BY <2>1, SeqDef DEF LinesOK
<1> HIDE DEF w
<1>9. Gone(status, w) = S
  BY <1>6, <1>7 DEF Gone, Moving
<1>10. S \subseteq DOMAIN list
  BY DEF Gone, Moving
<1>11. Holds(st.moves, r, w, S, day)
  BY <1>6, <1>10 DEF Holds
<1>12. Costed(st.moves, r, w, S)
  <2>1. ASSUME NEW n \in S, NEW m \in st.moves, m.key = Key(r, n) PROVE w[n].cost = Abs(m.value)
    <3>1. CostAt(m.key) = Abs(m.value) /\ w[n].cost = CostAt(Key(r, n))
      BY <1>3, <1>6, <1>10
    <3> QED
      BY <2>1, <3>1
  <2>2. ASSUME NEW n \in DOMAIN w \ S PROVE w[n].cost = 0
    <3>1. ASSUME HasKey(st, Key(r, n)) PROVE FALSE
      <4>1. PICK m \in st.moves : m.key = Key(r, n)
        BY <3>1 DEF HasKey
      <4>2. PICK k \in S : m.key = Key(r, k)
        BY <4>1, KeysApart DEF Holds
      <4>3. k = n
        BY <4>1, <4>2 DEF Key
      <4> QED
        BY <2>2, <4>3
    <3> QED
      BY <1>4, <1>6, <1>7, <2>2, <3>1
  <2> QED
    BY <2>1, <2>2 DEF Costed
<1> PICK rec : rec = [kind |-> kind, status |-> status, day |-> day, lines |-> w]
  OBVIOUS
<1>13. rec.kind = kind /\ rec.status = status /\ rec.day = day /\ rec.lines = w
  OBVIOUS
<1>14. rec \in RecordRow
  BY <1>8 DEF RecordRow
<1>15. kind # "none"
  BY DEF RecordKinds
<1> HIDE DEF S
<1>16. RecordOK(rec, r, st.moves)
  BY <1>9, <1>11, <1>12, <1>13, <1>14, <1>15 DEF RecordOK
<1> QED
  BY <1>1, <1>16

\* A bill's lines are stocked lines, each with its cost.
LEMMA BillRows ==
  ASSUME NEW list \in BillLists
  PROVE  /\ DOMAIN BillLines(list) = DOMAIN list /\ LinesOK(BillLines(list)) /\ BillLines(list) \in Seq(LineRow)
         /\ \A n \in DOMAIN list : BillLines(list)[n].stocked /\ BillLines(list)[n].cost \in Nat /\ list[n].item \in Items
<1> PICK w : w = BillLines(list)
  OBVIOUS
<1>1. /\ Len(list) \in Nat /\ DOMAIN list = 1..Len(list)
      /\ \A n \in DOMAIN list : list[n] \in [item : Items, qty : Nat \ {0}, cost : Nat]
  <2> DEFINE R == [item : Items, qty : Nat \ {0}, cost : Nat]
  <2>1. list \in Seq(R)
    BY StockAssumption
  <2> HIDE DEF R
  <2>2. Len(list) \in Nat /\ DOMAIN list = 1..Len(list) /\ \A n \in DOMAIN list : list[n] \in R
    BY <2>1
  <2> QED
    BY <2>2 DEF R
<1>2. /\ DOMAIN w = DOMAIN list
      /\ \A n \in DOMAIN w : w[n].stocked /\ w[n].cost = list[n].cost /\ w[n] \in LineRow
  BY <1>1 DEF BillLines, Line, LineRow
<1>3. w \in Seq(LineRow)
  <2>1. w \in [1..Len(list) -> LineRow]
    <3> HIDE DEF LineRow
    <3>1. w = [n \in DOMAIN w |-> w[n]]
      BY DEF BillLines
    <3> QED
      BY <1>1, <1>2, <3>1
  <2> HIDE DEF LineRow
  <2> QED
    BY <1>1, <2>1, SeqDef
<1>4. LinesOK(w)
  BY <1>3, ListsOK
<1> QED
  BY <1>1, <1>2, <1>3, <1>4

\* A bill's lines say what they cost.
LEMMA BilledOK ==
  ASSUME NEW st, Sound(st), NEW r \in Records, NEW list \in BillLists, NEW day \in Days,
         Holds(st.moves, r, BillLines(list), DOMAIN list, day),
         AtCost(st.moves, r, BillLines(list), DOMAIN list)
  PROVE  RecordOK([kind |-> "bill", status |-> "SENT", day |-> day, lines |-> BillLines(list)], r, st.moves)
<1> PICK w : w = BillLines(list)
  OBVIOUS
<1>1. /\ DOMAIN w = DOMAIN list /\ w \in Seq(LineRow)
      /\ \A n \in DOMAIN list : w[n].stocked /\ w[n].cost \in Nat
  BY BillRows
<1>4. Gone("SENT", w) = DOMAIN list
  BY <1>1 DEF Gone, Moving, MovesStock
<1>5. Costed(st.moves, r, w, DOMAIN list)
  <2>1. \A n \in DOMAIN list : w[n].cost \in Nat /\ Abs(w[n].cost) = w[n].cost
    BY <1>1 DEF Abs
  <2> QED
    BY <1>1, <2>1 DEF Costed, AtCost
<1> PICK rec, kind, status : kind = "bill" /\ status = "SENT" /\ rec = [kind |-> kind, status |-> status, day |-> day, lines |-> w]
  OBVIOUS
<1>6. rec.kind = kind /\ rec.status = status /\ rec.day = day /\ rec.lines = w
  OBVIOUS
<1>7. kind \in RecordKinds /\ status \in Statuses /\ kind # "none"
  BY DEF RecordKinds, Statuses
<1>8. rec \in RecordRow
  BY <1>1, <1>7 DEF RecordRow
<1>9. RecordOK(rec, r, st.moves)
  BY <1>4, <1>5, <1>6, <1>7, <1>8 DEF RecordOK
<1> QED
  BY <1>9

\* A record that moves no goods is one without movements.
LEMMA ErasedOK == ASSUME NEW r, NEW M, OwnedBy(M, r) = {} PROVE RecordOK(NoRecord, r, M)
<1>1. Gone(NoRecord.status, NoRecord.lines) = {} /\ DOMAIN NoRecord.lines = {}
  BY DEF Gone, NoRecord, MovesStock
<1>2. NoRecord \in RecordRow
  <2>1. "none" \in RecordKinds \cup {"none"} /\ "none" \in Statuses /\ 1 \in Days /\ <<>> \in Seq(LineRow)
    BY StockAssumption DEF Statuses, Days
  <2> HIDE DEF LineRow
  <2> QED
    BY <2>1 DEF NoRecord, RecordRow
<1>3. NoRecord.kind = "none"
  BY DEF NoRecord
<1>4. Holds(M, r, NoRecord.lines, {}, NoRecord.day) /\ Costed(M, r, NoRecord.lines, {})
  BY <1>1 DEF OwnedBy, Holds, Costed
<1> QED
  BY <1>1, <1>2, <1>3, <1>4 DEF RecordOK

\* A record put on another day takes its movements with it.
LEMMA RedatedSound ==
  ASSUME StockInv, NEW r \in Records, NEW day \in Days, day > lockDay, record[r].day > lockDay, ~New(r)
  PROVE  LET t == Redated(Store, KeysOf(r), day)
         IN  /\ Sound(t) /\ t.ok /\ Only(moves, t.moves, r)
             /\ RecordOK([record[r] EXCEPT !.day = day], r, t.moves)
<1> DEFINE g == [m \in moves |-> IF m.key[1] = r THEN [m EXCEPT !.day = day] ELSE m]
<1> PICK t : t = Redated(Store, KeysOf(r), day)
  OBVIOUS
<1> PICK rec, S : rec = record[r] /\ S = Gone(rec.status, rec.lines)
  OBVIOUS
<1>1. /\ Sound(Store) /\ Store.moves = moves /\ Store.ok /\ moves \subseteq Movement /\ Unique(moves)
      /\ RecordOK(rec, r, moves)
  BY Start
<1>2. ASSUME NEW m \in moves
      PROVE  /\ g[m] \in Movement /\ g[m].key = m.key /\ g[m].item = m.item /\ g[m].qty = m.qty /\ g[m].value = m.value
             /\ m.key[1] = r => g[m].day = day
             /\ m.key[1] # r => g[m] = m
  BY <1>1 DEF Movement
<1>3. Retells(moves, g)
  BY <1>1, <1>2 DEF Retells, Unique
<1>4. AtKeys(Store, KeysOf(r)) = {m \in moves : m.key[1] = r} /\ \A m \in moves : m.key[1] = r => m.day = rec.day
  BY Owned DEF OwnedBy
<1>5. t = [Store EXCEPT !.moves = {g[m] : m \in moves}]
  <2> DEFINE T == {m \in moves : m.key[1] = r}
  <2>1. (moves \ T) \cup {[m EXCEPT !.day = day] : m \in T} = {g[m] : m \in moves}
    OBVIOUS
  <2>2. t = [Store EXCEPT !.moves = (moves \ T) \cup {[m EXCEPT !.day = day] : m \in T}]
    BY <1>1, <1>4 DEF Redated
  <2> HIDE DEF g, T
  <2> QED
    BY <2>1, <2>2
<1> HIDE DEF g
<1>6. Sound(t) /\ t.ok /\ t.moves = {g[m] : m \in moves}
  <2>1. Retold(Store, g, t)
    BY <1>1, <1>3, <1>5 DEF Retold
  <2> QED
    BY <1>1, <2>1, RetoldSound
<1>7. Only(moves, t.moves, r)
  <2>1. ASSUME NEW m \in moves \ t.moves PROVE m.key[1] = r /\ m.day > lockDay
    BY <1>2, <1>4, <1>6, <2>1
  <2>2. ASSUME NEW x \in t.moves \ moves PROVE x.key[1] = r /\ x.day > lockDay
    BY <1>2, <1>6, <2>2
  <2> QED
    BY <2>1, <2>2 DEF Only
<1>8. Holds(moves, r, rec.lines, S, rec.day) /\ Costed(moves, r, rec.lines, S)
  BY <1>1 DEF RecordOK
<1>9. Holds(t.moves, r, rec.lines, S, day) /\ Costed(t.moves, r, rec.lines, S)
  <2>1. ASSUME NEW n \in S
        PROVE  \E m \in t.moves : m.key = Key(r, n) /\ m.item = rec.lines[n].item /\ Abs(m.qty) = rec.lines[n].qty /\ m.day = day
    <3>1. PICK m \in moves : m.key = Key(r, n) /\ m.item = rec.lines[n].item /\ Abs(m.qty) = rec.lines[n].qty
      BY <1>8 DEF Holds
    <3>2. m.key[1] = r
      BY <3>1, KeysApart
    <3> QED
      BY <1>2, <1>6, <3>1, <3>2
  <2>2. ASSUME NEW x \in t.moves, x.key[1] = r PROVE \E n \in S : x.key = Key(r, n)
    BY <1>2, <1>6, <1>8, <2>2 DEF Holds
  <2>3. ASSUME NEW n \in S, NEW x \in t.moves, x.key = Key(r, n) PROVE rec.lines[n].cost = Abs(x.value)
    BY <1>2, <1>6, <1>8, <2>3 DEF Costed
  <2> QED
    BY <1>8, <2>1, <2>2, <2>3 DEF Holds, Costed
<1> PICK x : x = [rec EXCEPT !.day = day]
  OBVIOUS
<1>10. /\ x \in RecordRow /\ x.kind = rec.kind /\ x.status = rec.status /\ x.lines = rec.lines /\ x.day = day
  BY <1>1 DEF RecordOK, RecordRow
<1>11. rec.kind # "none" => RecordOK(x, r, t.moves)
  BY <1>1, <1>9, <1>10 DEF RecordOK
<1> QED
  BY <1>6, <1>7, <1>11 DEF New

-----------------------------------------------------------------------------
(* Requests about records *)

\* The lock date and what is remembered stay in their ranges.
LEMMA ApartOK == ASSUME StockInv, Request, Apart PROVE RestOK'
BY DEF StockInv, RestOK, Request, Apart

\* The lines of N move, of a record that had moved nothing.
MayStart(st, kind, r, lines, N, day) ==
  /\ Sound(st) /\ kind \in RecordKinds /\ r \in Records /\ LinesOK(lines) /\ day \in Days
  /\ N \subseteq DOMAIN lines /\ OwnedBy(st.moves, r) = {}
  /\ kind = "bill" => \A n \in N : lines[n].cost \in Nat
  /\ N # {} => day > lockDay

\* The same for a record that had moved nothing.
LEMMA FirstMoved ==
  ASSUME NEW st, NEW kind, NEW r, NEW lines, NEW N, NEW day, MayStart(st, kind, r, lines, N, day),
         NEW t, t = MoveLines(st, kind, r, lines, N, day), t.ok
  PROVE  /\ Sound(t) /\ Only(st.moves, t.moves, r) /\ Holds(t.moves, r, lines, N, day)
         /\ kind = "bill" => AtCost(t.moves, r, lines, N)
<1>1. PICK D, K : D = {} /\ K = {}
  OBVIOUS
<1>2. K \cup N = N /\ Beside(st.moves, D) = st.moves /\ Beside(t.moves, D) = t.moves
  BY <1>1 DEF Beside
<1>3. Holds(st.moves, r, lines, K, day)
  BY <1>1 DEF MayStart, Holds, OwnedBy
<1>4. MayMove(st, kind, r, lines, N, day, D, K)
  BY <1>1, <1>2, <1>3 DEF MayMove, MayStart
<1>5. HaveMoved(st, t, kind, r, lines, N, day, D, K)
  BY <1>4, LinesMoved
<1> QED
  BY <1>2, <1>5 DEF HaveMoved

\* A record without movements is saved, with the goods of its lines moved if its status moves goods.
LEMMA SentStep ==
  ASSUME StockInv, NEW r \in Records, OwnedBy(moves, r) = {}, NEW kind \in RecordKinds, kind # "bill",
         NEW status \in Statuses, kind = "sale" => status = "SENT", NEW day \in Days, NEW list, LinesOK(list),
         NEW st, st = IF MovesStock(status) THEN MoveLines(Store, kind, r, list, Moving(list), day) ELSE Store,
         MovesStock(status) /\ Moving(list) # {} => day > lockDay,
         Commit(st), Save(r, kind, status, day, WithCosts(st, r, list)), RestOK'
  PROVE  StockInv' /\ Frozen
<1> DEFINE S == Gone(status, list)
<1>1. Sound(Store) /\ Store.moves = moves
  BY Start
<1>2. S \subseteq DOMAIN list
  BY DEF Gone, Moving
<1>3. Sound(st) /\ Only(moves, st.moves, r) /\ Holds(st.moves, r, list, S, day)
  <2>1. Holds(moves, r, list, {}, day)
    BY DEF Holds, OwnedBy
  <2>2. CASE ~MovesStock(status)
    <3>1. S = {} /\ st = Store
      BY <2>2 DEF Gone
    <3> QED
      BY <1>1, <2>1, <3>1 DEF Only
  <2>3. CASE MovesStock(status)
    <3>1. S = Moving(list) /\ st = MoveLines(Store, kind, r, list, S, day)
      BY <2>3 DEF Gone
    <3>2. MayStart(Store, kind, r, list, S, day)
      <4>1. S # {} => day > lockDay
        BY <2>3, <3>1
      <4> HIDE DEF S
      <4> QED
        BY <1>1, <1>2, <4>1 DEF MayStart
    <3>3. PICK t : t = MoveLines(Store, kind, r, list, S, day)
      OBVIOUS
    <3>4. t = st /\ t.ok
      BY <3>1, <3>3 DEF Commit
    <3> HIDE DEF S
    <3>5. Sound(t) /\ Only(Store.moves, t.moves, r) /\ Holds(t.moves, r, list, S, day)
      BY <3>2, <3>3, <3>4, FirstMoved
    <3> QED
      BY <1>1, <3>4, <3>5
  <2> QED
    BY <2>2, <2>3
<1>4. PICK rec : rec = [kind |-> kind, status |-> status, day |-> day, lines |-> WithCosts(st, r, list)]
  OBVIOUS
<1>5. RecordOK(rec, r, st.moves)
  BY <1>3, <1>4, SavedOK
<1>6. shelf' = st.shelf /\ moves' = st.moves /\ record' = [record EXCEPT ![r] = rec]
  BY <1>4 DEF Commit, Save
<1> QED
  BY <1>3, <1>5, <1>6, RecordStep

\* A record keeps its movements under another status that moves goods.
LEMMA MovesKeptStep ==
  ASSUME StockInv, NEW r \in Records, NEW to \in Statuses, record[r].kind \in Documents,
         MovesStock(record[r].status), MovesStock(to), Commit(Store),
         Save(r, record[r].kind, to, record[r].day, WithCosts(Store, r, record[r].lines)), RestOK'
  PROVE  StockInv' /\ Frozen
<1>1. /\ Sound(Store) /\ Store.moves = moves /\ Store.shelf = shelf
      /\ RecordOK(record[r], r, moves)
  BY Start
<1>2. PICK kind, day, lines : kind = record[r].kind /\ day = record[r].day /\ lines = record[r].lines
  OBVIOUS
<1>3. /\ kind \in RecordKinds /\ kind \notin {"sale", "bill"} /\ day \in Days /\ LinesOK(lines)
  <2>1. lines \in Seq(LineRow) /\ day \in Days
    BY <1>1, <1>2 DEF RecordOK, RecordRow
  <2> QED
    BY <1>2, <2>1, ListsOK DEF Documents, RecordKinds
<1>4. Holds(moves, r, lines, Gone(to, lines), day)
  BY <1>1, <1>2 DEF RecordOK, Gone
<1>5. PICK rec : rec = [kind |-> kind, status |-> to, day |-> day, lines |-> WithCosts(Store, r, lines)]
  OBVIOUS
<1>6. RecordOK(rec, r, Store.moves)
  BY <1>1, <1>3, <1>4, <1>5, SavedOK
<1>7. shelf' = Store.shelf /\ moves' = Store.moves /\ record' = [record EXCEPT ![r] = rec] /\ Only(moves, Store.moves, r)
  BY <1>1, <1>2, <1>5 DEF Commit, Save, Only
<1> QED
  BY <1>1, <1>6, <1>7, RecordStep

\* A record's goods come back, or go back, and it stays or is gone.
LEMMA ReleasedStep ==
  ASSUME StockInv, NEW r \in Records, NEW st, st = RemoveBySource(Store, KeysOf(r)), record[r].day > lockDay,
         Commit(st), RestOK',
         \/ Erase(r)
         \/ /\ record[r].kind \in Documents
            /\ \E to \in Statuses : ~MovesStock(to) /\ Save(r, record[r].kind, to, record[r].day, WithCosts(st, r, record[r].lines))
  PROVE  StockInv' /\ Frozen
<1>1. shelf' = st.shelf /\ moves' = st.moves
  BY DEF Commit
<1>2. Sound(st) /\ Only(moves, st.moves, r) /\ OwnedBy(st.moves, r) = {}
  BY ReleasedSound DEF Commit
<1>3. CASE Erase(r)
  <2>1. PICK rec : rec = NoRecord
    OBVIOUS
  <2>2. record' = [record EXCEPT ![r] = rec] /\ RecordOK(rec, r, st.moves)
    BY <1>2, <1>3, <2>1, ErasedOK DEF Erase
  <2> QED
    BY <1>1, <1>2, <2>2, RecordStep
<1>4. CASE ~Erase(r)
  <2>1. PICK to \in Statuses : ~MovesStock(to) /\ Save(r, record[r].kind, to, record[r].day, WithCosts(st, r, record[r].lines))
    BY <1>4
  <2>2. PICK kind, day, lines : kind = record[r].kind /\ day = record[r].day /\ lines = record[r].lines
    OBVIOUS
  <2>3. RecordOK(record[r], r, moves)
    BY Start
  <2>4. kind \in RecordKinds /\ kind \notin {"sale", "bill"} /\ day \in Days /\ LinesOK(lines)
    <3>1. lines \in Seq(LineRow) /\ day \in Days
      BY <2>2, <2>3 DEF RecordOK, RecordRow
    <3> QED
      BY <1>4, <2>2, <3>1, ListsOK DEF Documents, RecordKinds
  <2>5. Holds(st.moves, r, lines, Gone(to, lines), day)
    BY <1>2, <2>1 DEF Gone, Holds, OwnedBy
  <2>6. PICK rec : rec = [kind |-> kind, status |-> to, day |-> day, lines |-> WithCosts(st, r, lines)]
    OBVIOUS
  <2>7. RecordOK(rec, r, st.moves)
    BY <1>2, <2>4, <2>5, <2>6, SavedOK
  <2>8. record' = [record EXCEPT ![r] = rec]
    BY <2>1, <2>2, <2>6 DEF Save
  <2> QED
    BY <1>1, <1>2, <2>7, <2>8, RecordStep
<1> QED
  BY <1>3, <1>4

\* A sale is made.
LEMMA CreateSaleKeeps ==
  ASSUME StockInv, NEW r \in Records, NEW day \in Days, NEW list \in Lists, CreateSale(r, day, list)
  PROVE  StockInv' /\ Frozen
<1> PICK kind, status, st :
      /\ kind = "sale" /\ status = "SENT"
      /\ st = IF MovesStock(status) THEN MoveLines(Store, kind, r, list, Moving(list), day) ELSE Store
  OBVIOUS
<1>1. /\ kind \in RecordKinds /\ kind # "bill" /\ status \in Statuses /\ LinesOK(list)
      /\ st = MoveLines(Store, "sale", r, list, Moving(list), day)
  BY ListsOK DEF RecordKinds, Statuses, MovesStock
<1>2. /\ OwnedBy(moves, r) = {} /\ day > lockDay /\ RestOK'
  BY Owned, ApartOK DEF CreateSale, Open
<1>3. Commit(st) /\ Save(r, kind, status, day, WithCosts(st, r, list))
  BY <1>1 DEF CreateSale
<1> QED
  BY <1>1, <1>2, <1>3, SentStep

\* A sale is put on another day.
LEMMA DateSaleKeeps ==
  ASSUME StockInv, NEW r \in Records, NEW day \in Days, DateSale(r, day)
  PROVE  StockInv' /\ Frozen
<1>1. day > lockDay /\ record[r].day > lockDay /\ ~New(r) /\ RestOK'
  BY ApartOK DEF DateSale, Open, Is, New
<1> PICK st, rec : st = Redated(Store, KeysOf(r), day) /\ rec = [record[r] EXCEPT !.day = day]
  OBVIOUS
<1>2. Sound(st) /\ Only(moves, st.moves, r) /\ RecordOK(rec, r, st.moves)
  BY <1>1, RedatedSound
<1>3. shelf' = st.shelf /\ moves' = st.moves /\ record' = [record EXCEPT ![r] = rec]
  BY DEF DateSale, Commit
<1> QED
  BY <1>1, <1>2, <1>3, RecordStep

\* A sale, a bill or a document is deleted.
LEMMA DeleteKeeps ==
  ASSUME StockInv, NEW r \in Records, DeleteSale(r) \/ DeleteBill(r) \/ DeleteDoc(r)
  PROVE  StockInv' /\ Frozen
<1> PICK st : st = RemoveBySource(Store, KeysOf(r))
  OBVIOUS
<1>1. Commit(st) /\ Erase(r) /\ record[r].day > lockDay /\ RestOK'
  BY ApartOK DEF DeleteSale, DeleteBill, DeleteDoc, Open, Released
<1> QED
  BY <1>1, ReleasedStep

\* An invoice or a credit note is written, sent or as a draft.
LEMMA CreateDocKeeps ==
  ASSUME StockInv, NEW r \in Records, NEW kind \in Documents, NEW day \in Days, NEW list \in Lists,
         NEW send \in BOOLEAN, CreateDoc(r, kind, day, list, send)
  PROVE  StockInv' /\ Frozen
<1> PICK status, st :
      /\ status = IF send THEN "SENT" ELSE "DRAFT"
      /\ st = IF MovesStock(status) THEN MoveLines(Store, kind, r, list, Moving(list), day) ELSE Store
  OBVIOUS
<1>1. /\ kind \in RecordKinds /\ kind # "bill" /\ kind # "sale" /\ status \in Statuses /\ LinesOK(list)
      /\ st = IF send THEN MoveLines(Store, kind, r, list, Moving(list), day) ELSE Store
  BY ListsOK DEF RecordKinds, Statuses, MovesStock, Documents
<1>2. /\ OwnedBy(moves, r) = {} /\ day > lockDay /\ RestOK'
  BY Owned, ApartOK DEF CreateDoc, Open
<1>3. Commit(st) /\ Save(r, kind, status, day, WithCosts(st, r, list))
  BY <1>1 DEF CreateDoc
<1> QED
  BY <1>1, <1>2, <1>3, SentStep

\* What a record saved is what its lines are.
LEMMA RowTypes ==
  ASSUME StockInv, NEW r \in Records
  PROVE  record[r].lines \in Seq(LineRow) /\ LinesOK(record[r].lines) /\ record[r].day \in Days
<1>1. record[r] \in RecordRow
  BY Start DEF RecordOK
<1>2. record[r].lines \in Seq(LineRow) /\ record[r].day \in Days
  BY <1>1 DEF RecordRow
<1> QED
  BY <1>2, ListsOK

\* A document is sent, redrafted or voided.
LEMMA SetStatusKeeps ==
  ASSUME StockInv, NEW r \in Records, NEW to \in {"SENT", "DRAFT", "VOID"}, SetStatus(r, to)
  PROVE  StockInv' /\ Frozen
<1> DEFINE cur == record[r]
<1>1. /\ cur.kind \in Documents /\ cur.day > lockDay /\ RestOK' /\ to \in Statuses
      /\ MovesStock(to) => ~MovesStock(cur.status)
  BY ApartOK DEF SetStatus, Open, Is, Statuses, MovesStock
<1>2. cur.kind \in RecordKinds /\ cur.kind # "bill" /\ cur.kind # "sale" /\ cur.day \in Days /\ LinesOK(cur.lines)
  BY <1>1, RowTypes DEF Documents, RecordKinds
<1>3. CASE MovesStock(cur.status)
  <2> PICK st : st = RemoveBySource(Store, KeysOf(r))
    OBVIOUS
  <2>1. Commit(st) /\ Save(r, cur.kind, to, cur.day, WithCosts(st, r, cur.lines)) /\ ~MovesStock(to)
    BY <1>1, <1>3 DEF SetStatus, Released
  <2> QED
    BY <1>1, <2>1, ReleasedStep
<1>4. CASE ~MovesStock(cur.status)
  <2> PICK kind, day, list, st :
        /\ kind = cur.kind /\ day = cur.day /\ list = cur.lines
        /\ st = IF MovesStock(to) THEN MoveLines(Store, kind, r, list, Moving(list), day) ELSE Store
    OBVIOUS
  <2>1. Commit(st) /\ Save(r, kind, to, day, WithCosts(st, r, list))
    BY <1>4 DEF SetStatus, MovedNow
  <2>2. OwnedBy(moves, r) = {}
    BY <1>4, Owned
  <2> QED
    BY <1>1, <1>2, <2>1, <2>2, SentStep
<1> QED
  BY <1>3, <1>4

\* A payment, which may send the document.
LEMMA PayKeeps ==
  ASSUME StockInv, NEW r \in Records, NEW to \in {"PARTIAL", "PAID"}, Pay(r, to)
  PROVE  StockInv' /\ Frozen
<1> DEFINE cur == record[r]
<1>1. cur.kind \in Documents /\ RestOK' /\ to \in Statuses /\ MovesStock(to)
  BY ApartOK DEF Pay, Is, Statuses, MovesStock, Documents
<1>2. cur.kind \in RecordKinds /\ cur.kind # "bill" /\ cur.kind # "sale" /\ cur.day \in Days /\ LinesOK(cur.lines)
  BY <1>1, RowTypes DEF Documents, RecordKinds
<1>3. CASE MovesStock(cur.status)
  <2>1. Commit(Store) /\ Save(r, cur.kind, to, cur.day, WithCosts(Store, r, cur.lines))
    BY <1>3 DEF Pay
  <2> QED
    BY <1>1, <1>3, <2>1, MovesKeptStep
<1>4. CASE ~MovesStock(cur.status)
  <2> PICK kind, day, list, st :
        /\ kind = cur.kind /\ day = cur.day /\ list = cur.lines
        /\ st = IF MovesStock(to) THEN MoveLines(Store, kind, r, list, Moving(list), day) ELSE Store
    OBVIOUS
  <2>1. /\ Commit(st) /\ Save(r, kind, to, day, WithCosts(st, r, list))
        /\ Moving(list) # {} => day > lockDay
    BY <1>1, <1>4 DEF Pay, MovedNow, Open
  <2>2. OwnedBy(moves, r) = {}
    BY <1>4, Owned
  <2> QED
    BY <1>1, <1>2, <2>1, <2>2, SentStep
<1> QED
  BY <1>3, <1>4

\* A payment undone.
LEMMA UndoPaymentKeeps ==
  ASSUME StockInv, NEW r \in Records, NEW to \in {"SENT", "PARTIAL"}, UndoPayment(r, to)
  PROVE  StockInv' /\ Frozen
<1> PICK rec, x : rec = record[r] /\ x = [rec EXCEPT !.status = to]
  OBVIOUS
<1>1. /\ Sound(Store) /\ Store.moves = moves /\ Store.shelf = shelf
      /\ RecordOK(rec, r, moves)
  BY Start
<1>2. /\ rec.kind \in Documents /\ MovesStock(rec.status) /\ MovesStock(to) /\ to \in Statuses /\ RestOK'
  BY ApartOK DEF UndoPayment, Is, MovesStock, Statuses
<1>3. x \in RecordRow /\ x.kind = rec.kind /\ x.status = to /\ x.day = rec.day /\ x.lines = rec.lines
  BY <1>1, <1>2 DEF RecordOK, RecordRow
<1>4. RecordOK(x, r, moves)
  BY <1>1, <1>2, <1>3 DEF RecordOK, Gone, Documents
<1>5. shelf' = Store.shelf /\ moves' = Store.moves /\ record' = [record EXCEPT ![r] = x] /\ Only(moves, Store.moves, r)
  BY <1>1 DEF UndoPayment, Only
<1> QED
  BY <1>1, <1>2, <1>4, <1>5, RecordStep

\* What is bought comes in, on a bill of another's day or lines.
LEMMA BoughtStep ==
  ASSUME StockInv, NEW r \in Records, NEW list \in BillLists, NEW day \in Days, day > lockDay,
         NEW st, Sound(st), OwnedBy(st.moves, r) = {}, Only(moves, st.moves, r),
         Commit(Bought(st, r, list, day)), Save(r, "bill", "SENT", day, BillLines(list)), RestOK'
  PROVE  StockInv' /\ Frozen
<1> PICK kind, lines, N, t :
      kind = "bill" /\ lines = BillLines(list) /\ N = DOMAIN list /\ t = MoveLines(st, kind, r, lines, N, day)
  OBVIOUS
<1>1. t = Bought(st, r, list, day)
  BY DEF Bought
<1>2. MayStart(st, kind, r, lines, N, day)
  <2>1. LinesOK(lines) /\ N \subseteq DOMAIN lines /\ \A n \in N : lines[n].cost \in Nat
    BY BillRows
  <2>2. kind \in RecordKinds
    BY DEF RecordKinds
  <2> QED
    BY <2>1, <2>2 DEF MayStart
<1>3. shelf' = t.shelf /\ moves' = t.moves /\ t.ok
  BY <1>1 DEF Commit
<1>4. Sound(t) /\ Only(st.moves, t.moves, r) /\ Holds(t.moves, r, lines, N, day) /\ AtCost(t.moves, r, lines, N)
  BY <1>2, <1>3, FirstMoved
<1>5. PICK rec : rec = [kind |-> "bill", status |-> "SENT", day |-> day, lines |-> BillLines(list)]
  OBVIOUS
<1>6. RecordOK(rec, r, t.moves)
  BY <1>4, <1>5, BilledOK
<1>7. record' = [record EXCEPT ![r] = rec]
  BY <1>5 DEF Save
<1>8. Only(moves, t.moves, r)
  BY <1>4, OnlyThen
<1> QED
  BY <1>3, <1>4, <1>6, <1>7, <1>8, RecordStep

\* What a bill remembers of costs stays in its range ...
LEMMA PricedOK ==
  ASSUME StockInv, NEW list \in BillLists, Request, Priced(list), UNCHANGED <<lockDay, answered>>
  PROVE  RestOK'
<1>1. {list[n].item : n \in DOMAIN list} \subseteq Items
  BY BillRows
<1>2. costed' \subseteq Items
  BY <1>1 DEF Priced, StockInv, RestOK
<1> QED
  BY <1>2 DEF StockInv, RestOK, Request

\* A restock is written.
LEMMA CreateBillKeeps ==
  ASSUME StockInv, NEW r \in Records, NEW day \in Days, NEW list \in BillLists, CreateBill(r, day, list)
  PROVE  StockInv' /\ Frozen
<1> PICK st : st = Store
  OBVIOUS
<1>1. /\ Sound(st) /\ st.moves = moves /\ day > lockDay /\ OwnedBy(moves, r) = {} /\ RestOK'
  BY Start, Owned, PricedOK DEF CreateBill, Open
<1>2. Only(moves, st.moves, r) /\ OwnedBy(st.moves, r) = {}
  BY <1>1 DEF Only
<1>3. Commit(Bought(st, r, list, day)) /\ Save(r, "bill", "SENT", day, BillLines(list))
  BY DEF CreateBill
<1> QED
  BY <1>1, <1>2, <1>3, BoughtStep

\* A restock is edited: as it was on another day, or what it brought undone and bought anew.
LEMMA EditBillKeeps ==
  ASSUME StockInv, NEW r \in Records, NEW day \in Days, NEW list \in BillLists, EditBill(r, day, list)
  PROVE  StockInv' /\ Frozen
<1>1. /\ record[r].kind = "bill" /\ day > lockDay /\ record[r].day > lockDay /\ RestOK'
  BY PricedOK DEF EditBill, Open, Is
<1>2. CASE BillLines(list) = record[r].lines
  <2>1. Commit(Redated(Store, KeysOf(r), day)) /\ Save(r, "bill", "SENT", day, record[r].lines)
    BY <1>2 DEF EditBill
  <2> PICK st, cur, rec : st = Redated(Store, KeysOf(r), day) /\ cur = record[r] /\ rec = [cur EXCEPT !.day = day]
    OBVIOUS
  <2>2. Sound(st) /\ Only(moves, st.moves, r) /\ RecordOK(rec, r, st.moves)
    BY <1>1, RedatedSound DEF New
  <2>3. cur \in RecordRow /\ cur.kind = "bill" /\ cur.status = "SENT"
    BY <1>1, Start DEF RecordOK
  <2>4. rec = [kind |-> "bill", status |-> "SENT", day |-> day, lines |-> cur.lines]
    BY <2>3 DEF RecordRow
  <2>5. shelf' = st.shelf /\ moves' = st.moves /\ record' = [record EXCEPT ![r] = rec]
    BY <2>1, <2>4 DEF Commit, Save
  <2> QED
    BY <1>1, <2>2, <2>5, RecordStep
<1>3. CASE BillLines(list) # record[r].lines
  <2> PICK st : st = RemoveBySource(Store, KeysOf(r))
    OBVIOUS
  <2>1. st.ok /\ Commit(Bought(st, r, list, day)) /\ Save(r, "bill", "SENT", day, BillLines(list))
    BY <1>3 DEF EditBill
  <2>2. Sound(st) /\ Only(moves, st.moves, r) /\ OwnedBy(st.moves, r) = {}
    BY <1>1, <2>1, ReleasedSound
  <2> QED
    BY <1>1, <2>1, <2>2, BoughtStep
<1> QED
  BY <1>2, <1>3

-----------------------------------------------------------------------------
(* Requests about items *)

\* Another row for an item, that agrees with its movements.
LEMMA RowSound ==
  ASSUME StockInv, NEW i \in Items, NEW x \in ItemRow, Agrees(x, Mine(moves, i)),
         NEW st, st = [shelf |-> [shelf EXCEPT ![i] = x], moves |-> moves, ok |-> TRUE]
  PROVE  Sound(st) /\ st.moves = moves /\ st.shelf = [shelf EXCEPT ![i] = x] /\ st.ok /\ Only(moves, st.moves, i)
<1>1. /\ Sound(Store) /\ Store.shelf = shelf /\ Store.moves = moves /\ moves \subseteq Movement /\ Unique(moves)
      /\ shelf \in [Items -> ItemRow]
  BY Start
<1>2. PICK sh : sh = [shelf EXCEPT ![i] = x]
  OBVIOUS
<1>3. sh \in [Items -> ItemRow] /\ \A j \in Items : sh[j] = IF j = i THEN x ELSE shelf[j]
  BY <1>1, <1>2
<1>4. st = [shelf |-> sh, moves |-> moves, ok |-> TRUE]
  BY <1>2
<1>5. st.shelf = sh /\ st.moves = moves /\ st.ok /\ Typed(st)
  BY <1>1, <1>3, <1>4 DEF Typed
<1>6. \A j \in Items : Agrees(st.shelf[j], Mine(st.moves, j))
  BY <1>1, <1>3, <1>5 DEF Sound
<1> QED
  BY <1>1, <1>2, <1>5, <1>6 DEF Sound, Only

\* What the items' requests remember.
LEMMA CostOK ==
  ASSUME StockInv, NEW i \in Items, NEW cost, Request, Cost(cost, i), UNCHANGED <<lockDay, answered>>
  PROVE  RestOK'
BY DEF StockInv, RestOK, Request, Cost

\* ... and so does what an adjustment remembers.
LEMMA AnswerOK ==
  ASSUME StockInv, NEW i \in Items, NEW k \in Keys, Request, answered' = answered \cup {<<i, k>>},
         UNCHANGED <<lockDay, costed>>
  PROVE  RestOK'
BY DEF StockInv, RestOK, Request

\* A store of the item's, committed.
LEMMA ItemWrote ==
  ASSUME StockInv, NEW i \in Items, NEW st, Sound(st), Only(moves, st.moves, i), Commit(st), record' = record, RestOK'
  PROVE  StockInv' /\ Frozen
<1>1. shelf' = st.shelf /\ moves' = st.moves
  BY DEF Commit
<1> QED
  BY <1>1, ItemStep

\* An adjustment, or a count.
LEMMA AdjustKeeps ==
  ASSUME StockInv, NEW i \in Items, NEW k \in Keys, NEW q \in Changes, NEW day \in Days, Adjust(i, k, q, day)
  PROVE  StockInv' /\ Frozen
<1> PICK st, t, key : st = Store /\ key = AdjKey(i, k) /\ t = Adjusted(st, key, i, q, day)
  OBVIOUS
<1>1. Sound(st) /\ st.moves = moves /\ key \in MoveKeys /\ key[1] = i /\ q \in Int \ {0}
  BY Start, KeysType, StockAssumption DEF AdjKey
<1>2. Sound(t) /\ MayWrite(st, t, key, i, day)
  BY <1>1, AdjustedSound
<1>3. Commit(t) /\ t.ok /\ day > lockDay /\ record' = record /\ RestOK'
  BY AnswerOK DEF Adjust, Commit, Open
<1>4. Only(moves, t.moves, i)
  BY <1>1, <1>2, <1>3, AddsOnly
<1> QED
  BY <1>2, <1>3, <1>4, ItemWrote

\* A count moves what is missing or found, once a key.
LEMMA CountKeeps ==
  ASSUME StockInv, NEW i \in Items, NEW k \in Keys, NEW q \in Counts, NEW day \in Days, Count(i, k, q, day)
  PROVE  StockInv' /\ Frozen
<1> PICK st, t, key : st = Store /\ key = AdjKey(i, k) /\ t = Counted(st, key, i, q, day)
  OBVIOUS
<1>1. Sound(st) /\ st.moves = moves /\ key \in MoveKeys /\ key[1] = i /\ q \in Nat
  BY Start, KeysType, StockAssumption DEF AdjKey
<1>2. Sound(t) /\ MayWrite(st, t, key, i, day)
  BY <1>1, CountedSound
<1>3. Commit(t) /\ t.ok /\ day > lockDay /\ record' = record /\ RestOK'
  BY AnswerOK DEF Count, Commit, Open
<1>4. Only(moves, t.moves, i)
  BY <1>1, <1>2, <1>3, AddsOnly
<1> QED
  BY <1>2, <1>3, <1>4, ItemWrote

\* Today is a day.
LEMMA TodayIsADay == Today \in Days
BY StockAssumption DEF Days

\* The cost of stock set up or changed.
LEMMA SetUpValueKeeps ==
  ASSUME StockInv, NEW i \in Items, NEW cost \in Costs, SetUpValue(i, cost)
  PROVE  StockInv' /\ Frozen
<1>1. PICK k \in Fresh(i) : Commit(Revalue(Store, AdjKey(i, k), i, cost))
  BY DEF SetUpValue
<1> PICK st, t, key, day : st = Store /\ key = AdjKey(i, k) /\ t = Revalue(st, key, i, cost) /\ day = Today
  OBVIOUS
<1>2. Sound(st) /\ st.moves = moves /\ key \in MoveKeys /\ key[1] = i /\ ~HasKey(st, key) /\ cost \in Nat
  BY Start, KeysType, StockAssumption DEF AdjKey, Fresh
<1>3. Sound(t) /\ MayWrite(st, t, key, i, day)
  BY <1>2, RevalueSound, TodayIsADay
<1>4. Commit(t) /\ t.ok /\ day > lockDay /\ record' = record /\ RestOK'
  BY <1>1, CostOK DEF SetUpValue, Commit, Open
<1>5. Only(moves, t.moves, i)
  BY <1>2, <1>3, <1>4, AddsOnly
<1> QED
  BY <1>3, <1>4, <1>5, ItemWrote

\* A cost of nothing on the shelf moves nothing.
LEMMA RevaluesNothing ==
  ASSUME NEW st, Sound(st), NEW key, NEW i \in Items, NEW cost \in Nat, st.shelf[i].qty = 0
  PROVE  Revalue(st, key, i, cost).moves = st.moves
<1> DEFINE t == Revalue(st, key, i, cost)
<1>1. t = Refused(st) \/ t = [st EXCEPT !.shelf[i].avg = Whole(cost)]
  BY DEF Revalue
<1>2. Refused(st).moves = st.moves /\ [st EXCEPT !.shelf[i].avg = Whole(cost)].moves = st.moves
  BY DEF Refused, Sound, Typed
<1> HIDE DEF t
<1>3. t.moves = st.moves
  BY <1>1, <1>2
<1> QED
  BY <1>3 DEF t

\* An item is opened, with or without goods.
LEMMA CreateItemKeeps ==
  ASSUME StockInv, NEW i \in Items, NEW cost \in Costs \cup {None}, NEW q \in Counts, CreateItem(i, q, cost)
  PROVE  StockInv' /\ Frozen
<1> PICK key, day : key = <<i, 1, 0>> /\ day = Today
  OBVIOUS
<1>0. key \in MoveKeys /\ key[1] = i /\ day \in Days /\ q \in Nat
  BY KeysType, TodayIsADay, StockAssumption
<1>1. /\ shelf[i].state = "none" /\ record' = record /\ RestOK' /\ (q > 0 => day > lockDay)
  BY CostOK DEF CreateItem, Open
<1>9. PICK x, new : x = [NoItem EXCEPT !.state = "open"] /\ new = [shelf |-> [shelf EXCEPT ![i] = x], moves |-> moves, ok |-> TRUE]
  OBVIOUS
<1>2. [Store EXCEPT !.shelf = [@ EXCEPT ![i] = [NoItem EXCEPT !.state = "open"]]] = new
  <2>1. PICK s, sh : s = Store /\ sh = [shelf EXCEPT ![i] = x]
    OBVIOUS
  <2>2. Sound(s) /\ s.shelf = shelf /\ s.moves = moves /\ s.ok = TRUE
    BY <2>1, Start DEF Store
  <2>3. PICK w : w = [s EXCEPT !.shelf = sh]
    OBVIOUS
  <2>4. w = [shelf |-> sh, moves |-> moves, ok |-> TRUE]
    BY <2>2, <2>3 DEF Sound, Typed
  <2>5. [s EXCEPT !.shelf = [@ EXCEPT ![i] = x]] = w
    BY <2>1, <2>2, <2>3
  <2> QED
    BY <1>9, <2>1, <2>4, <2>5
<1>3. x \in ItemRow /\ x.qty = 0 /\ x.value = 0 /\ x.state = "open"
  BY <1>9 DEF NoItem, ItemRow
<1>4. /\ Sound(new) /\ new.moves = moves /\ Only(moves, new.moves, i) /\ new.shelf[i] = x
  <2>1. Agrees(shelf[i], Mine(moves, i)) /\ shelf \in [Items -> ItemRow]
    BY Start DEF Sound
  <2>2. Agrees(x, Mine(moves, i))
    BY <1>1, <1>3, <2>1, TotalsEmpty DEF Agrees
  <2> QED
    BY <1>3, <1>9, <2>1, <2>2, RowSound
<1>5. CASE q > 0
  <2> PICK kind, value, known, st :
        /\ kind = "opening" /\ value = IF cost = None THEN 0 ELSE q * cost
        /\ known = (cost # None) /\ st = PutIn(new, key, kind, i, q, value, known, day)
    OBVIOUS
  <2>1. kind \in MoveKinds /\ value \in Nat /\ q \in Nat \ {0}
    <3>1. cost # None => cost \in Nat
      BY StockAssumption
    <3> QED
      BY <1>0, <1>5, <3>1 DEF MoveKinds
  <2>2. Commit(st)
    BY <1>2, <1>5 DEF CreateItem
  <2>3. Sound(st) /\ Writes(new, st, key, i, q, day)
    BY <1>0, <1>4, <2>1, PutInSound
  <2>4. MayWrite(new, st, key, i, day)
    BY <2>3, WritesAdds
  <2>5. Only(new.moves, st.moves, i)
    BY <1>0, <1>1, <1>5, <2>2, <2>4, AddsOnly DEF Commit
  <2> QED
    BY <1>1, <1>4, <2>2, <2>3, <2>5, ItemWrote
<1>6. CASE ~(q > 0) /\ cost # None
  <2>0. PICK none, st : none = None /\ st = Revalue(new, none, i, cost)
    OBVIOUS
  <2>1. Commit(st) /\ cost \in Nat
    BY <1>2, <1>6, <2>0, StockAssumption DEF CreateItem
  <2>2. new.shelf[i].qty = 0
    BY <1>3, <1>4
  <2>3. Sound(st) /\ st.moves = moves
    BY <1>4, <2>0, <2>1, <2>2, RevalueSound, RevaluesNothing, TodayIsADay
  <2> QED
    BY <1>1, <1>4, <2>1, <2>3, ItemWrote
<1>7. CASE ~(q > 0) /\ cost = None
  <2>1. Commit(new)
    BY <1>2, <1>7 DEF CreateItem
  <2> QED
    BY <1>1, <1>4, <2>1, ItemWrote
<1> QED
  BY <1>5, <1>6, <1>7

\* A new cost and a count, in that order.
LEMMA EditItemKeeps ==
  ASSUME StockInv, NEW i \in Items, NEW cost \in Costs \cup {None}, NEW q \in Counts \cup {None}, EditItem(i, cost, q)
  PROVE  StockInv' /\ Frozen
<1>1. PICK k1 \in Fresh(i), k2 \in Fresh(i) :
        LET st == IF cost = None THEN Store ELSE Revalue(Store, AdjKey(i, k1), i, cost)
        IN  /\ Open({Today}) /\ st.ok
            /\ Commit(IF q = None THEN st ELSE Counted(st, AdjKey(i, k2), i, q, Today))
            /\ Cost(cost, i) /\ UNCHANGED <<record, lockDay, answered>>
  BY DEF EditItem
<1> PICK s, key1, key2, day, st, t :
      /\ s = Store /\ key1 = AdjKey(i, k1) /\ key2 = AdjKey(i, k2) /\ day = Today
      /\ st = IF cost = None THEN s ELSE Revalue(s, key1, i, cost)
      /\ t = IF q = None THEN st ELSE Counted(st, key2, i, q, day)
  OBVIOUS
<1>2. /\ Sound(s) /\ s.moves = moves
      /\ key1 \in MoveKeys /\ key1[1] = i /\ ~HasKey(s, key1) /\ key2 \in MoveKeys /\ key2[1] = i
      /\ cost # None => cost \in Nat
      /\ q # None => q \in Nat
      /\ day \in Days
  BY Start, KeysType, TodayIsADay, StockAssumption DEF AdjKey, Fresh
<1>3. Commit(t) /\ t.ok /\ st.ok /\ day > lockDay /\ record' = record /\ RestOK'
  <2>1. Request
    BY DEF EditItem
  <2> QED
    BY <1>1, <2>1, CostOK DEF Commit, Open
<1>4. Sound(st) /\ Only(moves, st.moves, i)
  <2>1. CASE cost = None
    <3>1. st = s
      BY <2>1
    <3> QED
      BY <1>2, <3>1 DEF Only
  <2>2. CASE cost # None
    <3>1. PICK u : u = Revalue(s, key1, i, cost)
      OBVIOUS
    <3>2. Sound(u) /\ MayWrite(s, u, key1, i, day) /\ u = st
      BY <1>2, <2>2, <3>1, RevalueSound
    <3> QED
      BY <1>2, <1>3, <3>2, AddsOnly
  <2> QED
    BY <2>1, <2>2
<1>5. Sound(t) /\ Only(st.moves, t.moves, i)
  <2>1. CASE q = None
    <3>1. t = st
      BY <2>1
    <3> QED
      BY <1>4, <3>1 DEF Only
  <2>2. CASE q # None
    <3>1. PICK u : u = Counted(st, key2, i, q, day)
      OBVIOUS
    <3>2. Sound(u) /\ MayWrite(st, u, key2, i, day) /\ u = t
      BY <1>2, <1>4, <2>2, <3>1, CountedSound
    <3> QED
      BY <1>2, <1>3, <3>2, AddsOnly
  <2> QED
    BY <2>1, <2>2
<1>6. Only(moves, t.moves, i)
  BY <1>4, <1>5, OnlyThen
<1> QED
  BY <1>3, <1>5, <1>6, ItemWrote

\* An item put away, or taken up again.
LEMMA ArchiveKeeps ==
  ASSUME StockInv, NEW i \in Items, Archive(i)
  PROVE  StockInv' /\ Frozen
<1> PICK s, x : s = shelf[i] /\ x = [s EXCEPT !.state = IF s.state = "open" THEN "archived" ELSE "open"]
  OBVIOUS
<1> PICK st : st = [shelf |-> [shelf EXCEPT ![i] = x], moves |-> moves, ok |-> TRUE]
  OBVIOUS
<1>1. s \in ItemRow /\ Agrees(s, Mine(moves, i)) /\ s.state # "none"
  BY Start DEF Sound, Archive
<1>2. x \in ItemRow /\ x.qty = s.qty /\ x.value = s.value /\ x.state # "none"
  BY <1>1 DEF ItemRow
<1>3. Agrees(x, Mine(moves, i))
  BY <1>1, <1>2 DEF Agrees
<1>4. Sound(st) /\ st.moves = moves /\ st.shelf = [shelf EXCEPT ![i] = x] /\ st.ok /\ Only(moves, st.moves, i)
  BY <1>2, <1>3, RowSound
<1>5. shelf' = [shelf EXCEPT ![i] = x] /\ moves' = moves /\ record' = record /\ RestOK'
  BY DEF Archive, StockInv, RestOK, Request
<1> QED
  BY <1>4, <1>5, ItemStep

\* What changes nothing of the movements closes no day's.
LEMMA SameMoves == ASSUME moves' = moves PROVE Frozen
BY DEF Frozen

\* An item without movements is gone, and no line moves it any more.
LEMMA DeleteItemKeeps ==
  ASSUME StockInv, NEW i \in Items, DeleteItem(i)
  PROVE  StockInv' /\ Frozen
<1> PICK st, x : x = NoItem /\ st = [shelf |-> [shelf EXCEPT ![i] = x], moves |-> moves, ok |-> TRUE]
  OBVIOUS
<1>1. Mine(moves, i) = {} /\ moves' = moves
  BY DEF DeleteItem, Mine
<1>2. x \in ItemRow /\ Agrees(x, Mine(moves, i))
  <2>1. x.qty = 0 /\ x.value = 0 /\ x.state = "none" /\ x \in ItemRow
    BY DEF NoItem, ItemRow
  <2> QED
    BY <1>1, <2>1, TotalsEmpty DEF Agrees
<1>3. Sound(st) /\ st.moves = moves /\ st.shelf = [shelf EXCEPT ![i] = x]
  BY <1>2, RowSound
<1>4. shelf' = st.shelf /\ moves' = st.moves
  BY <1>1, <1>3 DEF DeleteItem
<1>5. Sound(Store)'
  BY <1>3, <1>4, CommittedSound DEF Store
<1>6. RestOK'
  BY DEF DeleteItem, StockInv, RestOK, Request
<1>8. ASSUME NEW r \in Records PROVE RecordOK(record'[r], r, moves)
  <2>0. PICK rec, lines, new, y :
        /\ rec = record[r] /\ lines = rec.lines
        /\ new = [n \in DOMAIN lines |-> IF lines[n].item = i THEN [lines[n] EXCEPT !.stocked = FALSE] ELSE lines[n]]
        /\ y = [rec EXCEPT !.lines = new]
    OBVIOUS
  <2>1. record'[r] = y
    BY <2>0 DEF DeleteItem
  <2>2. RecordOK(rec, r, moves)
    BY <2>0, Start
  <2>3. lines \in Seq(LineRow) /\ LinesOK(lines)
    BY <2>0, RowTypes
  <2>4. DOMAIN new = DOMAIN lines
    BY <2>0
  <2>5. ASSUME NEW n \in DOMAIN lines
        PROVE  /\ new[n] \in LineRow /\ new[n].item = lines[n].item /\ new[n].qty = lines[n].qty /\ new[n].cost = lines[n].cost
               /\ new[n].stocked = IF lines[n].item = i THEN FALSE ELSE lines[n].stocked
    <3>1. PICK l : l = lines[n]
      OBVIOUS
    <3>2. l \in LineRow
      <4> HIDE DEF LineRow
      <4> QED
        BY <2>3, <3>1
    <3>3. PICK k : k = [l EXCEPT !.stocked = FALSE]
      OBVIOUS
    <3>4. k \in LineRow /\ k.item = l.item /\ k.qty = l.qty /\ k.cost = l.cost /\ k.stocked = FALSE
      BY <3>2, <3>3 DEF LineRow
    <3>5. new[n] = IF l.item = i THEN k ELSE l
      BY <2>0, <3>1, <3>3
    <3> QED
      BY <3>1, <3>2, <3>4, <3>5
  <2>6. new \in Seq(LineRow)
    <3> HIDE DEF LineRow
    <3>1. new \in [1..Len(lines) -> LineRow] /\ Len(lines) \in Nat
      <4>1. new = [n \in DOMAIN new |-> new[n]]
        BY <2>0
      <4> QED
        BY <2>3, <2>4, <2>5, <4>1 DEF LinesOK
    <3> QED
      BY <3>1, SeqDef
  <2>7. \A n \in Gone(rec.status, lines) : n \in DOMAIN lines /\ lines[n].item # i
    <3>1. \A n \in Gone(rec.status, lines) : \E m \in moves : m.item = lines[n].item
      BY <2>0, <2>2 DEF RecordOK, Holds
    <3>2. \A m \in moves : m.item # i
      BY DEF DeleteItem
    <3> QED
      BY <3>1, <3>2 DEF Gone, Moving
  <2>8. Gone(rec.status, new) = Gone(rec.status, lines)
    BY <2>4, <2>5, <2>7 DEF Gone, Moving
  <2>9. rec \in RecordRow
    BY <2>2 DEF RecordOK
  <2>10. /\ y \in RecordRow /\ y.kind = rec.kind /\ y.status = rec.status /\ y.day = rec.day /\ y.lines = new
    BY <2>0, <2>6, <2>9 DEF RecordRow
  <2>11. Holds(moves, r, new, Gone(rec.status, new), rec.day) /\ Costed(moves, r, new, Gone(rec.status, new))
    <3>1. Holds(moves, r, lines, Gone(rec.status, lines), rec.day) /\ Costed(moves, r, lines, Gone(rec.status, lines))
      BY <2>0, <2>2 DEF RecordOK
    <3>2. Holds(moves, r, new, Gone(rec.status, lines), rec.day)
      <4>1. ASSUME NEW n \in Gone(rec.status, lines)
            PROVE  \E m \in moves : /\ m.key = Key(r, n) /\ m.item = new[n].item
                                    /\ Abs(m.qty) = new[n].qty /\ m.day = rec.day
        <5>1. new[n].item = lines[n].item /\ new[n].qty = lines[n].qty
          BY <2>5, <2>7
        <5> QED
          BY <3>1, <5>1 DEF Holds
      <4> QED
        BY <3>1, <4>1 DEF Holds
    <3>3. Costed(moves, r, new, Gone(rec.status, lines))
      BY <2>4, <2>5, <2>7, <3>1 DEF Costed
    <3> QED
      BY <2>8, <3>2, <3>3
  <2>12. rec.kind = "none" => y = NoRecord
    <3>1. ASSUME rec.kind = "none" PROVE y = NoRecord
      <4>1. rec = NoRecord /\ lines = <<>>
        BY <2>0, <2>2, <3>1 DEF RecordOK, NoRecord
      <4>2. new = <<>>
        BY <2>4, <2>6, <4>1
      <4> QED
        BY <2>0, <4>1, <4>2 DEF NoRecord
    <3> QED
      BY <3>1
  <2>13. rec.kind \in {"sale", "bill"} => rec.status = "SENT"
    BY <2>2 DEF RecordOK
  <2>14. RecordOK(y, r, moves)
    BY <2>10, <2>11, <2>12, <2>13 DEF RecordOK
  <2> QED
    BY <2>1, <2>14
<1>7. \A r \in Records : RecordOK(record'[r], r, moves')
  BY <1>1, <1>8
<1>9. record' \in [Records -> RecordRow]
  <2>1. \A r \in Records : record'[r] \in RecordRow
    BY <1>8 DEF RecordOK
  <2>2. record' = [r \in Records |-> record'[r]]
    BY DEF DeleteItem
  <2> QED
    BY <2>1, <2>2
<1> QED
  BY <1>1, <1>5, <1>6, <1>7, <1>9, SameMoves DEF StockInv

\* The books are closed to another day.
LEMMA LockDaysKeeps ==
  ASSUME StockInv, NEW day \in 0..(Today - 1), LockDays(day)
  PROVE  StockInv' /\ Frozen
<1>1. moves' = moves /\ shelf' = shelf /\ record' = record
  BY DEF LockDays
<1>2. RestOK'
  BY StockAssumption DEF LockDays, StockInv, RestOK, Request
<1>3. Store' = Store
  BY <1>1 DEF Store
<1> QED
  BY <1>1, <1>2, <1>3, SameMoves DEF StockInv

\* A step that changes nothing.
LEMMA StillKeeps == ASSUME StockInv, UNCHANGED stockVars PROVE StockInv' /\ Frozen
<1>1. moves' = moves /\ Store' = Store /\ RestOK'
  BY DEF stockVars, Store, StockInv, RestOK
<1> QED
  BY <1>1, SameMoves DEF StockInv, stockVars

\* At first there is nothing, and nothing is missing.
LEMMA StockInitOK == ASSUME StockInit PROVE StockInv
<1>1. /\ shelf = [i \in Items |-> NoItem] /\ moves = {} /\ record = [r \in Records |-> NoRecord]
      /\ Store = [shelf |-> shelf, moves |-> moves, ok |-> TRUE]
  BY DEF StockInit, Store
<1> PICK st : st = Store
  OBVIOUS
<1>2. NoItem \in ItemRow /\ NoItem.qty = 0 /\ NoItem.value = 0
  BY DEF NoItem, ItemRow
<1>3. st.shelf = shelf /\ st.moves = {} /\ shelf \in [Items -> ItemRow] /\ Typed(st)
  BY <1>1, <1>2 DEF Typed
<1>4. Unique(st.moves) /\ \A i \in Items : Agrees(st.shelf[i], Mine(st.moves, i))
  <2>1. \A i : Mine({}, i) = {}
    BY DEF Mine
  <2>2. Unique({})
    BY FS_EmptySet DEF Unique
  <2> QED
    BY <1>1, <1>2, <1>3, <2>1, <2>2, TotalsEmpty DEF Agrees
<1>5. Sound(Store)
  BY <1>3, <1>4 DEF Sound
<1>6. RestOK
  BY StockAssumption DEF StockInit, RestOK
<1>7. \A r \in Records : RecordOK(record[r], r, moves)
  BY <1>1, ErasedOK DEF OwnedBy
<1>8. record \in [Records -> RecordRow]
  <2>1. \A r \in Records : record[r] \in RecordRow
    BY <1>7 DEF RecordOK
  <2>2. record = [r \in Records |-> record[r]]
    BY <1>1
  <2> QED
    BY <2>1, <2>2
<1> QED
  BY <1>5, <1>6, <1>7, <1>8 DEF StockInv

-----------------------------------------------------------------------------
(* A document edited *)

\* Of the lines that sell the same, each has its rank.
LEMMA RankApart ==
  ASSUME NEW lines, LinesOK(lines), NEW a \in Moving(lines), NEW b \in Moving(lines), Same(lines[a], lines[b]),
         Rank(lines, a) = Rank(lines, b)
  PROVE  a = b
<1>1. Moving(lines) \subseteq 1..Len(lines) /\ IsFiniteSet(1..Len(lines)) /\ Len(lines) \in Nat
  BY FS_Interval DEF LinesOK, Moving
<1>2. ASSUME NEW x \in Moving(lines), NEW y \in Moving(lines), Same(lines[x], lines[y]), x < y,
             Rank(lines, x) = Rank(lines, y)
      PROVE  FALSE
  <2>1. PICK A, B : /\ A = {k \in Moving(lines) : k <= x /\ Same(lines[k], lines[x])}
                    /\ B = {k \in Moving(lines) : k <= y /\ Same(lines[k], lines[y])}
    OBVIOUS
  <2>2. A \cup {y} \subseteq B /\ y \notin A
    BY <1>1, <1>2, <2>1 DEF Same
  <2>3. IsFiniteSet(B) /\ IsFiniteSet(A)
    BY <1>1, <2>1, FS_Subset
  <2>4. Cardinality(A \cup {y}) = Cardinality(A) + 1 /\ Cardinality(A) \in Nat /\ Cardinality(B) \in Nat
    BY <2>2, <2>3, FS_AddElement, FS_CardinalityType
  <2>5. Cardinality(A \cup {y}) <= Cardinality(B)
    BY <2>2, <2>3, FS_Subset
  <2>6. Cardinality(A) = Cardinality(B)
    BY <1>2, <2>1 DEF Rank
  <2> QED
    BY <2>4, <2>5, <2>6
<1>3. a \in Int /\ b \in Int /\ Same(lines[b], lines[a])
  BY <1>1 DEF Same
<1>4. ~(a < b) /\ ~(b < a)
  BY <1>2, <1>3
<1> QED
  BY <1>3, <1>4

\* A new line keeps the movement of one line at most, and each line's is kept by one at most.
LEMMA KeptApart ==
  ASSUME NEW old, NEW new, LinesOK(old), LinesOK(new)
  PROVE  /\ \A n \in Moving(new) : \A j, k \in KeptFor(old, new, n) : j = k
         /\ \A m, n \in Moving(new) : \A k \in KeptFor(old, new, m) : k \in KeptFor(old, new, n) => m = n
         /\ \A n : KeptFor(old, new, n) \subseteq Moving(old)
<1>1. ASSUME NEW n \in Moving(new), NEW j \in KeptFor(old, new, n), NEW k \in KeptFor(old, new, n) PROVE j = k
  BY RankApart DEF KeptFor, Same
<1>2. ASSUME NEW m \in Moving(new), NEW n \in Moving(new), NEW k \in KeptFor(old, new, m), k \in KeptFor(old, new, n)
      PROVE  m = n
  BY <1>2, RankApart DEF KeptFor, Same
<1>3. \A n : KeptFor(old, new, n) \subseteq Moving(old)
  BY DEF KeptFor
<1> QED
  BY <1>1, <1>2, <1>3

\* The movements the lines W of a record had are there as they were, on an open day, and it has no other.
Had(M, r, lines, W) ==
  /\ \A k \in W : \E m \in M : m.key = Was(r, k) /\ m.item = lines[k].item /\ Abs(m.qty) = lines[k].qty
  /\ \A m \in OwnedBy(M, r) : m.day > lockDay /\ \E k \in W : m.key = Was(r, k)

\* An edit sets the movements of the record aside.
LEMMA SetAsideSound ==
  ASSUME StockInv, NEW r \in Records, record[r].day > lockDay,
         NEW old, old = IF MovesStock(record[r].status) THEN record[r].lines ELSE <<>>,
         NEW st, st = SetAside(Store, r)
  PROVE  /\ Sound(st) /\ st.ok /\ Only(moves, st.moves, r) /\ LinesOK(old)
         /\ Had(st.moves, r, old, Moving(old))
<1>1. PICK g : g = [m \in moves |-> IF m.key \in KeysOf(r) THEN [m EXCEPT !.key = Was(r, @[3])] ELSE m]
  OBVIOUS
<1>2. /\ Sound(Store) /\ Store.moves = moves /\ Store.ok /\ moves \subseteq Movement /\ Unique(moves)
      /\ RecordOK(record[r], r, moves) /\ LinesOK(record[r].lines)
  BY Start, RowTypes
<1>3. LinesOK(old)
  <2>1. <<>> \in Seq(LineRow)
    <3> HIDE DEF LineRow
    <3> QED
      OBVIOUS
  <2>2. PICK none : none = <<>> /\ none \in Seq(LineRow)
    BY <2>1
  <2>3. LinesOK(none)
    BY <2>2, ListsOK
  <2> QED
    BY <1>2, <2>2, <2>3
<1>4. Gone(record[r].status, record[r].lines) = Moving(old)
  BY DEF Gone, Moving
<1>6. /\ \A n \in Moving(old) : \E m \in moves : m.key = Key(r, n) /\ m.item = old[n].item /\ Abs(m.qty) = old[n].qty
      /\ \A m \in OwnedBy(moves, r) : m.day > lockDay /\ \E n \in Moving(old) : m.key = Key(r, n)
  <2>1. Moving(old) # {} => old = record[r].lines
    BY DEF Moving
  <2>2. Holds(moves, r, record[r].lines, Moving(old), record[r].day)
    BY <1>2, <1>4 DEF RecordOK
  <2>3. \A m \in OwnedBy(moves, r) : m.day > lockDay
    BY Owned
  <2> QED
    BY <2>1, <2>2, <2>3 DEF Holds, OwnedBy
<1>7. Moving(old) \subseteq Nat
  BY <1>3 DEF LinesOK, Moving
<1>8. \A m \in moves : m.key \in KeysOf(r) <=> m.key[1] = r
  BY <1>2, Owned DEF AtKeys, OwnedBy
<1>9. ASSUME NEW m \in moves
      PROVE  /\ g[m] \in Movement /\ g[m].item = m.item /\ g[m].qty = m.qty /\ g[m].value = m.value /\ g[m].day = m.day
             /\ m.key[1] # r => g[m] = m
             /\ \A n : m.key = Key(r, n) => g[m].key = Was(r, n)
             /\ g[m].key[1] = m.key[1]
  <2>1. CASE m.key[1] # r
    BY <1>1, <1>2, <1>8, <2>1 DEF Key
  <2>2. CASE m.key[1] = r
    <3>1. PICK n \in Moving(old) : m.key = Key(r, n)
      BY <1>6, <2>2 DEF OwnedBy
    <3>2. PICK key : key = Was(r, n)
      OBVIOUS
    <3>3. key \in MoveKeys /\ key[1] = r /\ m.key[3] = n /\ \A j : m.key = Key(r, j) => j = n
      BY <1>7, <3>1, <3>2, KeysType DEF Key, Was
    <3>4. g[m] = [m EXCEPT !.key = key]
      BY <1>1, <1>8, <2>2, <3>2, <3>3
    <3>5. m \in Movement
      BY <1>2
    <3>6. /\ g[m] \in Movement /\ g[m].item = m.item /\ g[m].qty = m.qty /\ g[m].value = m.value /\ g[m].day = m.day
          /\ g[m].key = key
      BY <3>3, <3>4, <3>5 DEF Movement
    <3> QED
      BY <2>2, <3>2, <3>3, <3>6
  <2> QED
    BY <2>1, <2>2
<1>10. Retells(moves, g)
  <2>1. ASSUME NEW m \in moves, NEW n \in moves, g[m].key = g[n].key PROVE m = n
    <3>1. m.key[1] = n.key[1]
      BY <1>9, <2>1
    <3>2. CASE m.key[1] # r
      BY <1>2, <1>9, <2>1, <3>1, <3>2 DEF Unique
    <3>3. CASE m.key[1] = r
      <4>0. (\E j : m.key = Key(r, j)) /\ (\E k : n.key = Key(r, k))
        BY <1>6, <3>1, <3>3 DEF OwnedBy
      <4>1. PICK j, k : m.key = Key(r, j) /\ n.key = Key(r, k)
        BY <4>0
      <4>2. Was(r, j) = Was(r, k)
        BY <1>9, <2>1, <4>1
      <4>3. j = k
        BY <4>2 DEF Was
      <4> QED
        BY <1>2, <4>1, <4>3 DEF Unique
    <3> QED
      BY <3>2, <3>3
  <2> QED
    BY <1>9, <2>1 DEF Retells
<1>11. Sound(st) /\ st.ok /\ st.moves = {g[m] : m \in moves}
  <2>1. PICK s : s = Store
    OBVIOUS
  <2>2. {IF m.key \in KeysOf(r) THEN [m EXCEPT !.key = Was(r, @[3])] ELSE m : m \in moves} = {g[m] : m \in moves}
    BY <1>1
  <2>3. st = [s EXCEPT !.moves = {g[m] : m \in s.moves}]
    BY <1>2, <2>1, <2>2 DEF SetAside
  <2>4. Retold(s, g, st)
    BY <1>2, <1>10, <2>1, <2>3 DEF Retold
  <2>5. Sound(st) /\ st.ok = s.ok /\ st.moves = {g[m] : m \in s.moves}
    BY <2>4, RetoldSound
  <2> QED
    BY <1>2, <2>1, <2>5
<1>12. Only(moves, st.moves, r)
  <2>1. ASSUME NEW m \in moves \ st.moves PROVE m.key[1] = r /\ m.day > lockDay
    <3>1. m.key[1] = r
      BY <1>9, <1>11, <2>1
    <3> QED
      BY <1>6, <3>1 DEF OwnedBy
  <2>2. ASSUME NEW x \in st.moves \ moves PROVE x.key[1] = r /\ x.day > lockDay
    <3>1. PICK m \in moves : x = g[m]
      BY <1>11
    <3>2. m.key[1] = r
      BY <1>9, <2>2, <3>1
    <3> QED
      BY <1>6, <1>9, <3>1, <3>2 DEF OwnedBy
  <2> QED
    BY <2>1, <2>2 DEF Only
<1>13. Had(st.moves, r, old, Moving(old))
  <2>1. ASSUME NEW k \in Moving(old)
        PROVE  \E x \in st.moves : x.key = Was(r, k) /\ x.item = old[k].item /\ Abs(x.qty) = old[k].qty
    <3>1. PICK m \in moves : m.key = Key(r, k) /\ m.item = old[k].item /\ Abs(m.qty) = old[k].qty
      BY <1>6
    <3> QED
      BY <1>9, <1>11, <3>1
  <2>2. ASSUME NEW x \in st.moves, x.key[1] = r PROVE x.day > lockDay /\ \E k \in Moving(old) : x.key = Was(r, k)
    <3>1. PICK m \in moves : x = g[m]
      BY <1>11
    <3>2. m.key[1] = r
      BY <1>9, <2>2, <3>1
    <3> QED
      BY <1>6, <1>9, <3>1, <3>2 DEF OwnedBy
  <2> QED
    BY <2>1, <2>2 DEF Had, OwnedBy
<1> QED
  BY <1>3, <1>11, <1>12, <1>13

\* The movements of the old lines W may follow the new ones; those no line keeps are set aside in D.
MayFollow(st, r, old, new, day, W, D) ==
  /\ Sound(st) /\ r \in Records /\ LinesOK(old) /\ LinesOK(new) /\ day \in Days /\ day > lockDay
  /\ Had(st.moves, r, old, W)
  /\ \A n \in Moving(new) : KeptFor(old, new, n) \subseteq W
  /\ \A k \in W : Was(r, k) \in D \/ \E n \in Moving(new) : k \in KeptFor(old, new, n)
  /\ \A n : Key(r, n) \notin D
Keepers(old, new) == {n \in Moving(new) : KeptFor(old, new, n) # {}}
Followed(st, t, r, old, new, day, D) ==
  /\ Sound(t) /\ t.ok = st.ok /\ Only(st.moves, t.moves, r)
  /\ Holds(Beside(t.moves, D), r, new, Keepers(old, new), day)

\* A kept movement takes its new line's key and the document's day.
LEMMA FollowSound ==
  ASSUME NEW st, NEW r, NEW old, NEW new, NEW day, NEW W, NEW D, MayFollow(st, r, old, new, day, W, D),
         NEW t, t = Follow(st, r, old, new, day)
  PROVE  Followed(st, t, r, old, new, day, D)
<1> USE DEF MayFollow
<1> DEFINE Moves(m, n) == \E k \in KeptFor(old, new, n) : m.key = Was(r, k)
           NewOf(m) == CHOOSE n \in Moving(new) : Moves(m, n)
           Kept(m) == \E n \in Moving(new) : Moves(m, n)
<1>1. PICK g : g = [m \in st.moves |-> IF Kept(m) THEN [m EXCEPT !.key = Key(r, NewOf(m)), !.day = day] ELSE m]
  OBVIOUS
<1>2. st.moves \subseteq Movement /\ \A m, n \in st.moves : m.key = n.key => m = n
  BY DEF Sound, Typed, Unique
<1>3. /\ \A n \in Moving(new) : \A j, k \in KeptFor(old, new, n) : j = k
      /\ \A m, n \in Moving(new) : \A k \in KeptFor(old, new, m) : k \in KeptFor(old, new, n) => m = n
      /\ Moving(new) \subseteq Nat
  <2>1. Moving(new) \subseteq Nat
    BY DEF LinesOK, Moving
  <2> QED
    BY <2>1, KeptApart
<1>4. ASSUME NEW m \in st.moves, NEW n \in Moving(new), NEW k \in KeptFor(old, new, n), m.key = Was(r, k)
      PROVE  /\ g[m] \in Movement /\ g[m].item = m.item /\ g[m].qty = m.qty /\ g[m].value = m.value
             /\ g[m].day = day /\ g[m].key = Key(r, n)
  <2>1. Moves(m, n) /\ Kept(m)
    BY <1>4
  <2>2. NewOf(m) \in Moving(new) /\ Moves(m, NewOf(m))
    <3> HIDE DEF Moves
    <3> QED
      BY <2>1
  <2>3. NewOf(m) = n
    <3>1. PICK c : c = NewOf(m)
      OBVIOUS
    <3>2. c \in Moving(new) /\ Moves(m, c)
      BY <2>2, <3>1
    <3>3. PICK j \in KeptFor(old, new, c) : m.key = Was(r, j)
      BY <3>2
    <3>4. j = k
      BY <1>4, <3>3 DEF Was
    <3>5. c = n
      BY <1>3, <1>4, <3>2, <3>3, <3>4
    <3> QED
      BY <3>1, <3>5
  <2>4. PICK key : key = Key(r, n)
    OBVIOUS
  <2>5. key \in MoveKeys /\ m \in Movement
    BY <1>2, <1>3, <2>4, KeysType
  <2>6. g[m] = [m EXCEPT !.key = key, !.day = day]
    <3> HIDE DEF NewOf, Kept
    <3> QED
      BY <1>1, <2>1, <2>3, <2>4
  <2> QED
    BY <2>4, <2>5, <2>6 DEF Movement
<1>5. ASSUME NEW m \in st.moves, ~Kept(m) PROVE g[m] = m
  <2> HIDE DEF Kept, NewOf
  <2> QED
    BY <1>1, <1>5
<1>6. \A m \in st.moves : Kept(m) => \E n \in Moving(new) : \E k \in KeptFor(old, new, n) : m.key = Was(r, k)
  OBVIOUS
<1>7. \A n, k : Key(r, n)[1] = r /\ Was(r, k)[1] = r /\ Key(r, n) # Was(r, k)
  BY KeysApart
<1>8. ASSUME NEW m \in st.moves, m.key[1] = r PROVE m.day > lockDay /\ \E k \in W : m.key = Was(r, k)
  BY <1>8 DEF Had, OwnedBy
<1>9. ASSUME NEW m \in st.moves, Kept(m) PROVE m.key[1] = r /\ g[m].key[1] = r
  <2>1. PICK n, k : n \in Moving(new) /\ k \in KeptFor(old, new, n) /\ m.key = Was(r, k)
    BY <1>6, <1>9
  <2> QED
    BY <1>4, <1>7, <2>1
<1>10. Retells(st.moves, g)
  <2>1. ASSUME NEW m \in st.moves
        PROVE  g[m] \in Movement /\ g[m].item = m.item /\ g[m].qty = m.qty /\ g[m].value = m.value
    <3>1. CASE Kept(m)
      BY <1>4, <1>6, <3>1
    <3>2. CASE ~Kept(m)
      BY <1>2, <1>5, <3>2
    <3> QED
      BY <3>1, <3>2
  <2>2. ASSUME NEW m \in st.moves, NEW x \in st.moves, Kept(m), Kept(x), g[m].key = g[x].key PROVE m = x
    <3>1. PICK n, k : n \in Moving(new) /\ k \in KeptFor(old, new, n) /\ m.key = Was(r, k)
      BY <1>6, <2>2
    <3>2. PICK p, j : p \in Moving(new) /\ j \in KeptFor(old, new, p) /\ x.key = Was(r, j)
      BY <1>6, <2>2
    <3>3. Key(r, n) = Key(r, p)
      BY <1>4, <2>2, <3>1, <3>2
    <3>4. n = p
      BY <3>3 DEF Key
    <3>5. k = j
      BY <1>3, <3>1, <3>2, <3>4
    <3> QED
      BY <1>2, <3>1, <3>2, <3>5
  <2>3. ASSUME NEW m \in st.moves, NEW x \in st.moves, Kept(m), ~Kept(x) PROVE g[m].key # g[x].key
    <3>1. PICK n, k : n \in Moving(new) /\ k \in KeptFor(old, new, n) /\ m.key = Was(r, k)
      BY <1>6, <2>3
    <3>2. g[m].key = Key(r, n) /\ g[x].key = x.key
      BY <1>4, <1>5, <2>3, <3>1
    <3>3. x.key[1] = r => \E j : x.key = Was(r, j)
      BY <1>8
    <3> QED
      BY <1>7, <3>2, <3>3
  <2>4. ASSUME NEW m \in st.moves, NEW x \in st.moves, g[m].key = g[x].key PROVE m = x
    <3>1. CASE ~Kept(m) /\ ~Kept(x)
      BY <1>2, <1>5, <2>4, <3>1
    <3> HIDE DEF Kept
    <3> QED
      BY <2>2, <2>3, <2>4, <3>1
  <2> QED
    BY <2>1, <2>4 DEF Retells
<1>11. Sound(t) /\ t.ok = st.ok /\ t.moves = {g[m] : m \in st.moves}
  <2>1. t = [st EXCEPT !.moves = {IF Kept(m) THEN [m EXCEPT !.key = Key(r, NewOf(m)), !.day = day] ELSE m : m \in st.moves}]
    BY DEF Follow
  <2>2. {IF Kept(m) THEN [m EXCEPT !.key = Key(r, NewOf(m)), !.day = day] ELSE m : m \in st.moves} = {g[m] : m \in st.moves}
    <3> HIDE DEF Kept, NewOf
    <3> QED
      BY <1>1
  <2>3. Retold(st, g, t)
    <3> HIDE DEF Kept, NewOf
    <3> QED
      BY <1>10, <2>1, <2>2 DEF Retold
  <2> QED
    BY <2>3, RetoldSound
<1>12. Only(st.moves, t.moves, r)
  <2>1. ASSUME NEW m \in st.moves \ t.moves PROVE m.key[1] = r /\ m.day > lockDay
    <3>1. Kept(m)
      <4> HIDE DEF Kept
      <4> QED
        BY <1>5, <1>11, <2>1
    <3> QED
      BY <1>8, <1>9, <3>1
  <2>2. ASSUME NEW x \in t.moves \ st.moves PROVE x.key[1] = r /\ x.day > lockDay
    <3>1. PICK m \in st.moves : x = g[m]
      BY <1>11
    <3>2. Kept(m)
      <4> HIDE DEF Kept
      <4> QED
        BY <1>5, <2>2, <3>1
    <3> QED
      BY <1>4, <1>6, <1>9, <3>1, <3>2
  <2> QED
    BY <2>1, <2>2 DEF Only
<1>13. Holds(Beside(t.moves, D), r, new, Keepers(old, new), day)
  <2>1. ASSUME NEW n \in Keepers(old, new)
        PROVE  \E x \in Beside(t.moves, D) : /\ x.key = Key(r, n) /\ x.item = new[n].item
                                             /\ Abs(x.qty) = new[n].qty /\ x.day = day
    <3>1. n \in Moving(new)
      BY DEF Keepers
    <3>2. PICK k \in KeptFor(old, new, n) : TRUE
      BY DEF Keepers
    <3>3. k \in W /\ old[k].item = new[n].item /\ old[k].qty = new[n].qty
      BY <3>1, <3>2 DEF KeptFor, Same
    <3>4. PICK m \in st.moves : m.key = Was(r, k) /\ m.item = old[k].item /\ Abs(m.qty) = old[k].qty
      BY <3>3 DEF Had
    <3>5. PICK x : x = g[m]
      OBVIOUS
    <3>6. x \in t.moves /\ x.key = Key(r, n) /\ x.item = m.item /\ x.qty = m.qty /\ x.day = day
      BY <1>4, <1>11, <3>1, <3>2, <3>4, <3>5
    <3>7. x \in Beside(t.moves, D)
      BY <3>6 DEF Beside
    <3> QED
      BY <3>3, <3>4, <3>6, <3>7
  <2>2. ASSUME NEW x \in Beside(t.moves, D), x.key[1] = r PROVE \E n \in Keepers(old, new) : x.key = Key(r, n)
    <3>1. PICK m \in st.moves : x = g[m]
      BY <1>11 DEF Beside
    <3>2. CASE Kept(m)
      <4>1. PICK n, k : n \in Moving(new) /\ k \in KeptFor(old, new, n) /\ m.key = Was(r, k)
        BY <1>6, <3>2
      <4>2. x.key = Key(r, n) /\ n \in Keepers(old, new)
        BY <1>4, <3>1, <4>1 DEF Keepers
      <4> QED
        BY <4>2
    <3>3. CASE ~Kept(m)
      <4>1. x = m
        BY <1>5, <3>1, <3>3
      <4>2. PICK k \in W : m.key = Was(r, k)
        BY <1>8, <2>2, <4>1
      <4>3. Was(r, k) \notin D
        BY <2>2, <4>1, <4>2 DEF Beside
      <4>4. PICK n \in Moving(new) : k \in KeptFor(old, new, n)
        BY <4>3
      <4>5. Kept(m)
        BY <4>2, <4>4
      <4> QED
        BY <3>3, <4>5
    <3> QED
      BY <3>2, <3>3
  <2> QED
    BY <2>1, <2>2 DEF Holds
<1> QED
  BY <1>11, <1>12, <1>13 DEF Followed

\* What may yet be undone of a record stays on open days.
OpenOnes(M, r) == \A m \in OwnedBy(M, r) : m.day > lockDay

\* What differs on open days only leaves a record undoable.
LEMMA OpenOnesThen ==
  ASSUME NEW M, NEW N, NEW r, OpenOnes(M, r), Only(M, N, r)
  PROVE  OpenOnes(N, r)
BY DEF OpenOnes, Only, OwnedBy

\* The movements at these keys of the record, undone.
LEMMA DroppedSound ==
  ASSUME NEW st, Sound(st), NEW r, OpenOnes(st.moves, r), NEW keys, \A key \in keys : key[1] = r,
         NEW t, t = RemoveBySource(st, keys), t.ok
  PROVE  Sound(t) /\ st.ok /\ t.moves = Beside(st.moves, keys) /\ Only(st.moves, t.moves, r)
<1>1. Sound(t) /\ st.ok /\ t.moves = st.moves \ AtKeys(st, keys)
  BY UndoneSound
<1>2. t.moves = Beside(st.moves, keys)
  BY <1>1 DEF AtKeys, Beside
<1>3. Only(st.moves, t.moves, r)
  BY <1>2 DEF Beside, Only, OpenOnes, OwnedBy
<1> QED
  BY <1>1, <1>2, <1>3

\* A document edited: dropped lines' goods back (or out) again, kept lines' with them, fresh lines' moved.
LEMMA EditDocKeeps ==
  ASSUME StockInv, NEW r \in Records, NEW day \in Days, NEW list \in Lists, NEW send \in BOOLEAN,
         EditDoc(r, day, list, send)
  PROVE  StockInv' /\ Frozen
<1>1. PICK cur, kind, old, status, stays, dropped, fresh :
        /\ cur = record[r] /\ kind = cur.kind
        /\ old = IF MovesStock(cur.status) THEN cur.lines ELSE <<>>
        /\ status = IF send /\ cur.status = "DRAFT" THEN "SENT" ELSE cur.status
        /\ stays = {k \in Moving(old) : \E n \in Moving(list) : k \in KeptFor(old, list, n)}
        /\ dropped = {Was(r, k) : k \in Moving(old) \ stays}
        /\ fresh = {n \in Moving(list) : KeptFor(old, list, n) = {}}
  OBVIOUS
<1>2. PICK st0, st1, st2, st3, st4 :
        /\ st0 = SetAside(Store, r)
        /\ st1 = IF kind = "invoice" THEN RemoveBySource(st0, dropped) ELSE st0
        /\ st2 = Follow(st1, r, old, list, day)
        /\ st3 = IF MovesStock(status) /\ st2.ok THEN MoveLines(st2, kind, r, list, fresh, day) ELSE st2
        /\ st4 = IF kind = "credit_note" /\ st3.ok THEN RemoveBySource(st3, dropped) ELSE st3
  OBVIOUS
<1>3. /\ kind \in Documents /\ cur.status \in {"DRAFT", "SENT", "PARTIAL"} /\ cur.day > lockDay /\ day > lockDay
      /\ RestOK'
      /\ Commit(st4) /\ Save(r, kind, status, day, WithCosts(st4, r, list))
  <2>1. Request /\ Apart
    BY DEF EditDoc
  <2>2. RestOK'
    BY <2>1, ApartOK
  <2>3. cur.kind \in Documents /\ cur.status \in {"DRAFT", "SENT", "PARTIAL"} /\ cur.day > lockDay /\ day > lockDay
    BY <1>1 DEF EditDoc, Is, Open
  <2>4. Commit(st4) /\ Save(r, kind, status, day, WithCosts(st4, r, list))
    BY <1>1, <1>2, Zenon DEF EditDoc
  <2> QED
    BY <1>1, <2>2, <2>3, <2>4
<1>4. kind \in RecordKinds /\ kind \notin {"sale", "bill"} /\ status \in Statuses /\ LinesOK(list)
  BY <1>1, <1>3, ListsOK DEF Documents, RecordKinds, Statuses
<1>5. /\ Sound(st0) /\ st0.ok /\ Only(moves, st0.moves, r) /\ LinesOK(old)
      /\ Had(st0.moves, r, old, Moving(old)) /\ OpenOnes(st0.moves, r)
  <2>1. record[r].day > lockDay /\ old = IF MovesStock(record[r].status) THEN record[r].lines ELSE <<>>
    BY <1>1, <1>3
  <2>2. /\ Sound(st0) /\ st0.ok /\ Only(moves, st0.moves, r) /\ LinesOK(old)
        /\ Had(st0.moves, r, old, Moving(old))
    BY <1>2, <2>1, SetAsideSound
  <2> QED
    BY <2>2 DEF Had, OpenOnes
<1>6. \A key \in dropped : key[1] = r
  BY <1>1, KeysApart
<1>7. \A n : Key(r, n) \notin dropped
  BY <1>1, KeysApart
<1>8. st4.ok
  BY <1>3 DEF Commit
<1>9. PICK W, D : /\ W = IF kind = "invoice" THEN stays ELSE Moving(old)
                  /\ D = IF kind = "invoice" THEN {} ELSE dropped
  OBVIOUS
<1>10. st3.ok
  BY <1>2, <1>8
<1>11. ASSUME st1.ok PROVE /\ Sound(st1) /\ Only(moves, st1.moves, r) /\ OpenOnes(st1.moves, r) /\ Had(st1.moves, r, old, W)
  <2>1. CASE kind = "invoice"
    <3>1. st1 = RemoveBySource(st0, dropped)
      BY <1>2, <2>1
    <3>2. Sound(st1) /\ st1.moves = Beside(st0.moves, dropped) /\ Only(st0.moves, st1.moves, r)
      BY <1>5, <1>6, <1>11, <3>1, DroppedSound
    <3>3. Had(st1.moves, r, old, stays)
      <4>1. ASSUME NEW k \in stays
            PROVE  \E m \in st1.moves : m.key = Was(r, k) /\ m.item = old[k].item /\ Abs(m.qty) = old[k].qty
        <5>1. k \in Moving(old)
          BY <1>1
        <5>2. PICK m \in st0.moves : m.key = Was(r, k) /\ m.item = old[k].item /\ Abs(m.qty) = old[k].qty
          BY <1>5, <5>1 DEF Had
        <5>3. Was(r, k) \notin dropped
          BY <1>1, KeysApart DEF Was
        <5> QED
          BY <3>2, <5>2, <5>3 DEF Beside
      <4>2. ASSUME NEW m \in OwnedBy(st1.moves, r) PROVE m.day > lockDay /\ \E k \in stays : m.key = Was(r, k)
        <5>1. m \in OwnedBy(st0.moves, r) /\ m.key \notin dropped
          BY <3>2 DEF OwnedBy, Beside
        <5>2. m.day > lockDay
          BY <1>5, <5>1 DEF Had
        <5>3. PICK k \in Moving(old) : m.key = Was(r, k)
          BY <1>5, <5>1 DEF Had
        <5>4. k \in stays
          BY <1>1, <5>1, <5>3
        <5> QED
          BY <5>2, <5>3, <5>4
      <4> QED
        BY <4>1, <4>2 DEF Had
    <3> QED
      BY <1>5, <1>9, <2>1, <3>2, <3>3, OnlyThen, OpenOnesThen
  <2>2. CASE kind # "invoice"
    <3>1. st1 = st0 /\ W = Moving(old)
      BY <1>2, <1>9, <2>2
    <3> QED
      BY <1>5, <3>1
  <2> QED
    BY <2>1, <2>2
<1>12. Sound(st1)
  <2>1. CASE kind = "invoice"
    BY <1>2, <1>5, <2>1, UndoneSound
  <2>2. CASE kind # "invoice"
    BY <1>2, <1>5, <2>2
  <2> QED
    BY <2>1, <2>2
<1>13. st2.ok
  <2>1. CASE MovesStock(status) /\ st2.ok
    BY <2>1
  <2>2. CASE ~(MovesStock(status) /\ st2.ok)
    BY <1>2, <1>10, <2>2
  <2> QED
    BY <2>1, <2>2
<1>14. st1.ok
  <2>1. st2.ok = st1.ok
    BY <1>2, <1>12 DEF Follow, Sound, Typed
  <2> QED
    BY <1>13, <2>1
<1>15. Followed(st1, st2, r, old, list, day, D)
  <2>1. \A n \in Moving(list) : KeptFor(old, list, n) \subseteq W
    BY <1>1, <1>9 DEF KeptFor
  <2>2. \A k \in W : Was(r, k) \in D \/ \E n \in Moving(list) : k \in KeptFor(old, list, n)
    BY <1>1, <1>9
  <2>3. \A n : Key(r, n) \notin D
    BY <1>7, <1>9
  <2>4. MayFollow(st1, r, old, list, day, W, D)
    BY <1>3, <1>4, <1>5, <1>11, <1>14, <2>1, <2>2, <2>3 DEF MayFollow
  <2> QED
    BY <1>2, <2>4, FollowSound
<1>16. /\ Sound(st2) /\ Only(moves, st2.moves, r) /\ OpenOnes(st2.moves, r)
       /\ Holds(Beside(st2.moves, D), r, list, Keepers(old, list), day)
  BY <1>11, <1>14, <1>15, OnlyThen, OpenOnesThen DEF Followed
<1>17. /\ Sound(st3) /\ Only(moves, st3.moves, r) /\ OpenOnes(st3.moves, r)
       /\ Holds(Beside(st3.moves, D), r, list, Gone(status, list), day)
  <2>1. CASE MovesStock(status)
    <3>1. st3 = MoveLines(st2, kind, r, list, fresh, day)
      BY <1>2, <1>13, <2>1
    <3>2. PICK K : K = Keepers(old, list)
      OBVIOUS
    <3>3. fresh \subseteq DOMAIN list /\ K \cap fresh = {} /\ K \cup fresh = Gone(status, list)
      BY <1>1, <2>1, <3>2 DEF Keepers, Gone, Moving
    <3>4. \A n : Key(r, n) \notin D
      BY <1>7, <1>9
    <3>5. MayMove(st2, kind, r, list, fresh, day, D, K)
      BY <1>3, <1>4, <1>16, <3>2, <3>3, <3>4 DEF MayMove
    <3>6. HaveMoved(st2, st3, kind, r, list, fresh, day, D, K)
      BY <1>10, <3>1, <3>5, LinesMoved
    <3>7. Sound(st3) /\ Only(st2.moves, st3.moves, r) /\ Holds(Beside(st3.moves, D), r, list, Gone(status, list), day)
      BY <3>3, <3>6 DEF HaveMoved
    <3> QED
      BY <1>16, <3>7, OnlyThen, OpenOnesThen
  <2>2. CASE ~MovesStock(status)
    <3>1. st3 = st2
      BY <1>2, <2>2
    <3>2. ~MovesStock(cur.status)
      BY <1>1, <1>3, <2>2 DEF MovesStock
    <3>3. Moving(old) = {}
      BY <1>1, <3>2 DEF Moving
    <3>4. Keepers(old, list) = {} /\ Gone(status, list) = {}
      BY <2>2, <3>3 DEF Keepers, KeptFor, Gone
    <3> QED
      BY <1>16, <3>1, <3>4
  <2> QED
    BY <2>1, <2>2
<1>18. /\ Sound(st4) /\ Only(moves, st4.moves, r) /\ Holds(st4.moves, r, list, Gone(status, list), day)
  <2>1. CASE kind = "invoice"
    <3>1. st4 = st3 /\ Beside(st3.moves, D) = st3.moves
      BY <1>2, <1>9, <2>1 DEF Beside
    <3> QED
      BY <1>17, <3>1
  <2>2. CASE kind # "invoice"
    <3>1. st4 = RemoveBySource(st3, dropped) /\ D = dropped
      BY <1>2, <1>3, <1>9, <1>10, <2>2 DEF Documents
    <3>2. Sound(st4) /\ st4.moves = Beside(st3.moves, dropped) /\ Only(st3.moves, st4.moves, r)
      BY <1>6, <1>8, <1>17, <3>1, DroppedSound
    <3> QED
      BY <1>17, <3>1, <3>2, OnlyThen
  <2> QED
    BY <2>1, <2>2
<1>19. PICK rec : rec = [kind |-> kind, status |-> status, day |-> day, lines |-> WithCosts(st4, r, list)]
  OBVIOUS
<1>20. RecordOK(rec, r, st4.moves)
  BY <1>4, <1>18, <1>19, SavedOK
<1>21. shelf' = st4.shelf /\ moves' = st4.moves /\ record' = [record EXCEPT ![r] = rec]
  BY <1>3, <1>19 DEF Commit, Save
<1> QED
  BY <1>3, <1>18, <1>20, <1>21, RecordStep

-----------------------------------------------------------------------------
(* Every request *)

\* The requests by route.
LEMMA SaleOpsKeep == ASSUME StockInv, SaleOps PROVE StockInv' /\ Frozen
BY CreateSaleKeeps, DateSaleKeeps, DeleteKeeps DEF SaleOps

LEMMA DocOpsKeep == ASSUME StockInv, DocOps PROVE StockInv' /\ Frozen
<1>1. PICK r \in Records :
        \/ \E day \in Days, list \in Lists, send \in BOOLEAN :
             (\E kind \in Documents : CreateDoc(r, kind, day, list, send)) \/ EditDoc(r, day, list, send)
        \/ \E to \in {"SENT", "DRAFT", "VOID"} : SetStatus(r, to)
        \/ Pay(r, "PARTIAL") \/ Pay(r, "PAID") \/ UndoPayment(r, "SENT") \/ UndoPayment(r, "PARTIAL")
        \/ DeleteDoc(r)
  BY DEF DocOps
<1>2. CASE \E day \in Days, list \in Lists, send \in BOOLEAN :
             (\E kind \in Documents : CreateDoc(r, kind, day, list, send)) \/ EditDoc(r, day, list, send)
  BY <1>2, CreateDocKeeps, EditDocKeeps
<1>3. CASE \E to \in {"SENT", "DRAFT", "VOID"} : SetStatus(r, to)
  BY <1>3, SetStatusKeeps
<1>4. CASE Pay(r, "PARTIAL") \/ Pay(r, "PAID")
  BY <1>4, PayKeeps
<1>5. CASE UndoPayment(r, "SENT") \/ UndoPayment(r, "PARTIAL")
  BY <1>5, UndoPaymentKeeps
<1>6. CASE DeleteDoc(r)
  BY <1>6, DeleteKeeps
<1> QED
  BY <1>1, <1>2, <1>3, <1>4, <1>5, <1>6

LEMMA BillOpsKeep == ASSUME StockInv, BillOps PROVE StockInv' /\ Frozen
BY CreateBillKeeps, EditBillKeeps, DeleteKeeps DEF BillOps

LEMMA ItemOpsKeep == ASSUME StockInv, ItemOps PROVE StockInv' /\ Frozen
<1>1. PICK i \in Items :
        \/ \E cost \in Costs \cup {None}, q \in Counts : CreateItem(i, q, cost) \/ EditItem(i, cost, q)
        \/ \E cost \in Costs : SetUpValue(i, cost) \/ EditItem(i, cost, None)
        \/ \E k \in Keys, day \in Days :
             \/ \E q \in Changes : Adjust(i, k, q, day)
             \/ \E q \in Counts : Count(i, k, q, day)
        \/ Archive(i) \/ DeleteItem(i)
  BY DEF ItemOps
<1>2. CASE \E cost \in Costs \cup {None}, q \in Counts : CreateItem(i, q, cost) \/ EditItem(i, cost, q)
  BY <1>2, CreateItemKeeps, EditItemKeeps
<1>3. CASE \E cost \in Costs : SetUpValue(i, cost) \/ EditItem(i, cost, None)
  BY <1>3, SetUpValueKeeps, EditItemKeeps
<1>4. CASE \E k \in Keys, day \in Days :
             \/ \E q \in Changes : Adjust(i, k, q, day)
             \/ \E q \in Counts : Count(i, k, q, day)
  BY <1>4, AdjustKeeps, CountKeeps
<1>5. CASE Archive(i) \/ DeleteItem(i)
  BY <1>5, ArchiveKeeps, DeleteItemKeeps
<1> QED
  BY <1>1, <1>2, <1>3, <1>4, <1>5

\* A request, or a stutter, keeps the invariant and the closed days.
LEMMA StockStep == ASSUME StockInv, [StockNext]_stockVars PROVE StockInv' /\ Frozen
BY SaleOpsKeep, DocOpsKeep, BillOpsKeep, ItemOpsKeep, LockDaysKeeps, StillKeeps DEF StockNext

\* StockInv is inductive.
LEMMA StockInvariant == StockSpec => []StockInv
<1>1. StockInv /\ [StockNext]_stockVars => StockInv'
  BY StockStep
<1> QED
  BY <1>1, StockInitOK, PTL DEF StockSpec

-----------------------------------------------------------------------------
(* What the invariant says *)

\* The rows have their ranges.
LEMMA StockTyped == ASSUME StockInv PROVE StockTypeOK
<1>1. /\ shelf \in [Items -> ItemRow] /\ moves \subseteq Movement /\ Unique(moves)
      /\ \A r \in Records : RecordOK(record[r], r, moves)
  BY Start
<1>2. shelf \in [Items -> [state : {"none", "open", "archived"}, qty : Nat, value : Nat,
                           avg : {None} \cup [k : Nat, m : Nat \ {0}]]]
  BY <1>1 DEF ItemRow, Fraction
<1>3. moves \subseteq [key : MoveKeys, kind : MoveKinds, item : Items, qty : Int, value : Int, day : Days]
  BY <1>1 DEF Movement
<1>4. record \in [Records -> RecordRow]
  BY DEF StockInv
<1>5. record \in [Records -> [kind : RecordKinds \cup {"none"}, status : Statuses, day : Days,
                              lines : Seq([item : Items, qty : Nat \ {0}, stocked : BOOLEAN, cost : Nat])]]
  BY <1>4 DEF RecordRow, LineRow
<1>6. RestOK
  BY DEF StockInv
<1> QED
  BY <1>1, <1>2, <1>3, <1>5, <1>6 DEF StockTypeOK, RestOK, Unique

\* A sound store is a shelf that its movements add up to.
LEMMA ShelfAgrees == ASSUME StockInv PROVE ShelfMatchesMoves
<1>1. \A i \in Items : Agrees(shelf[i], Mine(moves, i))
  BY Start DEF Sound
<1> QED
  BY <1>1 DEF ShelfMatchesMoves, Agrees, Mine

\* A record that is in order has its lines' movements and no others.
LEMMA LinesAgree == ASSUME StockInv PROVE LinesMatchMoves
<1>1. moves \subseteq Movement /\ Store.moves = moves /\ \A r \in Records : RecordOK(record[r], r, moves)
  BY Start
<1>2. ASSUME NEW r \in Records, NEW n \in DOMAIN record[r].lines
      PROVE  LET l == record[r].lines[n]
                 mine == AtKeys(Store, {Key(r, n)})
             IN  IF l.stocked /\ MovesStock(record[r].status)
                 THEN \E m \in mine : /\ m.item = l.item /\ Abs(m.qty) = l.qty
                                      /\ Abs(m.value) = l.cost /\ m.day = record[r].day
                 ELSE mine = {} /\ l.cost = 0
  <2>1. PICK rec, S : rec = record[r] /\ S = Gone(rec.status, rec.lines)
    OBVIOUS
  <2>2. Holds(moves, r, rec.lines, S, rec.day) /\ Costed(moves, r, rec.lines, S)
    BY <1>1, <2>1 DEF RecordOK
  <2>3. n \in S <=> rec.lines[n].stocked /\ MovesStock(rec.status)
    BY <1>2, <2>1 DEF Gone, Moving
  <2>4. AtKeys(Store, {Key(r, n)}) = {m \in moves : m.key = Key(r, n)}
    BY <1>1 DEF AtKeys
  <2>5. n \in DOMAIN rec.lines
    BY <1>2, <2>1
  <2>6. CASE n \in S
    <3>1. PICK m \in moves : /\ m.key = Key(r, n) /\ m.item = rec.lines[n].item
                             /\ Abs(m.qty) = rec.lines[n].qty /\ m.day = rec.day
      BY <2>2, <2>6 DEF Holds
    <3>2. Abs(m.value) = rec.lines[n].cost
      BY <2>2, <2>6, <3>1 DEF Costed
    <3>3. m \in AtKeys(Store, {Key(r, n)})
      BY <2>4, <3>1
    <3> QED
      BY <2>1, <2>3, <2>6, <3>1, <3>2, <3>3
  <2>7. CASE n \notin S
    <3>1. rec.lines[n].cost = 0
      BY <2>2, <2>5, <2>7 DEF Costed
    <3>2. ASSUME NEW m \in moves, m.key = Key(r, n) PROVE FALSE
      <4>1. PICK k \in S : m.key = Key(r, k)
        BY <2>2, <3>2, KeysApart DEF Holds
      <4>2. k = n
        BY <3>2, <4>1 DEF Key
      <4> QED
        BY <2>7, <4>2
    <3>3. AtKeys(Store, {Key(r, n)}) = {}
      BY <2>4, <3>2
    <3> QED
      BY <2>1, <2>3, <2>7, <3>1, <3>3
  <2> QED
    BY <2>6, <2>7
<1>3. ASSUME NEW m \in moves, m.key[1] \in Records PROVE m.key \in KeysOf(m.key[1])
  <2>1. PICK r \in Records : r = m.key[1]
    BY <1>3
  <2>2. PICK n \in Gone(record[r].status, record[r].lines) : m.key = Key(r, n)
    BY <1>1, <2>1 DEF RecordOK, Holds
  <2>3. m.key \in KeysOf(r)
    BY <2>2 DEF Gone, Moving, KeysOf
  <2> QED
    BY <2>1, <2>3
<1> QED
  BY <1>2, <1>3 DEF LinesMatchMoves

\* Movements of closed days that stay leave each day what it was.
LEMMA FrozenDays ==
  ASSUME StockInv, StockInv', Frozen, NEW day \in 1..lockDay
  PROVE  OnDay(day)' = OnDay(day)
<1>1. lockDay \in Int /\ day <= lockDay /\ day \in Int
  BY DEF StockInv, RestOK
<1>2. \A m \in moves \cup moves' : m.day \in Int
  BY DEF StockInv, Sound, Typed, Store, Movement, Days
<1>3. \A m : (m \in moves' /\ m.day <= lockDay) <=> (m \in moves /\ m.day <= lockDay)
  BY DEF Frozen
<1>4. ASSUME NEW i
      PROVE  {m \in moves' : m.item = i /\ m.day <= day} = {m \in moves : m.item = i /\ m.day <= day}
  <2>1. \A m \in moves \cup moves' : m.day <= day => m.day <= lockDay
    BY <1>1, <1>2
  <2> QED
    BY <1>3, <2>1
<1> QED
  BY <1>4 DEF OnDay

-----------------------------------------------------------------------------
(* The theorems *)

\* The items, movements, records and their lines have the ranges of their columns,
\* and a movement is kept under its key once, whatever requests come.
THEOREM StockTypeCorrect == StockSpec => []StockTypeOK
BY StockInvariant, StockTyped, PTL

\* An item's quantity and value are what its movements come to, after any
\* sequence of sales, documents, bills, edits, counts and refusals in between.
THEOREM ShelfKept == StockSpec => []ShelfMatchesMoves
BY StockInvariant, ShelfAgrees, PTL

\* A record that moves stock has one movement per stocked line, of that quantity,
\* cost and day, and no movement is left of a line or a record that is gone:
\* what an edit keeps, returns and takes anew adds up to its new lines.
THEOREM LinesKept == StockSpec => []LinesMatchMoves
BY StockInvariant, LinesAgree, PTL

\* What the goods came to on a day behind the books lock date never changes.
THEOREM ClosedStockKept == StockSpec => LockedStockFrozen
<1>1. StockInv /\ StockInv' /\ [StockNext]_stockVars => [\A day \in 1..lockDay : OnDay(day)' = OnDay(day)]_stockVars
  BY StockStep, FrozenDays
<1> QED
  BY <1>1, StockInvariant, PTL DEF StockSpec, LockedStockFrozen
=============================================================================

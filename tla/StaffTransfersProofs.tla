------------------------- MODULE StaffTransfersProofs -------------------------
(***************************************************************************)
(* What StaffTransfers promises for every number of handlers, requests,    *)
(* staff members and businesses, and every clock and bound: its types;     *)
(* that success is only reported for money that moved (BankedInv); that a  *)
(* held transfer has one owner and at most one payout, whatever becomes of *)
(* the locks (ClaimInv); that with this the handlers, their locks and the  *)
(* sweeps implement the queue of PayoutQueue, step by step; and that caps, *)
(* velocity limits and fees are honoured while no lock connection has      *)
(* dropped (LimitsInv).                                                    *)
(***************************************************************************)
EXTENDS StaffTransfers, SumLemmas, TLAPS

-----------------------------------------------------------------------------
(***************************************************************************)
(* Types                                                                   *)
(***************************************************************************)

-----------------------------------------------------------------------------
(* Records: what the handlers write keeps its shape *)

LEMMA IdleType == Idle \in JobState /\ Idle.pc = "idle" /\ Idle.kind = "send"
  BY KeysAssumption DEF Idle, JobState, PCs

LEMMA NoRequestType == NoRequest \in RequestState
  BY DEF NoRequest, RequestState

\* The forms in which a handler's record is written.
LEMMA JobFields ==
  ASSUME NEW x \in JobState
  PROVE  /\ x.pc \in PCs /\ x.kind \in {"send", "approve"} /\ x.key \in Keys
         /\ x.booked \in BOOLEAN /\ x.fee \in Nat
  BY DEF JobState

LEMMA StartForms ==
  ASSUME NEW x \in JobState, NEW k \in Keys, NEW pc \in PCs
  PROVE  /\ \A f \in Nat : [x EXCEPT !.pc = pc, !.key = k, !.cap = f] \in JobState
         /\ [x EXCEPT !.pc = pc, !.kind = "approve", !.key = k] \in JobState
         /\ \A safe \in BOOLEAN :
              [x EXCEPT !.pc = pc, !.kind = "approve", !.key = k, !.safe = safe] \in JobState
  BY DEF JobState

LEMMA CapForms ==
  ASSUME NEW x \in JobState, NEW pc \in PCs
  PROVE  /\ \A e \in SUBSET Keys : [x EXCEPT !.pc = pc, !.exempt = e] \in JobState
         /\ [x EXCEPT !.pc = pc, !.cap = 0, !.exempt = {}] \in JobState
  BY DEF JobState

LEMMA PaidForms ==
  ASSUME NEW x \in JobState, NEW pc \in PCs
  PROVE  /\ [x EXCEPT !.pc = pc, !.booked = TRUE, !.ok = TRUE] \in JobState
         /\ [x EXCEPT !.pc = pc, !.booked = TRUE, !.ok = TRUE, !.fee = 0] \in JobState
         /\ [x EXCEPT !.pc = pc, !.ok = TRUE, !.fee = 0] \in JobState
         /\ \A f \in Nat : [x EXCEPT !.pc = pc, !.fee = f] \in JobState
  BY DEF JobState

\* What is known of any handler.
LEMMA JobAt ==
  ASSUME TypeOK, NEW j \in Jobs
  PROVE  /\ job[j] \in JobState /\ job[j].key \in Keys /\ RefOf(j) \in Refs
         /\ job[j].fee \in Nat /\ job[j].booked \in BOOLEAN
         /\ FeeOf(job[j].key) \in Nat /\ AfterBook(j) \in PCs
<1>1. job[j] \in JobState
  BY DEF TypeOK
<1> QED
  BY <1>1, JobFields, NumbersAssumption DEF RefOf, Refs, FeeOf, AfterBook, PCs

\* The forms in which a held request is written.
LEMMA RequestForms ==
  ASSUME NEW x \in RequestState, NEW t \in Nat, NEW b \in BOOLEAN,
         NEW s \in {"pending", "approving", "executed", "failed", "rejected",
                    "cancelled", "expired"}
  PROVE  /\ x.decidedAt \in Nat /\ x.expiresAt \in Nat
         /\ [x EXCEPT !.status = s] \in RequestState
         /\ [x EXCEPT !.status = s, !.decidedAt = t] \in RequestState
         /\ [x EXCEPT !.status = s, !.expiresAt = t] \in RequestState
         /\ [x EXCEPT !.status = s, !.txn = b] \in RequestState
  BY DEF RequestState

LEMMA UpdateType ==
  ASSUME job \in [Jobs -> JobState], NEW j \in Jobs, NEW rec \in JobState, Update(j, rec)
  PROVE  job' \in [Jobs -> JobState]
  BY DEF Update

LEMMA GoType ==
  ASSUME job \in [Jobs -> JobState], NEW j \in Jobs, NEW pc \in PCs, Go(j, pc)
  PROVE  job' \in [Jobs -> JobState]
<1>1. [job[j] EXCEPT !.pc = pc] \in JobState
  BY DEF JobState
<1> QED
  BY <1>1, UpdateType DEF Go

LEMMA FileType ==
  ASSUME request \in [Keys -> RequestState], NEW k \in Keys, NEW rec \in RequestState,
         File(k, rec)
  PROVE  request' \in [Keys -> RequestState]
  BY DEF File

LEMMA StatusType ==
  ASSUME request \in [Keys -> RequestState], NEW k \in Keys, NEW t \in Nat,
         NEW s \in {"pending", "approving", "executed", "failed", "rejected",
                    "cancelled", "expired"},
         SetStatus(k, s, t)
  PROVE  request' \in [Keys -> RequestState]
<1>1. [request[k] EXCEPT !.status = s, !.decidedAt = t] \in RequestState
  BY RequestForms
<1> QED
  BY <1>1, FileType DEF SetStatus

\* Rolling back keeps the lock table and the handlers well formed.
LEMMA ThrowType ==
  ASSUME TypeOK, NEW j \in Jobs, NEW safe \in BOOLEAN, Throw(j, safe)
  PROVE  lock' \in [LockNames -> Jobs \cup {NoJob}] /\ job' \in [Jobs -> JobState]
<1>1. Freed(j) \in [LockNames -> Jobs \cup {NoJob}]
  BY DEF Freed, TypeOK
<1>2. job[j].key \in Keys /\ job \in [Jobs -> JobState] /\ "catch" \in PCs
  BY DEF TypeOK, JobState, PCs
<1>3. [Idle EXCEPT !.pc = "catch", !.kind = "approve", !.key = job[j].key, !.safe = safe]
        \in JobState
  BY <1>2, IdleType, StartForms
<1> QED
  BY <1>1, <1>2, <1>3, IdleType, UpdateType DEF Throw

-----------------------------------------------------------------------------
(* Type correctness *)

LEMMA TypeInit == Init => TypeOK
  BY IdleType, NoRequestType, CapsAssumption DEF Init, TypeOK

\* Every step keeps every variable in its type.
LEMMA TypeNext == TypeOK /\ [Next]_vars => TypeOK'
<1> SUFFICES ASSUME TypeOK, [Next]_vars PROVE TypeOK'
  OBVIOUS
<1>1. ASSUME NEW j \in Jobs, NEW k \in Keys, Post(j, k) PROVE TypeOK'
  <2>1. (IF IsStaff(k) THEN cap[Actor(k)] ELSE 0) \in Nat
    BY <1>1 DEF TypeOK, IsStaff
  <2>2. [Idle EXCEPT !.pc = "lock", !.key = k, !.cap = IF IsStaff(k) THEN cap[Actor(k)] ELSE 0] \in JobState
    BY <1>1, <2>1, IdleType, StartForms DEF PCs
  <2>3. job' \in [Jobs -> JobState]
    BY <1>1, <2>2, UpdateType DEF Post, TypeOK
  <2> QED
    BY <1>1, <2>1, <2>2, <2>3 DEF Post, TypeOK, people, money, bounds
<1>2. ASSUME NEW j \in Jobs, NEW k \in Keys, Approve(j, k) PROVE TypeOK'
  <2>1. [Idle EXCEPT !.pc = "lock", !.kind = "approve", !.key = k] \in JobState
    BY <1>2, IdleType, StartForms DEF PCs
  <2>2. job' \in [Jobs -> JobState]
    BY <1>2, <2>1, UpdateType DEF Approve, TypeOK
  <2>3. request' \in [Keys -> RequestState]
    BY <1>2, StatusType DEF Approve, TypeOK
  <2> QED
    BY <1>2, <2>1, <2>2, <2>3 DEF Approve, TypeOK, people, money, bounds
<1>3. ASSUME NEW j \in Jobs, AcquireLock(j) PROVE TypeOK'
  <2>1. job' \in [Jobs -> JobState]
    BY <1>3, GoType DEF AcquireLock, TypeOK, PCs
  <2>2. lock' \in [LockNames -> Jobs \cup {NoJob}]
    BY <1>3 DEF AcquireLock, TypeOK
  <2> QED
    BY <1>3, <2>1, <2>2 DEF AcquireLock, TypeOK, people, money, bounds
<1>4. ASSUME NEW j \in Jobs, DbError(j) PROVE TypeOK'
  <2>1. lock' \in [LockNames -> Jobs \cup {NoJob}] /\ job' \in [Jobs -> JobState]
    BY <1>4, ThrowType DEF DbError
  <2> QED
    BY <1>4, <2>1 DEF DbError, TypeOK, people, money, bounds
<1>5. ASSUME NEW j \in Jobs, LockLost(j) PROVE TypeOK'
  <2>1. Freed(j) \in [LockNames -> Jobs \cup {NoJob}]
    BY <1>5 DEF Freed, TypeOK
  <2> QED
    BY <1>5, <2>1 DEF LockLost, TypeOK, people, money, bounds
<1>6. ASSUME NEW j \in Jobs, Claim(j) PROVE TypeOK'
  <2>1. job[j].key \in Keys
    BY <1>6, JobAt
  <2>2. job' \in [Jobs -> JobState]
    BY <1>6, GoType DEF Claim, TypeOK, PCs
  <2>3. request' \in [Keys -> RequestState]
    BY <1>6, <2>1, StatusType DEF Claim, TypeOK
  <2> QED
    BY <1>6, <2>1, <2>2, <2>3 DEF Claim, TypeOK, people, money, bounds
<1>7. ASSUME NEW j \in Jobs, AmlPass(j) PROVE TypeOK'
  <2>1. ApprovedFor(Actor(job[j].key)) \in SUBSET Keys
    BY <1>7 DEF ApprovedFor
  <2>2. \A pc \in PCs, e \in SUBSET Keys : [job[j] EXCEPT !.pc = pc, !.exempt = e] \in JobState
    BY <1>7, JobAt, CapForms
  <2>3. {"cap", "exec"} \subseteq PCs
    BY <1>7 DEF PCs
  <2>4. job' \in [Jobs -> JobState]
    BY <1>7, <2>1, <2>2, <2>3, UpdateType DEF AmlPass, TypeOK
  <2> QED
    BY <1>7, <2>1, <2>2, <2>3, <2>4 DEF AmlPass, TypeOK, people, money, bounds
<1>8. ASSUME NEW j \in Jobs, AmlBlock(j) PROVE TypeOK'
  <2>1. job[j].key \in Keys
    BY <1>8, JobAt
  <2>2. job' \in [Jobs -> JobState]
    BY <1>8, GoType DEF AmlBlock, TypeOK, PCs
  <2>3. request' \in [Keys -> RequestState]
    BY <1>8, <2>1, StatusType DEF AmlBlock, TypeOK
  <2> QED
    BY <1>8, <2>1, <2>2, <2>3 DEF AmlBlock, TypeOK, people, money, bounds
<1>9. ASSUME NEW j \in Jobs, CapPass(j) PROVE TypeOK'
  <2>1. [job[j] EXCEPT !.pc = "exec", !.cap = 0, !.exempt = {}] \in JobState
    BY <1>9, JobAt, CapForms DEF PCs
  <2>2. job' \in [Jobs -> JobState]
    BY <1>9, <2>1, UpdateType DEF CapPass, Decided, TypeOK
  <2> QED
    BY <1>9, <2>1, <2>2 DEF CapPass, TypeOK, people, money, bounds
<1>10. ASSUME NEW j \in Jobs, Hold(j) PROVE TypeOK'
  <2>1. job[j].key \in Keys
    BY <1>10, JobAt
  <2>2. [NoRequest EXCEPT !.status = "pending", !.expiresAt = now + Day] \in RequestState
    <3>1. now + Day \in Nat
      BY NumbersAssumption DEF TypeOK
    <3> QED
      BY <3>1, NoRequestType, RequestForms
  <2>3. request' \in [Keys -> RequestState]
    BY <1>10, <2>1, <2>2, FileType DEF Hold, TypeOK
  <2>4. [job[j] EXCEPT !.pc = "commit", !.cap = 0, !.exempt = {}] \in JobState
    BY <1>10, JobAt, CapForms DEF PCs
  <2>5. lock' \in [LockNames -> Jobs \cup {NoJob}] /\ job' \in [Jobs -> JobState]
    BY <1>10, <2>4, ThrowType, UpdateType DEF Hold, Decided, TypeOK
  <2> QED
    BY <1>10, <2>3, <2>5 DEF Hold, TypeOK, people, money, bounds
<1>11. ASSUME NEW j \in Jobs, IdempotentSkip(j) PROVE TypeOK'
  <2>1. [job[j] EXCEPT !.pc = AfterBook(j), !.booked = TRUE, !.ok = TRUE] \in JobState
    BY <1>11, JobAt, PaidForms
  <2>2. job' \in [Jobs -> JobState]
    BY <1>11, <2>1, UpdateType DEF IdempotentSkip, Decided, TypeOK
  <2> QED
    BY <1>11, <2>1, <2>2 DEF IdempotentSkip, TypeOK, people, money, bounds
<1>12. ASSUME NEW j \in Jobs, RefuseEarly(j) PROVE TypeOK'
  <2>1. lock' \in [LockNames -> Jobs \cup {NoJob}] /\ job' \in [Jobs -> JobState]
    BY <1>12, ThrowType DEF RefuseEarly
  <2> QED
    BY <1>12, <2>1 DEF RefuseEarly, TypeOK, people, money, bounds
<1>13. ASSUME NEW j \in Jobs, StartPayout(j) PROVE TypeOK'
  <2>1. job' \in [Jobs -> JobState]
    BY <1>13, GoType DEF StartPayout, TypeOK, PCs
  <2> QED
    BY <1>13, <2>1 DEF StartPayout, TypeOK, people, money, bounds
<1>14. ASSUME NEW j \in Jobs, BankAccepts(j) PROVE TypeOK'
  <2>1. job' \in [Jobs -> JobState]
    BY <1>14, GoType DEF BankAccepts, TypeOK, PCs
  <2>2. bank' \in [Refs -> Nat]
    BY <1>14, JobAt DEF BankAccepts, TypeOK
  <2> QED
    BY <1>14, <2>1, <2>2 DEF BankAccepts, TypeOK, people, money, bounds
<1>15. ASSUME NEW j \in Jobs, BankRefuses(j) PROVE TypeOK'
  <2>1. (~Intent[job[j].key].internal) \in BOOLEAN
    BY <1>15 
  <2>2. lock' \in [LockNames -> Jobs \cup {NoJob}] /\ job' \in [Jobs -> JobState]
    BY <1>15, <2>1, ThrowType DEF BankRefuses
  <2> QED
    BY <1>15, <2>1, <2>2 DEF BankRefuses, TypeOK, people, money, bounds
<1>16. ASSUME NEW j \in Jobs, BankUnknown(j) PROVE TypeOK'
  <2>1. lock' \in [LockNames -> Jobs \cup {NoJob}] /\ job' \in [Jobs -> JobState]
    BY <1>16, ThrowType DEF BankUnknown
  <2>2. RefOf(j) \in Refs
    BY <1>16, JobAt
  <2> QED
    BY <1>16, <2>1, <2>2 DEF BankUnknown, TypeOK, people, money, bounds
<1>17. ASSUME NEW j \in Jobs, SweepFee(j) PROVE TypeOK'
  <2>1. RefOf(j) \in Refs
    BY <1>17, JobAt
  <2>2. \A f \in Nat : [job[j] EXCEPT !.pc = "book", !.fee = f] \in JobState
    BY <1>17, JobAt, PaidForms DEF PCs
  <2>3. job' \in [Jobs -> JobState]
    BY <1>17, <2>2, UpdateType, NumbersAssumption DEF SweepFee, TypeOK
  <2> QED
    BY <1>17, <2>1, <2>2, <2>3 DEF SweepFee, TypeOK, people, money, bounds
<1>18. ASSUME NEW j \in Jobs, BookRow(j) PROVE TypeOK'
  <2>1. [ref |-> RefOf(j), fee |-> job[j].fee, date |-> now] \in Row
    BY <1>18, JobAt DEF TypeOK, Row
  <2>2. [job[j] EXCEPT !.pc = AfterBook(j), !.booked = TRUE, !.ok = TRUE, !.fee = 0] \in JobState
    BY <1>18, JobAt, PaidForms
  <2>3. job' \in [Jobs -> JobState]
    BY <1>18, <2>2, UpdateType DEF BookRow, TypeOK
  <2> QED
    BY <1>18, <2>1, <2>2, <2>3 DEF BookRow, TypeOK, people, money, bounds
<1>19. ASSUME NEW j \in Jobs, BookFails(j) PROVE TypeOK'
  <2>1. [job[j] EXCEPT !.pc = AfterBook(j), !.ok = TRUE, !.fee = 0] \in JobState
    BY <1>19, JobAt, PaidForms
  <2>2. job' \in [Jobs -> JobState]
    BY <1>19, <2>1, UpdateType DEF BookFails, Decided, TypeOK
  <2> QED
    BY <1>19, <2>1, <2>2 DEF BookFails, TypeOK, people, money, bounds
<1>20. ASSUME NEW j \in Jobs, MarkExecuted(j) PROVE TypeOK'
  <2>1. job[j].key \in Keys /\ job[j].booked \in BOOLEAN
    BY <1>20, JobAt
  <2>2. [request[job[j].key] EXCEPT !.status = "executed", !.txn = job[j].booked] \in RequestState
    BY <1>20, <2>1, RequestForms DEF TypeOK
  <2>3. request' \in [Keys -> RequestState]
    BY <1>20, <2>1, <2>2, FileType DEF MarkExecuted, TypeOK
  <2>4. job' \in [Jobs -> JobState]
    BY <1>20, GoType DEF MarkExecuted, TypeOK, PCs
  <2> QED
    BY <1>20, <2>1, <2>2, <2>3, <2>4 DEF MarkExecuted, TypeOK, people, money, bounds
<1>21. ASSUME NEW j \in Jobs, Commit(j) PROVE TypeOK'
  <2>1. RefOf(j) \in Refs
    BY <1>21, JobAt
  <2>2. Freed(j) \in [LockNames -> Jobs \cup {NoJob}]
    BY <1>21 DEF Freed, TypeOK
  <2>3. lock' \in [LockNames -> Jobs \cup {NoJob}] /\ job' \in [Jobs -> JobState]
    BY <1>21, <2>2, ThrowType, IdleType, UpdateType DEF Commit, TypeOK
  <2> QED
    BY <1>21, <2>1, <2>2, <2>3 DEF Commit, TypeOK, people, money, bounds
<1>22. ASSUME NEW j \in Jobs, Catch(j) PROVE TypeOK'
  <2>1. job[j].key \in Keys
    BY <1>22, JobAt
  <2>2. request[job[j].key].decidedAt \in Nat
    BY <1>22, <2>1 DEF TypeOK, RequestState
  <2>3. request' \in [Keys -> RequestState]
    BY <1>22, <2>1, <2>2, StatusType DEF Catch, TypeOK
  <2>4. job' \in [Jobs -> JobState]
    BY <1>22, IdleType, UpdateType DEF Catch, TypeOK
  <2> QED
    BY <1>22, <2>1, <2>2, <2>3, <2>4 DEF Catch, TypeOK, people, money, bounds
<1>23. ASSUME NEW j \in Jobs, Crash(j) PROVE TypeOK'
  <2>1. RefOf(j) \in Refs
    BY <1>23, JobAt
  <2>2. Freed(j) \in [LockNames -> Jobs \cup {NoJob}]
    BY <1>23 DEF Freed, TypeOK
  <2>3. job' \in [Jobs -> JobState]
    BY <1>23, IdleType, UpdateType DEF Crash, TypeOK
  <2> QED
    BY <1>23, <2>1, <2>2, <2>3 DEF Crash, TypeOK, people, money, bounds
<1>24. ASSUME NEW r \in Refs, WireArrives(r) PROVE TypeOK'
  <2> QED
    BY <1>24 DEF WireArrives, TypeOK, people, money, bounds
<1>25. ASSUME NEW r \in Refs, WireLost(r) PROVE TypeOK'
  <2> QED
    BY <1>25 DEF WireLost, TypeOK, people, money, bounds
<1>26. ASSUME NEW k \in Keys, NEW s \in {"rejected", "cancelled"}, Withdraw(k, s) PROVE TypeOK'
  <2>1. request' \in [Keys -> RequestState]
    BY <1>26, StatusType DEF Withdraw, TypeOK
  <2> QED
    BY <1>26, <2>1 DEF Withdraw, TypeOK, people, money, bounds
<1>27. ASSUME ExpireStale PROVE TypeOK'
  <2>1. request' \in [Keys -> RequestState]
    BY <1>27, RequestForms DEF ExpireStale, TypeOK
  <2> QED
    BY <1>27, <2>1 DEF ExpireStale, TypeOK, people, money, bounds
<1>28. ASSUME SweepStuck PROVE TypeOK'
  <2>1. request' \in [Keys -> RequestState]
    BY <1>28, RequestForms DEF SweepStuck, TypeOK
  <2> QED
    BY <1>28, <2>1 DEF SweepStuck, TypeOK, people, money, bounds
<1>29. ASSUME NEW s \in Staff, RemoveStaff(s) PROVE TypeOK'
  <2>1. request' \in [Keys -> RequestState]
    BY <1>29, RequestForms DEF RemoveStaff, TypeOK
  <2>2. post' \in [Staff -> {"employed", "leaving", "gone"}]
    BY <1>29 DEF RemoveStaff, TypeOK
  <2> QED
    <3>1. UNCHANGED <<now, cap, topCap, lock, job, money, told, starts, drops>>
      BY <1>29, Zenon DEF RemoveStaff
    <3>2. changes' = changes + 1
      BY <1>29, Zenon DEF RemoveStaff
    <3>3. changes' \in Nat
      BY <3>2 DEF TypeOK
    <3> QED
      BY <2>1, <2>2, <3>1, <3>3 DEF TypeOK, money
<1>30. ASSUME NEW s \in Staff, DeleteStaff(s) PROVE TypeOK'
  <2> QED
    BY <1>30 DEF DeleteStaff, TypeOK, people, money, bounds
<1>31. ASSUME NEW s \in Staff, NEW c \in Caps, Grant(s, c) PROVE TypeOK'
  <2> QED
    BY <1>31, CapsAssumption DEF Grant, TypeOK, people, money, bounds
<1>32. CASE Tick
  BY <1>32 DEF Tick, TypeOK, people, money, bounds
<1>33. CASE UNCHANGED vars
  BY <1>33 DEF vars, TypeOK, people, money, bounds
<1> QED
  BY <1>1, <1>2, <1>3, <1>4, <1>5, <1>6, <1>7, <1>8, <1>9, <1>10, <1>11, <1>12, <1>13, <1>14, <1>15, <1>16, <1>17, <1>18, <1>19, <1>20, <1>21, <1>22, <1>23, <1>24, <1>25, <1>26, <1>27, <1>28, <1>29, <1>30, <1>31, <1>32, <1>33 DEF Next

\* Every variable keeps its type in every reachable state.
THEOREM TypeCorrect == Spec => []TypeOK
  BY TypeInit, TypeNext, PTL DEF Spec

-----------------------------------------------------------------------------
(***************************************************************************)
(* Success is only reported for money that moved                           *)
(***************************************************************************)

-----------------------------------------------------------------------------
(* What a step does to the handlers *)

LEMMA UpdateFields ==
  ASSUME TypeOK, NEW j \in Jobs, NEW rec, Update(j, rec)
  PROVE  job'[j] = rec /\ \A i \in Jobs \ {j} : job'[i] = job[i]
  BY DEF Update, TypeOK

LEMMA GoFields ==
  ASSUME TypeOK, NEW j \in Jobs, NEW pc, Go(j, pc)
  PROVE  /\ job'[j].pc = pc /\ job'[j].kind = job[j].kind /\ job'[j].key = job[j].key
         /\ job'[j].ok = job[j].ok /\ job'[j].safe = job[j].safe
         /\ \A i \in Jobs \ {j} : job'[i] = job[i]
<1>1. job[j] \in JobState
  BY DEF TypeOK
<1>2. job'[j] = [job[j] EXCEPT !.pc = pc] /\ \A i \in Jobs \ {j} : job'[i] = job[i]
  BY UpdateFields DEF Go
<1> QED
  BY <1>1, <1>2 DEF JobState

LEMMA IdleFields == Idle.pc = "idle" /\ Idle.kind = "send" /\ Idle.ok = FALSE /\ Idle.safe = FALSE
  BY DEF Idle

LEMMA ThrowFields ==
  ASSUME TypeOK, NEW j \in Jobs, NEW safe \in BOOLEAN, Throw(j, safe)
  PROVE  /\ job[j].kind = "send" => job'[j] = Idle
         /\ job[j].kind = "approve" => /\ job'[j].pc = "catch" /\ job'[j].kind = "approve"
                                       /\ job'[j].key = job[j].key /\ job'[j].safe = safe
                                       /\ job'[j].ok = FALSE
         /\ \A i \in Jobs \ {j} : job'[i] = job[i]
<1> DEFINE rec == [Idle EXCEPT !.pc = "catch", !.kind = "approve", !.key = job[j].key, !.safe = safe]
<1>1. /\ rec.pc = "catch" /\ rec.kind = "approve" /\ rec.key = job[j].key
      /\ rec.safe = safe /\ rec.ok = FALSE
  BY IdleType, IdleFields DEF JobState
<1>2. Update(j, IF job[j].kind = "send" THEN Idle ELSE rec)
  BY DEF Throw
<1> HIDE DEF rec
<1> QED
  BY <1>1, <1>2, UpdateFields

LEMMA PaidFields ==
  ASSUME TypeOK, NEW j \in Jobs, NEW pc,
         \/ Update(j, [job[j] EXCEPT !.pc = pc, !.booked = TRUE, !.ok = TRUE])
         \/ Update(j, [job[j] EXCEPT !.pc = pc, !.booked = TRUE, !.ok = TRUE, !.fee = 0])
         \/ Update(j, [job[j] EXCEPT !.pc = pc, !.ok = TRUE, !.fee = 0])
  PROVE  /\ job'[j].pc = pc /\ job'[j].kind = job[j].kind /\ job'[j].key = job[j].key
         /\ job'[j].ok = TRUE /\ job'[j].safe = job[j].safe
         /\ \A i \in Jobs \ {j} : job'[i] = job[i]
<1>1. job[j] \in JobState
  BY DEF TypeOK
<1>2. \/ job'[j] = [job[j] EXCEPT !.pc = pc, !.booked = TRUE, !.ok = TRUE]
      \/ job'[j] = [job[j] EXCEPT !.pc = pc, !.booked = TRUE, !.ok = TRUE, !.fee = 0]
      \/ job'[j] = [job[j] EXCEPT !.pc = pc, !.ok = TRUE, !.fee = 0]
  BY UpdateFields
<1>3. \A i \in Jobs \ {j} : job'[i] = job[i]
  BY UpdateFields
<1>4. CASE job'[j] = [job[j] EXCEPT !.pc = pc, !.booked = TRUE, !.ok = TRUE]
  BY <1>1, <1>3, <1>4 DEF JobState
<1>5. CASE job'[j] = [job[j] EXCEPT !.pc = pc, !.booked = TRUE, !.ok = TRUE, !.fee = 0]
  BY <1>1, <1>3, <1>5 DEF JobState
<1>6. CASE job'[j] = [job[j] EXCEPT !.pc = pc, !.ok = TRUE, !.fee = 0]
  BY <1>1, <1>3, <1>6 DEF JobState
<1> QED
  BY <1>2, <1>4, <1>5, <1>6

LEMMA FeeFields ==
  ASSUME TypeOK, NEW j \in Jobs, NEW pc, NEW f,
         Update(j, [job[j] EXCEPT !.pc = pc, !.fee = f])
  PROVE  /\ job'[j].pc = pc /\ job'[j].kind = job[j].kind /\ job'[j].key = job[j].key
         /\ job'[j].ok = job[j].ok /\ job'[j].safe = job[j].safe
         /\ \A i \in Jobs \ {j} : job'[i] = job[i]
<1>1. job[j] \in JobState
  BY DEF TypeOK
<1>2. job'[j] = [job[j] EXCEPT !.pc = pc, !.fee = f]
  BY UpdateFields
<1>3. \A i \in Jobs \ {j} : job'[i] = job[i]
  BY UpdateFields
<1> QED
  BY <1>1, <1>2, <1>3 DEF JobState

LEMMA CapFields ==
  ASSUME TypeOK, NEW j \in Jobs, NEW pc, NEW e,
         \/ Update(j, [job[j] EXCEPT !.pc = pc, !.exempt = e])
         \/ Update(j, [job[j] EXCEPT !.pc = pc, !.cap = 0, !.exempt = {}])
  PROVE  /\ job'[j].pc = pc /\ job'[j].kind = job[j].kind /\ job'[j].key = job[j].key
         /\ job'[j].ok = job[j].ok /\ job'[j].safe = job[j].safe
         /\ \A i \in Jobs \ {j} : job'[i] = job[i]
<1>1. job[j] \in JobState
  BY DEF TypeOK
<1>2. \/ job'[j] = [job[j] EXCEPT !.pc = pc, !.exempt = e]
      \/ job'[j] = [job[j] EXCEPT !.pc = pc, !.cap = 0, !.exempt = {}]
  BY UpdateFields
<1>3. \A i \in Jobs \ {j} : job'[i] = job[i]
  BY UpdateFields
<1>4. CASE job'[j] = [job[j] EXCEPT !.pc = pc, !.exempt = e]
  BY <1>1, <1>3, <1>4 DEF JobState
<1>5. CASE job'[j] = [job[j] EXCEPT !.pc = pc, !.cap = 0, !.exempt = {}]
  BY <1>1, <1>3, <1>5 DEF JobState
<1> QED
  BY <1>2, <1>4, <1>5

LEMMA StartFields ==
  ASSUME TypeOK, NEW j \in Jobs, NEW k, NEW c,
         \/ Update(j, [Idle EXCEPT !.pc = "lock", !.key = k, !.cap = c])
         \/ Update(j, [Idle EXCEPT !.pc = "lock", !.kind = "approve", !.key = k])
  PROVE  /\ job'[j].pc = "lock" /\ job'[j].key = k /\ ~job'[j].ok
         /\ \A i \in Jobs \ {j} : job'[i] = job[i]
<1> DEFINE a == [Idle EXCEPT !.pc = "lock", !.key = k, !.cap = c]
           b == [Idle EXCEPT !.pc = "lock", !.kind = "approve", !.key = k]
<1>1. /\ a.pc = "lock" /\ a.key = k /\ ~a.ok
      /\ b.pc = "lock" /\ b.key = k /\ ~b.ok
  BY IdleType, IdleFields DEF JobState
<1>2. (job'[j] = a \/ job'[j] = b) /\ \A i \in Jobs \ {j} : job'[i] = job[i]
  BY UpdateFields
<1> HIDE DEF a, b
<1> QED
  BY <1>1, <1>2

LEMMA StatusFields ==
  ASSUME TypeOK, NEW k \in Keys, NEW s, NEW t, SetStatus(k, s, t)
  PROVE  \A m \in Keys : request'[m].status = IF m = k THEN s ELSE request[m].status
<1>1. request[k] \in RequestState /\ request \in [Keys -> RequestState]
  BY DEF TypeOK
<1>2. [request[k] EXCEPT !.status = s, !.decidedAt = t].status = s
  BY <1>1 DEF RequestState
<1> QED
  BY <1>1, <1>2 DEF SetStatus, File

\* The writers that decide several requests in one statement.
LEMMA SweepFields ==
  ASSUME TypeOK
  PROVE  /\ ExpireStale => \A m \in Keys :
              request'[m].status = IF IsLapsed(m) THEN "expired" ELSE request[m].status
         /\ SweepStuck => \A m \in Keys :
              request'[m].status = IF IsStuck(m) THEN "failed" ELSE request[m].status
         /\ \A s \in Staff : RemoveStaff(s) => \A m \in Keys :
              request'[m].status = IF Actor(m) = s /\ request[m].status = "pending"
                                   THEN "cancelled" ELSE request[m].status
<1>1. \A m \in Keys : \A v, t : /\ [request[m] EXCEPT !.status = v].status = v
                               /\ [request[m] EXCEPT !.status = v, !.decidedAt = t].status = v
  BY DEF TypeOK, RequestState
<1>2. ASSUME ExpireStale, NEW m \in Keys PROVE request'[m].status = IF m \in {i \in Keys : IsLapsed(i)} THEN "expired" ELSE request[m].status
  <2>1. request' = [k \in Keys |-> IF k \in {i \in Keys : IsLapsed(i)} THEN [request[k] EXCEPT !.status = "expired", !.decidedAt = now] ELSE request[k]]
    BY <1>2, Zenon DEF ExpireStale
  <2>2. CASE m \in {i \in Keys : IsLapsed(i)}
    <3>1. request'[m] = [request[m] EXCEPT !.status = "expired", !.decidedAt = now]
      BY <2>1, <2>2, Zenon
    <3> QED
      BY <3>1, <1>1, <2>2
  <2>3. CASE ~(m \in {i \in Keys : IsLapsed(i)})
    BY <2>1, <2>3, Zenon
  <2> QED
    BY <2>2, <2>3, Zenon
<1>3. ASSUME SweepStuck, NEW m \in Keys PROVE request'[m].status = IF IsStuck(m) THEN "failed" ELSE request[m].status
  <2>1. request' = [k \in Keys |-> IF IsStuck(k) THEN [request[k] EXCEPT !.status = "failed"] ELSE request[k]]
    BY <1>3, Zenon DEF SweepStuck
  <2>2. CASE IsStuck(m)
    <3>1. request'[m] = [request[m] EXCEPT !.status = "failed"]
      BY <2>1, <2>2, Zenon
    <3> QED
      BY <3>1, <1>1, <2>2
  <2>3. CASE ~(IsStuck(m))
    BY <2>1, <2>3, Zenon
  <2> QED
    BY <2>2, <2>3, Zenon
<1>4. ASSUME NEW s \in Staff, RemoveStaff(s), NEW m \in Keys PROVE request'[m].status = IF Actor(m) = s /\ request[m].status = "pending" THEN "cancelled" ELSE request[m].status
  <2>1. request' = [k \in Keys |-> IF Actor(k) = s /\ request[k].status = "pending" THEN [request[k] EXCEPT !.status = "cancelled", !.decidedAt = now] ELSE request[k]]
    BY <1>4, Zenon DEF RemoveStaff
  <2>2. CASE Actor(m) = s /\ request[m].status = "pending"
    <3>1. request'[m] = [request[m] EXCEPT !.status = "cancelled", !.decidedAt = now]
      BY <2>1, <2>2, Zenon
    <3> QED
      BY <3>1, <1>1, <2>2
  <2>3. CASE ~(Actor(m) = s /\ request[m].status = "pending")
    BY <2>1, <2>3, Zenon
  <2> QED
    BY <2>2, <2>3, Zenon
<1> QED
  BY <1>2, <1>3, <1>4

\* A request newly held is pending, and the only one written.
LEMMA HoldFields ==
  ASSUME TypeOK, NEW j \in Jobs, Hold(j)
  PROVE  /\ \A m \in Keys :
              \/ request'[m].status = request[m].status
              \/ m = job[j].key /\ request[m].status = "none" /\ request'[m].status = "pending"
         /\ \/ Throw(j, FALSE)
            \/ Decided(j, "commit")
<1> DEFINE rec == [NoRequest EXCEPT !.status = "pending", !.expiresAt = now + Day]
<1>1. rec.status = "pending"
  BY NoRequestType DEF RequestState
<1>2. request \in [Keys -> RequestState]
  BY DEF TypeOK
<1>3. request' = request \/ (request[job[j].key].status = "none" /\ File(job[j].key, rec))
  BY Zenon DEF Hold
<1>4. Throw(j, FALSE) \/ Decided(j, "commit")
  BY Zenon DEF Hold
<1> HIDE DEF rec
<1> QED
  BY <1>1, <1>2, <1>3, <1>4 DEF File

-----------------------------------------------------------------------------
(* Success means money *)

LEMMA BankedStill ==
  ASSUME TypeOK, BankedInv, UNCHANGED <<job, rows, told>>,
         \A r \in Refs : bank'[r] >= bank[r] /\ bank'[r] \in Nat,
         \A k \in Keys : request'[k].status = "executed" => request[k].status = "executed"
  PROVE  BankedInv'
<1>1. \A r \in Refs : bank[r] \in Nat /\ (bank[r] > 0 => bank'[r] > 0)
  BY DEF TypeOK
<1>2. /\ \A j \in Jobs : RefOf(j) \in Refs /\ RefOf(j)' = RefOf(j)
      /\ \A r \in rows : r.ref \in Refs
      /\ \A k \in Keys : <<"kbsa", k>> \in Refs
      /\ told \subseteq Refs
  BY JobAt DEF TypeOK, Row, Refs, RefOf
<1> QED
  BY <1>1, <1>2 DEF BankedInv

\* One handler moves; the rows and what clients were told stay.
LEMMA BankedStep ==
  ASSUME TypeOK, BankedInv, NEW j \in Jobs, UNCHANGED <<rows, told>>,
         \A i \in Jobs \ {j} : job'[i] = job[i],
         \A r \in Refs : bank'[r] >= bank[r] /\ bank'[r] \in Nat,
         \A k \in Keys : request'[k].status = "executed" => request[k].status = "executed",
         job'[j].pc \in {"fee", "book", "mark"} \/ job'[j].ok => bank'[RefOf(j)'] > 0,
         InRole(job'[j])
  PROVE  BankedInv'
<1>1. \A r \in Refs : bank[r] \in Nat /\ (bank[r] > 0 => bank'[r] > 0)
  BY DEF TypeOK
<1>2. /\ \A r \in rows : r.ref \in Refs
      /\ \A k \in Keys : <<"kbsa", k>> \in Refs
      /\ told \subseteq Refs
  BY DEF TypeOK, Row, Refs
<1>3. ASSUME NEW i \in Jobs, job'[i].pc \in {"fee", "book", "mark"} \/ job'[i].ok
      PROVE  bank'[RefOf(i)'] > 0
  <2>1. CASE i = j
    BY <2>1, <1>3
  <2>2. CASE i # j
    <3>1. RefOf(i)' = RefOf(i) /\ RefOf(i) \in Refs /\ job'[i] = job[i]
      BY <2>2, JobAt DEF RefOf
    <3> QED
      BY <3>1, <1>1, <1>3 DEF BankedInv
  <2> QED
    BY <2>1, <2>2
<1>4. \A i \in Jobs : InRole(job'[i])
  BY DEF BankedInv
<1> QED
  BY <1>1, <1>2, <1>3, <1>4 DEF BankedInv

\* Moving on inside the handler, short of the payout or past it.
LEMMA BankedGo ==
  ASSUME TypeOK, BankedInv, NEW j \in Jobs, NEW pc, Go(j, pc),
         pc \notin {"fee", "book", "mark"}, InRole(job'[j]), UNCHANGED <<rows, told, bank>>,
         \A k \in Keys : request'[k].status = "executed" => request[k].status = "executed"
  PROVE  BankedInv'
<1>1. job'[j].ok => job[j].ok /\ RefOf(j)' = RefOf(j)
  BY GoFields DEF RefOf
<1>2. \A r \in Refs : bank'[r] >= bank[r] /\ bank'[r] \in Nat
  BY DEF TypeOK
<1>3. job'[j].pc \in {"fee", "book", "mark"} \/ job'[j].ok => bank'[RefOf(j)'] > 0
  BY <1>1, GoFields DEF BankedInv
<1>4. \A i \in Jobs \ {j} : job'[i] = job[i]
  BY GoFields
<1> QED
  BY <1>2, <1>3, <1>4, BankedStep

\* Giving up, by an exception or by the end of the request.
LEMMA BankedDrop ==
  ASSUME TypeOK, BankedInv, NEW j \in Jobs, UNCHANGED <<rows, told, bank>>,
         Update(j, Idle) \/ \E safe \in BOOLEAN : Throw(j, safe),
         \A k \in Keys : request'[k].status = "executed" => request[k].status = "executed"
  PROVE  BankedInv'
<1>1. job[j].kind \in {"send", "approve"}
  BY JobAt, JobFields
<1>2. /\ ~job'[j].ok /\ job'[j].pc \notin {"fee", "book", "mark"}
      /\ InRole(job'[j]) /\ \A i \in Jobs \ {j} : job'[i] = job[i]
  BY <1>1, UpdateFields, ThrowFields, IdleFields DEF InRole
<1>3. \A r \in Refs : bank'[r] >= bank[r] /\ bank'[r] \in Nat
  BY DEF TypeOK
<1> QED
  BY <1>2, <1>3, BankedStep

LEMMA BankedInit == Init => BankedInv
  BY IdleFields DEF Init, BankedInv, NoRequest, InRole

\* Every step keeps BankedInv.
LEMMA BankedNext == TypeOK /\ BankedInv /\ [Next]_vars => BankedInv'
<1> SUFFICES ASSUME TypeOK, BankedInv, [Next]_vars PROVE BankedInv'
  OBVIOUS
<1> DEFINE Kept == \A k \in Keys : request'[k].status = "executed" => request[k].status = "executed"
           Grows == \A r \in Refs : bank'[r] >= bank[r] /\ bank'[r] \in Nat
<1>a. UNCHANGED bank => Grows
  BY DEF TypeOK
<1>b. UNCHANGED request => Kept
  OBVIOUS
<1>c. \A j \in Jobs : job[j] \in JobState /\ job[j].key \in Keys
  BY JobAt
<1>1. ASSUME NEW j \in Jobs, NEW k \in Keys, Post(j, k) PROVE BankedInv'
  <2>1. UNCHANGED <<rows, told, bank, request>>
    BY <1>1, Zenon DEF Post, money
  <2>2. \E c : Update(j, [Idle EXCEPT !.pc = "lock", !.key = k, !.cap = c])
    BY <1>1, Zenon DEF Post
  <2>3. job'[j].pc = "lock" /\ ~job'[j].ok /\ InRole(job'[j]) /\ \A i \in Jobs \ {j} : job'[i] = job[i]
    BY <2>2, StartFields DEF InRole
  <2> QED
    BY <2>1, <2>3, <1>a, <1>b, BankedStep
<1>2. ASSUME NEW j \in Jobs, NEW k \in Keys, Approve(j, k) PROVE BankedInv'
  <2>1. UNCHANGED <<rows, told, bank>>
    BY <1>2, Zenon DEF Approve, money
  <2>2. CASE UNCHANGED job /\ SetStatus(k, "rejected", now)
    BY <2>1, <2>2, <1>a, StatusFields, BankedStill
  <2>3. CASE UNCHANGED request /\ Update(j, [Idle EXCEPT !.pc = "lock", !.kind = "approve", !.key = k])
    <3>1. job'[j].pc = "lock" /\ ~job'[j].ok /\ InRole(job'[j]) /\ \A i \in Jobs \ {j} : job'[i] = job[i]
      BY <2>3, StartFields DEF InRole
    <3> QED
      BY <3>1, <2>1, <2>3, <1>a, <1>b, BankedStep
  <2>4. \/ UNCHANGED job /\ SetStatus(k, "rejected", now)
        \/ UNCHANGED request /\ Update(j, [Idle EXCEPT !.pc = "lock", !.kind = "approve", !.key = k])
    BY <1>2, Zenon DEF Approve
  <2> QED
    BY <2>2, <2>3, <2>4
<1>3. ASSUME NEW j \in Jobs, AcquireLock(j) PROVE BankedInv'
  <2>1. UNCHANGED <<rows, told, bank>>
    BY <1>3, Zenon DEF AcquireLock, money
  <2>2. Kept
    BY <1>3, <1>b, Zenon DEF AcquireLock
  <2>3. PICK pc \in {"lock", "claim", "aml"} : Go(j, pc) /\ (pc = "claim" => job[j].kind = "approve")
    BY <1>3 DEF AcquireLock
  <2>4. InRole(job'[j])
    BY <2>3, <1>c, GoFields, JobFields DEF InRole
  <2> QED
    BY <2>1, <2>2, <2>3, <2>4, BankedGo
<1>4. ASSUME NEW j \in Jobs, DbError(j) PROVE BankedInv'
  <2>1. UNCHANGED <<rows, told, bank>>
    BY <1>4, Zenon DEF DbError, money
  <2>2. Kept
    BY <1>4, <1>b, Zenon DEF DbError
  <2>3. Update(j, Idle) \/ \E safe \in BOOLEAN : Throw(j, safe)
    BY <1>4 DEF DbError
  <2> QED
    BY <2>1, <2>2, <2>3, BankedDrop
<1>5. ASSUME NEW j \in Jobs, LockLost(j) PROVE BankedInv'
  <2>1. UNCHANGED <<job, rows, told, bank, request>>
    BY <1>5, Zenon DEF LockLost, money
  <2> QED
    BY <2>1, <1>a, <1>b, BankedStill
<1>6. ASSUME NEW j \in Jobs, Claim(j) PROVE BankedInv'
  <2>1. UNCHANGED <<rows, told, bank>>
    BY <1>6, Zenon DEF Claim, money
  <2>2. Kept
    <3>1. \/ UNCHANGED request
         \/ SetStatus(job[j].key, "approving", now)
      BY <1>6, Zenon DEF Claim
    <3> QED
      BY <3>1, <1>b, <1>c, StatusFields
  <2>3. PICK pc \in {"aml", "commit"} : Go(j, pc)
    BY <1>6 DEF Claim
  <2>4. InRole(job'[j])
    BY <2>3, <1>c, GoFields, JobFields DEF InRole
  <2> QED
    BY <2>1, <2>2, <2>3, <2>4, BankedGo
<1>7. ASSUME NEW j \in Jobs, AmlPass(j) PROVE BankedInv'
  <2>1. UNCHANGED <<rows, told, bank, request>>
    BY <1>7, Zenon DEF AmlPass, money
  <2>2. PICK pc, e : /\ pc \in {"cap", "exec"} /\ (pc = "cap" => job[j].kind = "send")
                      /\ Update(j, [job[j] EXCEPT !.pc = pc, !.exempt = e])
    BY <1>7 DEF AmlPass
  <2>3. /\ job'[j].pc \in {"cap", "exec"} /\ job'[j].ok = job[j].ok /\ RefOf(j)' = RefOf(j)
        /\ InRole(job'[j]) /\ \A i \in Jobs \ {j} : job'[i] = job[i]
    BY <2>2, CapFields DEF RefOf, InRole
  <2> QED
    BY <2>1, <2>3, <1>a, <1>b, BankedStep DEF BankedInv
<1>8. ASSUME NEW j \in Jobs, AmlBlock(j) PROVE BankedInv'
  <2>1. UNCHANGED <<rows, told, bank>>
    BY <1>8, Zenon DEF AmlBlock, money
  <2>2. Kept
    <3>1. \/ UNCHANGED request
         \/ SetStatus(job[j].key, "pending", 0)
      BY <1>8, Zenon DEF AmlBlock
    <3> QED
      BY <3>1, <1>b, <1>c, StatusFields
  <2>3. PICK pc \in {"commit"} : Go(j, pc)
    BY <1>8 DEF AmlBlock
  <2>4. InRole(job'[j])
    BY <2>3, <1>c, GoFields, JobFields DEF InRole
  <2> QED
    BY <2>1, <2>2, <2>3, <2>4, BankedGo
<1>9. ASSUME NEW j \in Jobs, CapPass(j) PROVE BankedInv'
  <2>1. UNCHANGED <<rows, told, bank, request>>
    BY <1>9, Zenon DEF CapPass, money
  <2>2. PICK pc \in {"cap", "exec"} :
          /\ pc = "cap" => job[j].kind = "send"
          /\ Update(j, [job[j] EXCEPT !.pc = pc, !.cap = 0, !.exempt = {}])
    BY <1>9 DEF CapPass, Decided
  <2>3. /\ job'[j].pc \in {"cap", "exec"} /\ job'[j].ok = job[j].ok /\ RefOf(j)' = RefOf(j)
        /\ InRole(job'[j]) /\ \A i \in Jobs \ {j} : job'[i] = job[i]
    BY <2>2, CapFields DEF RefOf, InRole
  <2> QED
    BY <2>1, <2>3, <1>a, <1>b, BankedStep DEF BankedInv
<1>10. ASSUME NEW j \in Jobs, Hold(j) PROVE BankedInv'
  <2>1. UNCHANGED <<rows, told, bank>>
    BY <1>10, Zenon DEF Hold, money
  <2>2. Kept
    BY <1>10, HoldFields
  <2>3. CASE Throw(j, FALSE)
    BY <2>1, <2>2, <2>3, BankedDrop
  <2>4. CASE Decided(j, "commit")
    <3>1. /\ job'[j].pc = "commit" /\ job'[j].ok = job[j].ok /\ RefOf(j)' = RefOf(j)
          /\ InRole(job'[j]) /\ \A i \in Jobs \ {j} : job'[i] = job[i]
      <4>1. Update(j, [job[j] EXCEPT !.pc = "commit", !.cap = 0, !.exempt = {}])
        BY <2>4, Zenon DEF Decided
      <4>2. /\ job'[j].pc = "commit" /\ job'[j].ok = job[j].ok /\ job'[j].kind = job[j].kind
            /\ job'[j].key = job[j].key /\ \A i \in Jobs \ {j} : job'[i] = job[i]
        BY <4>1, CapFields, Zenon
      <4> QED
        BY <4>2 DEF RefOf, InRole
    <3> QED
      BY <3>1, <2>1, <2>2, <1>a, BankedStep DEF BankedInv
  <2> QED
    BY <1>10, <2>3, <2>4, HoldFields
<1>11. ASSUME NEW j \in Jobs, IdempotentSkip(j) PROVE BankedInv'
  <2>1. UNCHANGED <<rows, told, bank, request>>
    BY <1>11, Zenon DEF IdempotentSkip, money
  <2>2. RefOf(j)' = RefOf(j) /\ InRole(job'[j])
        /\ \A i \in Jobs \ {j} : job'[i] = job[i]
    <3>1. Update(j, [job[j] EXCEPT !.pc = AfterBook(j), !.booked = TRUE, !.ok = TRUE])
      BY <1>11, Zenon DEF IdempotentSkip
    <3>2. /\ job'[j].pc = AfterBook(j) /\ job'[j].kind = job[j].kind /\ job'[j].key = job[j].key
          /\ \A i \in Jobs \ {j} : job'[i] = job[i]
      BY <3>1, PaidFields, Zenon
    <3> QED
      BY <3>2, <1>c, JobFields DEF RefOf, AfterBook, InRole
  <2>3. bank[RefOf(j)] > 0
    BY <1>11 DEF IdempotentSkip, Booked, BankedInv
  <2> QED
    BY <2>1, <2>2, <2>3, <1>a, <1>b, BankedStep
<1>12. ASSUME NEW j \in Jobs, RefuseEarly(j) PROVE BankedInv'
  <2>1. UNCHANGED <<rows, told, bank>>
    BY <1>12, Zenon DEF RefuseEarly, money
  <2>2. Kept
    BY <1>12, <1>b, Zenon DEF RefuseEarly
  <2>3. Update(j, Idle) \/ \E safe \in BOOLEAN : Throw(j, safe)
    BY <1>12 DEF RefuseEarly
  <2> QED
    BY <2>1, <2>2, <2>3, BankedDrop
<1>13. ASSUME NEW j \in Jobs, StartPayout(j) PROVE BankedInv'
  <2>1. UNCHANGED <<rows, told, bank>>
    BY <1>13, Zenon DEF StartPayout, money
  <2>2. Kept
    BY <1>13, <1>b, Zenon DEF StartPayout
  <2>3. PICK pc \in {"bank"} : Go(j, pc)
    BY <1>13 DEF StartPayout
  <2>4. InRole(job'[j])
    BY <2>3, <1>c, GoFields, JobFields DEF InRole
  <2> QED
    BY <2>1, <2>2, <2>3, <2>4, BankedGo
<1>14. ASSUME NEW j \in Jobs, BankAccepts(j) PROVE BankedInv'
  <2>1. UNCHANGED <<rows, told, request>>
    BY <1>14, Zenon DEF BankAccepts
  <2>2. RefOf(j)' = RefOf(j) /\ InRole(job'[j])
        /\ \A i \in Jobs \ {j} : job'[i] = job[i]
    BY <1>14, GoFields DEF RefOf, BankAccepts, InRole
  <2>3. Grows /\ bank'[RefOf(j)] > 0
    BY <1>14, JobAt DEF BankAccepts, TypeOK
  <2> QED
    BY <2>1, <2>2, <2>3, <1>b, BankedStep
<1>15. ASSUME NEW j \in Jobs, BankRefuses(j) PROVE BankedInv'
  <2>1. UNCHANGED <<rows, told, bank>>
    BY <1>15, Zenon DEF BankRefuses, money
  <2>2. Kept
    BY <1>15, <1>b, Zenon DEF BankRefuses
  <2>3. Update(j, Idle) \/ \E safe \in BOOLEAN : Throw(j, safe)
    BY <1>15 DEF BankRefuses
  <2> QED
    BY <2>1, <2>2, <2>3, BankedDrop
<1>16. ASSUME NEW j \in Jobs, BankUnknown(j) PROVE BankedInv'
  <2>1. UNCHANGED <<rows, told, bank>>
    BY <1>16, Zenon DEF BankUnknown, money
  <2>2. Kept
    BY <1>16, <1>b, Zenon DEF BankUnknown
  <2>3. Update(j, Idle) \/ \E safe \in BOOLEAN : Throw(j, safe)
    BY <1>16 DEF BankUnknown
  <2> QED
    BY <2>1, <2>2, <2>3, BankedDrop
<1>17. ASSUME NEW j \in Jobs, SweepFee(j) PROVE BankedInv'
  <2>1. UNCHANGED <<rows, told, bank, request>>
    BY <1>17, Zenon DEF SweepFee
  <2>2. PICK f : Update(j, [job[j] EXCEPT !.pc = "book", !.fee = f])
    BY <1>17, Zenon DEF SweepFee
  <2>3. RefOf(j)' = RefOf(j) /\ InRole(job'[j]) /\ \A i \in Jobs \ {j} : job'[i] = job[i]
    <3>1. /\ job'[j].pc = "book" /\ job'[j].kind = job[j].kind /\ job'[j].key = job[j].key
          /\ \A i \in Jobs \ {j} : job'[i] = job[i]
      BY <2>2, FeeFields, Zenon
    <3> QED
      BY <3>1 DEF RefOf, InRole
  <2>4. bank[RefOf(j)] > 0
    BY <1>17 DEF SweepFee, BankedInv
  <2> QED
    BY <2>1, <2>3, <2>4, <1>a, <1>b, BankedStep
<1>18. ASSUME NEW j \in Jobs, BookRow(j) PROVE BankedInv'
  <2>1. UNCHANGED <<told, bank, request>> /\ \A r \in rows' : r \in rows \/ r.ref = RefOf(j)
    BY <1>18 DEF BookRow
  <2>2. bank[RefOf(j)] > 0
    BY <1>18 DEF BookRow, BankedInv
  <2>3. RefOf(j)' = RefOf(j) /\ InRole(job'[j])
        /\ \A i \in Jobs \ {j} : job'[i] = job[i]
    <3>1. Update(j, [job[j] EXCEPT !.pc = AfterBook(j), !.booked = TRUE, !.ok = TRUE, !.fee = 0])
      BY <1>18, Zenon DEF BookRow
    <3>2. /\ job'[j].pc = AfterBook(j) /\ job'[j].kind = job[j].kind /\ job'[j].key = job[j].key
          /\ \A i \in Jobs \ {j} : job'[i] = job[i]
      BY <3>1, PaidFields, Zenon
    <3> QED
      BY <3>2, <1>c, JobFields DEF RefOf, AfterBook, InRole
  <2>4. \A i \in Jobs \ {j} : RefOf(i)' = RefOf(i)
    BY <2>3 DEF RefOf
  <2> QED
    BY <2>1, <2>2, <2>3, <2>4 DEF BankedInv
<1>19. ASSUME NEW j \in Jobs, BookFails(j) PROVE BankedInv'
  <2>1. UNCHANGED <<rows, told, bank, request>>
    BY <1>19, Zenon DEF BookFails, money
  <2>2. RefOf(j)' = RefOf(j) /\ InRole(job'[j])
        /\ \A i \in Jobs \ {j} : job'[i] = job[i]
    <3>1. Update(j, [job[j] EXCEPT !.pc = AfterBook(j), !.ok = TRUE, !.fee = 0])
      BY <1>19, Zenon DEF BookFails
    <3>2. /\ job'[j].pc = AfterBook(j) /\ job'[j].kind = job[j].kind /\ job'[j].key = job[j].key
          /\ \A i \in Jobs \ {j} : job'[i] = job[i]
      BY <3>1, PaidFields, Zenon
    <3> QED
      BY <3>2, <1>c, JobFields DEF RefOf, AfterBook, InRole
  <2>3. bank[RefOf(j)] > 0
    BY <1>19 DEF BookFails, BankedInv
  <2> QED
    BY <2>1, <2>2, <2>3, <1>a, <1>b, BankedStep
<1>20. ASSUME NEW j \in Jobs, MarkExecuted(j) PROVE BankedInv'
  <2>1. UNCHANGED <<rows, told, bank>> /\ Go(j, "commit")
    BY <1>20, Zenon DEF MarkExecuted, money
  <2>2. request' = [request EXCEPT ![job[j].key] =
                      [request[job[j].key] EXCEPT !.status = "executed", !.txn = job[j].booked]]
    BY <1>20, Zenon DEF MarkExecuted, File
  <2>3. \A k \in Keys : request'[k].status = "executed" => request[k].status = "executed" \/ k = job[j].key
    BY <2>2, <1>c DEF TypeOK
  <2>4. RefOf(j)' = RefOf(j) /\ InRole(job'[j]) /\ bank[RefOf(j)] > 0 /\ \A i \in Jobs \ {j} : job'[i] = job[i]
    BY <1>20, <2>1, GoFields DEF RefOf, MarkExecuted, BankedInv, InRole
  <2>5. \A i \in Jobs \ {j} : RefOf(i)' = RefOf(i)
    BY <2>4 DEF RefOf
  <2>6. job[j].kind = "approve"
    BY <1>20, Zenon DEF MarkExecuted, BankedInv, InRole
  <2> QED
    BY <2>1, <2>3, <2>4, <2>5, <2>6 DEF BankedInv, RefOf
<1>21. ASSUME NEW j \in Jobs, Commit(j) PROVE BankedInv'
  <2>1. CASE UNCHANGED told
    <3>1. UNCHANGED <<rows, bank, request>>
      BY <1>21, Zenon DEF Commit, money
    <3>2. Update(j, Idle) \/ \E safe \in BOOLEAN : Throw(j, safe)
      BY <1>21 DEF Commit
    <3> QED
      BY <3>1, <3>2, <2>1, <1>b, BankedDrop
  <2>2. CASE job[j].ok /\ told' = told \cup {RefOf(j)} /\ Update(j, Idle)
    <3>1. UNCHANGED <<rows, bank, request>>
      BY <1>21, Zenon DEF Commit, money
    <3>2. bank[RefOf(j)] > 0
      BY <2>2 DEF BankedInv
    <3>3. /\ InRole(job'[j]) /\ ~job'[j].ok /\ job'[j].pc \notin {"fee", "book", "mark"}
          /\ \A i \in Jobs \ {j} : job'[i] = job[i] /\ RefOf(i)' = RefOf(i)
      BY <2>2, UpdateFields, IdleFields DEF RefOf, InRole
    <3> QED
      BY <3>1, <3>2, <3>3, <2>2 DEF BankedInv
  <2>3. UNCHANGED told \/ (job[j].ok /\ told' = told \cup {RefOf(j)} /\ Update(j, Idle))
    BY <1>21, Zenon DEF Commit
  <2> QED
    BY <2>1, <2>2, <2>3
<1>22. ASSUME NEW j \in Jobs, Catch(j) PROVE BankedInv'
  <2>1. UNCHANGED <<rows, told, bank>>
    BY <1>22, Zenon DEF Catch, money
  <2>2. Kept
    <3>1. \/ UNCHANGED request
         \/ SetStatus(job[j].key, "pending", 0)
         \/ SetStatus(job[j].key, "failed", request[job[j].key].decidedAt)
      BY <1>22, Zenon DEF Catch
    <3> QED
      BY <3>1, <1>b, <1>c, StatusFields
  <2>3. Update(j, Idle) \/ \E safe \in BOOLEAN : Throw(j, safe)
    BY <1>22 DEF Catch
  <2> QED
    BY <2>1, <2>2, <2>3, BankedDrop
<1>23. ASSUME NEW j \in Jobs, Crash(j) PROVE BankedInv'
  <2>1. UNCHANGED <<rows, told, bank>>
    BY <1>23, Zenon DEF Crash, money
  <2>2. Kept
    BY <1>23, <1>b, Zenon DEF Crash
  <2>3. Update(j, Idle) \/ \E safe \in BOOLEAN : Throw(j, safe)
    BY <1>23 DEF Crash
  <2> QED
    BY <2>1, <2>2, <2>3, BankedDrop
<1>24. ASSUME NEW r \in Refs, WireArrives(r) PROVE BankedInv'
  <2>1. UNCHANGED <<job, rows, told, request>>
    BY <1>24, Zenon DEF WireArrives
  <2>2. Grows
    BY <1>24 DEF WireArrives, TypeOK
  <2> QED
    BY <2>1, <2>2, <1>b, BankedStill
<1>25. ASSUME NEW r \in Refs, WireLost(r) PROVE BankedInv'
  <2>1. UNCHANGED <<job, rows, told, bank, request>>
    BY <1>25, Zenon DEF WireLost, money
  <2> QED
    BY <2>1, <1>a, <1>b, BankedStill
<1>26. ASSUME NEW k \in Keys, NEW s \in {"rejected", "cancelled"}, Withdraw(k, s) PROVE BankedInv'
  <2>1. UNCHANGED <<job, rows, told, bank>>
    BY <1>26, Zenon DEF Withdraw, money
  <2>2. Kept
    BY <1>26, StatusFields DEF Withdraw
  <2> QED
    BY <2>1, <2>2, <1>a, BankedStill
<1>27. ASSUME ExpireStale PROVE BankedInv'
  <2>1. UNCHANGED <<job, rows, told, bank>>
    BY <1>27, Zenon DEF ExpireStale, money
  <2>2. Kept
    BY <1>27, SweepFields
  <2> QED
    BY <2>1, <2>2, <1>a, BankedStill
<1>28. ASSUME SweepStuck PROVE BankedInv'
  <2>1. UNCHANGED <<job, rows, told, bank>>
    BY <1>28, Zenon DEF SweepStuck, money
  <2>2. Kept
    BY <1>28, SweepFields
  <2> QED
    BY <2>1, <2>2, <1>a, BankedStill
<1>29. ASSUME NEW s \in Staff, RemoveStaff(s) PROVE BankedInv'
  <2>1. UNCHANGED <<job, rows, told, bank>>
    BY <1>29, Zenon DEF RemoveStaff, money
  <2>2. Kept
    BY <1>29, SweepFields
  <2> QED
    BY <2>1, <2>2, <1>a, BankedStill
<1>30. ASSUME NEW s \in Staff, DeleteStaff(s) PROVE BankedInv'
  <2>1. UNCHANGED <<job, rows, told, bank, request>>
    BY <1>30, Zenon DEF DeleteStaff, money
  <2> QED
    BY <2>1, <1>a, <1>b, BankedStill
<1>31. ASSUME NEW s \in Staff, NEW c \in Caps, Grant(s, c) PROVE BankedInv'
  <2>1. UNCHANGED <<job, rows, told, bank, request>>
    BY <1>31, Zenon DEF Grant, money
  <2> QED
    BY <2>1, <1>a, <1>b, BankedStill
<1>32. ASSUME Tick PROVE BankedInv'
  <2>1. UNCHANGED <<job, rows, told, bank, request>>
    BY <1>32, Zenon DEF Tick, money
  <2> QED
    BY <2>1, <1>a, <1>b, BankedStill
<1>33. CASE UNCHANGED vars
  BY <1>33, <1>a, <1>b, BankedStill DEF vars
<1> QED
  BY <1>1, <1>2, <1>3, <1>4, <1>5, <1>6, <1>7, <1>8, <1>9, <1>10, <1>11, <1>12, <1>13, <1>14, <1>15, <1>16, <1>17, <1>18, <1>19, <1>20, <1>21, <1>22, <1>23, <1>24, <1>25, <1>26, <1>27, <1>28, <1>29, <1>30, <1>31, <1>32, <1>33 DEF Next

\* A success answer, an "executed" request and a row are only for money that moved.
THEOREM SuccessBanked == Spec => []SuccessIsBanked
<1>1. BankedInv => SuccessIsBanked
  BY DEF BankedInv, SuccessIsBanked
<1> QED
  BY <1>1, BankedInit, BankedNext, TypeCorrect, PTL DEF Spec

-----------------------------------------------------------------------------
(***************************************************************************)
(* One owner and at most one payout, whatever becomes of the locks         *)
(***************************************************************************)

-----------------------------------------------------------------------------
(* Claims and what leaves them alone *)

Held(k) == <<"kbsa", k>>

\* Status changes that never disturb a claim.
Quiet(s, t) ==
  \/ s = t
  \/ s \in Withdrawn \cup {"pending"} /\ t \in Withdrawn \cup {"pending"}
  \/ s = "approving" /\ t = "failed"

\* A handler keeps its phase or drops out.
Calm(i) == \A k \in Keys : Phase(job'[i], k) \in {Phase(job[i], k), "none"}

-----------------------------------------------------------------------------
(* Steps that do not disturb any claim *)

LEMMA HeldIsRef == \A k \in Keys : Held(k) \in Refs
  BY DEF Held, Refs

LEMMA ClaimFrame ==
  ASSUME NEW k \in Keys, ClaimOK(k),
         \A i \in Jobs : Phase(job'[i], k) \in {Phase(job[i], k), "none"},
         Quiet(request[k].status, request'[k].status),
         bank'[Held(k)] = bank[Held(k)], Held(k) \in wire' => Held(k) \in wire
  PROVE  ClaimOK(k)'
<1>1. \A i \in Jobs : Claimed(i, k)' => Claimed(i, k) /\ Phase(job'[i], k) = Phase(job[i], k)
  BY DEF Claimed
<1>2. \A i, j \in Jobs : Claimed(i, k)' /\ Claimed(j, k)' => i = j
  BY <1>1 DEF ClaimOK
<1>3. ASSUME NEW j \in Jobs
      PROVE  /\ Claimed(j, k)' => /\ request'[k].status \in {"approving", "failed"}
                                  /\ Held(k) \notin wire'
             /\ Phase(job'[j], k) = "before" => bank'[Held(k)] = 0
             /\ Phase(job'[j], k) = "after" => bank'[Held(k)] = 1
  BY <1>1, <1>3 DEF ClaimOK, Quiet, Withdrawn, Held, Claimed
<1>4. request'[k].status \in Withdrawn \cup {"pending"} => bank'[Held(k)] = 0 /\ Held(k) \notin wire'
  BY DEF ClaimOK, Quiet, Withdrawn, Held
<1>5. request'[k].status = "executed" => bank'[Held(k)] = 1
  BY DEF ClaimOK, Quiet, Withdrawn, Held
<1>6. (Held(k) \in wire' => bank'[Held(k)] = 0) /\ bank'[Held(k)] <= 1
  BY DEF ClaimOK, Held
<1> QED
  BY <1>2, <1>3, <1>4, <1>5, <1>6 DEF ClaimOK, Held

LEMMA ClaimStill ==
  ASSUME ClaimInv, UNCHANGED job, UNCHANGED bank, wire' \subseteq wire,
         \A k \in Keys : Quiet(request[k].status, request'[k].status)
  PROVE  ClaimInv'
  BY ClaimFrame DEF ClaimInv

\* One handler moves, keeping its phase or dropping out.
LEMMA ClaimStep ==
  ASSUME ClaimInv, NEW j \in Jobs, UNCHANGED bank, wire' \subseteq wire,
         Calm(j), \A i \in Jobs \ {j} : job'[i] = job[i],
         \A k \in Keys : Quiet(request[k].status, request'[k].status)
  PROVE  ClaimInv'
<1>1. \A i \in Jobs, k \in Keys : Phase(job'[i], k) \in {Phase(job[i], k), "none"}
  BY DEF Calm
<1> QED
  BY <1>1, ClaimFrame DEF ClaimInv

\* Phases only depend on these fields.
LEMMA PhaseOf ==
  ASSUME NEW x, NEW y, NEW k, x.kind = y.kind, x.key = y.key
  PROVE  /\ y.pc \in {"aml", "exec", "bank"} /\ x.pc \in {"aml", "exec", "bank"}
              => Phase(x, k) = Phase(y, k)
         /\ y.pc \in {"fee", "book", "mark"} /\ x.pc \in {"fee", "book", "mark"}
              => Phase(x, k) = Phase(y, k)
         /\ x.pc \in {"idle", "lock", "claim", "cap", "commit"} => Phase(x, k) = "none"
  BY DEF Phase

LEMMA SendHasNoPhase == \A x, k : x.kind = "send" => Phase(x, k) = "none"
  BY DEF Phase

\* An exception never starts a claim, and keeps one only when it is safe.
LEMMA ThrowCalm ==
  ASSUME TypeOK, NEW j \in Jobs, NEW safe \in BOOLEAN, Throw(j, safe),
         safe => job[j].pc \in {"aml", "exec", "bank"}
  PROVE  /\ Calm(j) /\ \A i \in Jobs \ {j} : job'[i] = job[i]
         /\ ~safe => \A k \in Keys : Phase(job'[j], k) = "none"
<1>1. job[j].kind \in {"send", "approve"}
  BY JobAt, JobFields
<1>2. CASE job[j].kind = "send"
  BY <1>2, ThrowFields, IdleFields DEF Calm, Phase
<1>3. CASE job[j].kind = "approve"
  BY <1>3, ThrowFields DEF Calm, Phase
<1> QED
  BY <1>1, <1>2, <1>3

LEMMA IdleCalm ==
  ASSUME TypeOK, NEW j \in Jobs, Update(j, Idle)
  PROVE  /\ Calm(j) /\ \A i \in Jobs \ {j} : job'[i] = job[i]
         /\ \A k \in Keys : Phase(job'[j], k) = "none"
  BY UpdateFields, IdleFields DEF Calm, Phase

\* The owner of a claim gives its request back to the queue.
LEMMA PutBack ==
  ASSUME TypeOK, ClaimInv, NEW j \in Jobs, NEW k \in Keys, Phase(job[j], k) = "before",
         UNCHANGED bank, UNCHANGED wire,
         \A m \in Keys : Phase(job'[j], m) = "none",
         \A i \in Jobs \ {j} : job'[i] = job[i],
         \A m \in Keys : request'[m].status = IF m = k THEN "pending" ELSE request[m].status
  PROVE  ClaimInv'
<1>1. ASSUME NEW m \in Keys, m # k PROVE ClaimOK(m)'
  BY <1>1, ClaimFrame DEF ClaimInv, Quiet
<1>2. /\ bank[Held(k)] = 0 /\ Held(k) \notin wire
      /\ \A i \in Jobs \ {j} : Phase(job[i], k) = "none"
  BY DEF ClaimInv, ClaimOK, Claimed, Held
<1>3. \A i \in Jobs : Phase(job'[i], k) = "none"
  BY <1>2
<1>4. ClaimOK(k)'
  BY <1>2, <1>3 DEF ClaimOK, Claimed, Held, Withdrawn
<1> QED
  BY <1>1, <1>4 DEF ClaimInv

\* A handler leaves a call on the wire and its claim behind.
LEMMA GoneOut ==
  ASSUME TypeOK, ClaimInv, NEW j \in Jobs, job[j].pc = "bank",
         job[j].key \in Keys, job[j].kind \in {"send", "approve"},
         UNCHANGED bank, UNCHANGED request, wire' = wire \cup {RefOf(j)},
         \A m \in Keys : Phase(job'[j], m) = "none",
         \A i \in Jobs \ {j} : job'[i] = job[i]
  PROVE  ClaimInv'
<1>1. ASSUME NEW m \in Keys, RefOf(j) # Held(m) PROVE ClaimOK(m)'
  BY <1>1, ClaimFrame DEF ClaimInv, Quiet
<1>2. ASSUME NEW k \in Keys, RefOf(j) = Held(k) PROVE ClaimOK(k)'
  <2>1. Phase(job[j], k) = "before"
    BY <1>2 DEF Phase, RefOf, Held
  <2>2. /\ bank[Held(k)] = 0 /\ request[k].status \in {"approving", "failed"}
        /\ \A i \in Jobs \ {j} : Phase(job[i], k) = "none"
    BY <2>1 DEF ClaimInv, ClaimOK, Claimed, Held
  <2>3. \A i \in Jobs : Phase(job'[i], k) = "none"
    BY <2>2
  <2> QED
    BY <2>2, <2>3 DEF ClaimOK, Claimed, Held, Withdrawn
<1> QED
  BY <1>1, <1>2 DEF ClaimInv

-----------------------------------------------------------------------------
(* The claim invariant *)

LEMMA ClaimInit == Init => ClaimInv
<1> SUFFICES ASSUME Init PROVE ClaimInv
  OBVIOUS
<1>1. \A j \in Jobs, k \in Keys : Phase(job[j], k) = "none"
  BY SendHasNoPhase, IdleFields DEF Init
<1>2. \A k \in Keys : request[k].status = "none" /\ bank[Held(k)] = 0 /\ Held(k) \notin wire
  BY HeldIsRef DEF Init, NoRequest
<1>3. ASSUME NEW k \in Keys PROVE ClaimOK(k)
  <2>1. \A j \in Jobs : ~Claimed(j, k) /\ Phase(job[j], k) = "none"
    BY <1>1 DEF Claimed
  <2> QED
    BY <2>1, <1>2 DEF ClaimOK, Held
<1> QED
  BY <1>3 DEF ClaimInv

\* Every step keeps ClaimInv.
LEMMA ClaimNext == TypeOK /\ BankedInv /\ ClaimInv /\ [Next]_vars => ClaimInv'
<1> SUFFICES ASSUME TypeOK, BankedInv, ClaimInv, [Next]_vars PROVE ClaimInv'
  OBVIOUS
<1> DEFINE Silent == \A k \in Keys : Quiet(request[k].status, request'[k].status)
<1>a. UNCHANGED request => Silent
  BY DEF Quiet
<1>b. UNCHANGED wire => wire' \subseteq wire
  OBVIOUS
<1>c. \A j \in Jobs : /\ job[j] \in JobState /\ job[j].key \in Keys
                      /\ job[j].kind \in {"send", "approve"} /\ InRole(job[j])
  BY JobAt, JobFields DEF BankedInv
<1>1. ASSUME NEW j \in Jobs, NEW k \in Keys, Post(j, k) PROVE ClaimInv'
  <2>1. UNCHANGED <<bank, wire, request>>
    BY <1>1, Zenon DEF Post, money
  <2>2. \E c : Update(j, [Idle EXCEPT !.pc = "lock", !.key = k, !.cap = c])
    BY <1>1, Zenon DEF Post
  <2>3. job'[j].pc = "lock" /\ \A i \in Jobs \ {j} : job'[i] = job[i]
    BY <2>2, StartFields
  <2>4. Calm(j)
    BY <2>3 DEF Calm, Phase
  <2> QED
    BY <2>1, <2>3, <2>4, <1>a, <1>b, ClaimStep
<1>2. ASSUME NEW j \in Jobs, NEW k \in Keys, Approve(j, k) PROVE ClaimInv'
  <2>1. UNCHANGED <<bank, wire>>
    BY <1>2, Zenon DEF Approve, money
  <2>2. request[k].status = "pending"
    BY <1>2, Zenon DEF Approve
  <2>3. CASE UNCHANGED job /\ SetStatus(k, "rejected", now)
    <3>1. Silent
      BY <2>2, <2>3, StatusFields DEF Quiet, Withdrawn
    <3> QED
      BY <3>1, <2>1, <2>3, <1>b, ClaimStill
  <2>4. CASE UNCHANGED request /\ Update(j, [Idle EXCEPT !.pc = "lock", !.kind = "approve", !.key = k])
    <3>1. job'[j].pc = "lock" /\ \A i \in Jobs \ {j} : job'[i] = job[i]
      BY <2>4, StartFields
    <3>2. Calm(j)
      BY <3>1 DEF Calm, Phase
    <3> QED
      BY <3>1, <3>2, <2>1, <2>4, <1>a, <1>b, ClaimStep
  <2>5. \/ UNCHANGED job /\ SetStatus(k, "rejected", now)
        \/ UNCHANGED request /\ Update(j, [Idle EXCEPT !.pc = "lock", !.kind = "approve", !.key = k])
    BY <1>2, Zenon DEF Approve
  <2> QED
    BY <2>3, <2>4, <2>5
<1>3. ASSUME NEW j \in Jobs, AcquireLock(j) PROVE ClaimInv'
  <2>1. UNCHANGED <<bank, wire, request>>
    BY <1>3, Zenon DEF AcquireLock, money
  <2>2. PICK pc \in {"lock", "claim", "aml"} : Go(j, pc) /\ (pc = "aml" => job[j].kind # "approve")
    BY <1>3 DEF AcquireLock
  <2>3. /\ job'[j].pc = pc /\ job'[j].kind = job[j].kind
        /\ \A i \in Jobs \ {j} : job'[i] = job[i]
    BY <2>2, GoFields
  <2>4. Calm(j)
    BY <2>2, <2>3, <1>c DEF Calm, Phase
  <2> QED
    BY <2>1, <2>3, <2>4, <1>a, <1>b, ClaimStep
<1>4. ASSUME NEW j \in Jobs, DbError(j) PROVE ClaimInv'
  <2>1. UNCHANGED <<bank, wire, request>>
    BY <1>4, Zenon DEF DbError, money
  <2>2. PICK safe \in BOOLEAN : Throw(j, safe) /\ (safe => job[j].pc \in {"aml", "exec", "bank"})
    BY <1>4 DEF DbError
  <2> QED
    BY <2>1, <2>2, <1>a, <1>b, ThrowCalm, ClaimStep
<1>5. ASSUME NEW j \in Jobs, LockLost(j) PROVE ClaimInv'
  <2>1. UNCHANGED <<job, bank, wire, request>>
    BY <1>5, Zenon DEF LockLost, money
  <2> QED
    BY <2>1, <1>a, <1>b, ClaimStill
<1>6. ASSUME NEW j \in Jobs, Claim(j) PROVE ClaimInv'
  <2>1. UNCHANGED <<bank, wire>>
    BY <1>6, Zenon DEF Claim, money
  <2>2. job[j].pc = "claim"
    BY <1>6, Zenon DEF Claim
  <2>3. CASE UNCHANGED request /\ Go(j, "commit")
    <3>1. job'[j].pc = "commit" /\ \A i \in Jobs \ {j} : job'[i] = job[i]
      BY <2>3, GoFields
    <3>2. Calm(j)
      BY <3>1 DEF Calm, Phase
    <3> QED
      BY <3>1, <3>2, <2>1, <2>3, <1>a, <1>b, ClaimStep
  <2>4. CASE request[job[j].key].status = "pending" /\ SetStatus(job[j].key, "approving", now) /\ Go(j, "aml")
    <3>1. /\ job'[j].pc = "aml" /\ job'[j].kind = job[j].kind /\ job'[j].key = job[j].key
          /\ \A i \in Jobs \ {j} : job'[i] = job[i]
      BY <2>4, GoFields
    <3>2. \A m \in Keys : request'[m].status = IF m = job[j].key THEN "approving" ELSE request[m].status
      BY <2>4, <1>c, StatusFields
    <3>3. ASSUME NEW m \in Keys, m # job[j].key PROVE ClaimOK(m)'
      <4>1. \A i \in Jobs : Phase(job'[i], m) \in {Phase(job[i], m), "none"}
        BY <3>1, <3>3 DEF Phase
      <4> QED
        BY <4>1, <3>2, <3>3, <2>1, ClaimFrame DEF ClaimInv, Quiet
    <3>4. ASSUME NEW k \in Keys, k = job[j].key PROVE ClaimOK(k)'
      <4>1. bank[Held(k)] = 0 /\ Held(k) \notin wire /\ \A i \in Jobs : Phase(job[i], k) = "none"
        BY <2>4, <3>4 DEF ClaimInv, ClaimOK, Held, Withdrawn, Claimed
      <4>2. \A i \in Jobs \ {j} : Phase(job'[i], k) = "none"
        BY <4>1, <3>1
      <4>3. Phase(job'[j], k) \in {"none", "before"}
        BY <3>1 DEF Phase
      <4>4. request'[k].status = "approving"
        BY <3>2, <3>4
      <4> QED
        BY <4>1, <4>2, <4>3, <4>4, <2>1 DEF ClaimOK, Held, Withdrawn, Claimed
    <3> QED
      BY <3>3, <3>4 DEF ClaimInv
  <2>5. \/ UNCHANGED request /\ Go(j, "commit")
        \/ request[job[j].key].status = "pending" /\ SetStatus(job[j].key, "approving", now) /\ Go(j, "aml")
    BY <1>6, Zenon DEF Claim
  <2> QED
    BY <2>3, <2>4, <2>5
<1>7. ASSUME NEW j \in Jobs, AmlPass(j) PROVE ClaimInv'
  <2>1. UNCHANGED <<bank, wire, request>>
    BY <1>7, Zenon DEF AmlPass, money
  <2>2. PICK pc, e : /\ Update(j, [job[j] EXCEPT !.pc = pc, !.exempt = e])
                     /\ pc = "cap" \/ pc = "exec"
    BY <1>7 DEF AmlPass
  <2>3. /\ job'[j].pc = pc /\ job'[j].kind = job[j].kind /\ job'[j].key = job[j].key
        /\ \A i \in Jobs \ {j} : job'[i] = job[i]
    BY <2>2, CapFields
  <2>4. job[j].pc = "aml"
    BY <1>7, Zenon DEF AmlPass
  <2>5. Calm(j)
    BY <2>2, <2>3, <2>4, PhaseOf DEF Calm
  <2> QED
    BY <2>1, <2>3, <2>5, <1>a, <1>b, ClaimStep
<1>8. ASSUME NEW j \in Jobs, AmlBlock(j) PROVE ClaimInv'
  <2>1. UNCHANGED <<bank, wire>>
    BY <1>8, Zenon DEF AmlBlock, money
  <2>2. job[j].pc = "aml" /\ Go(j, "commit")
    BY <1>8, Zenon DEF AmlBlock
  <2>3. job'[j].pc = "commit" /\ \A i \in Jobs \ {j} : job'[i] = job[i]
    BY <2>2, GoFields
  <2>4. \A k \in Keys : Phase(job'[j], k) = "none"
    BY <2>3 DEF Phase
  <2>5. CASE UNCHANGED request
    BY <2>1, <2>3, <2>4, <2>5, <1>a, <1>b, ClaimStep DEF Calm
  <2>6. CASE job[j].kind = "approve" /\ SetStatus(job[j].key, "pending", 0)
    <3>1. Phase(job[j], job[j].key) = "before"
      BY <2>2, <2>6 DEF Phase
    <3>2. \A m \in Keys : request'[m].status = IF m = job[j].key THEN "pending" ELSE request[m].status
      BY <2>6, <1>c, StatusFields
    <3> QED
      BY <3>1, <3>2, <2>1, <2>3, <2>4, <1>c, PutBack
  <2>7. UNCHANGED request \/ (job[j].kind = "approve" /\ SetStatus(job[j].key, "pending", 0))
    BY <1>8, Zenon DEF AmlBlock
  <2> QED
    BY <2>5, <2>6, <2>7
<1>9. ASSUME NEW j \in Jobs, CapPass(j) PROVE ClaimInv'
  <2>1. UNCHANGED <<bank, wire, request>>
    BY <1>9, Zenon DEF CapPass, money
  <2>2. Update(j, [job[j] EXCEPT !.pc = "exec", !.cap = 0, !.exempt = {}])
    BY <1>9, Zenon DEF CapPass, Decided
  <2>3. job'[j].kind = job[j].kind /\ \A i \in Jobs \ {j} : job'[i] = job[i]
    BY <2>2, CapFields, Zenon
  <2>4. job[j].kind = "send"
    BY <1>9, <1>c DEF CapPass, InRole
  <2>5. Calm(j)
    BY <2>3, <2>4, SendHasNoPhase DEF Calm
  <2> QED
    BY <2>1, <2>3, <2>5, <1>a, <1>b, ClaimStep
<1>10. ASSUME NEW j \in Jobs, Hold(j) PROVE ClaimInv'
  <2>1. UNCHANGED <<bank, wire>>
    BY <1>10, Zenon DEF Hold, money
  <2>2. Silent
    BY <1>10, HoldFields DEF Quiet, Withdrawn
  <2>3. Calm(j) /\ \A i \in Jobs \ {j} : job'[i] = job[i]
    <3>1. CASE Throw(j, FALSE)
      BY <3>1, ThrowCalm
    <3>2. CASE Decided(j, "commit")
      <4>1. Update(j, [job[j] EXCEPT !.pc = "commit", !.cap = 0, !.exempt = {}])
        BY <3>2, Zenon DEF Decided
      <4>2. job'[j].pc = "commit" /\ \A i \in Jobs \ {j} : job'[i] = job[i]
        BY <4>1, CapFields, Zenon
      <4> QED
        BY <4>2 DEF Calm, Phase
    <3> QED
      BY <1>10, <3>1, <3>2, HoldFields
  <2> QED
    BY <2>1, <2>2, <2>3, <1>b, ClaimStep
<1>11. ASSUME NEW j \in Jobs, IdempotentSkip(j) PROVE ClaimInv'
  <2>1. UNCHANGED <<bank, wire, request>>
    BY <1>11, Zenon DEF IdempotentSkip, money
  <2>2. Update(j, [job[j] EXCEPT !.pc = AfterBook(j), !.booked = TRUE, !.ok = TRUE])
    BY <1>11, Zenon DEF IdempotentSkip
  <2>3. /\ job'[j].pc = AfterBook(j) /\ job'[j].kind = job[j].kind /\ job'[j].key = job[j].key
        /\ \A i \in Jobs \ {j} : job'[i] = job[i]
    BY <2>2, PaidFields, Zenon
  <2>4. job[j].kind = "send"
    <3>1. job[j].pc = "exec" /\ bank[RefOf(j)] > 0
      BY <1>11 DEF IdempotentSkip, Booked, BankedInv
    <3>2. job[j].kind = "approve" => Phase(job[j], job[j].key) = "before" /\ RefOf(j) = Held(job[j].key)
      BY <3>1 DEF Phase, RefOf, Held
    <3>3. Phase(job[j], job[j].key) = "before" => bank[Held(job[j].key)] = 0
      BY <1>c DEF ClaimInv, ClaimOK, Held
    <3> QED
      BY <3>1, <3>2, <3>3, <1>c
  <2>5. Calm(j)
    BY <2>3, <2>4, SendHasNoPhase DEF Calm
  <2> QED
    BY <2>1, <2>3, <2>5, <1>a, <1>b, ClaimStep
<1>12. ASSUME NEW j \in Jobs, RefuseEarly(j) PROVE ClaimInv'
  <2>1. UNCHANGED <<bank, wire, request>>
    BY <1>12, Zenon DEF RefuseEarly, money
  <2>2. PICK safe \in BOOLEAN : Throw(j, safe) /\ (safe => job[j].pc \in {"aml", "exec", "bank"})
    BY <1>12 DEF RefuseEarly
  <2> QED
    BY <2>1, <2>2, <1>a, <1>b, ThrowCalm, ClaimStep
<1>13. ASSUME NEW j \in Jobs, StartPayout(j) PROVE ClaimInv'
  <2>1. UNCHANGED <<bank, wire, request>>
    BY <1>13, Zenon DEF StartPayout, money
  <2>2. job[j].pc = "exec" /\ Go(j, "bank")
    BY <1>13, Zenon DEF StartPayout
  <2>3. /\ job'[j].pc = "bank" /\ job'[j].kind = job[j].kind /\ job'[j].key = job[j].key
        /\ \A i \in Jobs \ {j} : job'[i] = job[i]
    BY <2>2, GoFields
  <2>4. Calm(j)
    BY <2>2, <2>3, PhaseOf DEF Calm
  <2> QED
    BY <2>1, <2>3, <2>4, <1>a, <1>b, ClaimStep
<1>14. ASSUME NEW j \in Jobs, BankAccepts(j) PROVE ClaimInv'
  <2>1. UNCHANGED <<request, wire>>
    BY <1>14, Zenon DEF BankAccepts, money
  <2>2. /\ job[j].pc = "bank" /\ bank' = [bank EXCEPT ![RefOf(j)] = @ + 1]
        /\ Go(j, "fee") \/ Go(j, "book")
    BY <1>14, Zenon DEF BankAccepts
  <2>3. /\ job'[j].pc \in {"fee", "book"} /\ job'[j].kind = job[j].kind /\ job'[j].key = job[j].key
        /\ \A i \in Jobs \ {j} : job'[i] = job[i]
    BY <2>2, GoFields
  <2>4. ASSUME NEW k \in Keys, k # job[j].key \/ job[j].kind = "send" PROVE ClaimOK(k)'
    <3>1. bank'[Held(k)] = bank[Held(k)]
      BY <2>2, <2>4, HeldIsRef DEF Held, RefOf, TypeOK
    <3>2. \A i \in Jobs : Phase(job'[i], k) \in {Phase(job[i], k), "none"}
      BY <2>3, <2>4 DEF Phase
    <3> QED
      BY <3>1, <3>2, <2>1, <2>4, <1>a, ClaimFrame DEF ClaimInv
  <2>5. ASSUME NEW k \in Keys, k = job[j].key, job[j].kind = "approve" PROVE ClaimOK(k)'
    <3>1. Phase(job[j], k) = "before" /\ Phase(job'[j], k) = "after"
      BY <2>2, <2>3, <2>5 DEF Phase
    <3>2. /\ bank[Held(k)] = 0 /\ Held(k) \notin wire /\ request[k].status \in {"approving", "failed"}
          /\ \A i \in Jobs \ {j} : Phase(job[i], k) = "none"
      BY <3>1, <2>5 DEF ClaimInv, ClaimOK, Claimed, Held
    <3>3. bank'[Held(k)] = 1
      BY <3>2, <2>2, <2>5, HeldIsRef DEF Held, RefOf, TypeOK
    <3>4. \A i \in Jobs \ {j} : Phase(job'[i], k) = "none"
      BY <3>2, <2>3
    <3> QED
      BY <3>1, <3>2, <3>3, <3>4, <2>1 DEF ClaimOK, Claimed, Held, Withdrawn
  <2> QED
    BY <2>4, <2>5, <1>c DEF ClaimInv
<1>15. ASSUME NEW j \in Jobs, BankRefuses(j) PROVE ClaimInv'
  <2>1. UNCHANGED <<bank, wire, request>>
    BY <1>15, Zenon DEF BankRefuses, money
  <2>2. PICK safe \in BOOLEAN : Throw(j, safe) /\ (safe => job[j].pc \in {"aml", "exec", "bank"})
    BY <1>15 DEF BankRefuses
  <2> QED
    BY <2>1, <2>2, <1>a, <1>b, ThrowCalm, ClaimStep
<1>16. ASSUME NEW j \in Jobs, BankUnknown(j) PROVE ClaimInv'
  <2>1. UNCHANGED <<bank, request>>
    BY <1>16, Zenon DEF BankUnknown, money
  <2>2. job[j].pc = "bank" /\ wire' = wire \cup {RefOf(j)} /\ Throw(j, FALSE)
    BY <1>16, Zenon DEF BankUnknown
  <2>3. /\ \A k \in Keys : Phase(job'[j], k) = "none"
        /\ \A i \in Jobs \ {j} : job'[i] = job[i]
    BY <2>2, ThrowCalm
  <2> QED
    BY <2>1, <2>2, <2>3, <1>c, GoneOut
<1>17. ASSUME NEW j \in Jobs, SweepFee(j) PROVE ClaimInv'
  <2>1. UNCHANGED <<bank, wire, request>>
    BY <1>17, Zenon DEF SweepFee, money
  <2>2. PICK f : job[j].pc = "fee" /\ Update(j, [job[j] EXCEPT !.pc = "book", !.fee = f])
    BY <1>17, Zenon DEF SweepFee
  <2>3. /\ job'[j].pc = "book" /\ job'[j].kind = job[j].kind /\ job'[j].key = job[j].key
        /\ \A i \in Jobs \ {j} : job'[i] = job[i]
    BY <2>2, FeeFields, Zenon
  <2>4. Calm(j)
    BY <2>2, <2>3, PhaseOf DEF Calm
  <2> QED
    BY <2>1, <2>3, <2>4, <1>a, <1>b, ClaimStep
<1>18. ASSUME NEW j \in Jobs, BookRow(j) PROVE ClaimInv'
  <2>1. UNCHANGED <<bank, wire, request>>
    BY <1>18, Zenon DEF BookRow, money
  <2>2. Update(j, [job[j] EXCEPT !.pc = AfterBook(j), !.booked = TRUE, !.ok = TRUE, !.fee = 0])
    BY <1>18, Zenon DEF BookRow
  <2>3. /\ job'[j].pc = AfterBook(j) /\ job'[j].kind = job[j].kind /\ job'[j].key = job[j].key
        /\ \A i \in Jobs \ {j} : job'[i] = job[i]
    BY <2>2, PaidFields, Zenon
  <2>4. job[j].pc = "book"
    BY <1>18, Zenon DEF BookRow
  <2>5. Calm(j)
    BY <2>3, <2>4, <1>c, PhaseOf, SendHasNoPhase DEF Calm, AfterBook
  <2> QED
    BY <2>1, <2>3, <2>5, <1>a, <1>b, ClaimStep
<1>19. ASSUME NEW j \in Jobs, BookFails(j) PROVE ClaimInv'
  <2>1. UNCHANGED <<bank, wire, request>>
    BY <1>19, Zenon DEF BookFails, money
  <2>2. Update(j, [job[j] EXCEPT !.pc = AfterBook(j), !.ok = TRUE, !.fee = 0])
    BY <1>19, Zenon DEF BookFails
  <2>3. /\ job'[j].pc = AfterBook(j) /\ job'[j].kind = job[j].kind /\ job'[j].key = job[j].key
        /\ \A i \in Jobs \ {j} : job'[i] = job[i]
    BY <2>2, PaidFields, Zenon
  <2>4. job[j].pc = "book"
    BY <1>19, Zenon DEF BookFails
  <2>5. Calm(j)
    BY <2>3, <2>4, <1>c, PhaseOf, SendHasNoPhase DEF Calm, AfterBook
  <2> QED
    BY <2>1, <2>3, <2>5, <1>a, <1>b, ClaimStep
<1>20. ASSUME NEW j \in Jobs, MarkExecuted(j) PROVE ClaimInv'
  <2>1. UNCHANGED <<bank, wire>>
    BY <1>20, Zenon DEF MarkExecuted, money
  <2>2. job[j].pc = "mark" /\ Go(j, "commit")
    BY <1>20, Zenon DEF MarkExecuted
  <2>3. request' = [request EXCEPT ![job[j].key] =
                      [request[job[j].key] EXCEPT !.status = "executed", !.txn = job[j].booked]]
    BY <1>20, Zenon DEF MarkExecuted, File
  <2>4. \A k \in Keys : request'[k].status = IF k = job[j].key THEN "executed" ELSE request[k].status
    <3>1. [request[job[j].key] EXCEPT !.status = "executed", !.txn = job[j].booked].status = "executed"
      BY <1>c DEF TypeOK, RequestState
    <3> QED
      BY <2>3, <3>1, <1>c DEF TypeOK
  <2>5. \A i \in Jobs \ {j} : job'[i] = job[i]
    BY <2>2, GoFields
  <2>6. \A k \in Keys : Phase(job'[j], k) = "none"
    BY <2>2, GoFields DEF Phase
  <2>7. ASSUME NEW k \in Keys, k # job[j].key PROVE ClaimOK(k)'
    BY <2>7, <2>1, <2>4, <2>5, <2>6, ClaimFrame DEF ClaimInv, Quiet
  <2>8. ASSUME NEW k \in Keys, k = job[j].key PROVE ClaimOK(k)'
    <3>1. Phase(job[j], k) = "after"
      BY <2>2, <2>8, <1>c DEF Phase, InRole
    <3>2. /\ bank[Held(k)] = 1 /\ Held(k) \notin wire
          /\ \A i \in Jobs \ {j} : Phase(job[i], k) = "none"
      BY <3>1, <2>8 DEF ClaimInv, ClaimOK, Claimed, Held
    <3>3. \A i \in Jobs : Phase(job'[i], k) = "none"
      BY <3>2, <2>5, <2>6
    <3>4. request'[k].status = "executed"
      BY <2>4, <2>8
    <3> QED
      BY <3>2, <3>3, <3>4, <2>1 DEF ClaimOK, Claimed, Held, Withdrawn
  <2> QED
    BY <2>7, <2>8 DEF ClaimInv
<1>21. ASSUME NEW j \in Jobs, Commit(j) PROVE ClaimInv'
  <2>1. UNCHANGED <<bank, wire, request>>
    BY <1>21, Zenon DEF Commit, money
  <2>2. Update(j, Idle) \/ Throw(j, FALSE)
    BY <1>21, Zenon DEF Commit
  <2> QED
    BY <2>1, <2>2, <1>a, <1>b, IdleCalm, ThrowCalm, ClaimStep
<1>22. ASSUME NEW j \in Jobs, Catch(j) PROVE ClaimInv'
  <2>1. UNCHANGED <<bank, wire>>
    BY <1>22, Zenon DEF Catch, money
  <2>2. job[j].pc = "catch" /\ Update(j, Idle)
    BY <1>22, Zenon DEF Catch
  <2>3. /\ Calm(j) /\ \A i \in Jobs \ {j} : job'[i] = job[i]
        /\ \A k \in Keys : Phase(job'[j], k) = "none"
    BY <2>2, IdleCalm
  <2>4. CASE UNCHANGED request
    BY <2>1, <2>3, <2>4, <1>a, <1>b, ClaimStep
  <2>5. CASE request[job[j].key].status = "approving" /\ SetStatus(job[j].key, "failed", request[job[j].key].decidedAt)
    <3>1. Silent
      BY <2>5, <1>c, StatusFields DEF Quiet
    <3> QED
      BY <3>1, <2>1, <2>3, <1>b, ClaimStep
  <2>6. CASE job[j].safe /\ SetStatus(job[j].key, "pending", 0)
    <3>1. Phase(job[j], job[j].key) = "before"
      BY <2>2, <2>6, <1>c DEF Phase, InRole
    <3>2. \A m \in Keys : request'[m].status = IF m = job[j].key THEN "pending" ELSE request[m].status
      BY <2>6, <1>c, StatusFields
    <3> QED
      BY <3>1, <3>2, <2>1, <2>3, <1>c, PutBack
  <2>7. \/ UNCHANGED request
        \/ request[job[j].key].status = "approving" /\ SetStatus(job[j].key, "failed", request[job[j].key].decidedAt)
        \/ job[j].safe /\ SetStatus(job[j].key, "pending", 0)
    BY <1>22, Zenon DEF Catch
  <2> QED
    BY <2>4, <2>5, <2>6, <2>7
<1>23. ASSUME NEW j \in Jobs, Crash(j) PROVE ClaimInv'
  <2>1. UNCHANGED <<bank, request>>
    BY <1>23, Zenon DEF Crash, money
  <2>2. Update(j, Idle)
    BY <1>23, Zenon DEF Crash
  <2>3. /\ Calm(j) /\ \A i \in Jobs \ {j} : job'[i] = job[i]
        /\ \A k \in Keys : Phase(job'[j], k) = "none"
    BY <2>2, IdleCalm
  <2>4. CASE UNCHANGED wire
    BY <2>1, <2>3, <2>4, <1>a, <1>b, ClaimStep
  <2>5. CASE job[j].pc = "bank" /\ wire' = wire \cup {RefOf(j)}
    BY <2>1, <2>3, <2>5, <1>c, GoneOut
  <2>6. UNCHANGED wire \/ (job[j].pc = "bank" /\ wire' = wire \cup {RefOf(j)})
    BY <1>23, Zenon DEF Crash
  <2> QED
    BY <2>4, <2>5, <2>6
<1>24. ASSUME NEW r \in Refs, WireArrives(r) PROVE ClaimInv'
  <2>1. UNCHANGED <<job, request>>
    BY <1>24, Zenon DEF WireArrives, money
  <2>2. r \in wire /\ wire' = wire \ {r} /\ bank' = [bank EXCEPT ![r] = @ + 1]
    BY <1>24, Zenon DEF WireArrives
  <2>3. ASSUME NEW k \in Keys, Held(k) # r PROVE ClaimOK(k)'
    <3>1. bank'[Held(k)] = bank[Held(k)] /\ (Held(k) \in wire' => Held(k) \in wire)
      BY <2>2, <2>3, HeldIsRef DEF TypeOK
    <3> QED
      BY <3>1, <2>1, <2>3, <1>a, ClaimFrame DEF ClaimInv
  <2>4. ASSUME NEW k \in Keys, Held(k) = r PROVE ClaimOK(k)'
    <3>1. /\ bank[Held(k)] = 0 /\ request[k].status \notin Withdrawn \cup {"pending", "executed"}
          /\ \A i \in Jobs : Phase(job[i], k) = "none"
      BY <2>2, <2>4 DEF ClaimInv, ClaimOK, Claimed, Held
    <3>2. bank'[Held(k)] = 1 /\ Held(k) \notin wire'
      BY <3>1, <2>2, <2>4, HeldIsRef DEF TypeOK
    <3> QED
      BY <3>1, <3>2, <2>1 DEF ClaimOK, Claimed, Held
  <2> QED
    BY <2>3, <2>4 DEF ClaimInv
<1>25. ASSUME NEW r \in Refs, WireLost(r) PROVE ClaimInv'
  <2>1. UNCHANGED <<job, bank, request>>
    BY <1>25, Zenon DEF WireLost, money
  <2>2. wire' \subseteq wire
    BY <1>25 DEF WireLost
  <2> QED
    BY <2>1, <2>2, <1>a, ClaimStill
<1>26. ASSUME NEW k \in Keys, NEW s \in {"rejected", "cancelled"}, Withdraw(k, s) PROVE ClaimInv'
  <2>1. UNCHANGED <<job, bank, wire>>
    BY <1>26, Zenon DEF Withdraw, money
  <2>2. Silent
    BY <1>26, StatusFields DEF Withdraw, Quiet, Withdrawn
  <2> QED
    BY <2>1, <2>2, <1>b, ClaimStill
<1>27. ASSUME ExpireStale PROVE ClaimInv'
  <2>1. UNCHANGED <<job, bank, wire>>
    BY <1>27, Zenon DEF ExpireStale, money
  <2>2. Silent
    BY <1>27, SweepFields DEF IsLapsed, Quiet, Withdrawn
  <2> QED
    BY <2>1, <2>2, <1>b, ClaimStill
<1>28. ASSUME SweepStuck PROVE ClaimInv'
  <2>1. UNCHANGED <<job, bank, wire>>
    BY <1>28, Zenon DEF SweepStuck, money
  <2>2. Silent
    BY <1>28, SweepFields DEF IsStuck, Quiet
  <2> QED
    BY <2>1, <2>2, <1>b, ClaimStill
<1>29. ASSUME NEW s \in Staff, RemoveStaff(s) PROVE ClaimInv'
  <2>1. UNCHANGED <<job, bank, wire>>
    BY <1>29, Zenon DEF RemoveStaff, money
  <2>2. Silent
    BY <1>29, SweepFields DEF Quiet, Withdrawn
  <2> QED
    BY <2>1, <2>2, <1>b, ClaimStill
<1>30. ASSUME NEW s \in Staff, DeleteStaff(s) PROVE ClaimInv'
  <2>1. UNCHANGED <<job, bank, wire, request>>
    BY <1>30, Zenon DEF DeleteStaff, money
  <2> QED
    BY <2>1, <1>a, <1>b, ClaimStill
<1>31. ASSUME NEW s \in Staff, NEW c \in Caps, Grant(s, c) PROVE ClaimInv'
  <2>1. UNCHANGED <<job, bank, wire, request>>
    BY <1>31, Zenon DEF Grant, money
  <2> QED
    BY <2>1, <1>a, <1>b, ClaimStill
<1>32. ASSUME Tick PROVE ClaimInv'
  <2>1. UNCHANGED <<job, bank, wire, request>>
    BY <1>32, Zenon DEF Tick, money
  <2> QED
    BY <2>1, <1>a, <1>b, ClaimStill
<1>33. CASE UNCHANGED vars
  BY <1>33, <1>a, <1>b, ClaimStill DEF vars
<1> QED
  BY <1>1, <1>2, <1>3, <1>4, <1>5, <1>6, <1>7, <1>8, <1>9, <1>10, <1>11, <1>12, <1>13, <1>14, <1>15, <1>16, <1>17, <1>18, <1>19, <1>20, <1>21, <1>22, <1>23, <1>24, <1>25, <1>26, <1>27, <1>28, <1>29, <1>30, <1>31, <1>32, <1>33 DEF Next

\* The claim invariant holds for every number of handlers and requests.
THEOREM ClaimsHold == Spec => []ClaimInv
  BY ClaimInit, ClaimNext, BankedInit, BankedNext, TypeCorrect, PTL DEF Spec

\* An approved transfer reaches the bank at most once.
THEOREM PaidOnce == Spec => []HeldPaidOnce
<1>1. ClaimInv => HeldPaidOnce
  BY DEF ClaimInv, ClaimOK, HeldPaidOnce
<1> QED
  BY <1>1, ClaimsHold, PTL

\* A rejected, cancelled, expired or waiting transfer is not paid and not on its way.
THEOREM NothingPaidAfterNo == Spec => []WithdrawnNeverPaid
<1>1. ClaimInv => WithdrawnNeverPaid
  BY DEF ClaimInv, ClaimOK, WithdrawnNeverPaid
<1> QED
  BY <1>1, ClaimsHold, PTL

-----------------------------------------------------------------------------
(***************************************************************************)
(* The handlers, their locks and the sweeps implement the queue of         *)
(* PayoutQueue                                                             *)
(***************************************************************************)

-----------------------------------------------------------------------------
(* Steps of the queue, read off the requests and the bank *)

Status(k) == request[k].status

SamePaid == \A k \in Keys : bank'[Held(k)] = bank[Held(k)]

OnlyStatus(k, s) == \A m \in Keys : request'[m].status = IF m = k THEN s ELSE Status(m)

LEMMA QueueStutter ==
  ASSUME SamePaid, \A k \in Keys : request'[k].status = Status(k)
  PROVE  UNCHANGED Queue!vars
  BY DEF SamePaid, Held, Status, Queue!vars

LEMMA QueueMove ==
  ASSUME NEW k \in Keys, NEW s, SamePaid, OnlyStatus(k, s)
  PROVE  Queue!Move(k, s)
  BY DEF SamePaid, OnlyStatus, Held, Status, Queue!Move

LEMMA QueueMoveAll ==
  ASSUME NEW K \in SUBSET Keys, NEW s, SamePaid,
         \A m \in Keys : request'[m].status = IF m \in K THEN s ELSE Status(m)
  PROVE  Queue!MoveAll(K, s)
  BY DEF SamePaid, Held, Status, Queue!MoveAll

LEMMA QueueWithdraw ==
  ASSUME NEW K \in SUBSET Keys, NEW s \in {"rejected", "cancelled", "expired"}, SamePaid,
         \A m \in K : Status(m) = "pending",
         \A m \in Keys : request'[m].status = IF m \in K THEN s ELSE Status(m)
  PROVE  Queue!Next
<1>1. Queue!Withdraw(K, s)
  BY QueueMoveAll DEF Queue!Withdraw, Status
<1> QED
  BY <1>1 DEF Queue!Next

LEMMA QueuePark ==
  ASSUME NEW K \in SUBSET Keys, SamePaid, \A m \in K : Status(m) = "approving",
         \A m \in Keys : request'[m].status = IF m \in K THEN "failed" ELSE Status(m)
  PROVE  Queue!Next
<1>1. Queue!Park(K)
  BY QueueMoveAll DEF Queue!Park, Status
<1> QED
  BY <1>1 DEF Queue!Next

LEMMA QueueRequeue ==
  ASSUME ClaimInv, NEW j \in Jobs, NEW k \in Keys, Phase(job[j], k) = "before",
         SamePaid, OnlyStatus(k, "pending")
  PROVE  Queue!Next
<1>1. Status(k) \in {"approving", "failed"} /\ bank[Held(k)] = 0
  BY DEF ClaimInv, ClaimOK, Claimed, Held, Status
<1>2. Queue!Requeue(k)
  BY <1>1, QueueMove DEF Queue!Requeue, Held, Status
<1> QED
  BY <1>2 DEF Queue!Next

LEMMA QueuePay ==
  ASSUME NEW k \in Keys, Status(k) \in {"approving", "failed"}, bank[Held(k)] = 0,
         bank'[Held(k)] = 1, \A m \in Keys \ {k} : bank'[Held(m)] = bank[Held(m)],
         UNCHANGED request
  PROVE  Queue!Next
<1>1. Queue!Pay(k)
  BY DEF Queue!Pay, Held, Status
<1> QED
  BY <1>1 DEF Queue!Next

LEMMA QueueOne ==
  ASSUME NEW k \in Keys, Queue!Hold(k) \/ Queue!Claim(k) \/ Queue!Finish(k)
  PROVE  Queue!Next
  BY DEF Queue!Next

LEMMA QueueCall ==
  ASSUME TypeOK, NEW k \in Keys, Status(k) \in {"approving", "failed"}, bank[Held(k)] = 0,
         bank' = [bank EXCEPT ![Held(k)] = @ + 1], UNCHANGED request
  PROVE  Queue!Next
<1>1. bank'[Held(k)] = 1 /\ \A m \in Keys \ {k} : Held(m) # Held(k) /\ bank'[Held(m)] = bank[Held(m)]
  BY HeldIsRef DEF TypeOK, Held
<1> QED
  BY <1>1, QueuePay

-----------------------------------------------------------------------------
(* The refinement *)

LEMMA QueueInit == Init => Queue!Init
<1> SUFFICES ASSUME Init PROVE Queue!Init
  OBVIOUS
<1>1. \A k \in Keys : request[k].status = "none" /\ bank[<<"kbsa", k>>] = 0
  BY HeldIsRef DEF Init, NoRequest, Held
<1> QED
  BY <1>1 DEF Queue!Init

\* Every step of the handlers is one of the queue's or leaves it alone.
LEMMA QueueNext ==
  TypeOK /\ BankedInv /\ ClaimInv /\ [Next]_vars => [Queue!Next]_(Queue!vars)
<1> SUFFICES ASSUME TypeOK, BankedInv, ClaimInv, [Next]_vars
             PROVE  Queue!Next \/ UNCHANGED Queue!vars
  OBVIOUS
<1> DEFINE Done == Queue!Next \/ UNCHANGED Queue!vars
<1>a. UNCHANGED bank => SamePaid
  BY DEF SamePaid
<1>b. UNCHANGED request => \A k \in Keys : request'[k].status = Status(k)
  BY DEF Status
<1>c. \A j \in Jobs : /\ job[j] \in JobState /\ job[j].key \in Keys
                      /\ job[j].kind \in {"send", "approve"} /\ InRole(job[j])
  BY JobAt, JobFields DEF BankedInv
<1>d. \A k \in Keys : \A s, t : SetStatus(k, s, t) => OnlyStatus(k, s)
  BY StatusFields DEF OnlyStatus, Status
<1>1. ASSUME NEW j \in Jobs, NEW k \in Keys, Post(j, k) PROVE Done
  <2>1. UNCHANGED <<request, bank>>
    BY <1>1, Zenon DEF Post, money
  <2> QED
    BY <2>1, <1>a, <1>b, QueueStutter
<1>2. ASSUME NEW j \in Jobs, NEW k \in Keys, Approve(j, k) PROVE Done
  <2>1. UNCHANGED bank
    BY <1>2, Zenon DEF Approve, money
  <2>2. /\ request[k].status = "pending"
        /\ UNCHANGED request \/ SetStatus(k, "rejected", now)
    BY <1>2, Zenon DEF Approve
  <2>3. CASE UNCHANGED request
    BY <2>1, <2>3, <1>a, <1>b, QueueStutter
  <2>4. CASE SetStatus(k, "rejected", now)
    <3>1. \A m \in Keys : request'[m].status = IF m \in {k} THEN "rejected" ELSE Status(m)
      BY <2>4, <1>d DEF OnlyStatus
    <3> QED
      BY <3>1, <2>1, <2>2, <1>a, QueueWithdraw DEF Status
  <2> QED
    BY <2>2, <2>3, <2>4
<1>3. ASSUME NEW j \in Jobs, AcquireLock(j) PROVE Done
  <2>1. UNCHANGED <<request, bank>>
    BY <1>3, Zenon DEF AcquireLock, money
  <2> QED
    BY <2>1, <1>a, <1>b, QueueStutter
<1>4. ASSUME NEW j \in Jobs, DbError(j) PROVE Done
  <2>1. UNCHANGED <<request, bank>>
    BY <1>4, Zenon DEF DbError, money
  <2> QED
    BY <2>1, <1>a, <1>b, QueueStutter
<1>5. ASSUME NEW j \in Jobs, LockLost(j) PROVE Done
  <2>1. UNCHANGED <<request, bank>>
    BY <1>5, Zenon DEF LockLost, money
  <2> QED
    BY <2>1, <1>a, <1>b, QueueStutter
<1>6. ASSUME NEW j \in Jobs, Claim(j) PROVE Done
  <2>1. UNCHANGED bank
    BY <1>6, Zenon DEF Claim, money
  <2>2. CASE UNCHANGED request
    BY <2>1, <2>2, <1>a, <1>b, QueueStutter
  <2>3. CASE request[job[j].key].status = "pending" /\ SetStatus(job[j].key, "approving", now)
    <3>1. PICK k \in Keys : k = job[j].key
      BY <1>c
    <3>2. Queue!Move(k, "approving")
      BY <3>1, <2>1, <2>3, <1>a, <1>d, QueueMove
    <3>3. Queue!Claim(k)
      BY <3>1, <3>2, <2>3 DEF Queue!Claim
    <3> QED
      BY <3>3, QueueOne
  <2>4. UNCHANGED request \/ (request[job[j].key].status = "pending" /\ SetStatus(job[j].key, "approving", now))
    BY <1>6, Zenon DEF Claim
  <2> QED
    BY <2>2, <2>3, <2>4
<1>7. ASSUME NEW j \in Jobs, AmlPass(j) PROVE Done
  <2>1. UNCHANGED <<request, bank>>
    BY <1>7, Zenon DEF AmlPass, money
  <2> QED
    BY <2>1, <1>a, <1>b, QueueStutter
<1>8. ASSUME NEW j \in Jobs, AmlBlock(j) PROVE Done
  <2>1. UNCHANGED bank
    BY <1>8, Zenon DEF AmlBlock, money
  <2>2. CASE UNCHANGED request
    BY <2>1, <2>2, <1>a, <1>b, QueueStutter
  <2>3. CASE job[j].kind = "approve" /\ SetStatus(job[j].key, "pending", 0)
    <3>1. job[j].pc = "aml"
      BY <1>8, Zenon DEF AmlBlock
    <3>2. Phase(job[j], job[j].key) = "before"
      BY <3>1, <2>3 DEF Phase
    <3> QED
      BY <3>2, <2>1, <2>3, <1>a, <1>c, <1>d, QueueRequeue
  <2>4. UNCHANGED request \/ (job[j].kind = "approve" /\ SetStatus(job[j].key, "pending", 0))
    BY <1>8, Zenon DEF AmlBlock
  <2> QED
    BY <2>2, <2>3, <2>4
<1>9. ASSUME NEW j \in Jobs, CapPass(j) PROVE Done
  <2>1. UNCHANGED <<request, bank>>
    BY <1>9, Zenon DEF CapPass, money
  <2> QED
    BY <2>1, <1>a, <1>b, QueueStutter
<1>10. ASSUME NEW j \in Jobs, Hold(j) PROVE Done
  <2>1. UNCHANGED bank
    BY <1>10, Zenon DEF Hold, money
  <2>2. CASE \A m \in Keys : request'[m].status = Status(m)
    BY <2>1, <2>2, <1>a, QueueStutter
  <2>3. CASE Status(job[j].key) = "none" /\ OnlyStatus(job[j].key, "pending")
    <3>1. PICK k \in Keys : k = job[j].key
      BY <1>c
    <3>2. Queue!Move(k, "pending")
      BY <3>1, <2>1, <2>3, <1>a, QueueMove
    <3>3. Queue!Hold(k)
      BY <3>1, <3>2, <2>3 DEF Queue!Hold, Status
    <3> QED
      BY <3>3, QueueOne
  <2>4. \/ \A m \in Keys : request'[m].status = Status(m)
        \/ Status(job[j].key) = "none" /\ OnlyStatus(job[j].key, "pending")
    BY <1>10, HoldFields DEF OnlyStatus, Status
  <2> QED
    BY <2>2, <2>3, <2>4
<1>11. ASSUME NEW j \in Jobs, IdempotentSkip(j) PROVE Done
  <2>1. UNCHANGED <<request, bank>>
    BY <1>11, Zenon DEF IdempotentSkip, money
  <2> QED
    BY <2>1, <1>a, <1>b, QueueStutter
<1>12. ASSUME NEW j \in Jobs, RefuseEarly(j) PROVE Done
  <2>1. UNCHANGED <<request, bank>>
    BY <1>12, Zenon DEF RefuseEarly, money
  <2> QED
    BY <2>1, <1>a, <1>b, QueueStutter
<1>13. ASSUME NEW j \in Jobs, StartPayout(j) PROVE Done
  <2>1. UNCHANGED <<request, bank>>
    BY <1>13, Zenon DEF StartPayout, money
  <2> QED
    BY <2>1, <1>a, <1>b, QueueStutter
<1>14. ASSUME NEW j \in Jobs, BankAccepts(j) PROVE Done
  <2>1. /\ UNCHANGED request /\ job[j].pc = "bank"
        /\ bank' = [bank EXCEPT ![RefOf(j)] = @ + 1]
    BY <1>14, Zenon DEF BankAccepts
  <2>2. CASE job[j].kind = "send"
    <3>1. SamePaid
      BY <2>1, <2>2, HeldIsRef DEF SamePaid, Held, RefOf, TypeOK
    <3> QED
      BY <3>1, <2>1, <1>b, QueueStutter
  <2>3. CASE job[j].kind = "approve"
    <3>1. Phase(job[j], job[j].key) = "before"
      BY <2>1, <2>3 DEF Phase
    <3>2. Status(job[j].key) \in {"approving", "failed"} /\ bank[Held(job[j].key)] = 0
      BY <3>1, <1>c DEF ClaimInv, ClaimOK, Claimed, Held, Status
    <3>3. RefOf(j) = Held(job[j].key)
      BY <2>3 DEF RefOf, Held
    <3>4. bank' = [bank EXCEPT ![Held(job[j].key)] = @ + 1]
      BY <2>1, <3>3
    <3> QED
      BY <3>2, <3>4, <2>1, <1>c, QueueCall
  <2> QED
    BY <2>2, <2>3, <1>c
<1>15. ASSUME NEW j \in Jobs, BankRefuses(j) PROVE Done
  <2>1. UNCHANGED <<request, bank>>
    BY <1>15, Zenon DEF BankRefuses, money
  <2> QED
    BY <2>1, <1>a, <1>b, QueueStutter
<1>16. ASSUME NEW j \in Jobs, BankUnknown(j) PROVE Done
  <2>1. UNCHANGED <<request, bank>>
    BY <1>16, Zenon DEF BankUnknown, money
  <2> QED
    BY <2>1, <1>a, <1>b, QueueStutter
<1>17. ASSUME NEW j \in Jobs, SweepFee(j) PROVE Done
  <2>1. UNCHANGED <<request, bank>>
    BY <1>17, Zenon DEF SweepFee, money
  <2> QED
    BY <2>1, <1>a, <1>b, QueueStutter
<1>18. ASSUME NEW j \in Jobs, BookRow(j) PROVE Done
  <2>1. UNCHANGED <<request, bank>>
    BY <1>18, Zenon DEF BookRow, money
  <2> QED
    BY <2>1, <1>a, <1>b, QueueStutter
<1>19. ASSUME NEW j \in Jobs, BookFails(j) PROVE Done
  <2>1. UNCHANGED <<request, bank>>
    BY <1>19, Zenon DEF BookFails, money
  <2> QED
    BY <2>1, <1>a, <1>b, QueueStutter
<1>20. ASSUME NEW j \in Jobs, MarkExecuted(j) PROVE Done
  <2>1. UNCHANGED bank
    BY <1>20, Zenon DEF MarkExecuted, money
  <2>2. /\ job[j].pc = "mark"
        /\ request' = [request EXCEPT ![job[j].key] =
                         [request[job[j].key] EXCEPT !.status = "executed", !.txn = job[j].booked]]
    BY <1>20, Zenon DEF MarkExecuted, File
  <2>3. OnlyStatus(job[j].key, "executed")
    <3>1. [request[job[j].key] EXCEPT !.status = "executed", !.txn = job[j].booked].status = "executed"
      BY <1>c DEF TypeOK, RequestState
    <3> QED
      BY <2>2, <3>1, <1>c DEF TypeOK, OnlyStatus, Status
  <2>4. Phase(job[j], job[j].key) = "after"
    BY <2>2, <1>c DEF Phase, InRole
  <2>5. Status(job[j].key) \in {"approving", "failed"} /\ bank[Held(job[j].key)] = 1
    BY <2>4, <1>c DEF ClaimInv, ClaimOK, Claimed, Held, Status
  <2>6. PICK k \in Keys : k = job[j].key
    BY <1>c
  <2>7. Queue!Move(k, "executed")
    BY <2>6, <2>1, <2>3, <1>a, QueueMove
  <2>8. Queue!Finish(k)
    BY <2>5, <2>6, <2>7 DEF Queue!Finish, Held, Status
  <2> QED
    BY <2>8, QueueOne
<1>21. ASSUME NEW j \in Jobs, Commit(j) PROVE Done
  <2>1. UNCHANGED <<request, bank>>
    BY <1>21, Zenon DEF Commit, money
  <2> QED
    BY <2>1, <1>a, <1>b, QueueStutter
<1>22. ASSUME NEW j \in Jobs, Catch(j) PROVE Done
  <2>1. UNCHANGED bank
    BY <1>22, Zenon DEF Catch, money
  <2>2. CASE UNCHANGED request
    BY <2>1, <2>2, <1>a, <1>b, QueueStutter
  <2>3. CASE /\ request[job[j].key].status = "approving"
             /\ SetStatus(job[j].key, "failed", request[job[j].key].decidedAt)
    <3>1. \A m \in Keys : request'[m].status = IF m \in {job[j].key} THEN "failed" ELSE Status(m)
      BY <2>3, <1>c, <1>d DEF OnlyStatus
    <3> QED
      BY <3>1, <2>1, <2>3, <1>a, <1>c, QueuePark DEF Status
  <2>4. CASE job[j].safe /\ SetStatus(job[j].key, "pending", 0)
    <3>1. job[j].pc = "catch"
      BY <1>22, Zenon DEF Catch
    <3>2. Phase(job[j], job[j].key) = "before"
      BY <3>1, <2>4, <1>c DEF Phase, InRole
    <3> QED
      BY <3>2, <2>1, <2>4, <1>a, <1>c, <1>d, QueueRequeue
  <2>5. \/ UNCHANGED request
        \/ /\ request[job[j].key].status = "approving"
           /\ SetStatus(job[j].key, "failed", request[job[j].key].decidedAt)
        \/ job[j].safe /\ SetStatus(job[j].key, "pending", 0)
    BY <1>22, Zenon DEF Catch
  <2> QED
    BY <2>2, <2>3, <2>4, <2>5
<1>23. ASSUME NEW j \in Jobs, Crash(j) PROVE Done
  <2>1. UNCHANGED <<request, bank>>
    BY <1>23, Zenon DEF Crash, money
  <2> QED
    BY <2>1, <1>a, <1>b, QueueStutter
<1>24. ASSUME NEW r \in Refs, WireArrives(r) PROVE Done
  <2>1. UNCHANGED request /\ r \in wire /\ bank' = [bank EXCEPT ![r] = @ + 1]
    BY <1>24, Zenon DEF WireArrives
  <2>2. CASE \A k \in Keys : r # Held(k)
    <3>1. SamePaid
      BY <2>1, <2>2, HeldIsRef DEF SamePaid, TypeOK
    <3> QED
      BY <3>1, <2>1, <1>b, QueueStutter
  <2>3. ASSUME NEW k \in Keys, r = Held(k) PROVE Queue!Next
    <3>1. bank[Held(k)] = 0 /\ Status(k) \notin Withdrawn \cup {"pending", "executed"}
      BY <2>1, <2>3 DEF ClaimInv, ClaimOK, Held, Status
    <3>2. Status(k) \in {"none", "pending", "approving", "executed", "failed", "rejected",
                         "cancelled", "expired"}
      BY DEF TypeOK, RequestState, Status
    <3>3. Status(k) \in {"approving", "failed"}
      BY <3>1, <3>2 DEF Withdrawn
    <3> QED
      BY <3>1, <3>3, <2>1, <2>3, QueueCall
  <2> QED
    BY <2>2, <2>3
<1>25. ASSUME NEW r \in Refs, WireLost(r) PROVE Done
  <2>1. UNCHANGED <<request, bank>>
    BY <1>25, Zenon DEF WireLost, money
  <2> QED
    BY <2>1, <1>a, <1>b, QueueStutter
<1>26. ASSUME NEW k \in Keys, NEW s \in {"rejected", "cancelled"}, Withdraw(k, s) PROVE Done
  <2>1. UNCHANGED bank
    BY <1>26, Zenon DEF Withdraw, money
  <2>2. request[k].status = "pending" /\ SetStatus(k, s, now)
    BY <1>26, Zenon DEF Withdraw
  <2>3. \A m \in Keys : request'[m].status = IF m \in {k} THEN s ELSE Status(m)
    BY <2>2, <1>d DEF OnlyStatus
  <2> QED
    BY <2>1, <2>2, <2>3, <1>a, QueueWithdraw DEF Status
<1>27. ASSUME ExpireStale PROVE Done
  <2>1. UNCHANGED bank
    BY <1>27, Zenon DEF ExpireStale, money
  <2>2. \A m \in Keys : request'[m].status = IF m \in {i \in Keys : IsLapsed(i)} THEN "expired" ELSE Status(m)
    BY <1>27, SweepFields DEF Status
  <2>3. \A m \in {i \in Keys : IsLapsed(i)} : Status(m) = "pending"
    BY DEF Status, IsLapsed
  <2> QED
    BY <2>1, <2>2, <2>3, <1>a, QueueWithdraw
<1>28. ASSUME SweepStuck PROVE Done
  <2>1. UNCHANGED bank
    BY <1>28, Zenon DEF SweepStuck, money
  <2>2. \A m \in Keys : request'[m].status = IF m \in {i \in Keys : IsStuck(i)} THEN "failed" ELSE Status(m)
    BY <1>28, SweepFields DEF Status
  <2>3. \A m \in {i \in Keys : IsStuck(i)} : Status(m) = "approving"
    BY DEF Status, IsStuck
  <2> QED
    BY <2>1, <2>2, <2>3, <1>a, QueuePark
<1>29. ASSUME NEW s \in Staff, RemoveStaff(s) PROVE Done
  <2>1. UNCHANGED bank
    BY <1>29, Zenon DEF RemoveStaff, money
  <2>2. \A m \in Keys : request'[m].status = IF m \in {i \in Keys : Actor(i) = s /\ request[i].status = "pending"} THEN "cancelled" ELSE Status(m)
    BY <1>29, SweepFields DEF Status
  <2>3. \A m \in {i \in Keys : Actor(i) = s /\ request[i].status = "pending"} : Status(m) = "pending"
    BY DEF Status
  <2> QED
    BY <2>1, <2>2, <2>3, <1>a, QueueWithdraw
<1>30. ASSUME NEW s \in Staff, DeleteStaff(s) PROVE Done
  <2>1. UNCHANGED <<request, bank>>
    BY <1>30, Zenon DEF DeleteStaff, money
  <2> QED
    BY <2>1, <1>a, <1>b, QueueStutter
<1>31. ASSUME NEW s \in Staff, NEW c \in Caps, Grant(s, c) PROVE Done
  <2>1. UNCHANGED <<request, bank>>
    BY <1>31, Zenon DEF Grant, money
  <2> QED
    BY <2>1, <1>a, <1>b, QueueStutter
<1>32. ASSUME Tick PROVE Done
  <2>1. UNCHANGED <<request, bank>>
    BY <1>32, Zenon DEF Tick, money
  <2> QED
    BY <2>1, <1>a, <1>b, QueueStutter
<1>33. CASE UNCHANGED vars
  BY <1>33, <1>a, <1>b, QueueStutter DEF vars
<1> QED
  BY <1>1, <1>2, <1>3, <1>4, <1>5, <1>6, <1>7, <1>8, <1>9, <1>10, <1>11, <1>12, <1>13, <1>14, <1>15, <1>16, <1>17, <1>18, <1>19, <1>20, <1>21, <1>22, <1>23, <1>24, <1>25, <1>26, <1>27, <1>28, <1>29, <1>30, <1>31, <1>32, <1>33 DEF Next

\* The detailed specification implements the queue's: a held transfer is claimed
\* before it is paid, paid once, and never offered again after that.
THEOREM ImplementsQueue == Spec => RefinesQueue
<1>1. Queue!Spec <=> Queue!Init /\ [][Queue!Next]_(Queue!vars)
  BY DEF Queue!Spec
<1> QED
  BY <1>1, QueueInit, QueueNext, ClaimInit, ClaimNext, BankedInit, BankedNext, TypeCorrect, PTL
     DEF Spec, RefinesQueue

-----------------------------------------------------------------------------
(***************************************************************************)
(* Caps, velocity limits and fees, while no lock connection has dropped    *)
(***************************************************************************)

-----------------------------------------------------------------------------
(* What a step leaves in a handler's cap and fee *)

\* A handler that goes on with a field or two changed.
LEMMA MoveFields ==
  ASSUME TypeOK, NEW j \in Jobs, NEW pc, NEW e, NEW f
  PROVE  LET x == job[j]
             y == job'[j]
             Same == y.pc = pc /\ y.kind = x.kind /\ y.key = x.key
         IN  /\ Go(j, pc) => Same /\ y.cap = x.cap /\ y.fee = x.fee
             /\ Update(j, [job[j] EXCEPT !.pc = pc, !.exempt = e]) =>
                  Same /\ y.cap = x.cap /\ y.fee = x.fee
             /\ Decided(j, pc) => Same /\ y.cap = 0 /\ y.fee = x.fee
             /\ Update(j, [job[j] EXCEPT !.pc = pc, !.booked = TRUE, !.ok = TRUE]) =>
                  Same /\ y.cap = x.cap /\ y.fee = x.fee
             /\ Update(j, [job[j] EXCEPT !.pc = pc, !.booked = TRUE, !.ok = TRUE, !.fee = 0]) =>
                  Same /\ y.cap = x.cap /\ y.fee = 0
             /\ Update(j, [job[j] EXCEPT !.pc = pc, !.ok = TRUE, !.fee = 0]) =>
                  Same /\ y.cap = x.cap /\ y.fee = 0
             /\ Update(j, [job[j] EXCEPT !.pc = pc, !.fee = f]) =>
                  Same /\ y.cap = x.cap /\ y.fee = f
<1>1. job[j] \in JobState /\ \A rec : Update(j, rec) => job'[j] = rec
  BY UpdateFields DEF TypeOK
<1>2. Go(j, pc) => Update(j, [job[j] EXCEPT !.pc = pc])
  BY DEF Go
<1>3. Decided(j, pc) => Update(j, [job[j] EXCEPT !.pc = pc, !.cap = 0, !.exempt = {}])
  BY DEF Decided
<1> DEFINE x == job[j]
<1>4. LET y == [x EXCEPT !.pc = pc]
      IN  y.pc = pc /\ y.kind = x.kind /\ y.key = x.key /\ y.cap = x.cap /\ y.fee = x.fee
  BY <1>1 DEF JobState
<1>5. LET y == [x EXCEPT !.pc = pc, !.exempt = e]
      IN  y.pc = pc /\ y.kind = x.kind /\ y.key = x.key /\ y.cap = x.cap /\ y.fee = x.fee
  BY <1>1 DEF JobState
<1>6. LET y == [x EXCEPT !.pc = pc, !.cap = 0, !.exempt = {}]
      IN  y.pc = pc /\ y.kind = x.kind /\ y.key = x.key /\ y.cap = 0 /\ y.fee = x.fee
  BY <1>1 DEF JobState
<1>7. LET y == [x EXCEPT !.pc = pc, !.booked = TRUE, !.ok = TRUE]
      IN  y.pc = pc /\ y.kind = x.kind /\ y.key = x.key /\ y.cap = x.cap /\ y.fee = x.fee
  BY <1>1 DEF JobState
<1>8. LET y == [x EXCEPT !.pc = pc, !.booked = TRUE, !.ok = TRUE, !.fee = 0]
      IN  y.pc = pc /\ y.kind = x.kind /\ y.key = x.key /\ y.cap = x.cap /\ y.fee = 0
  BY <1>1 DEF JobState
<1>9. LET y == [x EXCEPT !.pc = pc, !.ok = TRUE, !.fee = 0]
      IN  y.pc = pc /\ y.kind = x.kind /\ y.key = x.key /\ y.cap = x.cap /\ y.fee = 0
  BY <1>1 DEF JobState
<1>10. LET y == [x EXCEPT !.pc = pc, !.fee = f]
      IN  y.pc = pc /\ y.kind = x.kind /\ y.key = x.key /\ y.cap = x.cap /\ y.fee = f
  BY <1>1 DEF JobState
<1> QED
  BY <1>1, <1>2, <1>3, <1>4, <1>5, <1>6, <1>7, <1>8, <1>9, <1>10

\* A handler that starts, or drops out.
LEMMA FreshFields ==
  ASSUME TypeOK, NEW j \in Jobs, NEW k, NEW c, NEW safe \in BOOLEAN
  PROVE  LET y == job'[j]
         IN  /\ Update(j, Idle) => y.pc = "idle" /\ y.fee = 0 /\ y.key \in Keys
             /\ Throw(j, safe) => y.pc \in {"idle", "catch"} /\ y.fee = 0 /\ y.key \in Keys
             /\ Update(j, [Idle EXCEPT !.pc = "lock", !.key = k, !.cap = c]) =>
                  y.pc = "lock" /\ y.fee = 0 /\ y.kind = "send" /\ y.key = k /\ y.cap = c
             /\ Update(j, [Idle EXCEPT !.pc = "lock", !.kind = "approve", !.key = k]) =>
                  y.pc = "lock" /\ y.fee = 0 /\ y.kind = "approve" /\ y.key = k
<1> DEFINE a == [Idle EXCEPT !.pc = "lock", !.key = k, !.cap = c]
           b == [Idle EXCEPT !.pc = "lock", !.kind = "approve", !.key = k]
           d == [Idle EXCEPT !.pc = "catch", !.kind = "approve", !.key = job[j].key, !.safe = safe]
<1>1. \A rec : Update(j, rec) => job'[j] = rec
  BY UpdateFields
<1>2. Idle \in JobState /\ Idle.pc = "idle" /\ Idle.kind = "send" /\ Idle.fee = 0 /\ Idle.key \in Keys
  BY IdleType DEF Idle, JobState
<1>3. a.pc = "lock" /\ a.fee = 0 /\ a.kind = "send" /\ a.key = k /\ a.cap = c
  BY <1>2 DEF JobState
<1>4. b.pc = "lock" /\ b.fee = 0 /\ b.kind = "approve" /\ b.key = k
  BY <1>2 DEF JobState
<1>5. d.pc = "catch" /\ d.fee = 0 /\ d.key = job[j].key
  BY <1>2 DEF JobState
<1>6. Throw(j, safe) => Update(j, Idle) \/ Update(j, d)
  BY DEF Throw
<1>7. job[j].key \in Keys
  BY JobAt
<1> HIDE DEF a, b, d
<1>8. Update(j, a) => job'[j] = a
  BY <1>1
<1>9. Update(j, b) => job'[j] = b
  BY <1>1
<1>10. Throw(j, safe) => job'[j] = Idle \/ job'[j] = d
  BY <1>1, <1>6
<1> QED
  BY <1>1, <1>2, <1>3, <1>4, <1>5, <1>7, <1>8, <1>9, <1>10 DEF a, b

-----------------------------------------------------------------------------
(* Sums of rows *)

\* Amounts and fees are counts of money, and every transfer is a business's.
LEMMA AmountNat ==
  \A k \in Keys : Intent[k].amount \in Nat /\ FeeOf(k) \in Nat /\ Intent[k].biz \in Biz
BY IntentAssumption, NumbersAssumption DEF FeeOf

\* What a row says.
LEMMA RowFields ==
  ASSUME TypeOK
  PROVE  \A r \in rows : /\ r.ref \in Refs /\ r.fee \in Nat /\ r.date \in Nat
                         /\ KeyOf(r) \in Keys /\ Intent[KeyOf(r)].amount \in Nat
BY AmountNat DEF TypeOK, Row, Refs, KeyOf

\* What a window counts is an amount of money.
LEMMA SentNat ==
  ASSUME TypeOK, IsFiniteSet(rows), NEW b, NEW t
  PROVE  SentSince(b, t) \in Nat
<1> DEFINE D == {r \in rows : Intent[KeyOf(r)].biz = b /\ r.date >= t}
           f == [r \in D |-> Intent[KeyOf(r)].amount]
<1>1. IsFiniteSet(D) /\ DOMAIN f = D
  BY FS_Subset
<1>2. \A r \in D : f[r] \in Nat
  BY RowFields
<1>3. SentSince(b, t) = SumFunction(f)
  BY DEF SentSince
<1> HIDE DEF D, f
<1> QED
  BY <1>1, <1>2, <1>3, SumNat

\* So is what nobody approved.
LEMMA UnsupervisedNat ==
  ASSUME TypeOK, IsFiniteSet(rows), NEW s
  PROVE  Unsupervised(s) \in Nat
<1> DEFINE D == {r \in rows : r.ref[1] = "kbtf" /\ Actor(KeyOf(r)) = s /\ r.date >= now - Day}
           f == [r \in D |-> Intent[KeyOf(r)].amount + r.fee]
<1>1. IsFiniteSet(D) /\ DOMAIN f = D
  BY FS_Subset
<1>2. \A r \in D : f[r] \in Nat
  BY RowFields
<1>3. Unsupervised(s) = SumFunction(f)
  BY DEF Unsupervised
<1> HIDE DEF D, f
<1> QED
  BY <1>1, <1>2, <1>3, SumNat

\* What the cap check counts is at least what nobody approved.
LEMMA SpendCovers ==
  ASSUME TypeOK, IsFiniteSet(rows), NEW s, NEW e
  PROVE  Unsupervised(s) <= StaffSpend(s, e) /\ StaffSpend(s, e) \in Nat
<1> DEFINE D == {r \in rows : r.ref[1] = "kbtf" /\ Actor(KeyOf(r)) = s /\ r.date >= now - Day}
           E == {r \in rows : /\ Actor(KeyOf(r)) = s /\ r.date >= now - Day
                              /\ ~(r.ref[1] = "kbsa" /\ KeyOf(r) \in e)}
           f == [r \in D |-> Intent[KeyOf(r)].amount + r.fee]
           g == [r \in E |-> Intent[KeyOf(r)].amount + r.fee]
<1>1. IsFiniteSet(E) /\ DOMAIN g = E /\ DOMAIN f = D
  BY FS_Subset
<1>2. D \subseteq E
  OBVIOUS
<1>3. \A r \in E : g[r] \in Nat /\ g[r] \in Int /\ 0 <= g[r]
  BY RowFields
<1>4. \A r \in D : f[r] = g[r] /\ f[r] \in Int /\ f[r] <= g[r]
  BY <1>2, RowFields
<1>5. Unsupervised(s) = SumFunction(f) /\ StaffSpend(s, e) = SumFunction(g)
  BY Zenon DEF Unsupervised, StaffSpend
<1> HIDE DEF D, E, f, g
<1>6. SumFunction(f) <= SumFunction(g)
  BY <1>1, <1>2, <1>3, <1>4, SumAtMost
<1>7. SumFunction(g) \in Nat
  BY <1>1, <1>3, SumNat
<1> QED
  BY <1>5, <1>6, <1>7

\* As time goes on rows leave the windows.
LEMMA TickSums ==
  ASSUME TypeOK, IsFiniteSet(rows), now' = now + 1, rows' = rows
  PROVE  /\ \A b \in Biz, w \in AmlWindows : SentSince(b, now - w.len)' <= SentSince(b, now - w.len)
                                            /\ SentSince(b, now - w.len)' \in Nat
         /\ \A s \in Staff : Unsupervised(s)' <= Unsupervised(s) /\ Unsupervised(s)' \in Nat
<1>0. now \in Nat /\ Day \in Nat
  BY NumbersAssumption DEF TypeOK
<1>1. ASSUME NEW b \in Biz, NEW w \in AmlWindows
      PROVE  SentSince(b, now - w.len)' <= SentSince(b, now - w.len)
             /\ SentSince(b, now - w.len)' \in Nat
  <2> DEFINE D == {r \in rows : Intent[KeyOf(r)].biz = b /\ r.date >= (now + 1) - w.len}
             E == {r \in rows : Intent[KeyOf(r)].biz = b /\ r.date >= now - w.len}
             f == [r \in D |-> Intent[KeyOf(r)].amount]
             g == [r \in E |-> Intent[KeyOf(r)].amount]
  <2>1. IsFiniteSet(E) /\ DOMAIN g = E /\ DOMAIN f = D
    BY FS_Subset
  <2>2. w.len \in Nat
    BY WindowsAssumption
  <2>3. D \subseteq E
    BY <1>0, <2>2, RowFields
  <2>4. \A r \in E : g[r] \in Int /\ 0 <= g[r]
    BY RowFields
  <2>5. \A r \in D : f[r] \in Nat /\ f[r] \in Int /\ f[r] <= g[r]
    BY <2>3, RowFields
  <2>6. SentSince(b, now - w.len) = SumFunction(g)
    BY Zenon DEF SentSince
  <2>7. SentSince(b, now - w.len)' = SumFunction(f)
    BY Zenon DEF SentSince, KeyOf
  <2> HIDE DEF D, E, f, g
  <2>8. SumFunction(f) <= SumFunction(g)
    BY <2>1, <2>3, <2>4, <2>5, SumAtMost
  <2>9. SumFunction(f) \in Nat
    <3>1. IsFiniteSet(D)
      BY <2>1, <2>3, FS_Subset
    <3> QED
      BY <3>1, <2>1, <2>5, SumNat
  <2> QED
    BY <2>6, <2>7, <2>8, <2>9
<1>2. ASSUME NEW s \in Staff
      PROVE  Unsupervised(s)' <= Unsupervised(s) /\ Unsupervised(s)' \in Nat
  <2> DEFINE D == {r \in rows : r.ref[1] = "kbtf" /\ Actor(KeyOf(r)) = s /\ r.date >= (now + 1) - Day}
             E == {r \in rows : r.ref[1] = "kbtf" /\ Actor(KeyOf(r)) = s /\ r.date >= now - Day}
             f == [r \in D |-> Intent[KeyOf(r)].amount + r.fee]
             g == [r \in E |-> Intent[KeyOf(r)].amount + r.fee]
  <2>1. IsFiniteSet(E) /\ DOMAIN g = E /\ DOMAIN f = D
    BY FS_Subset
  <2>3. D \subseteq E
    BY <1>0, RowFields
  <2>4. \A r \in E : g[r] \in Int /\ 0 <= g[r]
    BY RowFields
  <2>5. \A r \in D : f[r] \in Nat /\ f[r] \in Int /\ f[r] <= g[r]
    BY <2>3, RowFields
  <2>6. Unsupervised(s) = SumFunction(g)
    BY Zenon DEF Unsupervised
  <2>7. Unsupervised(s)' = SumFunction(f)
    BY Zenon DEF Unsupervised, KeyOf
  <2> HIDE DEF D, E, f, g
  <2>8. SumFunction(f) <= SumFunction(g)
    BY <2>1, <2>3, <2>4, <2>5, SumAtMost
  <2>9. SumFunction(f) \in Nat
    <3>1. IsFiniteSet(D)
      BY <2>1, <2>3, FS_Subset
    <3> QED
      BY <3>1, <2>1, <2>5, SumNat
  <2> QED
    BY <2>6, <2>7, <2>8, <2>9
<1> QED
  BY <1>1, <1>2

\* A row of today adds its amount to the windows of its business, and to what its
\* actor sent unsupervised when it is a direct send.
LEMMA BookSums ==
  ASSUME TypeOK, IsFiniteSet(rows), now' = now, NEW r \in Row, r \notin rows,
         rows' = rows \cup {r}, r.date = now
  PROVE  /\ \A b \in Biz, w \in AmlWindows :
              SentSince(b, now - w.len)' =
                IF Intent[KeyOf(r)].biz = b THEN SentSince(b, now - w.len) + Intent[KeyOf(r)].amount
                ELSE SentSince(b, now - w.len)
         /\ \A s \in Staff :
              Unsupervised(s)' =
                IF r.ref[1] = "kbtf" /\ Actor(KeyOf(r)) = s
                THEN Unsupervised(s) + (Intent[KeyOf(r)].amount + r.fee) ELSE Unsupervised(s)
<1>0. /\ now \in Nat /\ Day \in Nat /\ now - Day <= now
      /\ r.fee \in Nat /\ KeyOf(r) \in Keys /\ Intent[KeyOf(r)].amount \in Nat
  BY NumbersAssumption, AmountNat DEF TypeOK, Row, Refs, KeyOf
<1>1. ASSUME NEW b \in Biz, NEW w \in AmlWindows
      PROVE  SentSince(b, now - w.len)' =
                IF Intent[KeyOf(r)].biz = b THEN SentSince(b, now - w.len) + Intent[KeyOf(r)].amount
                ELSE SentSince(b, now - w.len)
  <2> DEFINE D == {x \in rows : Intent[KeyOf(x)].biz = b /\ x.date >= now - w.len}
             E == {x \in rows \cup {r} : Intent[KeyOf(x)].biz = b /\ x.date >= now - w.len}
             f == [x \in D |-> Intent[KeyOf(x)].amount]
             g == [x \in E |-> Intent[KeyOf(x)].amount]
  <2>1. IsFiniteSet(D) /\ DOMAIN g = E /\ DOMAIN f = D
    BY FS_Subset
  <2>2. w.len \in Nat /\ r.date >= now - w.len
    BY <1>0, WindowsAssumption
  <2>3. SentSince(b, now - w.len) = SumFunction(f)
    BY Zenon DEF SentSince
  <2>4. SentSince(b, now - w.len)' = SumFunction(g)
    BY Zenon DEF SentSince, KeyOf
  <2>5. CASE Intent[KeyOf(r)].biz = b
    <3>1. E = D \cup {r} /\ r \notin D
      BY <2>2, <2>5
    <3>2. \A x \in D : g[x] = f[x] /\ g[x] \in Int
      BY RowFields
    <3>3. g[r] = Intent[KeyOf(r)].amount /\ g[r] \in Int
      BY <1>0, <3>1
    <3> HIDE DEF D, E, f, g
    <3>4. SumFunction(g) = SumFunction(f) + g[r]
      BY <2>1, <3>1, <3>2, <3>3, SumWith
    <3> QED
      BY <2>3, <2>4, <2>5, <3>3, <3>4
  <2>6. CASE Intent[KeyOf(r)].biz # b
    <3>1. E = D
      BY <2>6
    <3>2. f = g
      BY <3>1
    <3> QED
      BY <2>3, <2>4, <2>6, <3>2, Zenon
  <2> QED
    BY <2>5, <2>6
<1>2. ASSUME NEW s \in Staff
      PROVE  Unsupervised(s)' =
                IF r.ref[1] = "kbtf" /\ Actor(KeyOf(r)) = s
                THEN Unsupervised(s) + (Intent[KeyOf(r)].amount + r.fee) ELSE Unsupervised(s)
  <2> DEFINE D == {x \in rows : x.ref[1] = "kbtf" /\ Actor(KeyOf(x)) = s /\ x.date >= now - Day}
             E == {x \in rows \cup {r} : x.ref[1] = "kbtf" /\ Actor(KeyOf(x)) = s /\ x.date >= now - Day}
             f == [x \in D |-> Intent[KeyOf(x)].amount + x.fee]
             g == [x \in E |-> Intent[KeyOf(x)].amount + x.fee]
  <2>1. IsFiniteSet(D) /\ DOMAIN g = E /\ DOMAIN f = D
    BY FS_Subset
  <2>3. Unsupervised(s) = SumFunction(f)
    BY Zenon DEF Unsupervised
  <2>4. Unsupervised(s)' = SumFunction(g)
    BY Zenon DEF Unsupervised, KeyOf
  <2>5. CASE r.ref[1] = "kbtf" /\ Actor(KeyOf(r)) = s
    <3>1. E = D \cup {r} /\ r \notin D
      BY <1>0, <2>5
    <3>2. \A x \in D : g[x] = f[x] /\ g[x] \in Int
      BY RowFields
    <3>3. g[r] = Intent[KeyOf(r)].amount + r.fee /\ g[r] \in Int
      BY <1>0, <3>1
    <3> HIDE DEF D, E, f, g
    <3>4. SumFunction(g) = SumFunction(f) + g[r]
      BY <2>1, <3>1, <3>2, <3>3, SumWith
    <3> QED
      BY <2>3, <2>4, <2>5, <3>3, <3>4
  <2>6. CASE ~(r.ref[1] = "kbtf" /\ Actor(KeyOf(r)) = s)
    <3>1. E = D
      BY <2>6
    <3>2. f = g
      BY <3>1
    <3> QED
      BY <2>3, <2>4, <2>6, <3>2, Zenon
  <2> QED
    BY <2>5, <2>6
<1> QED
  BY <1>1, <1>2

-----------------------------------------------------------------------------
(* Who relies on what, while another moves *)

Inside == {"claim", "aml", "cap", "exec", "bank", "fee", "book", "mark", "commit"}
Windowed == {"cap", "exec", "bank", "fee", "book"}
Spending == {"exec", "bank", "fee", "book"}

\* A reference tells the transfer, and the two kinds of reference differ.
LEMMA RefFacts ==
  ASSUME TypeOK, NEW i \in Jobs, NEW j \in Jobs
  PROVE  /\ RefOf(i) = RefOf(j) => job[i].key = job[j].key /\ job[i].kind = job[j].kind
         /\ KeyOf([ref |-> RefOf(j), fee |-> job[j].fee, date |-> now]) = job[j].key
         /\ (RefOf(j)[1] = "kbtf") <=> (job[j].kind = "send")
BY JobAt DEF RefOf, KeyOf, JobState

\* The windows and sums do not change when the rows and the clock do not.
LEMMA SameSums ==
  ASSUME UNCHANGED <<now, rows>>
  PROVE  /\ \A k \in Keys : WithinLimits(k)' <=> WithinLimits(k)
         /\ \A s \in Staff : Unsupervised(s)' = Unsupervised(s)
         /\ CapHonoured <=> \A s \in Staff : Unsupervised(s) <= topCap[s]
         /\ CapHonoured' <=> \A s \in Staff : Unsupervised(s) <= topCap'[s]
         /\ AmlHonoured' <=> AmlHonoured
         /\ \A j \in Jobs : RefOf(j)' = RefOf(j) => (Booked(RefOf(j))' <=> Booked(RefOf(j)))
<1>1. \A s \in Staff : Unsupervised(s)' = Unsupervised(s)
  BY DEF Unsupervised, KeyOf
<1>2. \A k \in Keys : WithinLimits(k)' <=> WithinLimits(k)
  BY DEF WithinLimits, SentSince, KeyOf
<1>3. AmlHonoured' <=> AmlHonoured
  BY DEF AmlHonoured, SentSince, KeyOf
<1>4. \A j \in Jobs : RefOf(j)' = RefOf(j) => (Booked(RefOf(j))' <=> Booked(RefOf(j)))
  BY DEF Booked
<1>5. CapHonoured' <=> \A s \in Staff : Unsupervised(s)' <= topCap'[s]
  BY DEF CapHonoured
<1> QED
  BY <1>1, <1>2, <1>3, <1>4, <1>5 DEF CapHonoured

\* A handler keeps its locks while the lock table and its own record stand.
LEMMA HeldStays ==
  ASSUME NEW i \in Jobs, NEW k \in Keys, LocksHeld(i, k), job'[i] = job[i],
         \A n \in LockNames : lock'[n] = i <=> lock[n] = i
  PROVE  LocksHeld(i, k)'
<1>1. Locked(i)' = Locked(i)
  BY DEF Locked
<1>2. UnderCap(i, k)' <=> UnderCap(i, k)
  BY DEF UnderCap
<1>3. Intent[k].biz \in LockNames /\ (UnderCap(i, k) => Actor(k) \in LockNames)
  BY AmountNat DEF LockNames, UnderCap, IsStaff
<1> QED
  BY <1>1, <1>2, <1>3 DEF LocksHeld

\* What a handler established stays true while its record stands and nothing it counted grew.
LEMMA ClearedStays ==
  ASSUME TypeOK, TypeOK', NEW i \in Jobs, NEW k \in Keys, job[i].key = k, Cleared(i, k), job'[i] = job[i],
         job[i].pc \in {"bank", "fee", "book"} /\ ~Booked(RefOf(i)) => ~Booked(RefOf(i))',
         job[i].pc = "book" /\ RefOf(i) \in swept' => RefOf(i) \in swept,
         job[i].pc \in Windowed /\ WithinLimits(k) => WithinLimits(k)',
         \A s \in Staff : topCap[s] <= topCap'[s],
         UnderCap(i, k) /\ job[i].pc \in Spending => Unsupervised(Actor(k))' <= Unsupervised(Actor(k)),
         \A s \in Staff : Unsupervised(s) \in Nat /\ Unsupervised(s)' \in Nat
  PROVE  Cleared(i, k)'
<1>1. UnderCap(i, k)' <=> UnderCap(i, k)
  BY DEF UnderCap
<1>2. RefOf(i)' = RefOf(i)
  BY DEF RefOf
<1>3. UnderCap(i, k) => Actor(k) \in Staff /\ topCap[Actor(k)] \in Nat /\ topCap'[Actor(k)] \in Nat
  BY DEF UnderCap, IsStaff, TypeOK
<1>4. job[i].cap \in Nat /\ Intent[k].amount \in Nat /\ NipFee \in Nat
  BY JobAt, AmountNat, NumbersAssumption DEF JobState
<1>5. UnderCap(i, k) /\ job[i].pc \in {"lock", "aml", "cap"} => job[i].cap <= topCap'[Actor(k)]
  BY <1>3, <1>4 DEF Cleared, UnderCap, IsStaff
<1>6. UnderCap(i, k) /\ job[i].pc \in {"exec", "bank", "fee", "book"} =>
           Unsupervised(Actor(k))' + Intent[k].amount + NipFee <= topCap'[Actor(k)]
  <2> SUFFICES ASSUME UnderCap(i, k), job[i].pc \in {"exec", "bank", "fee", "book"}
               PROVE  Unsupervised(Actor(k))' + Intent[k].amount + NipFee <= topCap'[Actor(k)]
    OBVIOUS
  <2>1. Actor(k) \in Staff /\ topCap[Actor(k)] <= topCap'[Actor(k)]
    BY DEF UnderCap, IsStaff
  <2>2. Unsupervised(Actor(k)) + Intent[k].amount + NipFee <= topCap[Actor(k)]
    BY DEF Cleared
  <2>3. Unsupervised(Actor(k))' <= Unsupervised(Actor(k)) /\ Unsupervised(Actor(k)) \in Nat
        /\ Unsupervised(Actor(k))' \in Nat
    BY <2>1 DEF Spending
  <2>4. \A a, b, c, d, u, v \in Nat : u <= v /\ v + a + b <= c /\ c <= d => u + a + b <= d
    OBVIOUS
  <2> QED
    BY <2>1, <2>2, <2>3, <2>4, <1>3, <1>4, Zenon
<1> QED
  BY <1>1, <1>2, <1>5, <1>6 DEF Cleared, Windowed

\* A handler that has gone in holds the lock of its business alone, so no two
\* have the same reference in hand.
LEMMA OneInside ==
  ASSUME TypeOK, LimitsKept, NEW i \in Jobs, NEW j \in Jobs,
         job[i].pc \in Inside, job[j].pc \in Inside
  PROVE  /\ Intent[job[i].key].biz = Intent[job[j].key].biz => i = j
         /\ UnderCap(i, job[i].key) /\ UnderCap(j, job[j].key)
            /\ Actor(job[i].key) = Actor(job[j].key) => i = j
         /\ RefOf(i) = RefOf(j) => i = j
<1>1. job[i].key \in Keys /\ job[j].key \in Keys
  BY JobAt
<1>2. LocksHeld(i, job[i].key) /\ LocksHeld(j, job[j].key)
  BY <1>1 DEF LimitsKept
<1>3. job[i].pc \notin {"idle", "catch", "lock"} /\ job[j].pc \notin {"idle", "catch", "lock"}
  BY DEF Inside
<1>4. /\ lock[Intent[job[i].key].biz] = i /\ lock[Intent[job[j].key].biz] = j
      /\ UnderCap(i, job[i].key) => lock[Actor(job[i].key)] = i
      /\ UnderCap(j, job[j].key) => lock[Actor(job[j].key)] = j
  BY <1>2, <1>3 DEF LocksHeld
<1>5. RefOf(i) = RefOf(j) => job[i].key = job[j].key
  BY RefFacts
<1> QED
  BY <1>4, <1>5

\* A step of one handler that writes no row.
LEMMA KeptStep ==
  ASSUME TypeOK, TypeOK', LimitsKept, NEW j \in Jobs, UNCHANGED <<now, rows, cap, topCap>>,
         \A i \in Jobs \ {j} : job'[i] = job[i],
         \A n \in LockNames : \/ lock'[n] = lock[n]
                              \/ lock[n] = j /\ lock'[n] = NoJob
                              \/ lock[n] = NoJob /\ lock'[n] = j,
         \A r \in swept' : r \in swept \/ (job[j].pc = "fee" /\ r = RefOf(j)),
         \A k \in Keys : job'[j].key = k => LocksHeld(j, k)' /\ Cleared(j, k)'
  PROVE  LimitsKept'
<1>1. /\ \A s \in Staff : Unsupervised(s) \in Nat /\ Unsupervised(s)' = Unsupervised(s)
      /\ \A s \in Staff : topCap[s] <= topCap'[s]
  BY SameSums, UnsupervisedNat DEF LimitsKept, TypeOK
<1>2. ASSUME NEW i \in Jobs \ {j}, NEW k \in Keys, job'[i].key = k
      PROVE  LocksHeld(i, k)' /\ Cleared(i, k)'
  <2>1. job'[i] = job[i] /\ job[i].key = k /\ LocksHeld(i, k) /\ Cleared(i, k)
    BY <1>2 DEF LimitsKept
  <2>2. RefOf(i)' = RefOf(i)
    BY <2>1 DEF RefOf
  <2>3. \A n \in LockNames : lock'[n] = i <=> lock[n] = i
    BY NoJobAssumption
  <2>4. job[i].pc = "book" /\ RefOf(i) \in swept' => RefOf(i) \in swept
    BY OneInside DEF Inside
  <2>5. LocksHeld(i, k)'
    BY <2>1, <2>3, HeldStays
  <2>6. Booked(RefOf(i))' <=> Booked(RefOf(i))
    BY <2>2, SameSums
  <2>7. WithinLimits(k)' <=> WithinLimits(k)
    BY SameSums
  <2>8. UnderCap(i, k) => Unsupervised(Actor(k))' <= Unsupervised(Actor(k))
    BY <1>1 DEF UnderCap, IsStaff
  <2>9. Cleared(i, k)'
    BY <1>1, <2>1, <2>4, <2>6, <2>7, <2>8, ClearedStays
  <2> QED
    BY <2>5, <2>9
<1>3. \A r \in rows' : r.ref \in swept' => r.fee = FeeOf(KeyOf(r))
  <2>1. job[j].pc = "fee" => ~Booked(RefOf(j))
    BY JobAt DEF LimitsKept, Cleared
  <2> QED
    BY <2>1 DEF LimitsKept, Booked
<1>4. CapHonoured' /\ AmlHonoured'
  BY <1>1, SameSums DEF LimitsKept
<1> QED
  BY <1>2, <1>3, <1>4 DEF LimitsKept, KeyOf

\* A step in which no handler takes part.
LEMMA KeptStill ==
  ASSUME TypeOK, TypeOK', LimitsKept, UNCHANGED <<now, rows, job, lock, swept, cap, topCap>>
  PROVE  LimitsKept'
<1>1. /\ \A s \in Staff : Unsupervised(s) \in Nat /\ Unsupervised(s)' = Unsupervised(s)
      /\ \A s \in Staff : topCap[s] <= topCap'[s]
  BY SameSums, UnsupervisedNat DEF LimitsKept, TypeOK
<1>2. ASSUME NEW i \in Jobs, NEW k \in Keys, job'[i].key = k
      PROVE  LocksHeld(i, k)' /\ Cleared(i, k)'
  <2>1. job'[i] = job[i] /\ job[i].key = k /\ LocksHeld(i, k) /\ Cleared(i, k)
    BY <1>2 DEF LimitsKept
  <2>2. RefOf(i)' = RefOf(i)
    BY <2>1 DEF RefOf
  <2>3. LocksHeld(i, k)'
    BY <2>1, HeldStays
  <2>4. Booked(RefOf(i))' <=> Booked(RefOf(i))
    BY <2>2, SameSums
  <2>5. WithinLimits(k)' <=> WithinLimits(k)
    BY SameSums
  <2>6. UnderCap(i, k) => Unsupervised(Actor(k))' <= Unsupervised(Actor(k))
    BY <1>1 DEF UnderCap, IsStaff
  <2>7. Cleared(i, k)'
    BY <1>1, <2>1, <2>4, <2>5, <2>6, ClearedStays
  <2> QED
    BY <2>3, <2>7
<1>3. \A r \in rows' : r.ref \in swept' => r.fee = FeeOf(KeyOf(r))
  BY DEF LimitsKept
<1>4. CapHonoured' /\ AmlHonoured'
  BY <1>1, SameSums DEF LimitsKept
<1> QED
  BY <1>2, <1>3, <1>4 DEF LimitsKept, KeyOf

-----------------------------------------------------------------------------
(* The handlers' steps *)

\* Dropping out frees the locks.
LEMMA KeptDrop ==
  ASSUME TypeOK, TypeOK', LimitsKept, NEW j \in Jobs, UNCHANGED <<now, rows, cap, topCap>>,
         lock' = Freed(j) \/ (UNCHANGED lock /\ Locked(j) = {}),
         Update(j, Idle) \/ \E safe \in BOOLEAN : Throw(j, safe),
         \A r \in swept' : r \in swept \/ (job[j].pc = "fee" /\ r = RefOf(j))
  PROVE  LimitsKept'
<1>1. /\ job'[j].pc \in {"idle", "catch"} /\ job'[j].fee = 0
      /\ \A i \in Jobs \ {j} : job'[i] = job[i]
  BY FreshFields, UpdateFields, ThrowFields
<1>2. /\ \A n \in LockNames : lock'[n] = lock[n] \/ (lock[n] = j /\ lock'[n] = NoJob)
      /\ \A n \in LockNames : lock'[n] # j
  <2>1. CASE lock' = Freed(j)
    BY <2>1, NoJobAssumption DEF Freed
  <2>2. CASE UNCHANGED lock /\ Locked(j) = {}
    BY <2>2 DEF Locked
  <2> QED
    BY <2>1, <2>2
<1>3. ASSUME NEW k \in Keys PROVE LocksHeld(j, k)' /\ Cleared(j, k)'
  BY <1>1, <1>2 DEF LocksHeld, Cleared, Locked
<1> QED
  BY <1>1, <1>2, <1>3, KeptStep

\* Going on inside keeps the locks.
LEMMA HeldOn ==
  ASSUME NEW j \in Jobs, NEW k \in Keys, LocksHeld(j, k), UNCHANGED lock,
         job[j].pc \in Inside, job'[j].pc \in Inside, job'[j].kind = job[j].kind
  PROVE  LocksHeld(j, k)'
<1>1. UnderCap(j, k)' <=> UnderCap(j, k)
  BY DEF UnderCap
<1> QED
  BY <1>1 DEF LocksHeld, Inside

\* A step inside that writes no row and frees nothing.
LEMMA KeptGo ==
  ASSUME TypeOK, TypeOK', LimitsKept, NEW j \in Jobs, UNCHANGED <<now, rows, cap, topCap, lock>>,
         job[j].pc \in Inside, job'[j].pc \in Inside,
         job'[j].kind = job[j].kind, job'[j].key = job[j].key,
         \A i \in Jobs \ {j} : job'[i] = job[i],
         \A r \in swept' : r \in swept \/ (job[j].pc = "fee" /\ r = RefOf(j)),
         LET k == job[j].key IN
           /\ IF job'[j].pc = "book" THEN job'[j].fee \in {0, NipFee} ELSE job'[j].fee = 0
           /\ job'[j].pc \in {"bank", "fee", "book"} => ~Booked(RefOf(j))
           /\ job'[j].pc = "fee" => FeeOf(k) = NipFee
           /\ job'[j].pc = "book" /\ RefOf(j) \in swept' => job'[j].fee = FeeOf(k)
           /\ job'[j].pc \in Windowed => WithinLimits(k)
           /\ UnderCap(j, k) /\ job'[j].pc \in {"aml", "cap"} =>
                job'[j].cap = job[j].cap /\ job[j].pc \in {"aml", "cap"}
           /\ UnderCap(j, k) /\ job'[j].pc \in Spending =>
                Unsupervised(Actor(k)) + Intent[k].amount + NipFee <= topCap[Actor(k)]
  PROVE  LimitsKept'
<1> PICK k \in Keys : k = job[j].key
  BY JobAt
<1>1. LocksHeld(j, k) /\ Cleared(j, k)
  BY DEF LimitsKept
<1>2. LocksHeld(j, k)'
  BY <1>1, HeldOn
<1>3. RefOf(j)' = RefOf(j) /\ (UnderCap(j, k)' <=> UnderCap(j, k))
  BY DEF RefOf, UnderCap
<1>4. Booked(RefOf(j))' <=> Booked(RefOf(j))
  BY <1>3, SameSums
<1>5. WithinLimits(k)' <=> WithinLimits(k)
  BY SameSums
<1>6. UnderCap(j, k) => Unsupervised(Actor(k))' = Unsupervised(Actor(k))
  BY SameSums DEF UnderCap, IsStaff
<1>7. Cleared(j, k)'
  BY <1>1, <1>3, <1>4, <1>5, <1>6 DEF Cleared, Windowed, Spending, Inside
<1> QED
  BY <1>2, <1>7, KeptStep

\* Going on, a handler keeps its cap and its fee.
LEMMA GoFees ==
  ASSUME TypeOK, NEW j \in Jobs, NEW pc, Go(j, pc)
  PROVE  job'[j].cap = job[j].cap /\ job'[j].fee = job[j].fee
  BY MoveFields, Zenon

\* A handler that starts holds no lock and has established nothing but its cap.
LEMMA KeptPost ==
  ASSUME TypeOK, TypeOK', LimitsKept, NEW j \in Jobs, NEW k \in Keys, Post(j, k) \/ Approve(j, k)
  PROVE  LimitsKept'
<1>1. job[j].pc = "idle" /\ UNCHANGED <<now, rows, cap, topCap, swept, lock>>
  BY DEF Post, Approve, people, money
<1>2. Locked(j) = {} /\ Locked(j)' = {}
  BY <1>1, JobAt DEF LimitsKept, LocksHeld, Locked
<1>3. CASE UNCHANGED job
  BY <1>1, <1>3, KeptStill
<1>4. CASE job'[j].pc = "lock" /\ job'[j].fee = 0 /\ job'[j].key = k
           /\ (UnderCap(j, k)' => job'[j].cap <= topCap[Actor(k)])
           /\ \A i \in Jobs \ {j} : job'[i] = job[i]
  <2>1. ASSUME NEW m \in Keys, job'[j].key = m PROVE LocksHeld(j, m)' /\ Cleared(j, m)'
    <3>1. m = k
      BY <1>4, <2>1
    <3>2. LocksHeld(j, k)'
      BY <1>2, <1>4 DEF LocksHeld
    <3>3. Cleared(j, k)'
      BY <1>1, <1>4 DEF Cleared
    <3> QED
      BY <3>1, <3>2, <3>3
  <2> QED
    BY <1>1, <1>4, <2>1, KeptStep
<1>5. ASSUME Post(j, k) PROVE LimitsKept'
  <2> DEFINE c == IF IsStaff(k) THEN cap[Actor(k)] ELSE 0
  <2>1. Update(j, [Idle EXCEPT !.pc = "lock", !.key = k, !.cap = c])
    BY <1>5 DEF Post
  <2>2. IsStaff(k) => c <= topCap[Actor(k)]
    BY DEF LimitsKept, IsStaff
  <2> HIDE DEF c
  <2>3. /\ job'[j].pc = "lock" /\ job'[j].fee = 0 /\ job'[j].key = k /\ job'[j].cap = c
        /\ \A i \in Jobs \ {j} : job'[i] = job[i]
    <3>1. job'[j].pc = "lock" /\ job'[j].fee = 0 /\ job'[j].key = k /\ job'[j].cap = c
      BY <2>1, FreshFields, TRUE \in BOOLEAN, Zenon
    <3>2. \A i \in Jobs \ {j} : job'[i] = job[i]
      BY <2>1, UpdateFields, Zenon
    <3> QED
      BY <3>1, <3>2
  <2> QED
    BY <1>4, <2>2, <2>3 DEF UnderCap
<1>6. ASSUME Approve(j, k) PROVE LimitsKept'
  <2>1. UNCHANGED job \/ Update(j, [Idle EXCEPT !.pc = "lock", !.kind = "approve", !.key = k])
    BY <1>6 DEF Approve
  <2>2. CASE Update(j, [Idle EXCEPT !.pc = "lock", !.kind = "approve", !.key = k])
    <3>1. /\ job'[j].pc = "lock" /\ job'[j].fee = 0 /\ job'[j].key = k /\ job'[j].kind = "approve"
          /\ \A i \in Jobs \ {j} : job'[i] = job[i]
      BY <2>2, FreshFields, UpdateFields
    <3> QED
      BY <1>4, <3>1 DEF UnderCap
  <2> QED
    BY <1>3, <2>1, <2>2
<1> QED
  BY <1>5, <1>6

\* The locks a handler asks for are its actor's and its business's.
LEMMA LocksShape ==
  ASSUME TypeOK, NEW j \in Jobs, NEW k \in Keys, job[j].key = k
  PROVE  /\ UnderCap(j, k) => /\ Len(LocksOf(j)) = 2 /\ LocksOf(j)[1] = Actor(k)
                              /\ LocksOf(j)[2] = Intent[k].biz
         /\ ~UnderCap(j, k) => Len(LocksOf(j)) = 1 /\ LocksOf(j)[1] = Intent[k].biz
  BY DEF LocksOf, UnderCap

\* The locks are taken in order: the actor's, then the business's.
LEMMA KeptAcquire ==
  ASSUME TypeOK, TypeOK', LimitsKept, NEW j \in Jobs, AcquireLock(j)
  PROVE  LimitsKept'
<1> PICK k \in Keys : k = job[j].key
  BY JobAt
<1> DEFINE n == Cardinality(Locked(j)) + 1
           pc == IF n < Len(LocksOf(j)) THEN "lock"
                 ELSE IF job[j].kind = "approve" THEN "claim" ELSE "aml"
<1>1. /\ job[j].pc = "lock" /\ lock[LocksOf(j)[n]] = NoJob /\ Go(j, pc)
      /\ lock' = [lock EXCEPT ![LocksOf(j)[n]] = j]
      /\ UNCHANGED <<now, rows, cap, topCap, swept>>
  BY DEF AcquireLock, people, money
<1>2. /\ job'[j].pc = pc /\ job'[j].kind = job[j].kind /\ job'[j].key = k
      /\ job'[j].cap = job[j].cap /\ job'[j].fee = job[j].fee
      /\ \A i \in Jobs \ {j} : job'[i] = job[i]
  BY <1>1, MoveFields, GoFields
<1>3. LocksHeld(j, k) /\ Cleared(j, k)
  BY DEF LimitsKept
<1>4. Locked(j) = {} \/ (UnderCap(j, k) /\ Locked(j) = {Actor(k)})
  BY <1>1, <1>3 DEF LocksHeld
<1>5. Cardinality({}) = 0 /\ Cardinality({Actor(k)}) = 1
  BY FS_EmptySet, FS_Singleton
<1>6. (Locked(j) = {} => n = 1) /\ (Locked(j) # {} => n = 2)
  BY <1>4, <1>5
<1>7. Intent[k].biz \in LockNames /\ (UnderCap(j, k) => Actor(k) \in LockNames)
  BY AmountNat DEF LockNames, UnderCap, IsStaff
<1>8. LocksOf(j)[n] \in LockNames
  BY <1>4, <1>6, <1>7, LocksShape
<1>9. UnderCap(j, k)' <=> UnderCap(j, k)
  BY <1>2 DEF UnderCap
<1>10. lock \in [LockNames -> Jobs \cup {NoJob}]
  BY DEF TypeOK
<1> HIDE DEF n
<1>11. \A m \in LockNames : lock'[m] = lock[m] \/ (lock[m] = NoJob /\ lock'[m] = j)
  BY <1>1, <1>8, <1>10
<1>12. LocksHeld(j, k)'
  <2>1. CASE UnderCap(j, k) /\ Locked(j) = {}
    <3>1. n = 1 /\ LocksOf(j)[n] = Actor(k) /\ pc = "lock"
      BY <2>1, <1>6, LocksShape
    <3>2. Locked(j)' = {Actor(k)}
      BY <3>1, <1>1, <1>7, <1>10, <2>1 DEF Locked
    <3> QED
      BY <3>1, <3>2, <1>2, <1>9, <2>1 DEF LocksHeld
  <2>2. CASE UnderCap(j, k) /\ Locked(j) # {}
    <3>1. n = 2 /\ LocksOf(j)[n] = Intent[k].biz /\ pc = "aml"
      <4>1. n = 2 /\ Len(LocksOf(j)) = 2 /\ LocksOf(j)[2] = Intent[k].biz
        BY <2>2, <1>6, LocksShape
      <4>2. job[j].kind = "send"
        BY <2>2 DEF UnderCap
      <4> QED
        BY <4>1, <4>2
    <3>2. lock[Actor(k)] = j
      BY <2>2, <1>4 DEF Locked
    <3>3. lock'[Intent[k].biz] = j /\ lock'[Actor(k)] = j
      BY <3>1, <3>2, <1>1, <1>7, <1>10, <1>11, NoJobAssumption
    <3> QED
      BY <3>1, <3>3, <1>2, <1>9 DEF LocksHeld
  <2>3. CASE ~UnderCap(j, k)
    <3>1. n = 1 /\ LocksOf(j)[n] = Intent[k].biz /\ pc \in {"claim", "aml"}
      <4>1. n = 1 /\ Len(LocksOf(j)) = 1 /\ LocksOf(j)[1] = Intent[k].biz
        BY <2>3, <1>4, <1>6, LocksShape
      <4>2. ~(n < Len(LocksOf(j)))
        BY <4>1
      <4>3. pc = IF job[j].kind = "approve" THEN "claim" ELSE "aml"
        BY <4>2
      <4> HIDE DEF pc
      <4> QED
        BY <4>1, <4>3
    <3>2. lock'[Intent[k].biz] = j
      BY <3>1, <1>1, <1>7, <1>10
    <3> QED
      BY <3>1, <3>2, <1>2, <1>9, <2>3 DEF LocksHeld
  <2> QED
    BY <2>1, <2>2, <2>3
<1>13. Cleared(j, k)'
  BY <1>1, <1>2, <1>3, <1>9 DEF Cleared
<1>14. \A m \in Keys : job'[j].key = m => LocksHeld(j, m)' /\ Cleared(j, m)'
  BY <1>2, <1>12, <1>13
<1> QED
  BY <1>1, <1>2, <1>11, <1>14, KeptStep

\* Claims, refusals of the limits, answers: steps that need nothing and clear nothing.
LEMMA KeptAside ==
  ASSUME TypeOK, TypeOK', BankedInv, LimitsKept, NEW j \in Jobs,
         Claim(j) \/ AmlBlock(j) \/ IdempotentSkip(j) \/ BookFails(j) \/ MarkExecuted(j)
  PROVE  LimitsKept'
<1>1. /\ UNCHANGED <<now, rows, cap, topCap, swept, lock>> /\ job[j].pc \in Inside
  BY DEF Claim, AmlBlock, IdempotentSkip, BookFails, MarkExecuted, people, money, Inside
<1>2. PICK k \in Keys : k = job[j].key
  BY JobAt
<1>3. Cleared(j, k)
  BY <1>2 DEF LimitsKept
<1>4. /\ job'[j].kind = job[j].kind /\ job'[j].key = job[j].key /\ job'[j].fee = 0
      /\ \A i \in Jobs \ {j} : job'[i] = job[i]
      /\ job'[j].pc \in {"aml", "commit", "mark"} /\ (job'[j].pc = "aml" => job[j].pc = "claim")
  <2>1. CASE Claim(j)
    <3>1. (Go(j, "aml") \/ Go(j, "commit")) /\ job[j].pc = "claim"
      BY <2>1 DEF Claim
    <3>2. job[j].fee = 0
      BY <3>1, <1>3 DEF Cleared
    <3> QED
      BY <3>1, <3>2, GoFees, GoFields
  <2>2. CASE AmlBlock(j)
    <3>1. Go(j, "commit") /\ job[j].pc = "aml"
      BY <2>2 DEF AmlBlock
    <3>2. job[j].fee = 0
      BY <3>1, <1>3 DEF Cleared
    <3> QED
      BY <3>1, <3>2, GoFees, GoFields
  <2>3. CASE IdempotentSkip(j)
    <3>1. job[j].pc = "exec" /\ AfterBook(j) \in {"mark", "commit"}
          /\ Update(j, [job[j] EXCEPT !.pc = AfterBook(j), !.booked = TRUE, !.ok = TRUE])
      BY <2>3 DEF IdempotentSkip, AfterBook
    <3> QED
      BY <3>1, <1>3, MoveFields, UpdateFields DEF Cleared
  <2>4. CASE BookFails(j)
    <3>1. AfterBook(j) \in {"mark", "commit"}
          /\ Update(j, [job[j] EXCEPT !.pc = AfterBook(j), !.ok = TRUE, !.fee = 0])
      BY <2>4 DEF BookFails, AfterBook
    <3> QED
      BY <3>1, MoveFields, UpdateFields
  <2>5. CASE MarkExecuted(j)
    <3>1. Go(j, "commit") /\ job[j].pc = "mark"
      BY <2>5 DEF MarkExecuted
    <3>2. job[j].fee = 0
      BY <3>1, <1>3 DEF Cleared
    <3> QED
      BY <3>1, <3>2, GoFees, GoFields
  <2> QED
    BY <2>1, <2>2, <2>3, <2>4, <2>5
<1>5. UnderCap(j, k) => job[j].pc # "claim"
  BY DEF UnderCap, BankedInv, InRole
<1>6. job'[j].pc \in Inside /\ job'[j].pc \notin {"book", "bank", "fee", "cap", "exec"}
  BY <1>4 DEF Inside
<1>7. UnderCap(j, job[j].key) => job'[j].pc # "aml"
  BY <1>2, <1>4, <1>5
<1>8. job'[j].pc \notin Windowed /\ job'[j].pc \notin Spending
  BY <1>6 DEF Windowed, Spending
<1> QED
  BY <1>1, <1>4, <1>6, <1>7, <1>8, KeptGo

\* Past the velocity limits: the windows have room for this transfer.
LEMMA KeptAmlPass ==
  ASSUME TypeOK, TypeOK', LimitsKept, NEW j \in Jobs, AmlPass(j)
  PROVE  LimitsKept'
<1>1. PICK k \in Keys : k = job[j].key
  BY JobAt
<1>2. /\ job[j].pc = "aml" /\ WithinLimits(k)
      /\ UNCHANGED <<now, rows, cap, topCap, swept, lock>>
  BY <1>1 DEF AmlPass, people, money
<1>3. Cleared(j, k)
  BY <1>1 DEF LimitsKept
<1>4. \E e : Update(j, [job[j] EXCEPT !.pc = IF UnderCap(j, k) THEN "cap" ELSE "exec", !.exempt = e])
  BY <1>1, Zenon DEF AmlPass, UnderCap
<1>5. /\ job'[j].pc = IF UnderCap(j, k) THEN "cap" ELSE "exec"
      /\ job'[j].kind = job[j].kind /\ job'[j].key = job[j].key
      /\ job'[j].cap = job[j].cap /\ job'[j].fee = job[j].fee
      /\ \A i \in Jobs \ {j} : job'[i] = job[i]
  <2>1. PICK e : Update(j, [job[j] EXCEPT !.pc = IF UnderCap(j, k) THEN "cap" ELSE "exec", !.exempt = e])
    BY <1>4
  <2> DEFINE pc == IF UnderCap(j, k) THEN "cap" ELSE "exec"
  <2> HIDE DEF pc
  <2>2. Update(j, [job[j] EXCEPT !.pc = pc, !.exempt = e])
    BY <2>1 DEF pc
  <2>3. /\ job'[j].pc = pc /\ job'[j].kind = job[j].kind /\ job'[j].key = job[j].key
        /\ job'[j].cap = job[j].cap /\ job'[j].fee = job[j].fee
    BY <2>2, MoveFields, Zenon
  <2>4. \A i \in Jobs \ {j} : job'[i] = job[i]
    BY <2>2, UpdateFields, Zenon
  <2> QED
    BY <2>3, <2>4 DEF pc
<1>6. job'[j].fee = 0
  BY <1>2, <1>3, <1>5 DEF Cleared
<1>7. job'[j].pc \in {"cap", "exec"} /\ (UnderCap(j, k) => job'[j].pc = "cap")
  BY <1>5
<1>8. job[j].pc \in Inside /\ job'[j].pc \in Inside
  BY <1>2, <1>7 DEF Inside
<1> QED
  BY <1>1, <1>2, <1>5, <1>6, <1>7, <1>8, KeptGo DEF Spending

\* Past the cap: with the worst fee, what nobody approved stays within it.
LEMMA KeptCapPass ==
  ASSUME TypeOK, TypeOK', LimitsKept, NEW j \in Jobs, CapPass(j)
  PROVE  LimitsKept'
<1>1. PICK k \in Keys : k = job[j].key
  BY JobAt
<1>2. /\ job[j].pc = "cap" /\ Decided(j, "exec")
      /\ StaffSpend(Actor(k), job[j].exempt) + Intent[k].amount + NipFee <= job[j].cap
      /\ UNCHANGED <<now, rows, cap, topCap, swept, lock>>
  BY <1>1 DEF CapPass, CapAllows, people, money
<1>3. Cleared(j, k)
  BY <1>1 DEF LimitsKept
<1>4. /\ job'[j].pc = "exec" /\ job'[j].kind = job[j].kind /\ job'[j].key = job[j].key
      /\ job'[j].fee = job[j].fee
  BY <1>2, MoveFields, Zenon
<1>5. \A i \in Jobs \ {j} : job'[i] = job[i]
  BY <1>2, UpdateFields, Zenon DEF Decided
<1>6. job'[j].fee = 0 /\ WithinLimits(k)
  BY <1>2, <1>3, <1>4 DEF Cleared
<1>7. ASSUME UnderCap(j, k)
      PROVE  Unsupervised(Actor(k)) + Intent[k].amount + NipFee <= topCap[Actor(k)]
  <2>1. Actor(k) \in Staff /\ topCap[Actor(k)] \in Nat
    BY <1>7 DEF UnderCap, IsStaff, TypeOK
  <2>2. job[j].cap <= topCap[Actor(k)]
    BY <1>2, <1>3, <1>7 DEF Cleared
  <2>3. /\ Unsupervised(Actor(k)) <= StaffSpend(Actor(k), job[j].exempt)
        /\ StaffSpend(Actor(k), job[j].exempt) \in Nat /\ Unsupervised(Actor(k)) \in Nat
    BY SpendCovers, UnsupervisedNat DEF LimitsKept
  <2>4. job[j].cap \in Nat /\ Intent[k].amount \in Nat /\ NipFee \in Nat
    BY JobAt, AmountNat, NumbersAssumption DEF JobState
  <2>5. \A a, b, c, d, u, v \in Nat : u <= v /\ v + a + b <= c /\ c <= d => u + a + b <= d
    OBVIOUS
  <2> QED
    BY <1>2, <2>1, <2>2, <2>3, <2>4, <2>5, Zenon
<1>8. job[j].pc \in Inside /\ job'[j].pc \in Inside
  BY <1>2, <1>4 DEF Inside
<1> QED
  BY <1>1, <1>2, <1>4, <1>5, <1>6, <1>7, <1>8, KeptGo

\* Over the cap: held, or refused.
LEMMA KeptHold ==
  ASSUME TypeOK, TypeOK', LimitsKept, NEW j \in Jobs, Hold(j)
  PROVE  LimitsKept'
<1>1. PICK k \in Keys : k = job[j].key
  BY JobAt
<1>2. job[j].pc = "cap" /\ UNCHANGED <<now, rows, cap, topCap, swept>>
  BY DEF Hold, people, money
<1>3. (Decided(j, "commit") /\ UNCHANGED lock) \/ Throw(j, FALSE)
  BY Zenon DEF Hold
<1>4. CASE Throw(j, FALSE)
  BY <1>2, <1>4, KeptDrop DEF Throw
<1>5. CASE Decided(j, "commit") /\ UNCHANGED lock
  <2>1. Cleared(j, k)
    BY <1>1 DEF LimitsKept
  <2>2. /\ job'[j].pc = "commit" /\ job'[j].kind = job[j].kind /\ job'[j].key = job[j].key
        /\ job'[j].fee = job[j].fee
    BY <1>5, MoveFields, Zenon
  <2>3. \A i \in Jobs \ {j} : job'[i] = job[i]
    BY <1>5, UpdateFields, Zenon DEF Decided
  <2>4. job'[j].fee = 0
    BY <1>2, <2>1, <2>2 DEF Cleared
  <2>5. /\ job[j].pc \in Inside /\ job'[j].pc \in Inside
        /\ job'[j].pc \notin Windowed /\ job'[j].pc \notin Spending
    BY <1>2, <2>2 DEF Inside, Windowed, Spending
  <2> QED
    BY <1>2, <1>5, <2>2, <2>3, <2>4, <2>5, KeptGo
<1> QED
  BY <1>3, <1>4, <1>5

\* On the way to the bank and back, what was established is passed on.
LEMMA KeptPayout ==
  ASSUME TypeOK, TypeOK', LimitsKept, NEW j \in Jobs, StartPayout(j) \/ BankAccepts(j)
  PROVE  LimitsKept'
<1>1. PICK k \in Keys : k = job[j].key
  BY JobAt
<1>2. Cleared(j, k) /\ NipFee \in Nat
  BY <1>1, NumbersAssumption DEF LimitsKept
<1>3. UNCHANGED <<now, rows, cap, topCap, swept, lock>>
  BY DEF StartPayout, BankAccepts, people, money
<1>4. \/ job[j].pc = "exec" /\ ~Booked(RefOf(j)) /\ Go(j, "bank")
      \/ job[j].pc = "bank" /\ ~(FeeOf(k) > 0) /\ Go(j, "book")
      \/ job[j].pc = "bank" /\ FeeOf(k) = NipFee /\ Go(j, "fee")
  BY <1>1, NumbersAssumption DEF StartPayout, BankAccepts, FeeOf
<1>5. PICK pc \in {"bank", "book", "fee"} :
        /\ Go(j, pc) /\ (pc = "book" => ~(FeeOf(k) > 0)) /\ (pc = "fee" => FeeOf(k) = NipFee)
        /\ job[j].pc \in {"exec", "bank"} /\ (job[j].pc = "exec" => ~Booked(RefOf(j)))
  BY <1>4
<1>6. /\ job'[j].pc = pc /\ job'[j].kind = job[j].kind /\ job'[j].key = job[j].key
      /\ job'[j].fee = job[j].fee /\ \A i \in Jobs \ {j} : job'[i] = job[i]
  BY <1>5, GoFields, GoFees
<1>7. /\ job'[j].fee = 0 /\ ~Booked(RefOf(j)) /\ WithinLimits(k)
      /\ UnderCap(j, k) => Unsupervised(Actor(k)) + Intent[k].amount + NipFee <= topCap[Actor(k)]
  BY <1>2, <1>5, <1>6 DEF Cleared
<1>8. pc = "book" => job'[j].fee = FeeOf(k)
  BY <1>5, <1>7, AmountNat
<1>9. job[j].pc \in Inside /\ job'[j].pc \in Inside /\ job'[j].pc \notin {"aml", "cap"}
  BY <1>5, <1>6 DEF Inside
<1> QED
  BY <1>1, <1>2, <1>3, <1>5, <1>6, <1>7, <1>8, <1>9, KeptGo

\* A handler's record once its fee in hand is set.
LEMMA FeeMoves ==
  ASSUME TypeOK, NEW j \in Jobs, NEW pc, NEW f, Update(j, [job[j] EXCEPT !.pc = pc, !.fee = f])
  PROVE  /\ job'[j].pc = pc /\ job'[j].kind = job[j].kind /\ job'[j].key = job[j].key
         /\ job'[j].fee = f
<1> DEFINE x == job[j]
           y == [x EXCEPT !.pc = pc, !.fee = f]
<1>1. x \in JobState /\ job'[j] = y
  BY UpdateFields DEF TypeOK
<1>2. y.pc = pc /\ y.kind = x.kind /\ y.key = x.key /\ y.fee = f
  BY <1>1 DEF JobState
<1> QED
  BY <1>1, <1>2

\* A fee that reached the account is booked in full.
LEMMA KeptSweepFee ==
  ASSUME TypeOK, TypeOK', LimitsKept, NEW j \in Jobs, SweepFee(j)
  PROVE  LimitsKept'
<1>1. PICK k \in Keys : k = job[j].key
  BY JobAt
<1>2. Cleared(j, k) /\ job[j].pc = "fee"
  BY <1>1 DEF LimitsKept, SweepFee
<1>3. UNCHANGED <<now, rows, cap, topCap, lock>>
  BY DEF SweepFee, people
<1>4. PICK f \in {0, NipFee} :
        /\ Update(j, [job[j] EXCEPT !.pc = "book", !.fee = f])
        /\ swept' = swept \/ swept' = swept \cup {RefOf(j)}
        /\ RefOf(j) \in swept' => f = NipFee
  <2>1. CASE swept' = swept \cup {RefOf(j)} /\ Update(j, [job[j] EXCEPT !.pc = "book", !.fee = NipFee])
    BY <2>1
  <2>2. CASE UNCHANGED swept /\ Update(j, [job[j] EXCEPT !.pc = "book", !.fee = NipFee])
    BY <2>2
  <2>3. CASE /\ RefOf(j) \notin swept /\ UNCHANGED swept
             /\ Update(j, [job[j] EXCEPT !.pc = "book", !.fee = 0])
    BY <2>3
  <2> QED
    BY <2>1, <2>2, <2>3, Zenon DEF SweepFee
<1>5. /\ job'[j].pc = "book" /\ job'[j].kind = job[j].kind /\ job'[j].key = job[j].key
      /\ job'[j].fee = f
  <2>1. Update(j, [job[j] EXCEPT !.pc = "book", !.fee = f])
    BY <1>4
  <2> QED
    BY <2>1, FeeMoves, Zenon
<1>6. \A i \in Jobs \ {j} : job'[i] = job[i]
  BY <1>4, UpdateFields, Zenon
<1>7. /\ ~Booked(RefOf(j)) /\ WithinLimits(k) /\ FeeOf(k) = NipFee
      /\ UnderCap(j, k) => Unsupervised(Actor(k)) + Intent[k].amount + NipFee <= topCap[Actor(k)]
  BY <1>2 DEF Cleared
<1>8. job[j].pc \in Inside /\ job'[j].pc \in Inside
  BY <1>2, <1>5 DEF Inside
<1>9. /\ job'[j].fee \in {0, NipFee} /\ (RefOf(j) \in swept' => job'[j].fee = FeeOf(k))
      /\ \A r \in swept' : r \in swept \/ (job[j].pc = "fee" /\ r = RefOf(j))
  BY <1>2, <1>4, <1>5, <1>7
<1> QED
  BY <1>1, <1>3, <1>5, <1>6, <1>7, <1>8, <1>9, KeptGo

\* Booking: the row's amount is what its windows had room for, its fee at most
\* the worst, and only this handler could have written one in their place.
LEMMA KeptBookRow ==
  ASSUME TypeOK, TypeOK', LimitsKept, NEW j \in Jobs, BookRow(j)
  PROVE  LimitsKept'
<1>1. PICK k \in Keys : k = job[j].key
  BY JobAt
<1> DEFINE r == [ref |-> RefOf(j), fee |-> job[j].fee, date |-> now]
<1>2. /\ job[j].pc = "book" /\ ~Booked(RefOf(j)) /\ rows' = rows \cup {r}
      /\ UNCHANGED <<now, cap, topCap, swept, lock>>
  BY DEF BookRow, people
<1>3. LocksHeld(j, k) /\ Cleared(j, k)
  BY <1>1 DEF LimitsKept
<1>4. /\ r \in Row /\ r.date = now /\ r.ref = RefOf(j) /\ r.fee = job[j].fee
      /\ KeyOf(r) = k /\ (r.ref[1] = "kbtf" <=> job[j].kind = "send")
  BY <1>1, JobAt, RefFacts DEF Row, TypeOK
<1>5. r \notin rows /\ \A x \in rows : x.ref # RefOf(j)
  BY <1>2, <1>4 DEF Booked
<1> HIDE DEF r
<1>6. /\ job'[j].pc \in {"mark", "commit"} /\ job'[j].kind = job[j].kind /\ job'[j].key = job[j].key
      /\ job'[j].fee = 0
  <2>1. Update(j, [job[j] EXCEPT !.pc = AfterBook(j), !.booked = TRUE, !.ok = TRUE, !.fee = 0])
    BY DEF BookRow
  <2>2. AfterBook(j) \in {"mark", "commit"}
    BY DEF AfterBook
  <2> QED
    BY <2>1, <2>2, MoveFields, Zenon
<1>7. \A i \in Jobs \ {j} : job'[i] = job[i]
  BY UpdateFields, Zenon DEF BookRow
<1>8. IsFiniteSet(rows) /\ IsFiniteSet(rows')
  BY <1>2, FS_AddElement DEF LimitsKept
<1>9. /\ \A b \in Biz, w \in AmlWindows :
           SentSince(b, now - w.len)' =
             IF Intent[k].biz = b THEN SentSince(b, now - w.len) + Intent[k].amount
             ELSE SentSince(b, now - w.len)
      /\ \A s \in Staff :
           Unsupervised(s)' =
             IF UnderCap(j, k) /\ Actor(k) = s
             THEN Unsupervised(s) + (Intent[k].amount + job[j].fee) ELSE Unsupervised(s)
  BY <1>2, <1>4, <1>5, <1>8, BookSums DEF UnderCap, IsStaff
<1>10. \A s \in Staff : Unsupervised(s) \in Nat /\ Unsupervised(s)' \in Nat
  <2>1. \A s \in Staff : Unsupervised(s) \in Nat
    BY <1>8, UnsupervisedNat
  <2>2. Intent[k].amount + job[j].fee \in Nat
    BY AmountNat, JobAt
  <2>3. \A u, v \in Nat : u + v \in Nat
    OBVIOUS
  <2> QED
    BY <1>9, <2>1, <2>2, <2>3
<1>11. AmlHonoured'
  <2>1. \A w \in AmlWindows : SentSince(Intent[k].biz, now - w.len) + Intent[k].amount <= w.limit
    BY <1>2, <1>3 DEF Cleared, WithinLimits
  <2>2. \A b \in Biz, w \in AmlWindows : SentSince(b, now - w.len)' <= w.limit
    BY <1>9, <2>1 DEF LimitsKept, AmlHonoured
  <2> QED
    BY <2>2 DEF AmlHonoured
<1>12. CapHonoured'
  <2>1. UnderCap(j, k) => Unsupervised(Actor(k)) + Intent[k].amount + NipFee <= topCap[Actor(k)]
    BY <1>2, <1>3 DEF Cleared
  <2>2. job[j].fee \in Nat /\ job[j].fee <= NipFee /\ Intent[k].amount \in Nat /\ NipFee \in Nat
    BY <1>2, <1>3, NumbersAssumption, AmountNat DEF Cleared
  <2>3. ASSUME NEW s \in Staff PROVE Unsupervised(s)' <= topCap'[s]
    <3>1. topCap' = topCap /\ topCap[s] \in Nat /\ Unsupervised(s) <= topCap[s]
      BY <1>2 DEF LimitsKept, CapHonoured, TypeOK
    <3>2. CASE UnderCap(j, k) /\ Actor(k) = s
      <4>1. Unsupervised(s)' = Unsupervised(s) + (Intent[k].amount + job[j].fee)
        BY <1>9, <3>2
      <4>2. Unsupervised(s) + Intent[k].amount + NipFee <= topCap[s]
        BY <2>1, <3>2
      <4>3. \A u, a, f, n, c \in Nat : f <= n /\ u + a + n <= c => u + (a + f) <= c
        OBVIOUS
      <4> QED
        BY <1>10, <2>2, <3>1, <4>1, <4>2, <4>3
    <3>3. CASE ~(UnderCap(j, k) /\ Actor(k) = s)
      BY <1>9, <3>1, <3>3
    <3> QED
      BY <3>2, <3>3
  <2> QED
    BY <2>3 DEF CapHonoured
<1>13. ASSUME NEW x \in rows', x.ref \in swept' PROVE x.fee = FeeOf(KeyOf(x))
  <2>1. CASE x \in rows
    BY <1>2, <1>13, <2>1 DEF LimitsKept
  <2>2. CASE x = r
    BY <1>2, <1>3, <1>4, <1>13, <2>2 DEF Cleared
  <2> QED
    BY <1>2, <2>1, <2>2
<1>14. ASSUME NEW i \in Jobs \ {j}, NEW m \in Keys, job'[i].key = m
       PROVE  LocksHeld(i, m)' /\ Cleared(i, m)'
  <2>1. job'[i] = job[i] /\ job[i].key = m /\ LocksHeld(i, m) /\ Cleared(i, m)
    BY <1>7, <1>14 DEF LimitsKept
  <2>2. LocksHeld(i, m)'
    BY <1>2, <2>1, HeldStays
  <2>3. job[i].pc \in Inside /\ Intent[m].biz \in Biz /\ UnderCap(i, m) =>
          Intent[m].biz # Intent[k].biz /\ ~(UnderCap(j, k) /\ Actor(k) = Actor(m))
    BY <1>1, <1>2, <2>1, OneInside DEF Inside
  <2>4. job[i].pc \in Inside => Intent[m].biz # Intent[k].biz /\ RefOf(i) # RefOf(j)
    BY <1>1, <1>2, <2>1, OneInside DEF Inside
  <2>5. job[i].pc \in {"bank", "fee", "book"} /\ ~Booked(RefOf(i)) => ~Booked(RefOf(i))'
    <3>1. RefOf(i)' = RefOf(i)
      BY <2>1 DEF RefOf
    <3> QED
      BY <3>1, <1>2, <1>4, <2>4 DEF Booked, Inside
  <2>6. job[i].pc \in Windowed /\ WithinLimits(m) => WithinLimits(m)'
    <3> SUFFICES ASSUME job[i].pc \in Windowed, WithinLimits(m), NEW w \in AmlWindows
                 PROVE  SentSince(Intent[m].biz, now - w.len)' + Intent[m].amount <= w.limit
      BY <1>2 DEF WithinLimits
    <3>1. Intent[m].biz # Intent[k].biz /\ Intent[m].biz \in Biz
      BY <2>4, AmountNat DEF Inside, Windowed
    <3>2. SentSince(Intent[m].biz, now - w.len)' = SentSince(Intent[m].biz, now - w.len)
      BY <1>9, <3>1
    <3> QED
      BY <3>2 DEF WithinLimits
  <2>7. UnderCap(i, m) /\ job[i].pc \in Spending => Unsupervised(Actor(m))' <= Unsupervised(Actor(m))
    <3> SUFFICES ASSUME UnderCap(i, m), job[i].pc \in Spending
                 PROVE  Unsupervised(Actor(m))' <= Unsupervised(Actor(m))
      OBVIOUS
    <3>1. Actor(m) \in Staff /\ ~(UnderCap(j, k) /\ Actor(k) = Actor(m))
      BY <2>3, AmountNat DEF UnderCap, IsStaff, Spending, Inside
    <3>2. Unsupervised(Actor(m))' = Unsupervised(Actor(m))
      BY <1>9, <3>1
    <3> QED
      BY <3>1, <3>2, <1>10
  <2>8. \A s \in Staff : topCap[s] <= topCap'[s]
    BY <1>2 DEF TypeOK
  <2>9. Cleared(i, m)'
    BY <1>2, <1>10, <2>1, <2>5, <2>6, <2>7, <2>8, ClearedStays
  <2> QED
    BY <2>2, <2>9
<1>15. ASSUME NEW m \in Keys, job'[j].key = m
       PROVE  LocksHeld(j, m)' /\ Cleared(j, m)'
  <2>1. m = k
    BY <1>1, <1>6, <1>15
  <2>2. job[j].pc \in Inside /\ job'[j].pc \in Inside
    BY <1>2, <1>6 DEF Inside
  <2>3. LocksHeld(j, k)'
    BY <1>2, <1>3, <1>6, <2>2, HeldOn
  <2>4. Cleared(j, k)'
    BY <1>6 DEF Cleared
  <2> QED
    BY <2>1, <2>3, <2>4
<1>16. \A s \in Staff : cap'[s] <= topCap'[s]
  BY <1>2 DEF LimitsKept
<1>17. \A i \in Jobs, m \in Keys : job'[i].key = m => LocksHeld(i, m)' /\ Cleared(i, m)'
  BY <1>14, <1>15
<1> QED
  BY <1>8, <1>11, <1>12, <1>13, <1>16, <1>17 DEF LimitsKept, KeyOf

\* Refusals, errors, answers and crashes.
LEMMA KeptEnd ==
  ASSUME TypeOK, TypeOK', LimitsKept, NEW j \in Jobs,
         \/ DbError(j) \/ RefuseEarly(j) \/ BankRefuses(j) \/ BankUnknown(j)
         \/ Commit(j) \/ Catch(j) \/ Crash(j)
  PROVE  LimitsKept'
<1>1. UNCHANGED <<now, rows, cap, topCap>>
  BY DEF DbError, RefuseEarly, BankRefuses, BankUnknown, Commit, Catch, Crash, people, money
<1>2. \A r \in swept' : r \in swept \/ (job[j].pc = "fee" /\ r = RefOf(j))
  BY DEF DbError, RefuseEarly, BankRefuses, BankUnknown, Commit, Catch, Crash, money
<1>3. Update(j, Idle) \/ \E safe \in BOOLEAN : Throw(j, safe)
  <2>1. (~Intent[job[j].key].internal) \in BOOLEAN
    OBVIOUS
  <2> QED
    BY <2>1, Zenon DEF DbError, RefuseEarly, BankRefuses, BankUnknown, Commit, Catch, Crash
<1>4. lock' = Freed(j) \/ (UNCHANGED lock /\ Locked(j) = {})
  <2>1. CASE Catch(j)
    <3>1. UNCHANGED lock /\ job[j].pc = "catch"
      BY <2>1 DEF Catch
    <3> QED
      BY <3>1, JobAt DEF LimitsKept, LocksHeld
  <2>2. CASE ~Catch(j)
    BY <2>2, Zenon DEF DbError, RefuseEarly, BankRefuses, BankUnknown, Commit, Crash, Throw
  <2> QED
    BY <2>1, <2>2
<1> QED
  BY <1>1, <1>2, <1>3, <1>4, KeptDrop

\* Time only empties the windows.
LEMMA KeptTick ==
  ASSUME TypeOK, TypeOK', LimitsKept, Tick
  PROVE  LimitsKept'
<1>1. UNCHANGED <<rows, job, lock, swept, cap, topCap>> /\ now' = now + 1
  BY DEF Tick, people, money
<1>2. IsFiniteSet(rows)
  BY DEF LimitsKept
<1>3. /\ \A b \in Biz, w \in AmlWindows :
           /\ SentSince(b, now - w.len)' <= SentSince(b, now - w.len)
           /\ SentSince(b, now - w.len) \in Nat /\ SentSince(b, now - w.len)' \in Nat
      /\ \A s \in Staff : /\ Unsupervised(s)' <= Unsupervised(s)
                           /\ Unsupervised(s) \in Nat /\ Unsupervised(s)' \in Nat
  BY <1>1, <1>2, TickSums, SentNat, UnsupervisedNat
<1>4. ASSUME NEW i \in Jobs, NEW k \in Keys, job'[i].key = k
      PROVE  LocksHeld(i, k)' /\ Cleared(i, k)'
  <2>1. job'[i] = job[i] /\ job[i].key = k /\ LocksHeld(i, k) /\ Cleared(i, k)
    BY <1>1, <1>4 DEF LimitsKept
  <2>2. LocksHeld(i, k)'
    BY <1>1, <2>1, HeldStays
  <2>3. Booked(RefOf(i))' <=> Booked(RefOf(i))
    BY <1>1 DEF Booked, RefOf
  <2>4. WithinLimits(k) => WithinLimits(k)'
    <3> SUFFICES ASSUME WithinLimits(k), NEW w \in AmlWindows
                 PROVE  SentSince(Intent[k].biz, now - w.len)' + Intent[k].amount <= w.limit
      BY DEF WithinLimits
    <3>1. Intent[k].biz \in Biz /\ Intent[k].amount \in Nat /\ w.limit \in Nat
      BY AmountNat, WindowsAssumption
    <3>2. SentSince(Intent[k].biz, now - w.len) + Intent[k].amount <= w.limit
      BY DEF WithinLimits
    <3>3. /\ SentSince(Intent[k].biz, now - w.len)' <= SentSince(Intent[k].biz, now - w.len)
          /\ SentSince(Intent[k].biz, now - w.len) \in Nat
          /\ SentSince(Intent[k].biz, now - w.len)' \in Nat
      BY <1>3, <3>1
    <3> QED
      BY <3>1, <3>2, <3>3
  <2>5. UnderCap(i, k) => Unsupervised(Actor(k))' <= Unsupervised(Actor(k))
    BY <1>3 DEF UnderCap, IsStaff
  <2>6. \A s \in Staff : topCap[s] <= topCap'[s]
    BY <1>1 DEF TypeOK
  <2>7. Cleared(i, k)'
    BY <1>3, <2>1, <1>1, <2>3, <2>4, <2>5, <2>6, ClearedStays
  <2> QED
    BY <2>2, <2>7
<1>5. CapHonoured'
  <2>1. \A s \in Staff : Unsupervised(s) <= topCap[s] /\ topCap[s] \in Nat /\ topCap'[s] = topCap[s]
    BY <1>1 DEF LimitsKept, CapHonoured, TypeOK
  <2>2. \A s \in Staff : Unsupervised(s)' <= topCap'[s]
    BY <1>3, <2>1
  <2> QED
    BY <2>2 DEF CapHonoured
<1>6. AmlHonoured'
  <2>1. \A b \in Biz, w \in AmlWindows : SentSince(b, now - w.len) <= w.limit /\ w.limit \in Nat
    BY WindowsAssumption DEF LimitsKept, AmlHonoured
  <2>2. \A b \in Biz, w \in AmlWindows : SentSince(b, now - w.len)' <= w.limit
    BY <1>3, <2>1
  <2> QED
    BY <2>2 DEF AmlHonoured
<1>7. \A r \in rows' : r.ref \in swept' => r.fee = FeeOf(KeyOf(r))
  BY <1>1 DEF LimitsKept
<1>8. IsFiniteSet(rows') /\ \A s \in Staff : cap'[s] <= topCap'[s]
  BY <1>1 DEF LimitsKept
<1> QED
  BY <1>4, <1>5, <1>6, <1>7, <1>8 DEF LimitsKept, KeyOf

\* A new cap never lowers the highest one.
LEMMA KeptGrant ==
  ASSUME TypeOK, TypeOK', LimitsKept, NEW s \in Staff, NEW c \in Caps, Grant(s, c)
  PROVE  LimitsKept'
<1>1. /\ UNCHANGED <<now, rows, job, lock, swept>> /\ cap' = [cap EXCEPT ![s] = c]
      /\ topCap' = [topCap EXCEPT ![s] = IF c > @ THEN c ELSE @]
  BY DEF Grant, money
<1>2. /\ \A t \in Staff : topCap[t] \in Nat /\ topCap'[t] \in Nat /\ topCap[t] <= topCap'[t]
      /\ \A t \in Staff : cap'[t] <= topCap'[t]
  BY <1>1, CapsAssumption DEF TypeOK, LimitsKept
<1>3. \A t \in Staff : Unsupervised(t) \in Nat /\ Unsupervised(t)' = Unsupervised(t)
  BY <1>1, SameSums, UnsupervisedNat DEF LimitsKept
<1>4. ASSUME NEW i \in Jobs, NEW k \in Keys, job'[i].key = k
      PROVE  LocksHeld(i, k)' /\ Cleared(i, k)'
  <2>1. job'[i] = job[i] /\ job[i].key = k /\ LocksHeld(i, k) /\ Cleared(i, k)
    BY <1>1, <1>4 DEF LimitsKept
  <2>2. LocksHeld(i, k)'
    BY <1>1, <2>1, HeldStays
  <2>3. RefOf(i)' = RefOf(i)
    BY <2>1 DEF RefOf
  <2>4. (Booked(RefOf(i))' <=> Booked(RefOf(i))) /\ (WithinLimits(k)' <=> WithinLimits(k))
    BY <1>1, <2>3, SameSums
  <2>5. UnderCap(i, k) => Unsupervised(Actor(k))' <= Unsupervised(Actor(k))
    BY <1>3 DEF UnderCap, IsStaff
  <2>6. Cleared(i, k)'
    BY <1>1, <1>2, <1>3, <2>1, <2>4, <2>5, ClearedStays
  <2> QED
    BY <2>2, <2>6
<1>5. CapHonoured'
  <2>1. \A t \in Staff : Unsupervised(t) <= topCap[t]
    BY DEF LimitsKept, CapHonoured
  <2>2. \A t \in Staff : Unsupervised(t)' <= topCap'[t]
    BY <1>2, <1>3, <2>1
  <2> QED
    BY <2>2 DEF CapHonoured
<1>6. AmlHonoured'
  BY <1>1, SameSums DEF LimitsKept
<1>7. \A r \in rows' : r.ref \in swept' => r.fee = FeeOf(KeyOf(r))
  BY <1>1 DEF LimitsKept
<1>8. IsFiniteSet(rows')
  BY <1>1 DEF LimitsKept
<1> QED
  BY <1>2, <1>4, <1>5, <1>6, <1>7, <1>8 DEF LimitsKept, KeyOf

-----------------------------------------------------------------------------
(* Caps, limits and fees *)

\* Nothing has been sent and nobody holds anything at the start.
LEMMA LimitsInit == Init => LimitsInv
<1> SUFFICES ASSUME Init PROVE LimitsKept
  BY DEF LimitsInv
<1>1. rows = {} /\ swept = {} /\ \A j \in Jobs : job[j] = Idle
  BY DEF Init
<1>2. \A j \in Jobs : job[j].pc = "idle" /\ job[j].fee = 0 /\ Locked(j) = {}
  <2>1. \A j \in Jobs : Locked(j) = {}
    BY NoJobAssumption DEF Init, Locked
  <2> QED
    BY <1>1, <2>1, IdleType DEF Idle
<1>3. \A j \in Jobs, k \in Keys : LocksHeld(j, k) /\ Cleared(j, k)
  BY <1>2 DEF LocksHeld, Cleared
<1>4. IsFiniteSet(rows) /\ \A s \in Staff : cap[s] = 0 /\ topCap[s] = 0
  BY <1>1, FS_EmptySet DEF Init
<1>5. CapHonoured
  <2>1. ASSUME NEW s \in Staff PROVE Unsupervised(s) = 0
    <3> DEFINE f == [r \in {r \in rows : r.ref[1] = "kbtf" /\ Actor(KeyOf(r)) = s /\ r.date >= now - Day} |->
                      Intent[KeyOf(r)].amount + r.fee]
    <3>1. DOMAIN f = {}
      BY <1>1
    <3>2. Unsupervised(s) = SumFunction(f)
      BY DEF Unsupervised
    <3> HIDE DEF f
    <3> QED
      BY <3>1, <3>2, SumEmpty
  <2> QED
    BY <1>4, <2>1 DEF CapHonoured
<1>6. AmlHonoured
  <2>1. ASSUME NEW b \in Biz, NEW w \in AmlWindows PROVE SentSince(b, now - w.len) = 0
    <3> DEFINE f == [r \in {r \in rows : Intent[KeyOf(r)].biz = b /\ r.date >= now - w.len} |->
                      Intent[KeyOf(r)].amount]
    <3>1. DOMAIN f = {}
      BY <1>1
    <3>2. SentSince(b, now - w.len) = SumFunction(f)
      BY DEF SentSince
    <3> HIDE DEF f
    <3> QED
      BY <3>1, <3>2, SumEmpty
  <2>2. \A w \in AmlWindows : w.limit \in Nat
    BY WindowsAssumption
  <2> QED
    BY <2>1, <2>2 DEF AmlHonoured
<1> QED
  BY <1>1, <1>3, <1>4, <1>5, <1>6 DEF LimitsKept

\* One step of the system, while no lock has been dropped.
LEMMA KeptNext ==
  ASSUME TypeOK, TypeOK', BankedInv, LimitsKept, [Next]_vars, drops' = 0
  PROVE  LimitsKept'
<1>1. ASSUME NEW j \in Jobs, NEW k \in Keys, Post(j, k) \/ Approve(j, k) PROVE LimitsKept'
  BY <1>1, KeptPost
<1>2. ASSUME NEW j \in Jobs, AcquireLock(j) PROVE LimitsKept'
  BY <1>2, KeptAcquire
<1>3. ASSUME NEW j \in Jobs,
             \/ DbError(j) \/ RefuseEarly(j) \/ BankRefuses(j) \/ BankUnknown(j)
             \/ Commit(j) \/ Catch(j) \/ Crash(j)
      PROVE  LimitsKept'
  BY <1>3, KeptEnd
<1>4. ASSUME NEW j \in Jobs, LockLost(j) PROVE FALSE
  BY <1>4 DEF LockLost, TypeOK
<1>5. ASSUME NEW j \in Jobs,
             Claim(j) \/ AmlBlock(j) \/ IdempotentSkip(j) \/ BookFails(j) \/ MarkExecuted(j)
      PROVE  LimitsKept'
  BY <1>5, KeptAside
<1>6. ASSUME NEW j \in Jobs, AmlPass(j) PROVE LimitsKept'
  BY <1>6, KeptAmlPass
<1>7. ASSUME NEW j \in Jobs, CapPass(j) PROVE LimitsKept'
  BY <1>7, KeptCapPass
<1>8. ASSUME NEW j \in Jobs, Hold(j) PROVE LimitsKept'
  BY <1>8, KeptHold
<1>9. ASSUME NEW j \in Jobs, StartPayout(j) \/ BankAccepts(j) PROVE LimitsKept'
  BY <1>9, KeptPayout
<1>10. ASSUME NEW j \in Jobs, SweepFee(j) PROVE LimitsKept'
  BY <1>10, KeptSweepFee
<1>11. ASSUME NEW j \in Jobs, BookRow(j) PROVE LimitsKept'
  BY <1>11, KeptBookRow
<1>12. ASSUME \/ \E r \in Refs : WireArrives(r) \/ WireLost(r)
              \/ \E k \in Keys : Withdraw(k, "rejected") \/ Withdraw(k, "cancelled")
              \/ ExpireStale \/ SweepStuck
              \/ \E s \in Staff : RemoveStaff(s) \/ DeleteStaff(s)
              \/ UNCHANGED vars
       PROVE  LimitsKept'
  <2>1. UNCHANGED <<now, rows, job, lock, swept, cap, topCap>>
    BY <1>12 DEF WireArrives, WireLost, Withdraw, ExpireStale, SweepStuck, RemoveStaff, DeleteStaff,
                 vars, people, money
  <2> QED
    BY <2>1, KeptStill
<1>13. ASSUME NEW s \in Staff, NEW c \in Caps, Grant(s, c) PROVE LimitsKept'
  BY <1>13, KeptGrant
<1>14. ASSUME Tick PROVE LimitsKept'
  BY <1>14, KeptTick
<1> QED
  BY <1>1, <1>2, <1>3, <1>4, <1>5, <1>6, <1>7, <1>8, <1>9, <1>10, <1>11, <1>12, <1>13, <1>14 DEF Next

\* Lock connections that dropped stay dropped.
LEMMA DropsGrow == TypeOK /\ [Next]_vars /\ drops' = 0 => drops = 0
<1> SUFFICES ASSUME TypeOK, [Next]_vars PROVE drops' = drops \/ drops' = drops + 1
  BY DEF TypeOK
<1> USE DEF bounds
<1>1. \A j \in Jobs, k \in Keys : Post(j, k) \/ Approve(j, k) => drops' = drops
  BY DEF Post, Approve
<1>2. \A j \in Jobs :
        /\ LockLost(j) => drops' = drops + 1
        /\ AcquireLock(j) \/ DbError(j) \/ Claim(j) \/ AmlPass(j) \/ AmlBlock(j) \/ CapPass(j) \/ Hold(j)
           => drops' = drops
        /\ IdempotentSkip(j) \/ RefuseEarly(j) \/ StartPayout(j) \/ BankAccepts(j) \/ BankRefuses(j)
           \/ BankUnknown(j) => drops' = drops
        /\ SweepFee(j) \/ BookRow(j) \/ BookFails(j) \/ MarkExecuted(j) \/ Commit(j) \/ Catch(j)
           \/ Crash(j) => drops' = drops
  BY Zenon DEF LockLost, AcquireLock, DbError, Claim, AmlPass, AmlBlock, CapPass, Hold, IdempotentSkip, RefuseEarly,
               StartPayout, BankAccepts, BankRefuses, BankUnknown, SweepFee, BookRow, BookFails,
               MarkExecuted, Commit, Catch, Crash
<1>3. /\ \A r \in Refs : WireArrives(r) \/ WireLost(r) => drops' = drops
      /\ \A k \in Keys, s \in {"rejected", "cancelled"} : Withdraw(k, s) => drops' = drops
      /\ ExpireStale \/ SweepStuck \/ Tick => drops' = drops
      /\ \A s \in Staff : RemoveStaff(s) \/ DeleteStaff(s) => drops' = drops
      /\ \A s \in Staff, c \in Caps : Grant(s, c) => drops' = drops
  BY Zenon DEF WireArrives, WireLost, Withdraw, ExpireStale, SweepStuck, Tick, RemoveStaff, DeleteStaff, Grant
<1>4. UNCHANGED vars => drops' = drops
  BY DEF vars
<1> QED
  BY <1>1, <1>2, <1>3, <1>4 DEF Next

\* The limits are kept in every state until a lock connection drops.
LEMMA LimitsAlways == Spec => [](TypeOK /\ BankedInv /\ LimitsInv)
<1>1. Init => TypeOK /\ BankedInv /\ LimitsInv
  BY TypeInit, BankedInit, LimitsInit
<1>2. TypeOK /\ BankedInv /\ LimitsInv /\ [Next]_vars => (TypeOK /\ BankedInv /\ LimitsInv)'
  <2> SUFFICES ASSUME TypeOK, BankedInv, LimitsInv, [Next]_vars
               PROVE  TypeOK' /\ BankedInv' /\ LimitsInv'
    OBVIOUS
  <2>1. TypeOK' /\ BankedInv'
    BY TypeNext, BankedNext
  <2>2. LimitsInv'
    BY <2>1, KeptNext, DropsGrow DEF LimitsInv
  <2> QED
    BY <2>1, <2>2
<1> QED
  BY <1>1, <1>2, PTL DEF Spec

\* Whatever sends, holds, approvals and crashes cross, a staff member's direct
\* sends of a day stay within the highest cap the owner named, as long as no lock
\* connection has dropped (staffSpendLast24h under the actor's lock).
THEOREM CapKept == Spec => [](drops = 0 => CapHonoured)
<1>1. TypeOK /\ BankedInv /\ LimitsInv => (drops = 0 => CapHonoured)
  BY DEF LimitsInv, LimitsKept
<1> QED
  BY <1>1, LimitsAlways, PTL

\* Under the same condition a business sends no more in any window than its
\* velocity limit (runPreTransferChecks under the business lock).
THEOREM LimitsHold == Spec => [](drops = 0 => AmlHonoured)
<1>1. TypeOK /\ BankedInv /\ LimitsInv => (drops = 0 => AmlHonoured)
  BY DEF LimitsInv, LimitsKept
<1> QED
  BY <1>1, LimitsAlways, PTL

\* Rows stand for money that left and book a fee that was taken in full: a retry
\* of a swept fee never books less (executeTransfer's fee sweep).
THEOREM FeesBooked == Spec => [](drops = 0 => BooksCoverBank)
<1>1. TypeOK /\ BankedInv /\ LimitsInv => (drops = 0 => BooksCoverBank)
  BY DEF LimitsInv, LimitsKept, BooksCoverBank, BankedInv
<1> QED
  BY <1>1, LimitsAlways, PTL

=============================================================================

------------------------ MODULE InboundCreditsProofs ------------------------
(***************************************************************************)
(* For any number of transfers and events, of any amounts and times, with  *)
(* any ids and any restarts: the rows keep their type and their unique     *)
(* references, and an entry of the bank's list is never two rows'. Where the*)
(* bank's ids carry their time, no credit counts twice either, unless its  *)
(* webhook is handled after the poller has booked it.                      *)
(***************************************************************************)
EXTENDS InboundCredits, FiniteSetTheorems, TLAPS

\* Two rows never carry the same list id.
Unique == \A r, s \in rows : \A c \in Credits :
            r.txn = Txn(c) /\ s.txn = Txn(c) => r = s

\* The credit in the poller's hand is one no row carries yet: only the poller
\* writes list ids, so this lasts from its look to its claim or its insert.
InHand == poll.step \in {"claim", "create"} =>
            /\ poll.at \in Credits
            /\ \A r \in rows : r.txn # Txn(poll.at)

IInv == TypeOK /\ Unique /\ InHand

USE DEF Pay, Bk, Txn, NoId, HookKey, PollKey, PollId, Booked

\* The references and ids of the rows are among the bank's.
LEMMA KeysAreIds ==
  \A c \in Credits : /\ HookKey(c) \in Ids /\ PollKey(c) \in Ids /\ PollId(c) \in Ids
                     /\ Txn(c) \in Ids /\ Pay(c) \in Ids
BY DEF Ids

\* A webhook's own id is never one of the list's.
LEMMA HookIsNotList == \A c, d \in Credits : HookKey(c) # Txn(d)
OBVIOUS

\* Only an unnamed credit's row takes the list's id, and it takes its own.
LEMMA PollIdIsOwn == \A c, d \in Credits : PollId(c) = Txn(d) => c = d
OBVIOUS

\* The poller's next state is one of its states.
LEMMA NextPollType ==
  ASSUME NEW p \in [todo : SUBSET Credits, at : Credits \cup {None},
                    step : {"idle", "look", "claim", "create"}]
  PROVE  /\ NextPoll(p) \in [todo : SUBSET Credits, at : Credits \cup {None},
                    step : {"idle", "look", "claim", "create"}]
         /\ NextPoll(p).step \in {"idle", "look"}
BY DEF NextPoll

\* Initially there is no row and the poller is idle.
LEMMA InitInv == Init => IInv
BY ConstantsAssumption DEF Init, IInv, TypeOK, Unique, InHand, Idle, Phases, Due

\* Time and arrivals touch no row.
LEMMA LandInv == ASSUME IInv, NEW c \in Credits, Land(c) PROVE IInv'
<1>1. TypeOK'
  BY ConstantsAssumption DEF IInv, TypeOK, Land, Phases, Due, Row
<1>2. Unique' /\ InHand'
  BY DEF IInv, Unique, InHand, Land
<1> QED  BY <1>1, <1>2 DEF IInv

\* Time touches neither the rows nor the poller.
LEMMA AgeInv == ASSUME IInv, Age PROVE IInv'
<1>1. late' \subseteq Due'
  BY ConstantsAssumption DEF IInv, TypeOK, Age, Due
<1>2. TypeOK'
  BY <1>1 DEF IInv, TypeOK, Age
<1>3. Unique' /\ InHand'
  BY DEF IInv, Unique, InHand, Age
<1> QED  BY <1>2, <1>3 DEF IInv

\* A restart empties the poller's hand.
LEMMA CrashInv == ASSUME IInv, Crash PROVE IInv'
<1>1. hook' \in [Events -> Phases]
  BY DEF IInv, TypeOK, Crash, Phases
<1>2. TypeOK'
  BY <1>1, ConstantsAssumption DEF IInv, TypeOK, Crash, Idle, Due
<1>3. Unique' /\ InHand'
  BY DEF IInv, Unique, InHand, Crash, Idle
<1> QED  BY <1>2, <1>3 DEF IInv

\* A delivery touches neither the rows nor the poller.
LEMMA DeliverInv == ASSUME IInv, NEW e \in Events, Deliver(e) PROVE IInv'
<1>1. hook' \in [Events -> Phases]
  BY DEF IInv, TypeOK, Deliver, Phases
<1>2. TypeOK'
  BY <1>1 DEF IInv, TypeOK, Deliver, Due
<1>3. Unique' /\ InHand'
  BY DEF IInv, Unique, InHand, Deliver
<1> QED  BY <1>2, <1>3 DEF IInv

\* A row that is given another reference keeps the id the list knows it by.
LEMMA RepairInv == ASSUME IInv, NEW e \in Events, Repair(e) PROVE IInv'
<1> DEFINE c == About[e]
<1>1. c \in Credits
  BY ConstantsAssumption
<1>2. hook' \in [Events -> Phases] /\ UNCHANGED <<landed, aged, poll, late, crashes>>
  BY DEF IInv, TypeOK, Repair, Phases
<1>3. CASE rows' = rows
  BY <1>2, <1>3 DEF IInv, TypeOK, Unique, InHand, Due
<1>4. CASE \E r \in Unattributed(c) :
             /\ ~Booked(Pay(c))
             /\ rows' = (rows \ {r}) \cup
                  {[r EXCEPT !.ref = Pay(c), !.anon = FALSE,
                             !.quotes = IF c \in Quoted THEN c ELSE None]}
  <2>1. PICK r \in rows :
             /\ ~Booked(Pay(c))
             /\ rows' = (rows \ {r}) \cup
                  {[r EXCEPT !.ref = Pay(c), !.anon = FALSE,
                             !.quotes = IF c \in Quoted THEN c ELSE None]}
    BY <1>4 DEF Unattributed
  <2> DEFINE n == [r EXCEPT !.ref = Pay(c), !.anon = FALSE,
                            !.quotes = IF c \in Quoted THEN c ELSE None]
  <2>2. r \in Row /\ rows \subseteq Row
    BY DEF IInv, TypeOK
  <2>3. n \in Row /\ n.ref = Pay(c) /\ n.txn = r.txn
    BY <1>1, <2>2, KeysAreIds DEF Row
  <2> HIDE DEF n
  <2>4. rows' = (rows \ {r}) \cup {n}
    BY <2>1 DEF n
  <2>5. \A s \in rows : s.ref # n.ref
    BY <2>1, <2>3
  <2>6. \A s, t \in rows' : s.ref = t.ref => s = t
    BY <2>4, <2>5 DEF IInv, TypeOK
  <2>7. TypeOK'
    BY <1>2, <2>2, <2>3, <2>4, <2>6 DEF IInv, TypeOK, Due
  <2>8. Unique'
    BY <2>3, <2>4 DEF IInv, Unique
  <2>9. InHand'
    BY <1>2, <2>3, <2>4 DEF IInv, InHand
  <2> QED  BY <2>7, <2>8, <2>9 DEF IInv
<1>5. QED  BY <1>3, <1>4 DEF Repair

\* The webhook's own row carries the payment's id, not one of the list's.
LEMMA CreateInv == ASSUME IInv, NEW e \in Events, Create(e) PROVE IInv'
<1> DEFINE c == About[e]
<1> DEFINE n == [ref |-> HookKey(c), txn |-> HookKey(c), amount |-> Amount[c],
                 date |-> PaidAt[c], anon |-> FALSE,
                 quotes |-> IF c \in Quoted THEN c ELSE None]
<1>1. c \in Credits
  BY ConstantsAssumption
<1>2. hook' \in [Events -> Phases] /\ UNCHANGED <<landed, aged, poll, crashes>>
  BY DEF IInv, TypeOK, Create, Phases
<1>3. CASE UNCHANGED <<rows, late>>
  BY <1>2, <1>3 DEF IInv, TypeOK, Unique, InHand, Due
<1>4. CASE /\ ~Booked(HookKey(c)) /\ rows' = rows \cup {n}
           /\ late' = IF c \in Due THEN late \cup {c} ELSE late
  <2>1. n \in Row /\ n.ref = HookKey(c) /\ n.txn = HookKey(c)
    BY <1>1, KeysAreIds, ConstantsAssumption DEF Row
  <2> HIDE DEF n
  <2>2. late' \subseteq Due'
    BY <1>2, <1>4 DEF IInv, TypeOK, Due
  <2>3. \A s, t \in rows' : s.ref = t.ref => s = t
    BY <1>4, <2>1 DEF IInv, TypeOK
  <2>4. TypeOK'
    BY <1>2, <1>4, <2>1, <2>2, <2>3 DEF IInv, TypeOK
  <2>5. Unique' /\ InHand'
    BY <1>1, <1>2, <1>4, <2>1, HookIsNotList DEF IInv, Unique, InHand
  <2> QED  BY <2>4, <2>5 DEF IInv
<1>5. QED  BY <1>3, <1>4 DEF Create

\* Reading the list puts no credit in the poller's hand.
LEMMA ReadInv == ASSUME IInv, Read PROVE IInv'
<1>1. Newest \subseteq Credits
  BY DEF Newest, Landed
<1>2. /\ poll' \in [todo : SUBSET Credits, at : Credits \cup {None},
                    step : {"idle", "look", "claim", "create"}]
      /\ poll'.step \in {"idle", "look"}
  BY <1>1, NextPollType DEF Read, Idle
<1> QED  BY <1>2 DEF Read, IInv, TypeOK, Unique, InHand, Due

\* What the look finds no row for, no row carries.
LEMMA LookInv == ASSUME IInv, NEW c \in Credits, Look(c) PROVE IInv'
<1> DEFINE p == [poll EXCEPT !.todo = @ \ {c}, !.at = c]
<1>1. p \in [todo : SUBSET Credits, at : Credits \cup {None},
             step : {"idle", "look", "claim", "create"}]
  BY DEF IInv, TypeOK
<1>2. CASE Existing(c) # {}
  <2>1. poll' = NextPoll(p)
    BY <1>2 DEF Look
  <2> QED  BY <1>1, <2>1, NextPollType DEF Look, IInv, TypeOK, Unique, InHand, Due
<1>3. CASE Existing(c) = {}
  <2>1. poll' = [p EXCEPT !.step = IF c \in Linked THEN "create" ELSE "claim"]
    BY <1>3 DEF Look
  <2>2. poll' \in [todo : SUBSET Credits, at : Credits \cup {None},
                   step : {"idle", "look", "claim", "create"}]
        /\ poll'.at = c
    BY <1>1, <2>1
  <2>3. \A r \in rows : r.txn # Txn(c)
    BY <1>3 DEF Existing
  <2> QED  BY <2>2, <2>3 DEF Look, IInv, TypeOK, Unique, InHand, Due
<1> QED  BY <1>2, <1>3

\* The row claimed is the first to carry the credit's id.
LEMMA ClaimInv == ASSUME IInv, Claim PROVE IInv'
<1> DEFINE c == poll.at
<1>1. c \in Credits /\ \A r \in rows : r.txn # Txn(c)
  BY DEF Claim, IInv, InHand
<1>2. CASE rows' = rows /\ poll' = [poll EXCEPT !.step = "create"]
  BY <1>1, <1>2 DEF Claim, IInv, TypeOK, Unique, InHand, Due
<1>3. CASE \E r \in Free(c) : /\ rows' = (rows \ {r}) \cup {[r EXCEPT !.txn = Txn(c)]}
                              /\ poll' = NextPoll(poll)
  <2>1. PICK r \in rows : /\ rows' = (rows \ {r}) \cup {[r EXCEPT !.txn = Txn(c)]}
                          /\ poll' = NextPoll(poll)
    BY <1>3 DEF Free
  <2> DEFINE n == [r EXCEPT !.txn = Txn(c)]
  <2>2. rows \subseteq Row /\ r \in Row
    BY DEF IInv, TypeOK
  <2>3. n \in Row /\ n.ref = r.ref /\ n.txn = Txn(c)
    BY <1>1, <2>2, KeysAreIds DEF Row
  <2> HIDE DEF n
  <2>4. rows' = (rows \ {r}) \cup {n}
    BY <2>1 DEF n
  <2>5. \A s, t \in rows' : s.ref = t.ref => s = t
    BY <2>3, <2>4 DEF IInv, TypeOK
  <2>6. TypeOK'
    BY <2>1, <2>2, <2>3, <2>4, <2>5, NextPollType DEF Claim, IInv, TypeOK, Due
  <2>7. Unique'
    <3> SUFFICES ASSUME NEW s \in rows', NEW t \in rows', NEW d \in Credits,
                        s.txn = Txn(d), t.txn = Txn(d)
                 PROVE  s = t
      BY DEF Unique
    <3>1. n.txn = Txn(d) => c = d
      BY <2>3
    <3> QED  BY <1>1, <2>4, <3>1 DEF IInv, Unique
  <2>8. InHand'
    BY <2>1, NextPollType DEF IInv, TypeOK, InHand
  <2> QED  BY <2>6, <2>7, <2>8 DEF IInv
<1>4. QED  BY <1>2, <1>3 DEF Claim

\* The row booked is the first to carry the credit's id.
LEMMA RecordInv == ASSUME IInv, Record PROVE IInv'
<1> DEFINE c == poll.at
<1> DEFINE n == [ref |-> PollKey(c), txn |-> PollId(c), amount |-> Amount[c],
                 date |-> ListAt[c], anon |-> c \in Anonymous \ Linked,
                 quotes |-> c]
<1>1. c \in Credits /\ \A r \in rows : r.txn # Txn(c)
  BY DEF Record, IInv, InHand
<1>2. /\ poll' = NextPoll(poll) /\ UNCHANGED <<landed, aged, hook, late, crashes>>
      /\ poll' \in [todo : SUBSET Credits, at : Credits \cup {None},
                    step : {"idle", "look", "claim", "create"}]
      /\ poll'.step \in {"idle", "look"}
  BY NextPollType DEF Record, IInv, TypeOK
<1>3. CASE rows' = rows
  BY <1>2, <1>3 DEF IInv, TypeOK, Unique, InHand, Due
<1>4. CASE ~Booked(PollKey(c)) /\ rows' = rows \cup {n}
  <2>1. n \in Row /\ n.ref = PollKey(c) /\ n.txn = PollId(c)
    BY <1>1, KeysAreIds, ConstantsAssumption DEF Row
  <2> HIDE DEF n
  <2>2. \A s, t \in rows' : s.ref = t.ref => s = t
    BY <1>4, <2>1 DEF IInv, TypeOK
  <2>3. TypeOK'
    BY <1>2, <1>4, <2>1, <2>2 DEF IInv, TypeOK, Due
  <2>4. Unique'
    <3> SUFFICES ASSUME NEW s \in rows', NEW t \in rows', NEW d \in Credits,
                        s.txn = Txn(d), t.txn = Txn(d)
                 PROVE  s = t
      BY DEF Unique
    <3>1. n.txn = Txn(d) => c = d
      BY <1>1, <2>1, PollIdIsOwn
    <3> QED  BY <1>1, <1>4, <3>1 DEF IInv, Unique
  <2>5. InHand'
    BY <1>2 DEF InHand
  <2> QED  BY <2>3, <2>4, <2>5 DEF IInv
<1>5. QED  BY <1>2, <1>3, <1>4 DEF Record

\* Nor does a step that changes nothing.
LEMMA StutterInv == ASSUME IInv, UNCHANGED vars PROVE IInv'
BY DEF IInv, TypeOK, Unique, InHand, Due, vars

\* The invariant is inductive.
LEMMA NextInv == IInv /\ [Next]_vars => IInv'
<1> SUFFICES ASSUME IInv, [Next]_vars PROVE IInv'
  OBVIOUS
<1>1. CASE \E c \in Credits : Land(c)
  BY <1>1, LandInv
<1>2. CASE Age
  BY <1>2, AgeInv
<1>3. CASE \E e \in Events : Deliver(e) \/ Repair(e) \/ Create(e)
  BY <1>3, DeliverInv, RepairInv, CreateInv
<1>4. CASE Polling
  BY <1>4, ReadInv, LookInv, ClaimInv, RecordInv DEF Polling
<1>5. CASE Crash
  BY <1>5, CrashInv
<1>6. CASE UNCHANGED vars
  BY <1>6, StutterInv
<1> QED  BY <1>1, <1>2, <1>3, <1>4, <1>5, <1>6 DEF Next

\* Two unequal rows are what a set with two rows holds.
LEMMA UniqueCounts == Unique => OneRowPerEntry
<1> SUFFICES ASSUME Unique, NEW c \in Credits
             PROVE  Cardinality({r \in rows : r.txn = Txn(c)}) <= 1
  BY DEF OneRowPerEntry
<1> DEFINE S == {r \in rows : r.txn = Txn(c)}
<1>1. S = {} \/ \E r \in S : S = {r}
  BY DEF Unique
<1> HIDE DEF S
<1>2. Cardinality(S) \in {0, 1}
  BY <1>1, FS_EmptySet, FS_Singleton
<1>3. Cardinality(S) <= 1
  BY <1>2
<1> QED  BY <1>3 DEF S

\* The invariant holds in every reachable state.
LEMMA Inductive == Spec => []IInv
BY InitInv, NextInv, PTL DEF Spec

\* The state keeps its type: no two rows ever share a reference (the unique key
\* of transactions), and only a credit that was due is counted late.
THEOREM TypeCorrect == Spec => []TypeOK
<1>1. IInv => TypeOK
  BY DEF IInv
<1> QED  BY <1>1, Inductive, PTL

\* The poller never gives two rows to one credit of the list, whatever the
\* webhook books or re-keys between its look and its insert.
THEOREM OneRowEach == Spec => []OneRowPerEntry
<1>1. IInv => OneRowPerEntry
  BY UniqueCounts DEF IInv
<1> QED  BY <1>1, Inductive, PTL

-----------------------------------------------------------------------------
(* No credit counts twice while the webhook is prompt *)

HIDE DEF Pay, Bk, Txn, NoId, HookKey, PollKey, PollId

\* A credit's two ids are made in one minute and carry it ("every live pair is under
\* one second apart", anchorReconcile.js:93),
\* the list names KashBook's own transfers, and the times of what is made in one
\* minute are less than the two days apart that the poller looks.
SameMoment ==
  /\ \A c \in Credits : IF Kind[c] = "nip" THEN c \in Timed ELSE c \in Linked
  /\ \A c, d \in Credits :
       MadeAt[c] = MadeAt[d] => Gap(ListAt[c], PaidAt[d]) <= 2880 /\ Gap(ListAt[c], ListAt[d]) <= 2880

\* The poller works on credits that are due, and claims for unnamed entries.
PollOK ==
  /\ poll.todo \subseteq Due
  /\ poll.step \in {"claim", "create"} => poll.at \in Due
  /\ poll.step = "claim" => poll.at \notin Linked

\* Events are about credits that have landed.
EventsLanded == \A e \in Events : hook[e] # "unsent" => About[e] \in Landed

\* A late event booked its credit's row.
LateOK == \A c \in late : \E r \in rows : r.ref = HookKey(c) /\ r.amount = Amount[c]

\* A row is held by an entry of the list when it carries its id or its reference.
Held(r, d) == r.txn = Txn(d) \/ r.ref = Txn(d)

\* A row is an unnamed entry's, or a named book transfer's that the poller booked,
\* or nobody's yet: then it carries the webhook's key and nothing else.
OfEntry(r, d) == /\ d \in Due \ Linked /\ r.amount = Amount[d] /\ r.txn = Txn(d)
                 /\ \A e \in Credits : r.ref = Txn(e) => e = d
OfTransfer(r, d) == /\ d \in Due \cap Linked /\ r.amount = Amount[d] /\ Kind[d] # "nip"
                    /\ r.ref = Txn(d) /\ r.txn = HookKey(d) /\ ~r.anon
OfHook(r, x) == /\ x \in Landed /\ r.amount = Amount[x] /\ r.ref = HookKey(x) /\ r.txn = HookKey(x)
                /\ r.date \in {PaidAt[x], ListAt[x]} /\ ~r.anon
RowsKnown == \A r \in rows : \E c \in Credits : OfEntry(r, c) \/ OfTransfer(r, c) \/ OfHook(r, c)

Tardy(r) == \E c \in late : r.ref = HookKey(c)
Prompt == {r \in rows : ~Tardy(r)}

\* The credit y answers for the row of x: of the same minute, and with a row of the
\* webhook's (or under its key) that did not come late.
Answers(y, x) ==
  /\ y \notin late /\ Booked(HookKey(y))
  /\ MadeAt[y] = MadeAt[x] /\ Kind[y] = Kind[x] /\ (Kind[x] # "nip" => y = x)

\* Each row that did not come late is charged to a credit of its own: the entry that
\* holds it, or one that answers for it; nothing is charged to a credit about to be
\* booked by the poller.
Charged(f) ==
  /\ f \in [Prompt -> Landed]
  /\ \A r, s \in Prompt : f[r] = f[s] => r = s
  /\ \A r \in Prompt :
       /\ Amount[f[r]] = r.amount
       /\ \A d \in Credits : Held(r, d) => f[r] = d
       /\ \A x \in Credits : r.ref = HookKey(x) /\ r.txn = HookKey(x) => Answers(f[r], x)
       /\ poll.step = "create" => f[r] # poll.at

Charges == \E f : Charged(f)
Known == IInv /\ PollOK /\ EventsLanded /\ LateOK /\ RowsKnown

\* The keys of one credit are its own, and the list's are not the webhook's.
LEMMA KeysApart ==
  \A c, d \in Credits :
    /\ HookKey(c) = HookKey(d) => c = d
    /\ HookKey(c) # Txn(d) /\ Pay(c) # Txn(d) /\ NoId # Txn(c) /\ NoId # HookKey(c)
    /\ Txn(c) = Txn(d) => c = d
    /\ Pay(c) = HookKey(d) => c = d /\ Kind[d] = "nip"
    /\ Kind[c] = "nip" => HookKey(c) = Pay(c)
    /\ PollKey(c) = IF c \in Linked /\ Kind[c] = "nip" THEN HookKey(c) ELSE Txn(c)
    /\ PollId(c) = IF c \in Linked THEN HookKey(c) ELSE Txn(c)
    /\ Pay(c)[2] = c
  BY DEF Pay, Bk, Txn, NoId, HookKey, PollKey, PollId

\* What was due or had landed goes on being so.
LEMMA Monotone ==
  ASSUME TypeOK, landed' \in Nat, landed' >= landed, aged' \in Nat, aged' >= aged
  PROVE  Due \subseteq Due' /\ Landed \subseteq Landed' /\ Due \subseteq Landed
  BY ConstantsAssumption DEF TypeOK, Due, Landed

\* Steps that leave the rows alone.
LEMMA KnownFrame ==
  ASSUME Known, UNCHANGED <<rows, late>>, Due \subseteq Due', Landed \subseteq Landed'
  PROVE  LateOK' /\ RowsKnown'
<1>1. LateOK'
  BY DEF Known, LateOK, Booked
<1>2. RowsKnown'
  <2> SUFFICES ASSUME NEW r \in rows
               PROVE  \E c \in Credits : (OfEntry(r, c) \/ OfTransfer(r, c) \/ OfHook(r, c))'
    BY DEF RowsKnown
  <2>1. PICK c \in Credits : OfEntry(r, c) \/ OfTransfer(r, c) \/ OfHook(r, c)
    BY DEF Known, RowsKnown
  <2>2. (OfEntry(r, c) \/ OfTransfer(r, c) \/ OfHook(r, c))'
    BY <2>1 DEF OfEntry, OfTransfer, OfHook
  <2> QED
    BY <2>2
<1> QED
  BY <1>1, <1>2

\* A charge stays one when no prompt row and no answer goes.
LEMMA ChargedFrame ==
  ASSUME NEW f, Charged(f), UNCHANGED <<rows, late>>, Landed \subseteq Landed',
         \A r \in Prompt : poll'.step = "create" => f[r] # poll'.at
  PROVE  Charges'
<1>1. Prompt' = Prompt
  BY DEF Prompt, Tardy
<1>2. \A y, x : Answers(y, x) => Answers(y, x)'
  BY DEF Answers, Booked
<1>3. f \in [Prompt' -> Landed']
  BY <1>1 DEF Charged
<1>4. Charged(f)'
  BY <1>1, <1>2, <1>3 DEF Charged, Held
<1> QED
  BY <1>4 DEF Charges

\* One prompt row more, for a credit nothing was charged to.
LEMMA ChargedMore ==
  ASSUME NEW f, Charged(f), Landed \subseteq Landed', UNCHANGED late,
         NEW n, n \notin rows, rows' = rows \cup {n}, ~Tardy(n),
         NEW c \in Credits, c \in Landed', n.amount = Amount[c], \A r \in Prompt : f[r] # c,
         \A d \in Credits : Held(n, d) => d = c,
         \A x \in Credits : n.ref = HookKey(x) /\ n.txn = HookKey(x) => x = c /\ c \notin late,
         poll'.step = "create" => poll'.at # c /\ poll' = poll
  PROVE  Charges'
<1>a. PICK g : g = [r \in Prompt \cup {n} |-> IF r = n THEN c ELSE f[r]]
  OBVIOUS
<1>1. Prompt' = Prompt \cup {n} /\ n \notin Prompt
  BY DEF Prompt, Tardy
<1>2. \A y, x : Answers(y, x) => Answers(y, x)'
  BY DEF Answers, Booked
<1>3. \A r \in Prompt : g[r] = f[r]
  BY <1>a, <1>1
<1>4. g[n] = c /\ DOMAIN g = Prompt \cup {n}
  BY <1>a
<1>5. g \in [Prompt' -> Landed']
  BY <1>a, <1>1 DEF Charged
<1>0. /\ \A r, s \in Prompt : f[r] = f[s] => r = s
      /\ \A r \in Prompt : Amount[f[r]] = r.amount /\ (poll.step = "create" => f[r] # poll.at)
      /\ \A r \in Prompt : \A d \in Credits : Held(r, d) => f[r] = d
      /\ \A r \in Prompt : \A x \in Credits : r.ref = HookKey(x) /\ r.txn = HookKey(x) => Answers(f[r], x)
  BY DEF Charged
<1>6. \A r, s \in Prompt \cup {n} : g[r] = g[s] => r = s
  BY <1>0, <1>1, <1>3, <1>4
<1>7. \A r \in Prompt \cup {n} :
        /\ Amount[g[r]] = r.amount
        /\ \A d \in Credits : Held(r, d) => g[r] = d
        /\ poll'.step = "create" => g[r] # poll'.at
  BY <1>0, <1>1, <1>3, <1>4
<1>8. \A r \in Prompt : \A x \in Credits : r.ref = HookKey(x) /\ r.txn = HookKey(x) => Answers(g[r], x)'
  BY <1>0, <1>2, <1>3
<1>9. \A x \in Credits : n.ref = HookKey(x) /\ n.txn = HookKey(x) => Answers(g[n], x)'
  BY <1>4 DEF Answers, Booked
<1>10. Charged(g)'
  BY <1>1, <1>5, <1>6, <1>7, <1>8, <1>9 DEF Charged, Held
<1> QED
  BY <1>10 DEF Charges

\* Arrivals, time, a restart and a delivery touch no row.
LEMMA LandKnown == ASSUME Known, NEW c \in Credits, Land(c) PROVE Known'
<1>1. IInv' /\ TypeOK
  BY LandInv DEF Known, IInv
<1>2. landed \in Nat /\ landed' = landed + 1 /\ aged' = aged /\ aged \in Nat
  BY <1>1 DEF TypeOK, Land
<1>3. Due \subseteq Due' /\ Landed \subseteq Landed' /\ Due' = Due
  BY <1>1, <1>2, Monotone DEF Due
<1>4. LateOK' /\ RowsKnown'
  BY <1>3, KnownFrame DEF Land
<1>5. PollOK'
  BY <1>3 DEF Known, PollOK, Land
<1>6. EventsLanded'
  <2> SUFFICES ASSUME NEW e \in Events, hook'[e] # "unsent" PROVE About[e] \in Landed'
    BY DEF EventsLanded
  <2>1. CASE About[e] = c
    BY <1>2, <2>1 DEF Land, Landed
  <2>2. CASE About[e] # c
    BY <1>3, <2>2 DEF Land, Known, EventsLanded
  <2> QED
    BY <2>1, <2>2
<1> QED
  BY <1>1, <1>4, <1>5, <1>6 DEF Known

\* The passing of time only makes more due.
LEMMA AgeKnown == ASSUME Known, Age PROVE Known'
<1>1. IInv' /\ TypeOK
  BY AgeInv DEF Known, IInv
<1>2. landed \in Nat /\ landed' = landed /\ aged' = aged + 1 /\ aged \in Nat
  BY <1>1 DEF TypeOK, Age
<1>3. Due \subseteq Due' /\ Landed \subseteq Landed' /\ Landed' = Landed
  BY <1>1, <1>2, Monotone DEF Landed
<1>4. LateOK' /\ RowsKnown'
  BY <1>3, KnownFrame DEF Age
<1>5. PollOK' /\ EventsLanded'
  BY <1>3 DEF Known, PollOK, EventsLanded, Age
<1> QED
  BY <1>1, <1>4, <1>5 DEF Known

\* A restart puts the poller at rest, and nothing else.
LEMMA CrashKnown == ASSUME Known, Crash PROVE Known'
<1>1. IInv' /\ TypeOK
  BY CrashInv DEF Known, IInv
<1>2. Due' = Due /\ Landed' = Landed
  BY DEF Crash, Due, Landed
<1>3. LateOK' /\ RowsKnown'
  BY <1>2, KnownFrame DEF Crash
<1>4. PollOK'
  BY <1>2 DEF PollOK, Crash, Idle
<1>5. EventsLanded'
  BY <1>2 DEF Known, EventsLanded, Crash, Working
<1> QED
  BY <1>1, <1>3, <1>4, <1>5 DEF Known

\* A delivery is about a credit that has landed.
LEMMA DeliverKnown == ASSUME Known, NEW e \in Events, Deliver(e) PROVE Known'
<1>1. IInv' /\ TypeOK
  BY DeliverInv DEF Known, IInv
<1>2. Due' = Due /\ Landed' = Landed
  BY DEF Deliver, Due, Landed
<1>3. LateOK' /\ RowsKnown'
  BY <1>2, KnownFrame DEF Deliver
<1>4. PollOK'
  BY <1>2 DEF Known, PollOK, Deliver
<1>5. EventsLanded'
  BY <1>1, <1>2 DEF Known, EventsLanded, Deliver, TypeOK
<1> QED
  BY <1>1, <1>3, <1>4, <1>5 DEF Known

\* The poller goes on to the next credit, or rests.
LEMMA NextPollOK ==
  ASSUME NEW p, p.todo \subseteq Due, NextPoll(p) = [p EXCEPT !.at = None, !.step = IF p.todo = {} THEN "idle" ELSE "look"],
         p \in [todo : SUBSET Credits, at : Credits \cup {None}, step : {"idle", "look", "claim", "create"}]
  PROVE  NextPoll(p).todo \subseteq Due /\ NextPoll(p).step \in {"idle", "look"}
  OBVIOUS

\* The page the poller reads holds what is due.
LEMMA ReadKnown == ASSUME Known, Read PROVE Known'
<1>1. IInv' /\ TypeOK
  BY ReadInv DEF Known, IInv
<1>2. Due' = Due /\ Landed' = Landed
  BY DEF Read, Due, Landed
<1>3. LateOK' /\ RowsKnown'
  BY <1>2, KnownFrame DEF Read
<1>4. PollOK'
  <2> DEFINE p == [Idle EXCEPT !.todo = Newest \cap Due]
  <2>1. p \in [todo : SUBSET Credits, at : Credits \cup {None}, step : {"idle", "look", "claim", "create"}]
        /\ p.todo \subseteq Due
    BY DEF Idle, Due
  <2>2. poll' = NextPoll(p)
    BY DEF Read
  <2> HIDE DEF p
  <2>3. NextPoll(p).todo \subseteq Due /\ NextPoll(p).step \in {"idle", "look"}
    BY <2>1, NextPollOK DEF NextPoll
  <2> QED
    BY <1>2, <2>2, <2>3 DEF PollOK
<1>5. EventsLanded'
  BY <1>2 DEF Known, EventsLanded, Read
<1> QED
  BY <1>1, <1>3, <1>4, <1>5 DEF Known

\* The poller looks at an entry that is due, and claims for an unnamed one.
LEMMA LookKnown == ASSUME Known, NEW c \in Credits, Look(c) PROVE Known'
<1>1. IInv' /\ TypeOK
  BY LookInv DEF Known, IInv
<1>2. Due' = Due /\ Landed' = Landed
  BY DEF Look, Due, Landed
<1>3. LateOK' /\ RowsKnown'
  BY <1>2, KnownFrame DEF Look
<1>4. PollOK'
  <2> DEFINE p == [poll EXCEPT !.todo = @ \ {c}, !.at = c]
  <2>1. p \in [todo : SUBSET Credits, at : Credits \cup {None}, step : {"idle", "look", "claim", "create"}]
        /\ p.todo \subseteq Due /\ p.at = c /\ c \in Due
    BY <1>1 DEF TypeOK, Known, PollOK, Look
  <2>2. poll' = NextPoll(p) \/ poll' = [p EXCEPT !.step = IF c \in Linked THEN "create" ELSE "claim"]
    BY DEF Look
  <2> HIDE DEF p
  <2>3. NextPoll(p).todo \subseteq Due /\ NextPoll(p).step \in {"idle", "look"}
    BY <2>1, NextPollOK DEF NextPoll
  <2>4. CASE poll' = NextPoll(p)
    BY <1>2, <2>3, <2>4 DEF PollOK
  <2>5. CASE poll' = [p EXCEPT !.step = IF c \in Linked THEN "create" ELSE "claim"]
    <3>1. poll'.todo \subseteq Due /\ poll'.at = c /\ poll'.step = IF c \in Linked THEN "create" ELSE "claim"
      BY <2>1, <2>5
    <3> QED
      BY <1>2, <2>1, <3>1 DEF PollOK
  <2> QED
    BY <2>2, <2>4, <2>5
<1>5. EventsLanded'
  BY <1>2 DEF Known, EventsLanded, Look
<1> QED
  BY <1>1, <1>3, <1>4, <1>5 DEF Known

\* After a claim or a record.
LEMMA PollGoesOn ==
  ASSUME Known, poll' = NextPoll(poll), Due' = Due
  PROVE  PollOK' /\ poll'.step # "create"
<1>1. NextPoll(poll).todo \subseteq Due /\ NextPoll(poll).step \in {"idle", "look"}
  BY NextPollOK DEF NextPoll, Known, IInv, TypeOK, PollOK
<1> QED
  BY <1>1 DEF PollOK

\* Old rows as before, and a new one that is known.
LEMMA RowsMore ==
  ASSUME Known, UNCHANGED <<aged, landed>>, NEW n, rows' \subseteq rows \cup {n},
         NEW c \in Credits, OfEntry(n, c) \/ OfTransfer(n, c) \/ OfHook(n, c)
  PROVE  RowsKnown'
<1>1. \A r, d : (OfEntry(r, d) \/ OfTransfer(r, d) \/ OfHook(r, d)) => (OfEntry(r, d) \/ OfTransfer(r, d) \/ OfHook(r, d))'
  BY DEF OfEntry, OfTransfer, OfHook, Due, Landed
<1>2. \A r \in rows \cup {n} : \E d \in Credits : OfEntry(r, d) \/ OfTransfer(r, d) \/ OfHook(r, d)
  BY DEF Known, RowsKnown
<1> QED
  BY <1>1, <1>2 DEF RowsKnown

\* A late event's row keeps its reference and its amount.
LEMMA LateStay ==
  ASSUME Known, late' = late,
         \A r \in rows : \A c \in Credits : r.ref = HookKey(c) => \E s \in rows' : s.ref = r.ref /\ s.amount = r.amount
  PROVE  LateOK'
<1>1. late \subseteq Credits
  BY DEF Known, IInv, TypeOK, Due
<1> QED
  BY <1>1 DEF Known, LateOK

\* The row a repair gives the payment is an unnamed entry's, and stays that entry's.
LEMMA RepairKnown == ASSUME Known, NEW e \in Events, Repair(e) PROVE Known'
<1> DEFINE c == About[e]
<1>1. IInv' /\ TypeOK /\ c \in Credits /\ rows \subseteq Row
  BY RepairInv, ConstantsAssumption DEF Known, IInv, TypeOK
<1>2. /\ Due' = Due /\ Landed' = Landed /\ poll' = poll /\ late' = late /\ UNCHANGED <<aged, landed>>
      /\ hook[e] = "repair" /\ \A d \in Events : hook'[d] # "unsent" => hook[d] # "unsent"
  BY <1>1 DEF Repair, Due, Landed, TypeOK
<1>3. PollOK' /\ EventsLanded'
  BY <1>2 DEF Known, PollOK, EventsLanded
<1>4. CASE rows' = rows
  BY <1>1, <1>2, <1>3, <1>4, KnownFrame DEF Known
<1>5. CASE rows' # rows
  <2>1. PICK r \in Unattributed(c) :
          /\ ~Booked(Pay(c))
          /\ rows' = (rows \ {r}) \cup
               {[r EXCEPT !.ref = Pay(c), !.anon = FALSE, !.quotes = IF c \in Quoted THEN c ELSE None]}
    BY <1>5 DEF Repair
  <2> DEFINE n == [r EXCEPT !.ref = Pay(c), !.anon = FALSE, !.quotes = IF c \in Quoted THEN c ELSE None]
  <2>2. r \in rows /\ r.anon /\ r \in Row
    BY <1>1, <2>1 DEF Unattributed
  <2>3. PICK d \in Credits : OfEntry(r, d)
    <3>1. PICK d \in Credits : r.ref = Txn(d)
      BY <2>1 DEF Unattributed
    <3>2. PICK x \in Credits : OfEntry(r, x) \/ OfTransfer(r, x) \/ OfHook(r, x)
      BY <2>2 DEF Known, RowsKnown
    <3> QED
      BY <2>2, <3>1, <3>2, KeysApart DEF OfTransfer, OfHook
  <2>4. n.ref = Pay(c) /\ n.txn = r.txn /\ n.amount = r.amount
    BY <2>2 DEF Row
  <2>5. OfEntry(n, d)
    BY <1>1, <2>3, <2>4, KeysApart DEF OfEntry
  <2> HIDE DEF n
  <2>6. rows' = (rows \ {r}) \cup {n}
    BY <2>1 DEF n
  <2>7. RowsKnown'
    BY <1>2, <2>5, <2>6, RowsMore
  <2>8. LateOK'
    <3>1. \A x \in Credits : r.ref # HookKey(x)
      BY <2>1, KeysApart DEF Unattributed
    <3> QED
      BY <1>2, <2>6, <3>1, LateStay
  <2> QED
    BY <1>1, <1>3, <2>7, <2>8 DEF Known
<1> QED
  BY <1>4, <1>5

\* What the payment's own row was charged to, the repaired one is.
LEMMA RepairCharges == ASSUME Known, Charges, NEW e \in Events, Repair(e) PROVE Charges'
<1> DEFINE c == About[e]
<1>1. TypeOK /\ c \in Credits /\ rows \subseteq Row
  BY ConstantsAssumption DEF Known, IInv, TypeOK
<1>2. Due' = Due /\ Landed' = Landed /\ poll' = poll /\ late' = late
  BY <1>1 DEF Repair, Due, Landed
<1>3. PICK f : Charged(f)
  BY DEF Charges
<1>4. CASE rows' = rows
  <2>1. \A r \in Prompt : poll'.step = "create" => f[r] # poll'.at
    BY <1>2, <1>3 DEF Charged
  <2> QED
    BY <1>2, <1>3, <1>4, <2>1, ChargedFrame
<1>5. CASE rows' # rows
  <2>1. PICK r \in Unattributed(c) :
          /\ ~Booked(Pay(c))
          /\ rows' = (rows \ {r}) \cup
               {[r EXCEPT !.ref = Pay(c), !.anon = FALSE, !.quotes = IF c \in Quoted THEN c ELSE None]}
    BY <1>5 DEF Repair
  <2>n. PICK n : n = [r EXCEPT !.ref = Pay(c), !.anon = FALSE, !.quotes = IF c \in Quoted THEN c ELSE None]
    OBVIOUS
  <2>2. r \in rows /\ r \in Row
    BY <1>1, <2>1 DEF Unattributed
  <2>3. n.ref = Pay(c) /\ n.txn = r.txn /\ n.amount = r.amount
    BY <2>2, <2>n DEF Row
  <2>4. rows' = (rows \ {r}) \cup {n}
    BY <2>1, <2>n
  <2>5. PICK d \in Credits : r.ref = Txn(d)
    BY <2>1 DEF Unattributed
  <2>6. n \notin rows /\ \A x \in Credits : r.ref # HookKey(x)
    BY <1>1, <2>1, <2>3, <2>5, KeysApart DEF Booked
  <2>7. ~Tardy(r) /\ ~Tardy(n)
    <3>1. late \subseteq Credits
      BY <1>1 DEF TypeOK, Due
    <3>2. \A x \in late : HookKey(x) # Pay(c)
      BY <2>1 DEF Known, LateOK, Booked
    <3> QED
      BY <2>3, <2>6, <3>1, <3>2 DEF Tardy
  <2>8. Prompt' = (Prompt \ {r}) \cup {n} /\ n \notin Prompt /\ r \in Prompt
    BY <1>2, <2>2, <2>4, <2>6, <2>7 DEF Prompt, Tardy
  <2>9. PICK g : g = [s \in (Prompt \ {r}) \cup {n} |-> IF s = n THEN f[r] ELSE f[s]]
    OBVIOUS
  <2>10. /\ f \in [Prompt -> Landed]
         /\ \A s, t \in Prompt : f[s] = f[t] => s = t
         /\ \A s \in Prompt : Amount[f[s]] = s.amount /\ (poll.step = "create" => f[s] # poll.at)
         /\ \A s \in Prompt : \A x \in Credits : Held(s, x) => f[s] = x
         /\ \A s \in Prompt : \A x \in Credits : s.ref = HookKey(x) /\ s.txn = HookKey(x) => Answers(f[s], x)
    BY <1>3 DEF Charged
  <2>11. \A s \in Prompt \ {r} : g[s] = f[s]
    BY <2>8, <2>9
  <2>12. g[n] = f[r]
    BY <2>9
  <2>13. g \in [Prompt' -> Landed']
    BY <1>2, <2>8, <2>9, <2>10
  <2>14. \A s, t \in (Prompt \ {r}) \cup {n} : g[s] = g[t] => s = t
    BY <2>8, <2>10, <2>11, <2>12
  <2>15. \A s \in (Prompt \ {r}) \cup {n} :
           /\ Amount[g[s]] = s.amount /\ (poll.step = "create" => g[s] # poll.at)
           /\ \A x \in Credits : Held(s, x) => g[s] = x
    <3>1. \A x \in Credits : Held(n, x) => Held(r, x)
      BY <1>1, <2>3, KeysApart DEF Held
    <3> QED
      BY <2>3, <2>8, <2>10, <2>11, <2>12, <3>1
  <2>16. \A y, x : y \in Credits /\ Answers(y, x) => Answers(y, x)'
    <3> SUFFICES ASSUME NEW y \in Credits, NEW x, Answers(y, x) PROVE Answers(y, x)'
      OBVIOUS
    <3>1. Booked(HookKey(y))'
      BY <2>4, <2>6 DEF Answers, Booked
    <3> QED
      BY <1>2, <3>1 DEF Answers
  <2>17. \A s \in Prompt \ {r} : \A x \in Credits : s.ref = HookKey(x) /\ s.txn = HookKey(x) => Answers(g[s], x)'
    <3>1. \A s \in Prompt : f[s] \in Credits
      BY <2>10 DEF Landed
    <3> QED
      BY <2>10, <2>11, <2>16, <3>1
  <2>18. \A x \in Credits : ~(n.ref = HookKey(x) /\ n.txn = HookKey(x))
    <3>1. PICK z \in Credits : OfEntry(r, z) \/ OfTransfer(r, z) \/ OfHook(r, z)
      BY <2>2 DEF Known, RowsKnown
    <3>2. OfEntry(r, z)
      BY <2>1, <2>5, <3>1, KeysApart DEF OfTransfer, OfHook, Unattributed
    <3> QED
      BY <2>3, <3>2, KeysApart DEF OfEntry
  <2>19. Charged(g)'
    BY <1>2, <2>8, <2>13, <2>14, <2>15, <2>17, <2>18 DEF Charged, Held
  <2> QED
    BY <2>19 DEF Charges
<1> QED
  BY <1>4, <1>5

\* The webhook's row carries its key, and is nobody's yet.
LEMMA CreateKnown == ASSUME Known, NEW e \in Events, Create(e) PROVE Known'
<1> DEFINE c == About[e]
           n == [ref |-> HookKey(c), txn |-> HookKey(c), amount |-> Amount[c],
                 date |-> PaidAt[c], anon |-> FALSE,
                 quotes |-> IF c \in Quoted THEN c ELSE None]
<1>1. IInv' /\ TypeOK /\ c \in Credits
  BY CreateInv, ConstantsAssumption DEF Known, IInv
<1>2. /\ Due' = Due /\ Landed' = Landed /\ poll' = poll /\ UNCHANGED <<aged, landed>>
      /\ hook[e] = "create" /\ \A d \in Events : hook'[d] # "unsent" => hook[d] # "unsent"
  BY <1>1 DEF Create, Due, Landed, TypeOK
<1>3. PollOK' /\ EventsLanded'
  BY <1>2 DEF Known, PollOK, EventsLanded
<1>4. CASE UNCHANGED <<rows, late>>
  BY <1>1, <1>2, <1>3, <1>4, KnownFrame DEF Known
<1>5. CASE /\ ~Booked(HookKey(c)) /\ rows' = rows \cup {n}
           /\ late' = IF c \in Due THEN late \cup {c} ELSE late
  <2>1. c \in Landed
    BY <1>2 DEF Known, EventsLanded
  <2>2. OfHook(n, c)
    BY <2>1 DEF OfHook
  <2>3. n.ref = HookKey(c) /\ n.amount = Amount[c]
    OBVIOUS
  <2> HIDE DEF n
  <2>4. RowsKnown'
    BY <1>1, <1>2, <1>5, <2>2, RowsMore
  <2>5. LateOK'
    BY <1>5, <2>3 DEF Known, LateOK
  <2> QED
    BY <1>1, <1>3, <2>4, <2>5 DEF Known
<1> QED
  BY <1>4, <1>5 DEF Create

\* A prompt event's row is its credit's, to which nothing was charged yet; a late
\* one's is charged to nobody.
LEMMA CreateCharges == ASSUME Known, Charges, NEW e \in Events, Create(e) PROVE Charges'
<1> DEFINE c == About[e]
<1>1. TypeOK /\ c \in Credits
  BY ConstantsAssumption DEF Known, IInv
<1>2. Due' = Due /\ Landed' = Landed /\ poll' = poll /\ c \in Landed
  BY DEF Create, Due, Landed, Known, EventsLanded
<1>3. PICK f : Charged(f)
  BY DEF Charges
<1>4. \A r \in Prompt : poll.step = "create" => f[r] # poll.at
  BY <1>3 DEF Charged
<1>5. CASE UNCHANGED <<rows, late>>
  BY <1>2, <1>3, <1>4, <1>5, ChargedFrame
<1>6. CASE ~UNCHANGED <<rows, late>>
  <2>1. PICK n : /\ n = [ref |-> HookKey(c), txn |-> HookKey(c), amount |-> Amount[c],
                         date |-> PaidAt[c], anon |-> FALSE,
                         quotes |-> IF c \in Quoted THEN c ELSE None]
    OBVIOUS
  <2>2. /\ ~Booked(HookKey(c)) /\ rows' = rows \cup {n}
        /\ late' = IF c \in Due THEN late \cup {c} ELSE late
    BY <1>6, <2>1 DEF Create
  <2>3. n.ref = HookKey(c) /\ n.txn = HookKey(c) /\ n.amount = Amount[c] /\ n \notin rows
    BY <2>1, <2>2 DEF Booked
  <2>4. \A r \in Prompt : \A x \in Credits : r.ref = HookKey(x) /\ r.txn = HookKey(x) => Answers(f[r], x) /\ f[r] # c
    BY <1>3, <2>2 DEF Charged, Answers
  <2>5. CASE c \in Due
    <3>1. Prompt' = Prompt
      BY <2>2, <2>3, <2>5 DEF Prompt, Tardy, Booked
    <3>2. \A r \in Prompt : \A x \in Credits : r.ref = HookKey(x) /\ r.txn = HookKey(x) => Answers(f[r], x)'
      <4>1. \A y, x : Answers(y, x) /\ y # c => Answers(y, x)'
        BY <2>2 DEF Answers, Booked
      <4> QED
        BY <2>4, <4>1
    <3>3. Charged(f)'
      BY <1>2, <1>3, <3>1, <3>2 DEF Charged, Held
    <3> QED
      BY <3>3 DEF Charges
  <2>6. CASE c \notin Due
    <3>1. late' = late /\ c \notin late
      BY <1>1, <2>2, <2>6 DEF TypeOK
    <3>2. ~Tardy(n)
      BY <1>1, <2>3, <3>1, KeysApart DEF Tardy, TypeOK, Due
    <3>3. \A r \in Prompt : f[r] # c
      <4> SUFFICES ASSUME NEW r \in Prompt PROVE f[r] # c
        OBVIOUS
      <4>1. PICK x \in Credits : OfEntry(r, x) \/ OfTransfer(r, x) \/ OfHook(r, x)
        BY DEF Prompt, Known, RowsKnown
      <4>2. CASE OfEntry(r, x) \/ OfTransfer(r, x)
        <5>1. x \in Due /\ Held(r, x)
          BY <4>2 DEF OfEntry, OfTransfer, Held
        <5>2. f[r] = x
          BY <1>3, <5>1 DEF Charged
        <5> QED
          BY <2>6, <5>1, <5>2
      <4>3. CASE OfHook(r, x)
        BY <2>4, <4>3 DEF OfHook
      <4> QED
        BY <4>1, <4>2, <4>3
    <3>4. \A d \in Credits : Held(n, d) => d = c
      BY <1>1, <2>3, KeysApart DEF Held
    <3>5. \A x \in Credits : n.ref = HookKey(x) /\ n.txn = HookKey(x) => x = c /\ c \notin late
      BY <1>1, <2>3, <3>1, KeysApart
    <3>6. poll'.step = "create" => poll'.at # c /\ poll' = poll
      BY <1>2, <2>6 DEF Known, PollOK
    <3>7. Landed \subseteq Landed' /\ c \in Landed'
      BY <1>2
    <3> HIDE DEF c
    <3> QED
      BY <1>1, <1>3, <2>2, <2>3, <3>1, <3>2, <3>3, <3>4, <3>5, <3>6, <3>7, ChargedMore
  <2> QED
    BY <2>5, <2>6
<1> QED
  BY <1>5, <1>6

\* The poller's own row.
LEMMA RecordKnown == ASSUME Known, Record PROVE Known'
<1> DEFINE c == poll.at
           n == [ref |-> PollKey(c), txn |-> PollId(c), amount |-> Amount[c],
                 date |-> ListAt[c], anon |-> c \in Anonymous \ Linked,
                 quotes |-> c]
<1>1. IInv' /\ TypeOK /\ c \in Credits /\ c \in Due
  BY RecordInv DEF Known, IInv, InHand, PollOK, Record
<1>2. /\ Due' = Due /\ Landed' = Landed /\ poll' = NextPoll(poll) /\ UNCHANGED <<aged, landed, late, hook>>
  BY DEF Record, Due, Landed
<1>3. PollOK' /\ EventsLanded'
  BY <1>2, PollGoesOn DEF Known, EventsLanded
<1>4. CASE rows' = rows
  BY <1>1, <1>2, <1>3, <1>4, KnownFrame DEF Known
<1>5. CASE rows' = rows \cup {n}
  <2>0. c \in Landed
    BY <1>1, Monotone, ConstantsAssumption DEF TypeOK, Due, Landed
  <2>1. OfEntry(n, c) \/ OfTransfer(n, c) \/ OfHook(n, c)
    <3>a. /\ n.ref = PollKey(c) /\ n.txn = PollId(c) /\ n.amount = Amount[c] /\ n.date = ListAt[c]
          /\ c \in Linked => ~n.anon
      OBVIOUS
    <3> HIDE DEF n
    <3>b. /\ PollKey(c) = IF c \in Linked /\ Kind[c] = "nip" THEN HookKey(c) ELSE Txn(c)
          /\ PollId(c) = IF c \in Linked THEN HookKey(c) ELSE Txn(c)
      BY <1>1, KeysApart
    <3>1. CASE c \notin Linked
      BY <1>1, <3>a, <3>b, <3>1, KeysApart DEF OfEntry
    <3>2. CASE c \in Linked /\ Kind[c] = "nip"
      BY <1>1, <2>0, <3>a, <3>b, <3>2 DEF OfHook
    <3>3. CASE c \in Linked /\ Kind[c] # "nip"
      BY <1>1, <3>a, <3>b, <3>3 DEF OfTransfer
    <3> QED
      BY <3>1, <3>2, <3>3
  <2> HIDE DEF n
  <2>2. RowsKnown'
    BY <1>1, <1>2, <1>5, <2>1, RowsMore
  <2>3. LateOK'
    BY <1>2, <1>5, LateStay
  <2> QED
    BY <1>1, <1>3, <2>2, <2>3 DEF Known
<1> QED
  BY <1>4, <1>5 DEF Record

\* It is charged to the credit it is of, to which nothing was charged.
LEMMA RecordCharges == ASSUME Known, Charges, Record PROVE Charges'
<1> DEFINE c == poll.at
<1>1. TypeOK /\ c \in Credits /\ c \in Due /\ poll.step = "create"
  BY DEF Known, IInv, InHand, PollOK, Record
<1>2. Due' = Due /\ Landed' = Landed /\ late' = late /\ poll' = NextPoll(poll)
  BY DEF Record, Due, Landed
<1>3. PICK f : Charged(f)
  BY DEF Charges
<1>4. poll'.step # "create"
  BY <1>2, PollGoesOn
<1>5. CASE rows' = rows
  BY <1>2, <1>3, <1>4, <1>5, ChargedFrame
<1>6. CASE rows' # rows
  <2>1. PICK n : /\ n = [ref |-> PollKey(c), txn |-> PollId(c), amount |-> Amount[c],
                         date |-> ListAt[c], anon |-> c \in Anonymous \ Linked,
                         quotes |-> c]
    OBVIOUS
  <2>2. ~Booked(PollKey(c)) /\ rows' = rows \cup {n}
    BY <1>6, <2>1 DEF Record
  <2>3. n.ref = PollKey(c) /\ n.txn = PollId(c) /\ n.amount = Amount[c] /\ n \notin rows
    BY <2>1, <2>2 DEF Booked
  <2>4. \A r \in Prompt : f[r] # c
    BY <1>1, <1>3 DEF Charged
  <2>5. late \subseteq Credits /\ (PollKey(c) = HookKey(c) => c \notin late)
    BY <1>1, <2>2 DEF TypeOK, Due, Known, LateOK, Booked
  <2>6. ~Tardy(n)
    <3> SUFFICES ASSUME NEW x \in late, n.ref = HookKey(x) PROVE FALSE
      BY DEF Tardy
    <3>1. PollKey(c) = HookKey(c) \/ PollKey(c) = Txn(c)
      BY <1>1, KeysApart
    <3>2. x \in Credits /\ PollKey(c) = HookKey(x)
      BY <2>3, <2>5
    <3>3. PollKey(c) = HookKey(c) /\ x = c
      BY <1>1, <3>1, <3>2, KeysApart
    <3> QED
      BY <2>5, <3>3
  <2>7. \A d \in Credits : Held(n, d) => d = c
    BY <1>1, <2>3, KeysApart DEF Held
  <2>8. \A x \in Credits : n.ref = HookKey(x) /\ n.txn = HookKey(x) => x = c /\ c \notin late
    <3> SUFFICES ASSUME NEW x \in Credits, n.ref = HookKey(x), n.txn = HookKey(x) PROVE x = c /\ c \notin late
      OBVIOUS
    <3>1. PollKey(c) = HookKey(c) \/ PollKey(c) = Txn(c)
      BY <1>1, KeysApart
    <3>2. PollKey(c) = HookKey(x)
      BY <2>3
    <3>3. PollKey(c) = HookKey(c) /\ x = c
      BY <1>1, <3>1, <3>2, KeysApart
    <3> QED
      BY <2>5, <3>3
  <2>9. Landed \subseteq Landed' /\ c \in Landed'
    BY <1>1, <1>2, ConstantsAssumption DEF TypeOK, Due, Landed
  <2>10. PICK a : a = c
    OBVIOUS
  <2> HIDE DEF c
  <2> QED
    BY <1>1, <1>2, <1>3, <1>4, <2>2, <2>3, <2>4, <2>6, <2>7, <2>8, <2>9, <2>10, ChargedMore
<1> QED
  BY <1>5, <1>6

\* A claim changes the id a row is known by, and nothing else of it.
LEMMA ClaimKnown == ASSUME Known, Claim PROVE Known'
<1> DEFINE c == poll.at
<1>1. IInv' /\ TypeOK /\ c \in Credits /\ c \in Due /\ c \notin Linked /\ rows \subseteq Row
  BY ClaimInv DEF Known, IInv, InHand, PollOK, Claim, TypeOK
<1>2. /\ Due' = Due /\ Landed' = Landed /\ UNCHANGED <<aged, landed, late, hook>>
  BY DEF Claim, Due, Landed
<1>3. EventsLanded'
  BY <1>2 DEF Known, EventsLanded
<1>4. CASE rows' = rows /\ poll' = [poll EXCEPT !.step = "create"]
  <2>1. poll'.todo = poll.todo /\ poll'.at = c /\ poll'.step = "create"
    BY <1>1, <1>4 DEF TypeOK
  <2>2. PollOK'
    BY <1>1, <1>2, <2>1 DEF Known, PollOK
  <2> QED
    BY <1>1, <1>2, <1>3, <1>4, <2>2, KnownFrame DEF Known
<1>5. CASE \E r \in Free(c) : rows' = (rows \ {r}) \cup {[r EXCEPT !.txn = Txn(c)]} /\ poll' = NextPoll(poll)
  <2>1. PICK r \in Free(c) : rows' = (rows \ {r}) \cup {[r EXCEPT !.txn = Txn(c)]} /\ poll' = NextPoll(poll)
    BY <1>5
  <2> DEFINE n == [r EXCEPT !.txn = Txn(c)]
  <2>2. r \in rows /\ r \in Row /\ r.amount = Amount[c]
    BY <1>1 DEF Free
  <2>3. PICK e \in Credits : r.ref = Pay(e)
    BY DEF Free
  <2>4. n.ref = r.ref /\ n.txn = Txn(c) /\ n.amount = r.amount
    BY <2>2 DEF Row
  <2>5. OfEntry(n, c)
    BY <1>1, <2>2, <2>3, <2>4, KeysApart DEF OfEntry
  <2> HIDE DEF n
  <2>6. rows' = (rows \ {r}) \cup {n}
    BY <2>1 DEF n
  <2>7. RowsKnown'
    BY <1>1, <1>2, <2>5, <2>6, RowsMore
  <2>8. LateOK'
    BY <1>2, <2>4, <2>6, LateStay
  <2>9. PollOK'
    BY <1>2, <2>1, PollGoesOn
  <2> QED
    BY <1>1, <1>3, <2>7, <2>8, <2>9 DEF Known
<1> QED
  BY <1>4, <1>5 DEF Claim

\* What is charged to an entry that holds no row is a row of its minute, and free.
LEMMA ChargedIsFree ==
  ASSUME Known, SameMoment, poll.step = "claim", NEW f, Charged(f), NEW r \in Prompt, f[r] = poll.at
  PROVE  r \in Free(poll.at) /\ \E x \in Credits : OfHook(r, x)
<1> DEFINE c == poll.at
<1>1. c \in Credits /\ c \notin Linked /\ \A s \in rows : s.txn # Txn(c)
  BY DEF Known, IInv, InHand, PollOK
<1>2. PICK x \in Credits : OfEntry(r, x) \/ OfTransfer(r, x) \/ OfHook(r, x)
  BY DEF Prompt, Known, RowsKnown
<1>3. OfHook(r, x)
  <2>1. CASE OfEntry(r, x) \/ OfTransfer(r, x)
    <3>1. Held(r, x)
      BY <2>1 DEF Held, OfEntry, OfTransfer
    <3>2. x = c
      BY <3>1 DEF Charged
    <3> QED
      BY <1>1, <2>1, <3>2 DEF OfEntry, OfTransfer, Prompt
  <2> QED
    BY <1>2, <2>1
<1>4. Answers(c, x) /\ Amount[c] = r.amount
  BY <1>3 DEF Charged, OfHook
<1>5. Kind[c] = "nip" /\ Kind[x] = "nip" /\ c \in Timed /\ x \in Timed /\ MadeAt[c] = MadeAt[x]
  BY <1>1, <1>4 DEF SameMoment, Answers
<1>6. r.ref = Pay(x) /\ r.txn = r.ref /\ r.ref[2] = x
  BY <1>3, <1>5, KeysApart DEF OfHook
<1>7. Gap(ListAt[c], r.date) <= 2880
  BY <1>1, <1>3, <1>5 DEF SameMoment, OfHook
<1>8. TwinGap(c, r) <= TwinWindow(c, r)
  <2>1. MadeAt[c] \in Nat /\ MadeAt[x] \in Nat
    BY <1>1, ConstantsAssumption
  <2>2. TwinGap(c, r) = 0 /\ TwinWindow(c, r) = 0
    BY <1>5, <1>6, <2>1 DEF TwinGap, TwinWindow, Gap
  <2> QED
    BY <2>2
<1>9. r \in rows /\ Unclaimed(r)
  BY <1>6 DEF Prompt, Unclaimed
<1> QED
  BY <1>3, <1>4, <1>6, <1>7, <1>8, <1>9 DEF Free

\* The entry gets the row it claims; the row that was charged to the entry takes
\* over what the claimed one was charged to, a credit of the same minute.
LEMMA ClaimCharges == ASSUME Known, SameMoment, Charges, Claim PROVE Charges'
<1> DEFINE c == poll.at
<1>1. /\ TypeOK /\ c \in Credits /\ c \in Due /\ c \notin Linked /\ rows \subseteq Row
      /\ poll.step = "claim" /\ \A s \in rows : s.txn # Txn(c)
  BY DEF Known, IInv, InHand, PollOK, Claim, TypeOK
<1>2. Due' = Due /\ Landed' = Landed /\ late' = late
  BY DEF Claim, Due, Landed
<1>3. PICK f : Charged(f)
  BY DEF Charges
<1>4. CASE Free(c) = {} /\ rows' = rows /\ poll' = [poll EXCEPT !.step = "create"]
  <2>1. poll'.at = c
    BY <1>1, <1>4 DEF TypeOK
  <2>2. \A r \in Prompt : f[r] # c
    BY <1>1, <1>3, <1>4, ChargedIsFree
  <2> QED
    BY <1>2, <1>3, <1>4, <2>1, <2>2, ChargedFrame
<1>5. CASE \E r \in Free(c) : rows' = (rows \ {r}) \cup {[r EXCEPT !.txn = Txn(c)]} /\ poll' = NextPoll(poll)
  <2>1. PICK r \in Free(c) : rows' = (rows \ {r}) \cup {[r EXCEPT !.txn = Txn(c)]} /\ poll' = NextPoll(poll)
    BY <1>5
  <2>n. PICK n : n = [r EXCEPT !.txn = Txn(c)]
    OBVIOUS
  <2>2. /\ r \in rows /\ r \in Row /\ r.amount = Amount[c] /\ Unclaimed(r) /\ TwinGap(c, r) <= TwinWindow(c, r)
        /\ rows' = (rows \ {r}) \cup {n}
    BY <1>1, <2>1, <2>n DEF Free
  <2>3. n.ref = r.ref /\ n.txn = Txn(c) /\ n.amount = r.amount
    BY <2>2, <2>n DEF Row
  <2>4. n \notin rows /\ poll'.step # "create"
    BY <1>1, <1>2, <2>1, <2>3, PollGoesOn
  <2>5. PICK e \in Credits : r.ref = Pay(e)
    BY DEF Free
  <2>6. PICK x \in Credits : OfHook(r, x)
    <3>1. PICK x \in Credits : OfEntry(r, x) \/ OfTransfer(r, x) \/ OfHook(r, x)
      BY <2>2 DEF Known, RowsKnown
    <3>2. ~OfEntry(r, x) /\ ~OfTransfer(r, x)
      BY <2>2, <2>5, KeysApart DEF OfEntry, OfTransfer, Unclaimed
    <3> QED
      BY <3>1, <3>2
  <2>7. Kind[x] = "nip" /\ Kind[c] = "nip" /\ MadeAt[c] = MadeAt[x] /\ r.txn = r.ref /\ r.ref = HookKey(x)
    <3>a. r.ref = HookKey(x) /\ r.txn = HookKey(x)
      BY <2>6 DEF OfHook
    <3>b. Pay(e) = HookKey(x)
      BY <3>a, <2>5
    <3>c. Kind[x] = "nip" /\ HookKey(x) = Pay(x)
      BY <3>b, KeysApart
    <3>d. Pay(x)[2] = x
      BY KeysApart
    <3>1. Kind[x] = "nip" /\ r.ref = Pay(x) /\ r.ref[2] = x /\ r.txn = r.ref /\ r.ref = HookKey(x)
      BY <3>a, <3>c, <3>d
    <3>2. Kind[c] = "nip" /\ c \in Timed /\ x \in Timed
      BY <1>1, <3>1 DEF SameMoment
    <3>3. TwinGap(c, r) = Gap(MadeAt[c], MadeAt[x]) /\ TwinWindow(c, r) = 0
      BY <3>1, <3>2 DEF TwinGap, TwinWindow
    <3>4. MadeAt[c] \in Nat /\ MadeAt[x] \in Nat
      BY <1>1, ConstantsAssumption
    <3>5. MadeAt[c] = MadeAt[x]
      BY <2>2, <3>3, <3>4 DEF Gap
    <3> QED
      BY <3>1, <3>2, <3>5
  <2>8. \A y, z : Answers(y, z) => Answers(y, z)'
    BY <1>2, <2>2, <2>3 DEF Answers, Booked
  <2>9. Tardy(n)' <=> Tardy(r)
    BY <1>2, <2>3 DEF Tardy
  <2>10. /\ f \in [Prompt -> Landed]
         /\ \A s, t \in Prompt : f[s] = f[t] => s = t
         /\ \A s \in Prompt : Amount[f[s]] = s.amount
         /\ \A s \in Prompt : \A d \in Credits : Held(s, d) => f[s] = d
         /\ \A s \in Prompt : \A z \in Credits : s.ref = HookKey(z) /\ s.txn = HookKey(z) => Answers(f[s], z)
    BY <1>3 DEF Charged
  <2>11. CASE Tardy(r)
    <3>1. Prompt' = Prompt
      BY <1>2, <2>2, <2>3, <2>11 DEF Prompt, Tardy
    <3>2. Charged(f)'
      BY <1>2, <2>4, <2>8, <2>10, <3>1 DEF Charged, Held
    <3> QED
      BY <3>2 DEF Charges
  <2>12. CASE ~Tardy(r)
    <3>1. Prompt' = (Prompt \ {r}) \cup {n} /\ n \notin Prompt /\ r \in Prompt
      BY <1>2, <2>2, <2>3, <2>4, <2>12 DEF Prompt, Tardy
    <3>2. PICK y : y = f[r]
      OBVIOUS
    <3>3. y \in Landed /\ Answers(y, x) /\ Amount[y] = r.amount
      BY <2>6, <2>7, <2>10, <3>1, <3>2 DEF OfHook
    <3>4. PICK a : a = c
      OBVIOUS
    <3>5. PICK g : g = [s \in (Prompt \ {r}) \cup {n} |-> IF s = n THEN a ELSE IF f[s] = a THEN y ELSE f[s]]
      OBVIOUS
    <3>6. /\ g[n] = a
          /\ \A s \in Prompt \ {r} : g[s] = IF f[s] = a THEN y ELSE f[s]
      BY <3>1, <3>5
    <3>7. a \in Landed
      BY <1>1, <3>4, ConstantsAssumption DEF TypeOK, Due, Landed
    <3>8. g \in [Prompt' -> Landed']
      BY <1>2, <2>10, <3>1, <3>3, <3>5, <3>7
    <3>9. \A s, t \in (Prompt \ {r}) \cup {n} : g[s] = g[t] => s = t
      BY <2>10, <3>1, <3>2, <3>6
    <3>10. \A s \in (Prompt \ {r}) \cup {n} : Amount[g[s]] = s.amount
      BY <2>2, <2>3, <2>10, <3>1, <3>3, <3>4, <3>6
    <3>11. \A s \in (Prompt \ {r}) \cup {n} : \A d \in Credits : Held(s, d) => g[s] = d
      <4>1. \A d \in Credits : Held(n, d) => d = a
        BY <1>1, <2>3, <2>5, <3>4, KeysApart DEF Held
      <4>2. \A s \in Prompt : f[s] = a => \A d \in Credits : ~Held(s, d)
        <5> SUFFICES ASSUME NEW s \in Prompt, f[s] = a, NEW d \in Credits, Held(s, d) PROVE FALSE
          OBVIOUS
        <5>1. PICK z \in Credits : OfHook(s, z)
          BY <1>1, <1>3, <3>4, ChargedIsFree
        <5> QED
          BY <5>1, KeysApart DEF OfHook, Held
      <4> QED
        BY <2>10, <3>6, <4>1, <4>2
    <3>12. \A s \in Prompt \ {r} : \A z \in Credits : s.ref = HookKey(z) /\ s.txn = HookKey(z) => Answers(g[s], z)
      <4> SUFFICES ASSUME NEW s \in Prompt \ {r}, NEW z \in Credits, s.ref = HookKey(z), s.txn = HookKey(z)
                   PROVE  Answers(g[s], z)
        OBVIOUS
      <4>1. Answers(f[s], z)
        BY <2>10
      <4>2. CASE f[s] # a
        BY <3>6, <4>1, <4>2
      <4>3. CASE f[s] = a
        <5>1. Answers(a, z)
          BY <4>1, <4>3
        <5>2. Answers(y, z)
          BY <2>7, <3>3, <3>4, <5>1 DEF Answers
        <5> QED
          BY <3>6, <4>3, <5>2
      <4> QED
        BY <4>2, <4>3
    <3>13. \A z \in Credits : ~(n.ref = HookKey(z) /\ n.txn = HookKey(z))
      BY <1>1, <2>3, KeysApart
    <3>14. \A s \in Prompt \ {r} : \A z \in Credits : s.ref = HookKey(z) /\ s.txn = HookKey(z) => Answers(g[s], z)'
      BY <2>8, <3>12
    <3>15. Charged(g)'
      BY <1>2, <2>4, <3>1, <3>8, <3>9, <3>10, <3>11, <3>13, <3>14 DEF Charged, Held
    <3> QED
      BY <3>15 DEF Charges
  <2> QED
    BY <2>11, <2>12
<1> QED
  BY <1>4, <1>5 DEF Claim

\* A look that finds no row for a named entry finds no row of the webhook's, so
\* nothing is charged to it.
LEMMA LookCharges == ASSUME Known, Charges, NEW c \in Credits, Look(c) PROVE Charges'
<1>1. PICK f : Charged(f)
  BY DEF Charges
<1>2. Landed' = Landed /\ UNCHANGED <<rows, late>> /\ TypeOK
  BY DEF Look, Landed, Known, IInv
<1>3. ASSUME NEW r \in Prompt, poll'.step = "create" PROVE f[r] # poll'.at
  <2> DEFINE p == [poll EXCEPT !.todo = @ \ {c}, !.at = c]
  <2>1. p \in [todo : SUBSET Credits, at : Credits \cup {None}, step : {"idle", "look", "claim", "create"}] /\ p.at = c
    BY <1>2 DEF TypeOK
  <2>2. poll' = IF Existing(c) # {} THEN NextPoll(p) ELSE [p EXCEPT !.step = IF c \in Linked THEN "create" ELSE "claim"]
    BY DEF Look
  <2> HIDE DEF p
  <2>3. Existing(c) = {}
    BY <1>3, <2>1, <2>2, NextPollType
  <2>4. poll'.at = c /\ c \in Linked
    BY <1>3, <2>1, <2>2, <2>3
  <2>5. \A s \in rows : s.ref # HookKey(c) /\ s.ref # Txn(c) /\ s.txn # Txn(c)
    BY <2>3, <2>4 DEF Existing, Keys
  <2>6. r \in rows
    BY DEF Prompt
  <2>7. PICK x \in Credits : OfEntry(r, x) \/ OfTransfer(r, x) \/ OfHook(r, x)
    BY <2>6 DEF Known, RowsKnown
  <2>8. CASE OfEntry(r, x) \/ OfTransfer(r, x)
    <3>1. Held(r, x)
      BY <2>8 DEF Held, OfEntry, OfTransfer
    <3>2. f[r] = x
      BY <1>1, <3>1 DEF Charged
    <3>3. x # c
      BY <2>5, <2>6, <3>1 DEF Held
    <3> QED
      BY <2>4, <3>2, <3>3
  <2>9. CASE OfHook(r, x)
    <3>1. Answers(f[r], x)
      BY <1>1, <2>9 DEF Charged, OfHook
    <3>2. ~Booked(HookKey(c))
      BY <2>5 DEF Booked
    <3> QED
      BY <2>4, <3>1, <3>2 DEF Answers
  <2> QED
    BY <2>7, <2>8, <2>9
<1> QED
  BY <1>1, <1>2, <1>3, ChargedFrame

\* Steps that touch neither the rows nor the poller's credit in hand.
LEMMA OtherCharges ==
  ASSUME Known, Charges, UNCHANGED <<rows, late>>, Landed \subseteq Landed',
         poll' = poll \/ poll'.step # "create"
  PROVE  Charges'
<1>1. PICK f : Charged(f)
  BY DEF Charges
<1>2. \A r \in Prompt : poll'.step = "create" => f[r] # poll'.at
  BY <1>1 DEF Charged
<1> QED
  BY <1>1, <1>2, ChargedFrame

\* Reading the list puts no credit in the poller's hand.
LEMMA ReadCharges == ASSUME Known, Charges, Read PROVE Charges'
<1>1. [Idle EXCEPT !.todo = Newest \cap Due] \in
        [todo : SUBSET Credits, at : Credits \cup {None}, step : {"idle", "look", "claim", "create"}]
  BY DEF Idle, Due
<1>2. poll'.step # "create"
  BY <1>1, NextPollType DEF Read
<1> QED
  BY <1>2, OtherCharges DEF Read, Landed

\* An arrival changes no row and no charge.
LEMMA LandCharges == ASSUME Known, Charges, NEW c \in Credits, Land(c) PROVE Charges'
<1>1. TypeOK
  BY DEF Known, IInv
<1>2. landed \in Nat /\ landed' = landed + 1 /\ aged' = aged /\ aged \in Nat
  BY <1>1 DEF TypeOK, Land
<1>3. Landed \subseteq Landed'
  BY <1>1, <1>2, Monotone
<1> QED
  BY <1>3, OtherCharges DEF Land

\* The invariant is inductive under the condition on the bank's times and ids.
LEMMA NextCharges == SameMoment /\ Known /\ Charges /\ [Next]_vars => (Known /\ Charges)'
<1> SUFFICES ASSUME SameMoment, Known, Charges, [Next]_vars PROVE (Known /\ Charges)'
  OBVIOUS
<1>1. CASE \E c \in Credits : Land(c)
  BY <1>1, LandKnown, LandCharges
<1>2. CASE Age
  <2>1. Charges'
    BY <1>2, OtherCharges DEF Age, Landed
  <2> QED
    BY <1>2, <2>1, AgeKnown
<1>3. CASE \E e \in Events : Deliver(e) \/ Repair(e) \/ Create(e)
  <2>1. ASSUME NEW e \in Events, Deliver(e) PROVE Charges'
    BY <2>1, OtherCharges DEF Deliver, Landed
  <2> QED
    BY <1>3, <2>1, DeliverKnown, RepairKnown, CreateKnown, RepairCharges, CreateCharges
<1>4. CASE Polling
  BY <1>4, ReadKnown, LookKnown, ClaimKnown, RecordKnown, ReadCharges, LookCharges, ClaimCharges, RecordCharges
     DEF Polling
<1>5. CASE Crash
  <2>1. Charges'
    BY <1>5, OtherCharges DEF Crash, Landed, Idle
  <2> QED
    BY <1>5, <2>1, CrashKnown
<1>6. CASE UNCHANGED vars
  <2>1. Due' = Due /\ Landed' = Landed /\ UNCHANGED <<rows, late, poll, hook>>
    BY <1>6 DEF vars, Due, Landed
  <2>2. Charges'
    BY <2>1, OtherCharges
  <2>3. LateOK' /\ RowsKnown'
    BY <2>1, KnownFrame
  <2>4. PollOK' /\ EventsLanded'
    BY <2>1 DEF Known, PollOK, EventsLanded
  <2>5. IInv'
    BY <1>6, StutterInv DEF Known
  <2> QED
    BY <2>2, <2>3, <2>4, <2>5 DEF Known
<1> QED
  BY <1>1, <1>2, <1>3, <1>4, <1>5, <1>6 DEF Next

\* At the start there is no row to charge.
LEMMA InitCharges == Init => Known /\ Charges
<1> SUFFICES ASSUME Init PROVE Known /\ Charges
  OBVIOUS
<1>1. IInv
  BY InitInv
<1>2. Known
  BY <1>1 DEF Known, Init, PollOK, EventsLanded, LateOK, RowsKnown, Idle
<1>3. PICK f : f = [r \in {} |-> 0]
  OBVIOUS
<1>4. Prompt = {}
  BY DEF Prompt, Init
<1>5. Charged(f)
  BY <1>3, <1>4 DEF Charged
<1> QED
  BY <1>2, <1>5 DEF Charges

\* Each row is charged to a credit of its amount, and each late one to its event.
LEMMA ChargesCount == Known /\ Charges => PromptNotDoubled
<1> SUFFICES ASSUME Known, NEW f, Charged(f), NEW m \in {Amount[c] : c \in Credits}
             PROVE  Cardinality({r \in rows : r.amount = m})
                      <= Cardinality({c \in Landed : Amount[c] = m}) + Cardinality({c \in late : Amount[c] = m})
  BY DEF Charges, PromptNotDoubled
<1> DEFINE L == {c \in Landed : Amount[c] = m}
           T == {c \in late : Amount[c] = m}
           P == {r \in Prompt : r.amount = m}
           Q == {r \in rows : r.amount = m /\ Tardy(r)}
<1>1. TypeOK
  BY DEF Known, IInv
<1>2. IsFiniteSet(Landed)
  <2>1. IsFiniteSet(1..landed)
    BY <1>1, FS_Interval DEF TypeOK
  <2>2. [c \in Landed |-> Order[c]] \in Injection(Landed, 1..landed)
    BY <1>1, ConstantsAssumption DEF TypeOK, Landed, Injection, IsInjective
  <2> QED
    BY <2>1, <2>2, FS_Injection
<1>3. late \subseteq Landed
  BY <1>1, ConstantsAssumption DEF TypeOK, Due, Landed
<1>4. IsFiniteSet(L) /\ IsFiniteSet(T)
  BY <1>2, <1>3, FS_Subset
<1>5. IsFiniteSet(P) /\ Cardinality(P) <= Cardinality(L)
  <2> DEFINE g == [r \in P |-> f[r]]
  <2>1. g \in [P -> L] /\ \A r, s \in P : g[r] = g[s] => r = s
    BY DEF Charged
  <2> HIDE DEF P, L, g
  <2>2. g \in Injection(P, L)
    BY <2>1 DEF Injection, IsInjective
  <2> QED
    BY <1>4, <2>2, FS_Injection
<1>6. IsFiniteSet(Q) /\ Cardinality(Q) <= Cardinality(T)
  <2> DEFINE h == [r \in Q |-> CHOOSE c \in late : r.ref = HookKey(c)]
  <2>1. \A r \in Q : h[r] \in late /\ r.ref = HookKey(h[r])
    BY DEF Tardy
  <2>2. \A r \in Q : h[r] \in T
    <3> SUFFICES ASSUME NEW r \in Q PROVE h[r] \in T
      OBVIOUS
    <3>1. PICK s \in rows : s.ref = HookKey(h[r]) /\ s.amount = Amount[h[r]]
      BY <2>1 DEF Known, LateOK
    <3>2. s = r
      BY <1>1, <2>1, <3>1 DEF TypeOK
    <3> QED
      BY <2>1, <3>1, <3>2
  <2>3. \A r, s \in Q : h[r] = h[s] => r = s
    BY <1>1, <2>1 DEF TypeOK
  <2>4. h \in [Q -> T]
    BY <2>2
  <2> HIDE DEF Q, T, h
  <2>5. h \in Injection(Q, T)
    BY <2>3, <2>4 DEF Injection, IsInjective
  <2> QED
    BY <1>4, <2>5, FS_Injection
<1>7. {r \in rows : r.amount = m} = P \cup Q /\ P \cap Q = {}
  BY DEF Prompt
<1> HIDE DEF L, T, P, Q
<1>8. Cardinality(P \cup Q) = Cardinality(P) + Cardinality(Q)
  <2>1. Cardinality(P \cap Q) = 0
    BY <1>7, FS_EmptySet
  <2>2. Cardinality(P \cup Q) = Cardinality(P) + Cardinality(Q) - Cardinality(P \cap Q)
    BY <1>5, <1>6, FS_Union
  <2>3. Cardinality(P) \in Nat /\ Cardinality(Q) \in Nat
    BY <1>5, <1>6, FS_CardinalityType
  <2> QED
    BY <2>1, <2>2, <2>3
<1>9. Cardinality(P \cup Q) <= Cardinality(L) + Cardinality(T)
  <2>1. /\ Cardinality(P) \in Nat /\ Cardinality(Q) \in Nat
        /\ Cardinality(L) \in Nat /\ Cardinality(T) \in Nat
    BY <1>4, <1>5, <1>6, FS_CardinalityType
  <2> QED
    BY <1>5, <1>6, <1>8, <2>1
<1> QED
  BY <1>7, <1>9 DEF L, T

\* While the two ids of a credit carry the minute they were made in and KashBook's
\* own transfers are named, the rows of an amount outnumber its credits only by
\* events handled after the ten minutes: whichever of two credits of one amount and
\* one minute a row stands for, "that only swaps which sender a row shows, never the
\* money" (anchorReconcile.js:131-132).
THEOREM NeverDoubled == SameMoment => (Spec => []PromptNotDoubled)
<1>1. SameMoment /\ Known /\ Charges /\ [Next]_vars => (Known /\ Charges)'
  BY NextCharges
<1>2. Init => Known /\ Charges
  BY InitCharges
<1>3. Known /\ Charges => PromptNotDoubled
  BY ChargesCount
<1>4. ASSUME SameMoment PROVE Spec => []PromptNotDoubled
  <2>1. Known /\ Charges /\ [Next]_vars => (Known /\ Charges)'
    BY <1>1, <1>4
  <2> QED
    BY <1>2, <1>3, <2>1, PTL DEF Spec
<1> QED
  BY <1>4
=============================================================================

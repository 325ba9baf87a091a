--------------------------- MODULE InboundCredits ---------------------------
(***************************************************************************)
(* How a transfer that reached a business's bank account becomes a row of  *)
(* its transactions: the bank's webhook (routes/anchor.js) and the poller  *)
(* of the bank's list (utils/anchorReconcile.js) both book it, the first   *)
(* knowing the payment's id and the second the list's, and each tries to   *)
(* recognise what the other has booked.  One business; a row is then       *)
(* offered to its deposits and invoices (module CreditMatching).             *)
(***************************************************************************)
EXTENDS Naturals, FiniteSets

CONSTANTS
  Credits,      \* the transfers that reach the account
  Events,       \* the events the bank sends about them
  About,        \* Events -> Credits
  Kind,         \* Credits -> {"nip", "book"}: another bank's, or KashBook's own
  Amount,       \* Credits -> naira
  Order,        \* Credits -> their place in the order they arrive in
  MadeAt,       \* Credits -> minute the bank's two ids were made in
  ListAt,       \* Credits -> minute the list gives
  PaidAt,       \* Credits -> minute the webhook gives (it may be hours off)
  Timed,        \* the credits whose two ids carry the minute
  Linked,       \* the credits whose list entry names the payment or transfer
  Quoted,       \* the credits whose webhook row quotes the list's reference
  Anonymous,    \* the credits whose list entry names no sender
  ListSize,     \* how many credits the list shows
  MaxCrashes,   \* bound: restarts of the server
  None

ASSUME ConstantsAssumption ==
  /\ About \in [Events -> Credits] /\ Kind \in [Credits -> {"nip", "book"}]
  /\ Amount \in [Credits -> Nat \ {0}]
  /\ Order \in [Credits -> Nat \ {0}]
  /\ \A c, d \in Credits : Order[c] = Order[d] => c = d
  /\ MadeAt \in [Credits -> Nat] /\ ListAt \in [Credits -> Nat]
  /\ PaidAt \in [Credits -> Nat]
  /\ Timed \subseteq Credits /\ Linked \subseteq Credits
  /\ Quoted \subseteq Credits /\ Anonymous \subseteq Credits
  /\ ListSize \in Nat /\ MaxCrashes \in Nat /\ None \notin Credits

VARIABLES
  landed,    \* how many credits the bank has taken in
  aged,      \* how many of them are more than ten minutes old
  rows,      \* the income rows of the transactions table
  hook,      \* the handler of each event
  poll,      \* the poller: the list it read, the credit in hand, its step
  late,      \* the credits whose event booked a row after they were due
  crashes

vars == <<landed, aged, rows, hook, poll, late, crashes>>

-----------------------------------------------------------------------------
\* The keys a row is stored under, and the ids the bank gives
Pay(c) == <<"pay", c>>
Bk(c)  == <<"bk", c>>
Txn(c) == <<"txn", c>>
NoId   == <<"none", None>>
Ids    == {Pay(c) : c \in Credits} \cup {Bk(c) : c \in Credits}
            \cup {Txn(c) : c \in Credits} \cup {NoId}

Row == [ref : Ids, txn : Ids, amount : Nat, date : Nat, anon : BOOLEAN,
        quotes : Credits \cup {None}]

HookKey(c) == IF Kind[c] = "nip" THEN Pay(c) ELSE Bk(c)

\* Only a payment has a key of its own in the poller; a book transfer's row is
\* booked under the list's reference, whatever its entry names.
PollKey(c) == IF c \in Linked /\ Kind[c] = "nip" THEN Pay(c) ELSE Txn(c)
PollId(c)  == IF c \in Linked THEN HookKey(c) ELSE Txn(c)

Booked(ref) == \E r \in rows : r.ref = ref
Gap(m, n)   == IF m > n THEN m - n ELSE n - m
Landed      == {c \in Credits : Order[c] <= landed}
Due         == {c \in Credits : Order[c] <= aged}
Phases      == {"unsent", "sent", "repair", "create", "done"}
Working     == {"repair", "create"}
Idle        == [todo |-> {}, at |-> None, step |-> "idle"]

TypeOK ==
  /\ landed \in Nat /\ aged \in 0..landed
  /\ late \subseteq Due
  /\ rows \subseteq Row
  /\ \A r, s \in rows : r.ref = s.ref => r = s
  /\ hook \in [Events -> Phases]
  /\ poll \in [todo : SUBSET Credits, at : Credits \cup {None},
               step : {"idle", "look", "claim", "create"}]
  /\ crashes \in 0..MaxCrashes

Init ==
  /\ landed = 0 /\ aged = 0 /\ rows = {} /\ late = {} /\ crashes = 0
  /\ hook = [e \in Events |-> "unsent"]
  /\ poll = Idle

-----------------------------------------------------------------------------
(* The bank, time, the merchant, and the server's restarts *)

\* The money arrives: it is on the list, and the bank sends its events.
Land(c) ==
  /\ Order[c] = landed + 1
  /\ landed' = landed + 1
  /\ hook' = [e \in Events |-> IF About[e] = c THEN "sent" ELSE hook[e]]
  /\ UNCHANGED <<aged, rows, poll, late, crashes>>

\* Ten minutes after it arrived, the poller may take a credit up.
Age ==
  /\ aged < landed
  /\ aged' = aged + 1
  /\ UNCHANGED <<landed, rows, hook, poll, late, crashes>>

\* The bank had its 200 at once, so what a handler had left to do is lost.
Crash ==
  /\ crashes < MaxCrashes
  /\ crashes' = crashes + 1
  /\ hook' = [e \in Events |-> IF hook[e] \in Working THEN "done" ELSE hook[e]]
  /\ poll' = Idle
  /\ UNCHANGED <<landed, aged, rows, late>>

-----------------------------------------------------------------------------
(* The webhook *)

\* An event is processed once: a second delivery finds it in the ledger.
Deliver(e) ==
  /\ hook[e] = "sent"
  /\ hook' = [hook EXCEPT ![e] =
                IF Kind[About[e]] = "nip" THEN "repair" ELSE "create"]
  /\ UNCHANGED <<landed, aged, rows, poll, late, crashes>>

\* The poller's rows that a payment may be: of its amount, of no known sender,
\* and within five minutes of the time the webhook gives.
Unattributed(c) ==
  {r \in rows : /\ r.anon /\ r.ref \in {Txn(d) : d \in Credits}
                /\ r.amount = Amount[c] /\ Gap(r.date, PaidAt[c]) <= 5}

\* Under the lock: the only such row becomes the payment's.  A payment that has
\* a row already cannot take a second one: the update fails, the handler ends.
Repair(e) ==
  LET c == About[e] IN
  /\ hook[e] = "repair"
  /\ \/ /\ Cardinality(Unattributed(c)) # 1
        /\ hook' = [hook EXCEPT ![e] = "create"]
        /\ UNCHANGED rows
     \/ \E r \in Unattributed(c) :
          /\ Cardinality(Unattributed(c)) = 1
          /\ hook' = [hook EXCEPT ![e] = "done"]
          /\ rows' = IF Booked(Pay(c)) THEN rows
                     ELSE (rows \ {r}) \cup
                          {[r EXCEPT !.ref = Pay(c), !.anon = FALSE,
                              !.quotes = IF c \in Quoted THEN c ELSE None]}
  /\ UNCHANGED <<landed, aged, poll, late, crashes>>

\* Without the lock: the unique key of the row is all that stops a second one.
\* (Plausible slip: the row is looked for under the poller's key.)
CreateUnchecked(e) ==
  LET c == About[e] IN
  /\ hook[e] = "create"
  /\ hook' = [hook EXCEPT ![e] = "done"]
  /\ IF Booked(Txn(c)) THEN UNCHANGED <<rows, late>>
     ELSE /\ rows' = rows \cup
               {[ref |-> HookKey(c), txn |-> HookKey(c), amount |-> Amount[c],
                 date |-> PaidAt[c], anon |-> FALSE,
                 quotes |-> IF c \in Quoted THEN c ELSE None]}
          /\ late' = IF c \in Due THEN late \cup {c} ELSE late
  /\ UNCHANGED <<landed, aged, poll, crashes>>
Create(e) ==
  LET c == About[e] IN
  /\ hook[e] = "create"
  /\ IF Booked(HookKey(c))
     THEN /\ hook' = [hook EXCEPT ![e] = "done"]
          /\ UNCHANGED <<rows, late>>
     ELSE /\ hook' = [hook EXCEPT ![e] = "done"]
          /\ rows' = rows \cup
               {[ref |-> HookKey(c), txn |-> HookKey(c), amount |-> Amount[c],
                 date |-> PaidAt[c], anon |-> FALSE,
                 quotes |-> IF c \in Quoted THEN c ELSE None]}
          /\ late' = IF c \in Due THEN late \cup {c} ELSE late
  /\ UNCHANGED <<landed, aged, poll, crashes>>

-----------------------------------------------------------------------------
(* The poller: one at a time, by the cron lock *)

NextPoll(p) == [p EXCEPT !.at = None, !.step = IF p.todo = {} THEN "idle" ELSE "look"]

\* It reads the newest credits of the list and passes by the young ones.
Newest == {c \in Landed : Order[c] + ListSize > landed}
\* (Plausible slip: no ten minutes for the webhook.)
ReadAtOnce ==
  /\ poll = Idle
  /\ poll' = NextPoll([Idle EXCEPT !.todo = Newest])
  /\ UNCHANGED <<landed, aged, rows, hook, late, crashes>>
Read ==
  /\ poll = Idle
  /\ poll' = NextPoll([Idle EXCEPT !.todo = Newest \cap Due])
  /\ UNCHANGED <<landed, aged, rows, hook, late, crashes>>

\* The rows a list entry finds: by its keys, by its id, by its reference.
Keys(c) == {Txn(c)} \cup (IF c \in Linked THEN {HookKey(c)} ELSE {})
\* (Plausible slip: the id a repaired row keeps is not looked at.)
ExistingByKey(c) == {r \in rows : r.ref \in Keys(c) \/ r.quotes = c}
Existing(c) ==
  {r \in rows : r.ref \in Keys(c) \/ r.txn = Txn(c) \/ r.quotes = c}

Look(c) ==
  /\ poll.step = "look" /\ c \in poll.todo
  /\ LET p == [poll EXCEPT !.todo = @ \ {c}, !.at = c] IN
     poll' = IF Existing(c) # {} THEN NextPoll(p)
             ELSE [p EXCEPT !.step = IF c \in Linked THEN "create" ELSE "claim"]
  /\ UNCHANGED <<landed, aged, rows, hook, late, crashes>>

\* How far a webhook's row is from a list entry: by the minutes inside the two
\* ids when both carry one, else by the stored dates.
\* (Plausible slip: a row is free though another entry holds it.)
UnclaimedAny(r) == r.txn \in Ids
Unclaimed(r) == r.txn \in {r.ref, NoId}
TwinGap(c, r) == IF c \in Timed /\ r.ref[2] \in Timed
                 THEN Gap(MadeAt[c], MadeAt[r.ref[2]])
                 ELSE Gap(ListAt[c], r.date)
TwinWindow(c, r) == IF c \in Timed /\ r.ref[2] \in Timed THEN 0 ELSE 5
Free(c) ==
  {r \in rows : /\ r.ref \in {Pay(d) : d \in Credits} /\ r.amount = Amount[c]
                /\ Gap(ListAt[c], r.date) <= 2880
                /\ Unclaimed(r) /\ TwinGap(c, r) <= TwinWindow(c, r)}

\* Under the lock: the nearest free row of the webhook's is this credit's.
Claim ==
  LET c == poll.at IN
  /\ poll.step = "claim"
  /\ \/ /\ Free(c) = {}
        /\ poll' = [poll EXCEPT !.step = "create"]
        /\ UNCHANGED rows
     \/ \E r \in Free(c) :
          /\ \A s \in Free(c) : TwinGap(c, r) <= TwinGap(c, s)
          /\ rows' = (rows \ {r}) \cup {[r EXCEPT !.txn = Txn(c)]}
          /\ poll' = NextPoll(poll)
  /\ UNCHANGED <<landed, aged, hook, late, crashes>>

Record ==
  LET c == poll.at IN
  /\ poll.step = "create"
  /\ IF Booked(PollKey(c))
     THEN /\ poll' = NextPoll(poll)
          /\ UNCHANGED rows
     ELSE /\ poll' = NextPoll(poll)
          /\ rows' = rows \cup
               {[ref |-> PollKey(c), txn |-> PollId(c), amount |-> Amount[c],
                 date |-> ListAt[c], anon |-> c \in Anonymous \ Linked,
                 quotes |-> c]}
  /\ UNCHANGED <<landed, aged, hook, late, crashes>>

Polling == Read \/ (\E c \in Credits : Look(c)) \/ Claim \/ Record

Next ==
  \/ \E c \in Credits : Land(c)
  \/ Age
  \/ \E e \in Events : Deliver(e) \/ Repair(e) \/ Create(e)
  \/ Polling
  \/ Crash

\* The loop ticks for as long as the server lives, and time passes.  Nothing is
\* assumed of the bank's events: one may never come.
Spec == /\ Init /\ [][Next]_vars
        /\ WF_vars(Polling)
        /\ WF_vars(Age)

-----------------------------------------------------------------------------
(* Properties *)

\* A list entry is one row's: the poller never books or claims twice for one
\* credit, whatever the webhook re-keys meanwhile.
OneRowPerEntry ==
  \A c \in Credits : Cardinality({r \in rows : r.txn = Txn(c)}) <= 1

\* The business's money is never counted twice when the webhook is prompt: there
\* are more rows of an amount than credits of it only if an event booked its row
\* after the ten minutes the poller grants it.
PromptNotDoubled ==
  \A n \in {Amount[c] : c \in Credits} :
    LET Of(S) == {c \in S : Amount[c] = n} IN
    Cardinality({r \in rows : r.amount = n})
      <= Cardinality(Of(Landed)) + Cardinality(Of(late))

\* Each credit has a row of its own: no row is the answer to two list entries.
OwnRows ==
  \E f \in [Landed -> rows] :
    /\ \A c \in Landed : f[c] \in Existing(c)
    /\ \A c, d \in Landed : f[c] = f[d] => c = d

\* No money is lost, though an event never comes and the server restarts: in
\* the end every credit on the list has a row of its own.
EveryCreditBooked == []<>OwnRows

\* "All paths converge on ONE row ... whoever books first wins" (anchor.js:657).
ConvergeOnOneRow ==
  \A n \in {Amount[c] : c \in Credits} :
    Cardinality({r \in rows : r.amount = n})
      <= Cardinality({c \in Landed : Amount[c] = n})

\* "each webhook row stands for ONE list credit" (anchorReconcile.js:118).
RowStandsForOne ==
  \A c, d \in Due : \A r \in rows :
    (r.txn = Txn(c) /\ r \in Existing(d)) => c = d
=============================================================================

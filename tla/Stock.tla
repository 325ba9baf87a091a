-------------------------------- MODULE Stock --------------------------------
(***************************************************************************)
(* The stock of one business's goods: the engine (utils/stock.js), the only *)
(* code that changes an item's quantity, value and average cost, and the    *)
(* routes that call it: sales.js, invoices.js (invoices and credit notes),  *)
(* bills.js and inventory.js.  Every route holds the business lock and      *)
(* writes in one database transaction, so a request is one action; a        *)
(* refusal anywhere in it leaves nothing.  Quantities count the smallest    *)
(* unit, values are kobo, days are numbers (Today is the last of them).     *)
(***************************************************************************)
EXTENDS Integers, FiniteSets, Sequences, Functions

CONSTANTS
  Items,
  Records,     \* bound: the sales, documents and bills there may be at once
  Lists,       \* bound: the lines a sale or a document may be sent with
  BillLists,   \* bound: the lines a bill may be sent with, their cost what they come to
  Costs,       \* bound: the costs of one unit the owner may type
  Changes,     \* bound: what an adjustment may add or take away
  Counts,      \* bound: what an opening, an edit or a count may come to
  Keys,        \* bound: an item's adjustment keys (a clientRef or a uuid)
  MaxOps,      \* bound: requests
  Today, MaxQty, MaxValue,
  None

Days == 1..Today
RecordKinds == {"sale", "invoice", "credit_note", "bill"}

ASSUME StockAssumption ==
  /\ Today \in Nat \ {0}
  /\ Lists \subseteq Seq([item : Items, qty : Nat \ {0}, stocked : BOOLEAN])
  /\ BillLists \subseteq Seq([item : Items, qty : Nat \ {0}, cost : Nat])
  /\ Costs \subseteq Nat /\ Counts \subseteq Nat /\ Changes \subseteq Int \ {0} /\ MaxQty \in Nat /\ MaxValue \in Nat /\ MaxOps \in Nat /\ Items \cap (Records \cup {None}) = {}

VARIABLES
  shelf,     \* InventoryItem: quantity, stockValue, avgCost, archived
  moves,     \* StockMovement
  record,    \* Sales, Invoice and BusinessDebt rows with their lines
  lockDay,   \* booksLockDate
  costed,    \* history: the items somebody gave a cost of
  answered,  \* history: the adjustments that were answered
  ops

stockVars == <<shelf, moves, record, lockDay, costed, answered, ops>>

NoItem   == [state |-> "none", qty |-> 0, value |-> 0, avg |-> None]
NoRecord == [kind |-> "none", status |-> "none", day |-> 1, lines |-> <<>>]

StockInit ==
  /\ shelf = [i \in Items |-> NoItem]
  /\ moves = {} /\ lockDay = 0 /\ costed = {} /\ answered = {} /\ ops = 0
  /\ record = [r \in Records |-> NoRecord]

Open(days) == \A day \in days : day > lockDay

----------------------------------------------------------------------------
(***************************************************************************)
(* The engine, on a store: the shelf and its movements inside one database  *)
(* transaction, ok until something is refused.                              *)
(***************************************************************************)
Store == [shelf |-> shelf, moves |-> moves, ok |-> TRUE]
Commit(st) == st.ok /\ shelf' = st.shelf /\ moves' = st.moves
Refused(st) == [st EXCEPT !.ok = FALSE]

Qty(M)   == SumFunction([m \in M |-> m.qty])
Value(M) == SumFunction([m \in M |-> m.value])
Abs(n) == IF n < 0 THEN -n ELSE n
RoundDiv(a, b) == (2 * a + b) \div (2 * b)

\* A unit cost is a fraction k/m of kobo, in its lowest terms.
Average(k, m) ==
  LET Divides(g) == k % g = 0 /\ m % g = 0
      g == CHOOSE g \in 1..m : Divides(g) /\ \A h \in (g + 1)..m : ~Divides(h)
  IN  [k |-> k \div g, m |-> m \div g]
Whole(cost)    == [k |-> cost, m |-> 1]
CostKobo(q, c) == RoundDiv(q * c.k, c.m)

HasKey(st, key) == \E m \in st.moves : m.key = key
AtKeys(st, keys) == {m \in st.moves : m.key \in keys}

Moved(st, key, kind, i, q, v, avg, day) ==
  LET s == [st.shelf[i] EXCEPT !.qty = @ + q, !.value = @ + v, !.avg = avg]
      m == [key |-> key, kind |-> kind, item |-> i, qty |-> q, value |-> v, day |-> day]
  IN  [st EXCEPT !.shelf = [@ EXCEPT ![i] = s], !.moves = @ \cup {m}]

TakeOut(st, key, kind, i, q, day) ==
  LET s == st.shelf[i]
      value == IF q = s.qty THEN s.value ELSE RoundDiv(q * s.value, s.qty)
  IN  IF HasKey(st, key) THEN st
      ELSE IF s.state # "open" \/ q > s.qty THEN Refused(st)
      ELSE Moved(st, key, kind, i, -q, -value, s.avg, day)

\* (Plausible slip: a repeated key is not looked up.)
PutInAgain(st, key, kind, i, q, value, known, day) ==
  LET s == st.shelf[i]
      avg == IF ~known /\ s.avg = None /\ s.value + value = 0 THEN None
             ELSE Average(s.value + value, s.qty + q)
  IN  IF s.state # "open" \/ s.qty + q > MaxQty \/ s.value + value > MaxValue THEN Refused(st)
      ELSE Moved(st, key, kind, i, q, value, avg, day)

PutIn(st, key, kind, i, q, value, known, day) ==
  LET s == st.shelf[i]
      avg == IF ~known /\ s.avg = None /\ s.value + value = 0 THEN None
             ELSE Average(s.value + value, s.qty + q)
  IN  IF HasKey(st, key) THEN st
      ELSE IF s.state # "open" \/ s.qty + q > MaxQty \/ s.value + value > MaxValue THEN Refused(st)
      ELSE Moved(st, key, kind, i, q, value, avg, day)

\* Goods found or returned come back at the average, at nothing without one.
PutBack(st, key, kind, i, q, day) ==
  LET avg == st.shelf[i].avg
  IN  PutIn(st, key, kind, i, q, IF avg = None THEN 0 ELSE CostKobo(q, avg), avg # None, day)

Revalue(st, key, i, cost) ==
  LET s == st.shelf[i]
      value == IF s.qty = 0 THEN s.value ELSE s.qty * cost
      kind == IF s.avg = None THEN "opening_value" ELSE "revalue"
  IN  IF s.state # "open" \/ value > MaxValue THEN Refused(st)
      ELSE IF value = s.value THEN [st EXCEPT !.shelf[i].avg = Whole(cost)]
      ELSE Moved(st, key, kind, i, 0, value - s.value, Whole(cost), Today)

Adjusted(st, key, i, q, day) ==
  IF q < 0 THEN TakeOut(st, key, "adjustment", i, -q, day)
  ELSE PutBack(st, key, "adjustment", i, q, day)

Counted(st, key, i, q, day) ==
  IF HasKey(st, key) THEN st
  ELSE IF st.shelf[i].state # "open" THEN Refused(st)
  ELSE IF q = st.shelf[i].qty THEN st
  ELSE Adjusted(st, key, i, q - st.shelf[i].qty, day)

\* What is left of the items when these movements are undone.
LeftOver(st, keys) ==
  LET Of(i) == {m \in AtKeys(st, keys) : m.item = i}
      Left(i) == [qty   |-> st.shelf[i].qty - Qty(Of(i)),
                  value |-> st.shelf[i].value - Value(Of(i))]
  IN  [i \in {m.item : m \in AtKeys(st, keys)} |-> Left(i)]

Undone(st, keys, left) ==
  LET Row(i) == [st.shelf[i] EXCEPT !.qty = left[i].qty, !.value = left[i].value,
                   !.avg = IF left[i].qty > 0 THEN Average(left[i].value, left[i].qty) ELSE @]
  IN  [st EXCEPT !.moves = @ \ AtKeys(st, keys),
                 !.shelf = [i \in Items |-> IF i \in DOMAIN left THEN Row(i) ELSE st.shelf[i]]]

\* (Plausible slip: worth left with nothing to hold it is not refused.)
RemoveLeavingWorth(st, keys) ==
  LET left == LeftOver(st, keys)
  IN  IF \E i \in DOMAIN left : left[i].qty < 0 \/ left[i].value < 0
      THEN Refused(st) ELSE Undone(st, keys, left)

\* A record's movements undone, as if they had never been; refused when its
\* goods have left since.
RemoveBySource(st, keys) ==
  LET left == LeftOver(st, keys)
  IN  IF \E i \in DOMAIN left : \/ left[i].qty < 0 \/ left[i].value < 0
                                 \/ (left[i].qty = 0 /\ left[i].value # 0)
      THEN Refused(st) ELSE Undone(st, keys, left)

\* The movements of these keys belong to the record's new day.
Redated(st, keys, day) ==
  [st EXCEPT !.moves = (@ \ AtKeys(st, keys)) \cup {[m EXCEPT !.day = day] : m \in AtKeys(st, keys)}]

----------------------------------------------------------------------------
(***************************************************************************)
(* Records and their lines                                                  *)
(***************************************************************************)
\* A line's id.  An edit replaces every line: while it is under way the lines
\* there were have the ids Was.
Key(r, n) == <<r, 0, n>>
Was(r, n) == <<r, 1, n>>
KeysOf(r) == {Key(r, n) : n \in DOMAIN record[r].lines}
Moving(lines) == {n \in DOMAIN lines : lines[n].stocked}
MovesStock(status) == status \in {"SENT", "PARTIAL", "PAID"}

MoveLine(st, kind, key, l, day) ==
  CASE kind \in {"sale", "invoice"} -> TakeOut(st, key, kind, l.item, l.qty, day)
    [] kind = "credit_note" -> PutBack(st, key, kind, l.item, l.qty, day)
    [] kind = "bill" -> PutIn(st, key, "purchase", l.item, l.qty, l.cost, TRUE, day)

\* The lines N of a record move, in their order.
MoveLines(st, kind, r, lines, N, day) ==
  LET after[n \in 0..Len(lines)] ==
        IF n = 0 THEN st
        ELSE IF n \in N /\ after[n - 1].ok THEN MoveLine(after[n - 1], kind, Key(r, n), lines[n], day)
        ELSE after[n - 1]
  IN  after[Len(lines)]

\* The lines as saved, each with what its goods cost.
Line(l, stocked, cost) == [item |-> l.item, qty |-> l.qty, stocked |-> stocked, cost |-> cost]
WithCosts(st, r, lines) ==
  LET CostAt(key) == IF HasKey(st, key) THEN Abs((CHOOSE m \in st.moves : m.key = key).value) ELSE 0
  IN  [n \in DOMAIN lines |-> Line(lines[n], lines[n].stocked, CostAt(Key(r, n)))]

Save(r, kind, status, day, lines) ==
  record' = [record EXCEPT ![r] = [kind |-> kind, status |-> status, day |-> day, lines |-> lines]]
Erase(r) == record' = [record EXCEPT ![r] = NoRecord]
Request == ops < MaxOps /\ ops' = ops + 1
Apart == UNCHANGED <<lockDay, costed, answered>>
Is(r, kinds) == record[r].kind \in kinds
New(r) == record[r].kind = "none"

\* A record created with moving status, its lines' goods with it.
CreateSale(r, day, list) ==
  LET st == MoveLines(Store, "sale", r, list, Moving(list), day)
  IN  /\ Request /\ New(r) /\ Open({day})
      /\ Commit(st) /\ Save(r, "sale", "SENT", day, WithCosts(st, r, list))
      /\ Apart

DateSale(r, day) ==
  /\ Request /\ Is(r, {"sale"}) /\ Open({record[r].day, day})
  /\ record' = [record EXCEPT ![r].day = day]
  /\ Commit(Redated(Store, KeysOf(r), day))
  /\ Apart

DeleteSale(r) ==
  /\ Request /\ Is(r, {"sale"}) /\ Open({record[r].day})
  /\ Commit(RemoveBySource(Store, KeysOf(r))) /\ Erase(r)
  /\ Apart

----------------------------------------------------------------------------
(***************************************************************************)
(* Invoices and credit notes (a business without VAT).  A credit note's     *)
(* line is stocked when it is marked restock.                               *)
(***************************************************************************)
Documents == {"invoice", "credit_note"}

CreateDoc(r, kind, day, list, send) ==
  LET st == IF send THEN MoveLines(Store, kind, r, list, Moving(list), day) ELSE Store
  IN  /\ Request /\ New(r) /\ Open({day})
      /\ Commit(st)
      /\ Save(r, kind, IF send THEN "SENT" ELSE "DRAFT", day, WithCosts(st, r, list))
      /\ Apart

\* The saved line a new line keeps the movement of: the same item and
\* quantity, the first of them for the first, the second for the second.
Same(a, b) == a.item = b.item /\ a.qty = b.qty
Rank(lines, n) == Cardinality({k \in Moving(lines) : k <= n /\ Same(lines[k], lines[n])})
KeptFor(old, new, n) == {k \in Moving(old) : Same(old[k], new[n]) /\ Rank(old, k) = Rank(new, n)}

\* The movements as the old lines' own, then those kept as the new lines' and
\* on the document's day.
SetAside(st, r) ==
  [st EXCEPT !.moves = {IF m.key \in KeysOf(r) THEN [m EXCEPT !.key = Was(r, @[3])] ELSE m : m \in @}]
Follow(st, r, old, new, day) ==
  LET Moves(m, n) == \E k \in KeptFor(old, new, n) : m.key = Was(r, k)
  IN  [st EXCEPT !.moves = {IF \E n \in Moving(new) : Moves(m, n)
                            THEN [m EXCEPT !.key = Key(r, CHOOSE n \in Moving(new) : Moves(m, n)), !.day = day]
                            ELSE m : m \in @}]

\* PUT /invoices/:id.  An invoice's dropped goods come back before its new
\* lines take theirs; a credit note's go out again after.
EditDoc(r, day, list, send) ==
  LET cur == record[r]
      old == IF MovesStock(cur.status) THEN cur.lines ELSE <<>>
      status == IF send /\ cur.status = "DRAFT" THEN "SENT" ELSE cur.status
      stays == {k \in Moving(old) : \E n \in Moving(list) : k \in KeptFor(old, list, n)}
      dropped == {Was(r, k) : k \in Moving(old) \ stays}
      fresh == {n \in Moving(list) : KeptFor(old, list, n) = {}}
      st0 == SetAside(Store, r)
      st1 == IF cur.kind = "invoice" THEN RemoveBySource(st0, dropped) ELSE st0
      st2 == Follow(st1, r, old, list, day)
      st3 == IF MovesStock(status) /\ st2.ok THEN MoveLines(st2, cur.kind, r, list, fresh, day) ELSE st2
      st4 == IF cur.kind = "credit_note" /\ st3.ok THEN RemoveBySource(st3, dropped) ELSE st3
  IN  /\ Request /\ Is(r, Documents) /\ cur.status \in {"DRAFT", "SENT", "PARTIAL"} /\ Open({cur.day, day})
      /\ Commit(st4)
      /\ Save(r, cur.kind, status, day, WithCosts(st4, r, list))
      /\ Apart

Released(r) == RemoveBySource(Store, KeysOf(r))
MovedNow(r) == MoveLines(Store, record[r].kind, r, record[r].lines, Moving(record[r].lines), record[r].day)

\* (Plausible slip: a document voided or redrafted keeps its goods out.)
SetStatusOnly(r, to) ==
  LET cur == record[r]
  IN  /\ Request /\ Is(r, Documents) /\ cur.status \in IF to = "SENT" THEN {"DRAFT"} ELSE {"DRAFT", "SENT", "VOID"}
      /\ Open({cur.day})
      /\ LET st == IF MovesStock(to) THEN MovedNow(r) ELSE Store
         IN  Commit(st) /\ Save(r, cur.kind, to, cur.day, WithCosts(st, r, cur.lines))
      /\ Apart

\* PATCH /invoices/:id/status, of a document nothing was paid on.
SetStatus(r, to) ==
  LET cur == record[r]
      st == CASE MovesStock(cur.status) /\ ~MovesStock(to) -> Released(r)
              [] ~MovesStock(cur.status) /\ MovesStock(to) -> MovedNow(r)
              [] OTHER -> Store
  IN  /\ Request /\ Is(r, Documents) /\ cur.status \in IF to = "SENT" THEN {"DRAFT"} ELSE {"DRAFT", "SENT", "VOID"}
      /\ Open({cur.day})
      /\ Commit(st) /\ Save(r, cur.kind, to, cur.day, WithCosts(st, r, cur.lines))
      /\ Apart

\* (Plausible slip: the day the goods would leave on is not asked.)
PayUnasked(r, to) ==
  LET cur == record[r]
      sends == ~MovesStock(cur.status)
      st == IF sends THEN MovedNow(r) ELSE Store
  IN  /\ Request
      /\ \/ Is(r, {"invoice"}) /\ cur.status \in {"DRAFT", "SENT", "PARTIAL", "VOID"}
         \/ Is(r, {"credit_note"}) /\ cur.status \in {"SENT", "PARTIAL"}
      /\ Commit(st) /\ Save(r, cur.kind, to, cur.day, WithCosts(st, r, cur.lines))
      /\ Apart

\* A payment, which sends a draft (and a document voided since it was looked
\* at: that is asked before the lock); a credit note's credit is used.
Pay(r, to) ==
  LET cur == record[r]
      sends == ~MovesStock(cur.status)
      st == IF sends THEN MovedNow(r) ELSE Store
  IN  /\ Request
      /\ \/ Is(r, {"invoice"}) /\ cur.status \in {"DRAFT", "SENT", "PARTIAL", "VOID"}
         \/ Is(r, {"credit_note"}) /\ cur.status \in {"SENT", "PARTIAL"}
      /\ (sends /\ Moving(cur.lines) # {}) => Open({cur.day})
      /\ Commit(st) /\ Save(r, cur.kind, to, cur.day, WithCosts(st, r, cur.lines))
      /\ Apart

UndoPayment(r, to) ==
  /\ Request /\ Is(r, Documents) /\ record[r].status \in {"PARTIAL", "PAID"}
  /\ record' = [record EXCEPT ![r].status = to]
  /\ UNCHANGED <<shelf, moves>> /\ Apart

DeleteDoc(r) ==
  /\ Request /\ Is(r, Documents) /\ record[r].status \in {"DRAFT", "SENT", "VOID"} /\ Open({record[r].day})
  /\ Commit(Released(r)) /\ Erase(r)
  /\ Apart

----------------------------------------------------------------------------
(***************************************************************************)
(* Restocks: bills with lines                                               *)
(***************************************************************************)
BillLines(list) == [n \in DOMAIN list |-> Line(list[n], TRUE, list[n].cost)]
Priced(list) == costed' = costed \cup {list[n].item : n \in DOMAIN list}
Bought(st, r, list, day) == MoveLines(st, "bill", r, BillLines(list), DOMAIN list, day)

CreateBill(r, day, list) ==
  /\ Request /\ New(r) /\ Open({day})
  /\ Commit(Bought(Store, r, list, day)) /\ Save(r, "bill", "SENT", day, BillLines(list))
  /\ Priced(list) /\ UNCHANGED <<lockDay, answered>>

\* Lines as they were keep their movements, on the bill's new day.
EditBill(r, day, list) ==
  LET cur == record[r]
      out == RemoveBySource(Store, KeysOf(r))
  IN  /\ Request /\ Is(r, {"bill"}) /\ Open({cur.day, day})
      /\ IF BillLines(list) = cur.lines
         THEN /\ Commit(Redated(Store, KeysOf(r), day)) /\ Save(r, "bill", "SENT", day, cur.lines)
         ELSE /\ out.ok /\ Commit(Bought(out, r, list, day))
              /\ Save(r, "bill", "SENT", day, BillLines(list))
      /\ Priced(list) /\ UNCHANGED <<lockDay, answered>>

DeleteBill(r) ==
  /\ Request /\ Is(r, {"bill"}) /\ Open({record[r].day})
  /\ Commit(RemoveBySource(Store, KeysOf(r))) /\ Erase(r)
  /\ Apart

----------------------------------------------------------------------------
(***************************************************************************)
(* The item's own routes                                                    *)
(***************************************************************************)
AdjKey(i, k) == <<i, 0, k>>
Fresh(i) == {k \in Keys : ~HasKey(Store, AdjKey(i, k))}
Cost(cost, i) == costed' = IF cost = None THEN costed ELSE costed \cup {i}

CreateItem(i, q, cost) ==
  LET new == [Store EXCEPT !.shelf = [@ EXCEPT ![i] = [NoItem EXCEPT !.state = "open"]]]
      st == IF q > 0 THEN PutIn(new, <<i, 1, 0>>, "opening", i, q, IF cost = None THEN 0 ELSE q * cost, cost # None, Today)
            ELSE IF cost # None THEN Revalue(new, None, i, cost) ELSE new
  IN  /\ Request /\ shelf[i].state = "none" /\ (q > 0 => Open({Today}))
      /\ Commit(st) /\ Cost(cost, i)
      /\ UNCHANGED <<record, lockDay, answered>>

\* PATCH /inventory/:id: a new cost first, so what the count finds comes in at
\* it.  A cost that is the average to the kobo is none.
EditItem(i, cost, q) == Request /\
  \E k1, k2 \in Fresh(i) :
    LET st == IF cost = None THEN Store ELSE Revalue(Store, AdjKey(i, k1), i, cost)
    IN  /\ cost # None \/ (q # None /\ q # shelf[i].qty)
        /\ cost # None /\ shelf[i].avg # None => RoundDiv(shelf[i].avg.k, shelf[i].avg.m) # cost
        /\ cost # None /\ q # None => k1 # k2
        /\ shelf[i].state = "open" /\ Open({Today}) /\ st.ok
        /\ Commit(IF q = None THEN st ELSE Counted(st, AdjKey(i, k2), i, q, Today))
        /\ Cost(cost, i)
        /\ UNCHANGED <<record, lockDay, answered>>

\* POST /inventory/stock-value
SetUpValue(i, cost) ==
  /\ Request /\ Open({Today}) /\ \E k \in Fresh(i) : Commit(Revalue(Store, AdjKey(i, k), i, cost))
  /\ Cost(cost, i)
  /\ UNCHANGED <<record, lockDay, answered>>

\* POST /inventory/:id/adjust, by a change or by a count.
Adjust(i, k, q, day) ==
  /\ Request /\ Open({day}) /\ Commit(Adjusted(Store, AdjKey(i, k), i, q, day))
  /\ answered' = answered \cup {<<i, k>>}
  /\ UNCHANGED <<record, lockDay, costed>>

Count(i, k, q, day) ==
  /\ Request /\ Open({day}) /\ Commit(Counted(Store, AdjKey(i, k), i, q, day))
  /\ answered' = answered \cup {<<i, k>>}
  /\ UNCHANGED <<record, lockDay, costed>>

Archive(i) ==
  /\ Request /\ shelf[i].state # "none"
  /\ shelf' = [shelf EXCEPT ![i].state = IF @ = "open" THEN "archived" ELSE "open"]
  /\ UNCHANGED <<moves, record, lockDay, costed, answered>>

\* Only an item no movement (so no bill line) names; other lines let it go.
DeleteItem(i) ==
  /\ Request /\ shelf[i].state # "none" /\ \A m \in moves : m.item # i
  /\ shelf' = [shelf EXCEPT ![i] = NoItem]
  /\ record' = [r \in Records |-> [record[r] EXCEPT !.lines =
       [n \in DOMAIN @ |-> IF @[n].item = i THEN [@[n] EXCEPT !.stocked = FALSE] ELSE @[n]]]]
  /\ costed' = costed \ {i} /\ answered' = {a \in answered : a[1] # i}
  /\ UNCHANGED <<moves, lockDay>>

LockDays(day) ==
  /\ Request /\ day # lockDay /\ lockDay' = day
  /\ UNCHANGED <<shelf, moves, record, costed, answered>>

----------------------------------------------------------------------------
SaleOps == \E r \in Records :
  \/ \E day \in Days : DateSale(r, day) \/ \E list \in Lists : CreateSale(r, day, list)
  \/ DeleteSale(r)

DocOps == \E r \in Records :
  \/ \E day \in Days, list \in Lists, send \in BOOLEAN : (\E kind \in Documents : CreateDoc(r, kind, day, list, send)) \/ EditDoc(r, day, list, send)
  \/ \E to \in {"SENT", "DRAFT", "VOID"} : SetStatus(r, to)
  \/ Pay(r, "PARTIAL") \/ Pay(r, "PAID") \/ UndoPayment(r, "SENT") \/ UndoPayment(r, "PARTIAL")
  \/ DeleteDoc(r)

BillOps == \E r \in Records :
  \/ \E day \in Days, list \in BillLists : CreateBill(r, day, list) \/ EditBill(r, day, list)
  \/ DeleteBill(r)

ItemOps == \E i \in Items :
  \/ \E cost \in Costs \cup {None}, q \in Counts : CreateItem(i, q, cost) \/ EditItem(i, cost, q)
  \/ \E cost \in Costs : SetUpValue(i, cost) \/ EditItem(i, cost, None)
  \/ \E k \in Keys, day \in Days :
       \/ \E q \in Changes : Adjust(i, k, q, day)
       \/ \E q \in Counts : Count(i, k, q, day)
  \/ Archive(i) \/ DeleteItem(i)

StockNext == SaleOps \/ DocOps \/ BillOps \/ ItemOps \/ \E day \in 0..(Today - 1) : LockDays(day)
StockSpec == StockInit /\ [][StockNext]_stockVars

----------------------------------------------------------------------------
MoveKeys == (Records \X {0, 1} \X Nat) \cup (Items \X {0} \X Keys) \cup (Items \X {1} \X {0})
MoveKinds == {"sale", "invoice", "credit_note", "purchase", "opening", "opening_value", "revalue", "adjustment"}
Statuses == {"none", "DRAFT", "SENT", "PARTIAL", "PAID", "VOID"}

\* Every row has the ranges of its columns: no item ever holds less than
\* nothing, and a movement's key is its own.
StockTypeOK ==
  /\ shelf \in [Items -> [state : {"none", "open", "archived"}, qty : Nat, value : Nat,
                          avg : {None} \cup [k : Nat, m : Nat \ {0}]]]
  /\ \A m, n \in moves : m.key = n.key => m = n
  /\ moves \subseteq [key : MoveKeys, kind : MoveKinds, item : Items, qty : Int, value : Int, day : Days]
  /\ record \in [Records -> [kind : RecordKinds \cup {"none"}, status : Statuses, day : Days,
                             lines : Seq([item : Items, qty : Nat \ {0}, stocked : BOOLEAN, cost : Nat])]]
  /\ lockDay \in 0..Today /\ costed \subseteq Items /\ answered \subseteq Items \X Keys /\ ops \in Nat

\* "An item's quantity and stockValue are always the sums of its movements ...
\* and an empty shelf is worth nothing" (stock.js): Inventory Asset in the
\* ledger is the one, the items the owner sees are the other.
ShelfMatchesMoves == \A i \in Items :
  LET mine == {m \in moves : m.item = i}
  IN  /\ shelf[i].qty = Qty(mine)
      /\ shelf[i].value = Value(mine)
      /\ shelf[i].qty = 0 => shelf[i].value = 0

\* What a line says its goods cost (the books' cost of goods sold) is what
\* left the shelf for it, on the record's day; a line that should move goods
\* has, however the record was sent, edited, voided or paid, and no movement
\* outlives its record.
LinesMatchMoves ==
  /\ \A r \in Records : \A n \in DOMAIN record[r].lines :
       LET l == record[r].lines[n]
           mine == AtKeys(Store, {Key(r, n)})
       IN  IF l.stocked /\ MovesStock(record[r].status)
           THEN \E m \in mine : /\ m.item = l.item /\ Abs(m.qty) = l.qty
                                /\ Abs(m.value) = l.cost /\ m.day = record[r].day
           ELSE mine = {} /\ l.cost = 0
  /\ \A m \in moves : m.key[1] \in Records => m.key \in KeysOf(m.key[1])

\* The stock of a closed day is closed: no request changes what was on the
\* shelf, or its worth, at the end of a day the books are locked to.
OnDay(day) == [i \in Items |-> LET mine == {m \in moves : m.item = i /\ m.day <= day}
                               IN  <<Qty(mine), Value(mine)>>]
LockedStockFrozen == [][\A day \in 1..lockDay : OnDay(day)' = OnDay(day)]_stockVars

\* inventory.js of the stock-value sheet: "an opening_value movement for stock
\* that never had a value; a revalue for one that had".
FirstCostIsOpening == [][\A m \in moves' \ moves : m.kind = "revalue" => m.item \in costed]_stockVars

\* inventory.js of an adjustment: "clientRef makes a retry safe: the same one
\* again returns the first adjustment".
RetryChangesNothing ==
  [][\A m \in moves' \ moves : m.kind = "adjustment" => <<m.item, m.key[3]>> \notin answered]_stockVars
=============================================================================

-------------------------- MODULE CreditMatchingProofs --------------------------
(***************************************************************************)
(* CreditMatching for any number of credits, deposits, sales, debts,        *)
(* invoices and payments, and any sequence of requests: a credit is         *)
(* explained by one record for what that record carries, both ends of every *)
(* link agree, a debt or an invoice has been paid what its payments add up  *)
(* to, the server's two look-ups never both miss, closed days keep their    *)
(* figures, and the ledger's clearing accounts clear.                       *)
(***************************************************************************)
EXTENDS Ledger, SumLemmas, TLAPS

-----------------------------------------------------------------------------
(* The rows *)

CreditRow ==
  [at : {"away", "booked", "offered", "done"}, mark : Marks,
   sale : Sales \cup {None}, customer : Customers \cup {None},
   invoice : Invoices \cup {None}, matched : Nat]

DepositRec ==
  [status : {"none", "waiting", "done", "arrived", "cancelled"},
   day : Days, tx : Credits \cup {None}, rejected : SUBSET Credits, auto : BOOLEAN,
   was : {"none", "banked", "bankedCash"}]

PaymentRec ==
  [id : PaymentIds, of : Debts \cup Invoices, amount : Nat \ {0}, tx : Credits \cup {None},
   day : Days, was : 0..LastDay]

PaymentsOK ==
  /\ payments \subseteq PaymentRec /\ IsFiniteSet(payments)
  /\ \A p, q \in payments : p.id = q.id => p = q

RowsOK == TypeOK /\ PaymentsOK

-----------------------------------------------------------------------------
(* What ties the rows together *)

\* A credit is explained in one way.
OneWay(r) ==
  /\ r.sale # None => r.customer = None /\ r.invoice = None /\ r.mark = "none"
  /\ r.customer # None => r.invoice = None /\ r.mark = "none"
  /\ r.invoice # None => r.mark = "none"

\* A credit and its sale name each other, and a hand has linked them.
SaleAt(c) == credit[c].sale # None => sale[credit[c].sale].tx = c /\ c \notin fresh

\* A credit and its payments name each other.
PaymentsAt(c) ==
  /\ credit[c].invoice # None => \E p \in PaymentsOf(c) : p.of = credit[c].invoice
  /\ \A p \in PaymentsOf(c) : IF p.of \in Debts THEN credit[c].customer = Owner[p.of]
                              ELSE credit[c].invoice # None

MatchedAt(c) ==
  /\ credit[c].matched <= Amount[c]
  /\ credit[c].customer \in customers \cup {None} => credit[c].matched = CarriedBy(c)

CreditOK(c) == OneWay(credit[c]) /\ SaleAt(c) /\ PaymentsAt(c) /\ MatchedAt(c)

DepositsAgree ==
  /\ \A d \in Deposits : deposit[d].status = "arrived" <=> deposit[d].tx # None
  /\ \A d \in Deposits : deposit[d].tx # None =>
       /\ DepositOf(deposit[d].tx) = {d}
       /\ credit[deposit[d].tx].mark = "banked" /\ ~Linked(deposit[d].tx)
       /\ deposit[d].tx \notin deposit[d].rejected

SalesAgree ==
  \A s \in Sales : sale[s].tx # None => credit[sale[s].tx].sale = s /\ sale[s].amount > 0

\* What the payments of x add up to.
PaidSum(x) == Sum(LAMBDA p : p.amount, {p \in payments : p.of = x})

PaidAgree == \A x \in Debts \cup Invoices : paid[x] = PaidSum(x) /\ paid[x] <= Amount[x]

IInv ==
  /\ RowsOK /\ (\A c \in Credits : CreditOK(c))
  /\ DepositsAgree /\ SalesAgree /\ PaidAgree /\ NoMissedPair

-----------------------------------------------------------------------------
(* Rows as they are written *)

\* What the constants are: amounts, days, and kinds of record that do not overlap.
LEMMA Kinds ==
  /\ None \notin Credits /\ None \notin Sales /\ None \notin Customers /\ None \notin Invoices
  /\ Credits \cap Deposits = {} /\ Debts \cap Invoices = {} /\ IsFiniteSet(Debts)
  /\ \A x \in Money : Amount[x] \in Nat \ {0}
  /\ \A x \in Credits \cup Sales \cup Debts \cup Invoices : Day[x] \in Days
  /\ \A x \in Debts : Owner[x] \in Customers
  /\ Days \subseteq Nat \ {0} /\ LastDay \in Nat \ {0} /\ Days \subseteq 0..LastDay
  /\ LockDays \subseteq 0..LastDay /\ 0..LastDay \subseteq Nat /\ 1 \in Days
  /\ HandDays \subseteq Days /\ DepositDays \subseteq Days /\ SaleAmounts \subseteq Nat \ {0}
  BY CreditMatchingAssumption DEF Days

\* Every credit and deposit has the fields of its row.
LEMMA RowAt ==
  ASSUME TypeOK
  PROVE  /\ credit \in [Credits -> CreditRow] /\ deposit \in [Deposits -> DepositRec]
         /\ \A c \in Credits : credit[c] \in CreditRow
         /\ \A d \in Deposits : deposit[d] \in DepositRec
  BY DEF TypeOK, CreditRow, DepositRec

\* The fields of a Transaction row.
LEMMA CreditFields ==
  ASSUME NEW r \in CreditRow
  PROVE  /\ r.at \in {"away", "booked", "offered", "done"} /\ r.mark \in Marks
         /\ r.sale \in Sales \cup {None} /\ r.customer \in Customers \cup {None}
         /\ r.invoice \in Invoices \cup {None} /\ r.matched \in Nat
  BY DEF CreditRow

\* What a step leaves in credit c, and that it leaves the others alone.
Wrote(c, at, mark, s, k, i, n) ==
  /\ credit' \in [Credits -> CreditRow]
  /\ credit'[c].at = at /\ credit'[c].mark = mark /\ credit'[c].sale = s
  /\ credit'[c].customer = k /\ credit'[c].invoice = i /\ credit'[c].matched = n
  /\ \A b \in Credits \ {c} : credit'[b] = credit[b]

\* One credit written, the others untouched.
LEMMA RowWritten ==
  ASSUME TypeOK, NEW c \in Credits, NEW q \in CreditRow, credit' = [credit EXCEPT ![c] = q]
  PROVE  Wrote(c, q.at, q.mark, q.sale, q.customer, q.invoice, q.matched)
<1>1. credit \in [Credits -> CreditRow]
  BY RowAt
<1>2. credit' \in [Credits -> CreditRow] /\ credit'[c] = q
  BY <1>1
<1>3. \A b \in Credits \ {c} : credit'[b] = credit[b]
  BY <1>1
<1> QED
  BY <1>2, <1>3 DEF Wrote

\* A purpose written.
LEMMA MarkForm ==
  ASSUME NEW r \in CreditRow, NEW m \in Marks
  PROVE  LET q == [r EXCEPT !.mark = m]
         IN  /\ q \in CreditRow /\ q.at = r.at /\ q.mark = m /\ q.sale = r.sale
             /\ q.customer = r.customer /\ q.invoice = r.invoice /\ q.matched = r.matched
  BY DEF CreditRow, Marks

\* A step that only marks a credit.
LEMMA WroteMark ==
  ASSUME TypeOK, NEW c \in Credits, NEW m \in Marks,
         credit' = [credit EXCEPT ![c].mark = m]
  PROVE  Wrote(c, credit[c].at, m, credit[c].sale, credit[c].customer, credit[c].invoice, credit[c].matched)
<1> DEFINE r == credit[c]
           q == [r EXCEPT !.mark = m]
<1>1. credit' = [credit EXCEPT ![c] = q]
  OBVIOUS
<1>2. r \in CreditRow
  BY RowAt
<1>3. /\ q \in CreditRow /\ q.at = r.at /\ q.mark = m /\ q.sale = r.sale
      /\ q.customer = r.customer /\ q.invoice = r.invoice /\ q.matched = r.matched
  BY <1>2, MarkForm, Zenon
<1> HIDE DEF q
<1> QED
  BY <1>1, <1>3, RowWritten

\* The handler's progress written.
LEMMA AtForm ==
  ASSUME NEW r \in CreditRow, NEW a \in {"away", "booked", "offered", "done"}
  PROVE  LET q == [r EXCEPT !.at = a]
         IN  /\ q \in CreditRow /\ q.at = a /\ q.mark = r.mark /\ q.sale = r.sale
             /\ q.customer = r.customer /\ q.invoice = r.invoice /\ q.matched = r.matched
  BY DEF CreditRow, Marks

\* A step that only moves the handler on.
LEMMA WroteAt ==
  ASSUME TypeOK, NEW c \in Credits, NEW a \in {"away", "booked", "offered", "done"},
         credit' = [credit EXCEPT ![c].at = a]
  PROVE  Wrote(c, a, credit[c].mark, credit[c].sale, credit[c].customer, credit[c].invoice, credit[c].matched)
<1> DEFINE r == credit[c]
           q == [r EXCEPT !.at = a]
<1>1. credit' = [credit EXCEPT ![c] = q]
  OBVIOUS
<1>2. r \in CreditRow
  BY RowAt
<1>3. /\ q \in CreditRow /\ q.at = a /\ q.mark = r.mark /\ q.sale = r.sale
      /\ q.customer = r.customer /\ q.invoice = r.invoice /\ q.matched = r.matched
  BY <1>2, AtForm, Zenon
<1> HIDE DEF q
<1> QED
  BY <1>1, <1>3, RowWritten

\* A credit a deposit takes while it is being offered.
LEMMA BankedForm ==
  ASSUME NEW r \in CreditRow
  PROVE  LET q == [[r EXCEPT !.at = "done"] EXCEPT !.mark = "banked"]
         IN  /\ q \in CreditRow /\ q.at = "done" /\ q.mark = "banked" /\ q.sale = r.sale
             /\ q.customer = r.customer /\ q.invoice = r.invoice /\ q.matched = r.matched
  BY DEF CreditRow, Marks

\* matchArrivingCredit marks the credit and is done with it.
LEMMA WroteBanked ==
  ASSUME TypeOK, NEW c \in Credits,
         credit' = [credit EXCEPT ![c].at = "done", ![c].mark = "banked"]
  PROVE  Wrote(c, "done", "banked", credit[c].sale, credit[c].customer, credit[c].invoice, credit[c].matched)
<1> DEFINE r == credit[c]
           q == [[r EXCEPT !.at = "done"] EXCEPT !.mark = "banked"]
<1>1. credit' = [credit EXCEPT ![c] = q]
  OBVIOUS
<1>2. r \in CreditRow
  BY RowAt
<1>3. /\ q \in CreditRow /\ q.at = "done" /\ q.mark = "banked" /\ q.sale = r.sale
      /\ q.customer = r.customer /\ q.invoice = r.invoice /\ q.matched = r.matched
  BY <1>2, BankedForm, Zenon
<1> HIDE DEF q
<1> QED
  BY <1>1, <1>3, RowWritten

\* A sale link written.
LEMMA SaleForm ==
  ASSUME NEW r \in CreditRow, NEW s \in Sales \cup {None}, NEW n \in Nat
  PROVE  LET q == [[r EXCEPT !.sale = s] EXCEPT !.matched = n]
         IN  /\ q \in CreditRow /\ q.at = r.at /\ q.mark = r.mark /\ q.sale = s
             /\ q.customer = r.customer /\ q.invoice = r.invoice /\ q.matched = n
  BY DEF CreditRow, Marks

\* A step that links a credit to a sale, or takes it off one.
LEMMA WroteSale ==
  ASSUME TypeOK, NEW c \in Credits, NEW s \in Sales \cup {None}, NEW n \in Nat,
         credit' = [credit EXCEPT ![c].sale = s, ![c].matched = n]
  PROVE  Wrote(c, credit[c].at, credit[c].mark, s, credit[c].customer, credit[c].invoice, n)
<1> DEFINE r == credit[c]
           q == [[r EXCEPT !.sale = s] EXCEPT !.matched = n]
<1>1. credit' = [credit EXCEPT ![c] = q]
  OBVIOUS
<1>2. r \in CreditRow
  BY RowAt
<1>3. /\ q \in CreditRow /\ q.at = r.at /\ q.mark = r.mark /\ q.sale = s
      /\ q.customer = r.customer /\ q.invoice = r.invoice /\ q.matched = n
  BY <1>2, SaleForm DEF CreditRow
<1> HIDE DEF q
<1> QED
  BY <1>1, <1>3, RowWritten

\* The matched amount written.
LEMMA MatchedForm ==
  ASSUME NEW r \in CreditRow, NEW n \in Nat
  PROVE  LET q == [r EXCEPT !.matched = n]
         IN  /\ q \in CreditRow /\ q.at = r.at /\ q.mark = r.mark /\ q.sale = r.sale
             /\ q.customer = r.customer /\ q.invoice = r.invoice /\ q.matched = n
  BY DEF CreditRow, Marks

\* A step that only changes what is matched.
LEMMA WroteMatched ==
  ASSUME TypeOK, NEW c \in Credits, NEW n \in Nat,
         credit' = [credit EXCEPT ![c].matched = n]
  PROVE  Wrote(c, credit[c].at, credit[c].mark, credit[c].sale, credit[c].customer, credit[c].invoice, n)
<1> DEFINE r == credit[c]
           q == [r EXCEPT !.matched = n]
<1>1. credit' = [credit EXCEPT ![c] = q]
  OBVIOUS
<1>2. r \in CreditRow
  BY RowAt
<1>3. /\ q \in CreditRow /\ q.at = r.at /\ q.mark = r.mark /\ q.sale = r.sale
      /\ q.customer = r.customer /\ q.invoice = r.invoice /\ q.matched = n
  BY <1>2, MatchedForm, Zenon
<1> HIDE DEF q
<1> QED
  BY <1>1, <1>3, RowWritten

\* A customer link written.
LEMMA CustomerForm ==
  ASSUME NEW r \in CreditRow, NEW k \in Customers, NEW n \in Nat
  PROVE  LET q == [[r EXCEPT !.customer = k] EXCEPT !.matched = n]
         IN  /\ q \in CreditRow /\ q.at = r.at /\ q.mark = r.mark /\ q.sale = r.sale
             /\ q.customer = k /\ q.invoice = r.invoice /\ q.matched = n
  BY DEF CreditRow, Marks

\* A step that gives a credit to a customer's debts.
LEMMA WroteCustomer ==
  ASSUME TypeOK, NEW c \in Credits, NEW k \in Customers, NEW n \in Nat,
         credit' = [credit EXCEPT ![c].customer = k, ![c].matched = n]
  PROVE  Wrote(c, credit[c].at, credit[c].mark, credit[c].sale, k, credit[c].invoice, n)
<1> DEFINE r == credit[c]
           q == [[r EXCEPT !.customer = k] EXCEPT !.matched = n]
<1>1. credit' = [credit EXCEPT ![c] = q]
  OBVIOUS
<1>2. r \in CreditRow
  BY RowAt
<1>3. /\ q \in CreditRow /\ q.at = r.at /\ q.mark = r.mark /\ q.sale = r.sale
      /\ q.customer = k /\ q.invoice = r.invoice /\ q.matched = n
  BY <1>2, CustomerForm, Zenon
<1> HIDE DEF q
<1> QED
  BY <1>1, <1>3, RowWritten

\* An invoice link written.
LEMMA InvoiceForm ==
  ASSUME NEW r \in CreditRow, NEW i \in Invoices \cup {None}, NEW n \in Nat
  PROVE  LET q == [[r EXCEPT !.invoice = i] EXCEPT !.matched = n]
         IN  /\ q \in CreditRow /\ q.at = r.at /\ q.mark = r.mark /\ q.sale = r.sale
             /\ q.customer = r.customer /\ q.invoice = i /\ q.matched = n
  BY DEF CreditRow, Marks

\* A step that points a credit at an invoice, or at none.
LEMMA WroteInvoice ==
  ASSUME TypeOK, NEW c \in Credits, NEW i \in Invoices \cup {None}, NEW n \in Nat,
         credit' = [credit EXCEPT ![c].invoice = i, ![c].matched = n]
  PROVE  Wrote(c, credit[c].at, credit[c].mark, credit[c].sale, credit[c].customer, i, n)
<1> DEFINE r == credit[c]
           q == [[r EXCEPT !.invoice = i] EXCEPT !.matched = n]
<1>1. credit' = [credit EXCEPT ![c] = q]
  OBVIOUS
<1>2. r \in CreditRow
  BY RowAt
<1>3. /\ q \in CreditRow /\ q.at = r.at /\ q.mark = r.mark /\ q.sale = r.sale
      /\ q.customer = r.customer /\ q.invoice = i /\ q.matched = n
  BY <1>2, InvoiceForm DEF CreditRow
<1> HIDE DEF q
<1> QED
  BY <1>1, <1>3, RowWritten

\* A credit that pays the one invoice owing exactly it.
LEMMA OfferedForm ==
  ASSUME NEW r \in CreditRow, NEW i \in Invoices, NEW n \in Nat
  PROVE  LET q == [[[r EXCEPT !.at = "done"] EXCEPT !.invoice = i] EXCEPT !.matched = n]
         IN  /\ q \in CreditRow /\ q.at = "done" /\ q.mark = r.mark /\ q.sale = r.sale
             /\ q.customer = r.customer /\ q.invoice = i /\ q.matched = n
  BY DEF CreditRow, Marks

\* tryMatchInvoice links the credit and is done with it.
LEMMA WroteOffered ==
  ASSUME TypeOK, NEW c \in Credits, NEW i \in Invoices, NEW n \in Nat,
         credit' = [credit EXCEPT ![c].at = "done", ![c].invoice = i, ![c].matched = n]
  PROVE  Wrote(c, "done", credit[c].mark, credit[c].sale, credit[c].customer, i, n)
<1> DEFINE r == credit[c]
           q == [[[r EXCEPT !.at = "done"] EXCEPT !.invoice = i] EXCEPT !.matched = n]
<1>1. credit' = [credit EXCEPT ![c] = q]
  OBVIOUS
<1>2. r \in CreditRow
  BY RowAt
<1>3. /\ q \in CreditRow /\ q.at = "done" /\ q.mark = r.mark /\ q.sale = r.sale
      /\ q.customer = r.customer /\ q.invoice = i /\ q.matched = n
  BY <1>2, OfferedForm, Zenon
<1> HIDE DEF q
<1> QED
  BY <1>1, <1>3, RowWritten

\* An unmatched credit has no link left and keeps its purpose.
LEMMA WroteNone ==
  ASSUME TypeOK, NEW c \in Credits,
         credit' = [credit EXCEPT ![c] = [NoCredit EXCEPT !.at = credit[c].at, !.mark = credit[c].mark]]
  PROVE  Wrote(c, credit[c].at, credit[c].mark, None, None, None, 0)
<1> DEFINE q == [NoCredit EXCEPT !.at = credit[c].at, !.mark = credit[c].mark]
<1>1. credit[c].at \in {"away", "booked", "offered", "done"} /\ credit[c].mark \in Marks
  BY RowAt, CreditFields
<1>2. /\ q \in CreditRow /\ q.at = credit[c].at /\ q.mark = credit[c].mark /\ q.sale = None
      /\ q.customer = None /\ q.invoice = None /\ q.matched = 0
  BY <1>1 DEF CreditRow, NoCredit
<1>3. credit' = [credit EXCEPT ![c] = q]
  OBVIOUS
<1> HIDE DEF q
<1> QED
  BY <1>2, <1>3, RowWritten

-----------------------------------------------------------------------------
(* What a step leaves alone *)

\* A credit that no step touches, nor its payments and its sale.
LEMMA CreditFrame ==
  ASSUME IInv, NEW c \in Credits, credit'[c] = credit[c], PaymentsOf(c)' = PaymentsOf(c),
         customers' \subseteq customers, c \in fresh' => c \in fresh,
         credit[c].sale # None => sale'[credit[c].sale] = sale[credit[c].sale]
  PROVE  CreditOK(c)'
<1>1. CreditOK(c)
  BY DEF IInv
<1>2. CarriedBy(c)' = CarriedBy(c)
  BY DEF CarriedBy, Sum
<1>3. MatchedAt(c)'
  BY <1>1, <1>2 DEF CreditOK, MatchedAt
<1>4. PaymentsAt(c)'
  BY <1>1 DEF CreditOK, PaymentsAt
<1> QED
  BY <1>1, <1>3, <1>4 DEF CreditOK, OneWay, SaleAt

\* A credit whose stage or mark changes, and a mark only when nothing is linked.
LEMMA MarkFrame ==
  ASSUME IInv, NEW c \in Credits, UNCHANGED <<sale, payments, customers>>, c \in fresh' => c \in fresh,
         credit'[c].sale = credit[c].sale, credit'[c].customer = credit[c].customer,
         credit'[c].invoice = credit[c].invoice, credit'[c].matched = credit[c].matched,
         credit'[c].mark = credit[c].mark \/ ~Linked(c)
  PROVE  CreditOK(c)'
<1>1. CreditOK(c)
  BY DEF IInv
<1>2. PaymentsOf(c)' = PaymentsOf(c)
  BY DEF PaymentsOf
<1>3. CarriedBy(c)' = CarriedBy(c)
  BY <1>2 DEF CarriedBy, Sum
<1>4. MatchedAt(c)'
  BY <1>1, <1>3 DEF CreditOK, MatchedAt
<1>5. PaymentsAt(c)'
  BY <1>1, <1>2 DEF CreditOK, PaymentsAt
<1>6. OneWay(credit[c])' /\ SaleAt(c)'
  BY <1>1 DEF CreditOK, OneWay, SaleAt, Linked
<1> QED
  BY <1>4, <1>5, <1>6 DEF CreditOK

\* Without a payment, what has been paid still adds up.
LEMMA PaidFrame ==
  ASSUME IInv, UNCHANGED <<paid, payments>>
  PROVE  PaidAgree'
  BY DEF IInv, PaidAgree, PaidSum, Sum

\* Sales keep naming credits that keep naming them.
LEMMA SalesFrame ==
  ASSUME IInv, UNCHANGED sale, \A c \in Credits : credit[c].sale # None => credit'[c].sale = credit[c].sale
  PROVE  SalesAgree'
  BY Kinds DEF IInv, RowsOK, TypeOK, SalesAgree

\* The credit of a deposit is nothing else's.
LEMMA Deposited ==
  ASSUME IInv, NEW c \in Credits, DepositOf(c) # {}
  PROVE  credit[c].mark = "banked" /\ ~Linked(c)
<1>1. PICK d \in Deposits : deposit[d].tx = c
  BY DEF DepositOf
<1>2. c # None
  BY Kinds
<1> QED
  BY <1>1, <1>2 DEF IInv, DepositsAgree

\* A step that writes no deposit and only credits without one.
LEMMA DepositsFrame ==
  ASSUME IInv, UNCHANGED deposit,
         \A c \in Credits : DepositOf(c) # {} => credit'[c].mark = credit[c].mark /\ ~Linked(c)'
  PROVE  DepositsAgree'
<1>1. \A c : DepositOf(c)' = DepositOf(c)
  BY DEF DepositOf
<1>2. ASSUME NEW d \in Deposits, deposit'[d].tx # None
      PROVE  /\ DepositOf(deposit[d].tx)' = {d}
             /\ credit'[deposit'[d].tx].mark = "banked" /\ ~Linked(deposit[d].tx)'
             /\ deposit'[d].tx \notin deposit'[d].rejected
  <2> DEFINE c == deposit[d].tx
  <2>1. deposit[d] \in DepositRec /\ c # None /\ deposit'[d] = deposit[d]
    BY <1>2, RowAt DEF IInv, RowsOK
  <2>2. c \in Credits /\ DepositOf(c) = {d} /\ credit[c].mark = "banked" /\ c \notin deposit[d].rejected
    BY <2>1 DEF DepositRec, IInv, DepositsAgree
  <2>3. credit'[c].mark = "banked" /\ ~Linked(c)'
    BY <2>2
  <2>4. DepositOf(c)' = {d}
    BY <1>1, <2>2
  <2> QED
    BY <2>1, <2>2, <2>3, <2>4
<1> QED
  BY <1>2 DEF IInv, DepositsAgree

\* What the server has decided on stays decided while deposits and the lock date
\* stand, and a credit is left as it was, or linked, or not decided on yet, or fits
\* nothing.
LEMMA MissedFrame ==
  ASSUME IInv, UNCHANGED <<deposit, lockDay>>, fresh' \subseteq fresh,
         \A c \in Credits : c \in fresh' =>
           \/ credit'[c] = credit[c] \/ Linked(c)' \/ credit'[c].at = "booked" \/ DepositOf(c) # {}
           \/ /\ \A d \in Deposits : d \in fresh /\ deposit[d].status = "waiting" => ~Fits(deposit[d], d, c)
              /\ credit'[c].mark = credit[c].mark /\ credit'[c].matched = credit[c].matched
              /\ c \in Booked /\ ~Linked(c)
  PROVE  NoMissedPair'
<1> SUFFICES ASSUME NEW d \in Deposits, NEW c \in Credits, d \in fresh', c \in fresh',
                    deposit'[d].status = "waiting", credit'[c].at \in {"offered", "done"},
                    Fits(deposit[d], d, c)'
             PROVE  FALSE
  BY DEF NoMissedPair
<1>1. DepositOf(c) = {} /\ ~Linked(c)' /\ deposit'[d] = deposit[d]
  BY DEF Fits, Eligible, DepositOf
<1>2. CASE credit'[c] = credit[c]
  <2>1. Fits(deposit[d], d, c)
    BY <1>2 DEF Fits, Eligible, Booked, DepositOf, Linked, InWindow, Open
  <2> QED
    BY <1>1, <1>2, <2>1 DEF IInv, NoMissedPair
<1>3. CASE /\ \A e \in Deposits : e \in fresh /\ deposit[e].status = "waiting" => ~Fits(deposit[e], e, c)
           /\ credit'[c].mark = credit[c].mark /\ credit'[c].matched = credit[c].matched
           /\ c \in Booked /\ ~Linked(c)
  <2>1. Fits(deposit[d], d, c)
    BY <1>1, <1>3 DEF Fits, Eligible, InWindow, Open
  <2> QED
    BY <1>1, <1>3, <2>1
<1> QED
  BY <1>1, <1>2, <1>3

SaleRec == [amount : Nat, tx : Credits \cup {None}]

\* The rows are well formed after a step that writes well-formed ones.
LEMMA RowsFrame ==
  ASSUME credit' \in [Credits -> CreditRow], deposit' \in [Deposits -> DepositRec],
         sale' \in [Sales -> SaleRec], debts' \subseteq Debts, off' \subseteq Invoices,
         customers' \subseteq Customers, paid' \in [Debts \cup Invoices -> Nat],
         invoice' \in [Invoices -> {"open", "void"}], lockDay' \in 0..LastDay, PaymentsOK'
  PROVE  RowsOK'
<1>1. \A p \in payments' : /\ p.id \in PaymentIds /\ p.of \in Debts \cup Invoices
                           /\ p.amount \in Nat /\ p.tx \in Credits \cup {None}
                           /\ p.day \in Days /\ p.was \in 0..LastDay
  BY DEF PaymentsOK, PaymentRec
<1> QED
  BY <1>1 DEF RowsOK, TypeOK, CreditRow, DepositRec, SaleRec

\* What RowsOK says of each variable.
LEMMA RowsNow ==
  ASSUME RowsOK
  PROVE  /\ credit \in [Credits -> CreditRow] /\ deposit \in [Deposits -> DepositRec]
         /\ sale \in [Sales -> SaleRec] /\ debts \subseteq Debts /\ off \subseteq Invoices
         /\ customers \subseteq Customers /\ paid \in [Debts \cup Invoices -> Nat]
         /\ invoice \in [Invoices -> {"open", "void"}] /\ lockDay \in 0..LastDay /\ PaymentsOK
  BY DEF RowsOK, TypeOK, CreditRow, DepositRec, SaleRec

\* Steps that touch no credit, deposit, sale, payment or customer, and do not move
\* the lock date.
LEMMA Still ==
  ASSUME IInv, UNCHANGED <<credit, deposit, sale, paid, payments, customers, lockDay, fresh>>,
         debts' \subseteq Debts, off' \subseteq Invoices, invoice' \in [Invoices -> {"open", "void"}]
  PROVE  IInv'
<1>1. RowsOK'
  <2>1. PaymentsOK'
    BY RowsNow DEF IInv, PaymentsOK
  <2> QED
    BY <2>1, RowsNow, RowsFrame DEF IInv
<1>2. \A c \in Credits : CreditOK(c)'
  <2> SUFFICES ASSUME NEW c \in Credits PROVE CreditOK(c)'
    OBVIOUS
  <2>1. PaymentsOf(c)' = PaymentsOf(c)
    BY DEF PaymentsOf
  <2> QED
    BY <2>1, CreditFrame
<1>3. DepositsAgree'
  <2>1. \A c \in Credits : DepositOf(c) # {} => credit'[c].mark = credit[c].mark /\ ~Linked(c)'
    BY Deposited DEF Linked
  <2> QED
    BY <2>1, DepositsFrame
<1>4. SalesAgree' /\ PaidAgree' /\ NoMissedPair'
  BY SalesFrame, PaidFrame, MissedFrame
<1> QED
  BY <1>1, <1>2, <1>3, <1>4 DEF IInv

\* Debts and invoices come and go, requests wait: nothing a credit is explained by moves.
LEMMA StillNext ==
  ASSUME IInv,
         \/ \E k \in Customers : CheckDelete(k)
         \/ \E x \in Debts : AddDebt(x) \/ SyncCheckDebt(x) \/ SyncAddDebt(x)
         \/ \E i \in Invoices : Issue(i) \/ Void(i) \/ CheckPayment(i) \/ WriteOff(i) \/ UndoWriteOff(i)
         \/ UNCHANGED vars
  PROVE  IInv'
<1>1. UNCHANGED <<credit, deposit, sale, paid, payments, customers, lockDay, fresh>>
  BY DEF CheckDelete, AddDebt, SyncCheckDebt, SyncAddDebt, Issue, Void, CheckPayment, WriteOff,
         UndoWriteOff, vars, books
<1>2. debts' \subseteq Debts /\ off' \subseteq Invoices
  BY RowsNow DEF IInv, CheckDelete, AddDebt, SyncCheckDebt, SyncAddDebt, Issue, Void, CheckPayment,
         WriteOff, UndoWriteOff, vars, books
<1>3. invoice' \in [Invoices -> {"open", "void"}]
  <2>1. invoice \in [Invoices -> {"open", "void"}]
    BY RowsNow DEF IInv
  <2>2. \/ UNCHANGED invoice
        \/ \E i \in Invoices, s \in {"open", "void"} : invoice' = [invoice EXCEPT ![i] = s]
    BY DEF CheckDelete, AddDebt, SyncCheckDebt, SyncAddDebt, Issue, Void, CheckPayment, WriteOff,
           UndoWriteOff, vars, books
  <2> QED
    BY <2>1, <2>2
<1> QED
  BY <1>1, <1>2, <1>3, Still

\* The lock date: opening the books again makes nothing fit that was decided on.
LEMMA SetLockKeeps ==
  ASSUME IInv, NEW day \in LockDays, SetLock(day)
  PROVE  IInv'
<1>1. /\ UNCHANGED <<credit, deposit, sale, debts, paid, invoice, off, payments, customers>>
      /\ lockDay' = day
      /\ fresh' = IF day < lockDay
                  THEN {x \in fresh \cap Credits : Day[x] > lockDay} \cup (fresh \cap Deposits)
                  ELSE fresh
  BY DEF SetLock, books
<1>2. fresh' \subseteq fresh
  BY <1>1
<1>3. RowsOK'
  <2>1. PaymentsOK'
    BY <1>1, RowsNow DEF IInv, PaymentsOK
  <2>2. lockDay' \in 0..LastDay
    BY <1>1, Kinds
  <2> QED
    BY <1>1, <2>1, <2>2, RowsNow, RowsFrame DEF IInv
<1>4. \A c \in Credits : CreditOK(c)'
  <2> SUFFICES ASSUME NEW c \in Credits PROVE CreditOK(c)'
    OBVIOUS
  <2>1. PaymentsOf(c)' = PaymentsOf(c)
    BY <1>1 DEF PaymentsOf
  <2> QED
    BY <1>1, <1>2, <2>1, CreditFrame
<1>5. DepositsAgree'
  <2>1. \A c \in Credits : DepositOf(c) # {} => credit'[c].mark = credit[c].mark /\ ~Linked(c)'
    BY <1>1, Deposited DEF Linked
  <2> QED
    BY <1>1, <2>1, DepositsFrame
<1>6. SalesAgree' /\ PaidAgree'
  BY <1>1, SalesFrame, PaidFrame
<1>7. NoMissedPair'
  <2> SUFFICES ASSUME NEW d \in Deposits, NEW c \in Credits, d \in fresh', c \in fresh',
                      deposit'[d].status = "waiting", credit'[c].at \in {"offered", "done"},
                      Fits(deposit[d], d, c)'
               PROVE  FALSE
    BY DEF NoMissedPair
  <2>1. Day[c] > day
    BY <1>1 DEF Fits, Open
  <2>2. Day[c] > lockDay
    <3>1. c \notin Deposits /\ Day[c] \in Nat /\ day \in Nat /\ lockDay \in Nat
      <4>1. day \in Nat /\ Day[c] \in Nat /\ c \notin Deposits
        BY Kinds
      <4>2. lockDay \in 0..LastDay
        BY RowsNow DEF IInv
      <4> QED
        BY <4>1, <4>2
    <3> QED
      BY <1>1, <2>1, <3>1
  <2>3. Fits(deposit[d], d, c)
    BY <1>1, <2>2 DEF Fits, Eligible, Booked, DepositOf, Linked, InWindow, Open
  <2> QED
    BY <1>1, <1>2, <2>3 DEF IInv, NoMissedPair
<1> QED
  BY <1>3, <1>4, <1>5, <1>6, <1>7 DEF IInv

-----------------------------------------------------------------------------
(* Deposits, marks and the arrival of a credit *)

\* Credit c keeps its links, and its mark when it has any.
LinksStay(c) ==
  /\ credit'[c].sale = credit[c].sale /\ credit'[c].customer = credit[c].customer
  /\ credit'[c].invoice = credit[c].invoice /\ credit'[c].matched = credit[c].matched
  /\ credit'[c].mark = credit[c].mark \/ ~Linked(c)

\* Such steps only have the deposits left to look at.
LEMMA MarksKeep ==
  ASSUME IInv, UNCHANGED <<books, lockDay>>, credit' \in [Credits -> CreditRow],
         deposit' \in [Deposits -> DepositRec],
         \A c \in Credits : LinksStay(c) /\ (c \in fresh' => c \in fresh),
         DepositsAgree', NoMissedPair'
  PROVE  IInv'
<1>1. UNCHANGED <<sale, debts, paid, invoice, off, payments, customers, lockDay>>
  BY DEF books
<1>2. RowsOK'
  <2>1. PaymentsOK'
    BY <1>1, RowsNow DEF IInv, PaymentsOK
  <2> QED
    BY <1>1, <2>1, RowsNow, RowsFrame DEF IInv
<1>3. \A c \in Credits : CreditOK(c)'
  BY <1>1, MarkFrame DEF LinksStay
<1>4. SalesAgree' /\ PaidAgree'
  BY <1>1, SalesFrame, PaidFrame DEF LinksStay
<1> QED
  BY <1>2, <1>3, <1>4 DEF IInv

\* A step that moves a credit on, or marks an unlinked one, keeps every link.
LEMMA WroteLinksStay ==
  ASSUME NEW c \in Credits, NEW a, NEW m, m = credit[c].mark \/ ~Linked(c),
         Wrote(c, a, m, credit[c].sale, credit[c].customer, credit[c].invoice, credit[c].matched)
  PROVE  /\ \A b \in Credits : LinksStay(b)
         /\ credit' \in [Credits -> CreditRow]
         /\ credit'[c].at = a /\ credit'[c].mark = m /\ (Linked(c)' <=> Linked(c))
         /\ \A b \in Credits \ {c} : credit'[b] = credit[b]
  BY DEF Wrote, LinksStay, Linked

\* A credit without a deposit goes on, or is marked by hand.
LEMMA CreditOnly ==
  ASSUME IInv, UNCHANGED <<deposit, books, lockDay>>, fresh' \subseteq fresh, NEW c \in Credits,
         NEW a, NEW m, Wrote(c, a, m, credit[c].sale, credit[c].customer, credit[c].invoice, credit[c].matched),
         m = credit[c].mark \/ (~Linked(c) /\ DepositOf(c) = {}),
         \/ c \notin fresh' \/ a = "booked" \/ DepositOf(c) # {} \/ Linked(c)
         \/ /\ \A d \in Deposits : d \in fresh /\ deposit[d].status = "waiting" => ~Fits(deposit[d], d, c)
            /\ m = credit[c].mark /\ c \in Booked
  PROVE  IInv'
<1>1. /\ \A b \in Credits : LinksStay(b)
      /\ credit' \in [Credits -> CreditRow]
      /\ credit'[c].at = a /\ credit'[c].mark = m /\ (Linked(c)' <=> Linked(c))
      /\ \A b \in Credits \ {c} : credit'[b] = credit[b]
  BY WroteLinksStay
<1>2. credit'[c].matched = credit[c].matched
  BY DEF Wrote
<1>3. DepositsAgree'
  <2>1. \A b \in Credits : DepositOf(b) # {} => credit'[b].mark = credit[b].mark /\ ~Linked(b)'
    <3> SUFFICES ASSUME NEW b \in Credits, DepositOf(b) # {}
                 PROVE  credit'[b].mark = credit[b].mark /\ ~Linked(b)'
      OBVIOUS
    <3>1. ~Linked(b)
      BY Deposited
    <3>2. CASE b = c
      BY <1>1, <3>1, <3>2
    <3>3. CASE b # c
      BY <1>1, <3>1, <3>3 DEF Linked
    <3> QED
      BY <3>2, <3>3
  <2> QED
    BY <2>1, DepositsFrame
<1>4. NoMissedPair'
  <2>1. \A b \in Credits : b \in fresh' =>
           \/ credit'[b] = credit[b] \/ Linked(b)' \/ credit'[b].at = "booked" \/ DepositOf(b) # {}
           \/ /\ \A d \in Deposits : d \in fresh /\ deposit[d].status = "waiting" => ~Fits(deposit[d], d, b)
              /\ credit'[b].mark = credit[b].mark /\ credit'[b].matched = credit[b].matched
              /\ b \in Booked /\ ~Linked(b)
    BY <1>1, <1>2
  <2> QED
    BY <2>1, MissedFrame
<1>5. deposit' \in [Deposits -> DepositRec]
  BY RowsNow DEF IInv
<1> QED
  BY <1>1, <1>3, <1>4, <1>5, MarksKeep

\* The webhook and the poller book a credit nothing explains yet.
LEMMA BookKeeps == ASSUME IInv, NEW c \in Credits, Book(c) PROVE IInv'
<1>1. Wrote(c, "booked", credit[c].mark, credit[c].sale, credit[c].customer, credit[c].invoice,
            credit[c].matched)
  BY WroteAt DEF Book, IInv, RowsOK
<1> QED
  BY <1>1, CreditOnly DEF Book

\* A credit whose matchers never ran is not the server's to link any more.
LEMMA OfferLostKeeps == ASSUME IInv, NEW c \in Credits, OfferLost(c) PROVE IInv'
<1>1. PICK at \in {"offered", "done"} : credit' = [credit EXCEPT ![c].at = at] /\ credit[c].at # "away"
  BY DEF OfferLost
<1>2. Wrote(c, at, credit[c].mark, credit[c].sale, credit[c].customer, credit[c].invoice,
            credit[c].matched)
  BY <1>1, WroteAt DEF IInv, RowsOK
<1>3. fresh' = fresh \ {c} /\ UNCHANGED <<deposit, books, lockDay>>
  BY DEF OfferLost, ByHand
<1> QED
  BY <1>1, <1>2, <1>3, CreditOnly

\* classify and categorize leave deposits and links alone.
LEMMA MarkKeeps == ASSUME IInv, NEW c \in Credits, NEW m \in Marks, Mark(c, m) PROVE IInv'
<1>1. Wrote(c, credit[c].at, m, credit[c].sale, credit[c].customer, credit[c].invoice,
            credit[c].matched)
  BY WroteMark DEF Mark, IInv, RowsOK
<1>2. fresh' = fresh \ {c} /\ UNCHANGED <<deposit, books, lockDay>> /\ ~Linked(c) /\ DepositOf(c) = {}
  BY DEF Mark, ByHand
<1> QED
  BY <1>1, <1>2, CreditOnly

\* A deposit and a credit are linked.
LEMMA LinkingKeeps ==
  ASSUME IInv, NEW d \in Deposits, NEW c \in Credits, NEW a, UNCHANGED <<books, lockDay>>,
         Wrote(c, a, "banked", credit[c].sale, credit[c].customer, credit[c].invoice, credit[c].matched),
         deposit' \in [Deposits -> DepositRec], \A e \in Deposits \ {d} : deposit'[e] = deposit[e],
         deposit'[d].status = "arrived", deposit'[d].tx = c, c \notin deposit'[d].rejected,
         deposit[d].tx = None, DepositOf(c) = {}, ~Linked(c), fresh' \subseteq fresh \cup {d}
  PROVE  IInv'
<1>1. /\ \A b \in Credits : LinksStay(b)
      /\ credit' \in [Credits -> CreditRow]
      /\ credit'[c].at = a /\ credit'[c].mark = "banked" /\ (Linked(c)' <=> Linked(c))
      /\ \A b \in Credits \ {c} : credit'[b] = credit[b]
  BY WroteLinksStay
<1>2. DepositOf(c)' = {d} /\ \A b \in Credits \ {c} : DepositOf(b)' = DepositOf(b)
  <2>1. \A b \in Credits : b # None
    BY Kinds
  <2> QED
    BY <2>1 DEF DepositOf
<1>3. DepositsAgree'
  <2> SUFFICES ASSUME NEW e \in Deposits
               PROVE  /\ deposit'[e].status = "arrived" <=> deposit'[e].tx # None
                      /\ deposit'[e].tx # None =>
                           /\ DepositOf(deposit[e].tx)' = {e}
                           /\ credit'[deposit'[e].tx].mark = "banked" /\ ~Linked(deposit[e].tx)'
                           /\ deposit'[e].tx \notin deposit'[e].rejected
    BY DEF DepositsAgree
  <2>1. CASE e = d
    <3>1. deposit'[e].tx = c /\ c # None
      BY <2>1, Kinds
    <3>2. DepositOf(deposit[e].tx)' = {e} /\ ~Linked(deposit[e].tx)'
      BY <1>1, <1>2, <2>1, <3>1 DEF DepositOf, Linked
    <3> QED
      BY <1>1, <2>1, <3>1, <3>2
  <2>2. CASE e # d
    <3>1. deposit'[e] = deposit[e] /\ (deposit[e].status = "arrived" <=> deposit[e].tx # None)
      BY <2>2 DEF IInv, DepositsAgree
    <3>2. ASSUME deposit[e].tx # None
          PROVE  /\ DepositOf(deposit[e].tx)' = {e}
                 /\ credit'[deposit'[e].tx].mark = "banked" /\ ~Linked(deposit[e].tx)'
                 /\ deposit'[e].tx \notin deposit'[e].rejected
      <4> DEFINE b == deposit[e].tx
      <4>1. b \in Credits
        BY <3>2, RowAt DEF IInv, RowsOK, DepositRec
      <4>2. DepositOf(b) = {e} /\ credit[b].mark = "banked" /\ ~Linked(b) /\ b \notin deposit[e].rejected
        BY <3>2 DEF IInv, DepositsAgree
      <4>3. b # c
        BY <4>2
      <4>4. credit'[b] = credit[b] /\ {x \in Deposits : deposit'[x].tx = b} = {e}
        BY <1>1, <1>2, <4>1, <4>2, <4>3 DEF DepositOf
      <4> QED
        BY <3>1, <4>2, <4>4 DEF DepositOf, Linked
    <3> QED
      BY <3>1, <3>2
  <2> QED
    BY <2>1, <2>2
<1>4. NoMissedPair'
  <2> SUFFICES ASSUME NEW e \in Deposits, NEW b \in Credits, e \in fresh', b \in fresh',
                      deposit'[e].status = "waiting", credit'[b].at \in {"offered", "done"},
                      Fits(deposit[e], e, b)'
               PROVE  FALSE
    BY DEF NoMissedPair
  <2>1. b # c
    BY <1>2 DEF Fits, Eligible
  <2>2. e # d /\ e \in fresh /\ b \in fresh /\ deposit'[e] = deposit[e]
    BY Kinds
  <2>3. credit'[b] = credit[b] /\ DepositOf(b)' = DepositOf(b)
    BY <1>1, <1>2, <2>1
  <2>4. Fits(deposit[e], e, b)
    BY <2>2, <2>3 DEF Fits, Eligible, Booked, Linked, InWindow, Open
  <2> QED
    BY <2>2, <2>3, <2>4 DEF IInv, NoMissedPair
<1>5. \A b \in Credits : b \in fresh' => b \in fresh
  BY Kinds
<1> QED
  BY <1>1, <1>3, <1>4, <1>5, MarksKeep

\* A deposit without a credit is saved, or loses its credit; what fits it then is
\* left to a hand.
LEMMA SavingKeeps ==
  ASSUME IInv, NEW d \in Deposits, UNCHANGED <<books, lockDay>>, credit' \in [Credits -> CreditRow],
         deposit' \in [Deposits -> DepositRec], \A e \in Deposits \ {d} : deposit'[e] = deposit[e],
         deposit'[d].status # "arrived", deposit'[d].tx = None, fresh' \subseteq fresh \cup {d},
         \A c \in Credits : /\ LinksStay(c)
                            /\ c # deposit[d].tx => credit'[c] = credit[c]
                            /\ c = deposit[d].tx => c \notin fresh',
         ASSUME deposit'[d].status = "waiting", d \in fresh', NEW c \in Credits,
                credit'[c].at \in {"offered", "done"}, c \in fresh'
         PROVE  ~Fits(deposit[d], d, c)'
  PROVE  IInv'
<1>1. \A b \in Credits : b # deposit[d].tx => DepositOf(b)' = DepositOf(b)
  <2>1. \A b \in Credits : b # None
    BY Kinds
  <2> QED
    BY <2>1 DEF DepositOf
<1>2. DepositsAgree'
  <2> SUFFICES ASSUME NEW e \in Deposits
               PROVE  /\ deposit'[e].status = "arrived" <=> deposit'[e].tx # None
                      /\ deposit'[e].tx # None =>
                           /\ DepositOf(deposit[e].tx)' = {e}
                           /\ credit'[deposit'[e].tx].mark = "banked" /\ ~Linked(deposit[e].tx)'
                           /\ deposit'[e].tx \notin deposit'[e].rejected
    BY DEF DepositsAgree
  <2>1. CASE e = d
    BY <2>1
  <2>2. CASE e # d
    <3>1. deposit'[e] = deposit[e] /\ (deposit[e].status = "arrived" <=> deposit[e].tx # None)
      BY <2>2 DEF IInv, DepositsAgree
    <3>2. ASSUME deposit[e].tx # None
          PROVE  /\ DepositOf(deposit[e].tx)' = {e}
                 /\ credit'[deposit'[e].tx].mark = "banked" /\ ~Linked(deposit[e].tx)'
                 /\ deposit'[e].tx \notin deposit'[e].rejected
      <4> DEFINE b == deposit[e].tx
      <4>1. b \in Credits
        BY <3>2, RowAt DEF IInv, RowsOK, DepositRec
      <4>2. DepositOf(b) = {e} /\ credit[b].mark = "banked" /\ ~Linked(b) /\ b \notin deposit[e].rejected
        BY <3>2 DEF IInv, DepositsAgree
      <4>3. b # deposit[d].tx
        BY <2>2, <4>2 DEF DepositOf
      <4>4. credit'[b] = credit[b] /\ {x \in Deposits : deposit'[x].tx = b} = {e}
        BY <1>1, <4>1, <4>2, <4>3 DEF DepositOf
      <4> QED
        BY <3>1, <4>2, <4>4 DEF DepositOf, Linked
    <3> QED
      BY <3>1, <3>2
  <2> QED
    BY <2>1, <2>2
<1>3. NoMissedPair'
  <2> SUFFICES ASSUME NEW e \in Deposits, NEW b \in Credits, e \in fresh', b \in fresh',
                      deposit'[e].status = "waiting", credit'[b].at \in {"offered", "done"},
                      Fits(deposit[e], e, b)'
               PROVE  FALSE
    BY DEF NoMissedPair
  <2>1. e # d
    <3>1. ASSUME e = d PROVE FALSE
      <4>1. Fits(deposit[d], d, b)'
        BY <3>1
      <4> QED
        BY <3>1, <4>1
    <3> QED
      BY <3>1
  <2>2. e \in fresh /\ b \in fresh /\ deposit'[e] = deposit[e]
    BY <2>1, Kinds
  <2>3. credit'[b] = credit[b] /\ DepositOf(b)' = DepositOf(b)
    BY <1>1
  <2>4. Fits(deposit[e], e, b)
    BY <2>2, <2>3 DEF Fits, Eligible, Booked, Linked, InWindow, Open
  <2> QED
    BY <2>2, <2>3, <2>4 DEF IInv, NoMissedPair
<1>4. \A b \in Credits : b \in fresh' => b \in fresh
  BY Kinds
<1> QED
  BY <1>2, <1>3, <1>4, MarksKeep

\* The fields of a CashDeposit row.
LEMMA DepositFields ==
  ASSUME NEW x \in DepositRec
  PROVE  /\ x.status \in {"none", "waiting", "done", "arrived", "cancelled"} /\ x.day \in Days
         /\ x.tx \in Credits \cup {None} /\ x.rejected \in SUBSET Credits /\ x.auto \in BOOLEAN
         /\ x.was \in {"none", "banked", "bankedCash"}
  BY DEF DepositRec

\* One deposit written, the others untouched.
LEMMA WrittenDeposit ==
  ASSUME TypeOK, NEW d \in Deposits, NEW y \in DepositRec, deposit' = [deposit EXCEPT ![d] = y]
  PROVE  /\ deposit' \in [Deposits -> DepositRec] /\ deposit'[d] = y
         /\ \A e \in Deposits \ {d} : deposit'[e] = deposit[e]
<1>1. deposit \in [Deposits -> DepositRec]
  BY RowAt
<1> QED
  BY <1>1

\* linkCredit, of a deposit in hand.
LEMMA LinkCreditKeeps ==
  ASSUME IInv, NEW d \in Deposits, NEW dep \in DepositRec, NEW c \in Credits, NEW auto \in BOOLEAN,
         LinkCredit(dep, d, c, auto), Eligible(dep, d, c), auto => c \notin dep.rejected,
         deposit[d].tx = None, UNCHANGED <<books, lockDay>>, fresh' \subseteq fresh \cup {d}
  PROVE  IInv'
<1> DEFINE R == IF auto THEN dep.rejected ELSE dep.rejected \ {c}
           m == credit[c].mark
           y == [[[[[dep EXCEPT !.status = "arrived"] EXCEPT !.tx = c] EXCEPT !.auto = auto]
                      EXCEPT !.was = m] EXCEPT !.rejected = R]
<1>1. deposit' = [deposit EXCEPT ![d] = y] /\ credit' = [credit EXCEPT ![c].mark = "banked"]
  BY DEF LinkCredit
<1>2. m \in {"none", "banked", "bankedCash"} /\ ~Linked(c) /\ DepositOf(c) = {}
  BY DEF Eligible
<1>3. R \in SUBSET Credits /\ c \notin R
  BY DepositFields
<1>4. y \in DepositRec /\ y.status = "arrived" /\ y.tx = c /\ y.rejected = R
  <2> HIDE DEF R, m
  <2> QED
    BY <1>2, <1>3 DEF DepositRec
<1>5. Wrote(c, credit[c].at, "banked", credit[c].sale, credit[c].customer, credit[c].invoice,
            credit[c].matched)
  BY <1>1, WroteMark DEF IInv, RowsOK, Marks
<1> HIDE DEF y, R, m
<1>6. /\ deposit' \in [Deposits -> DepositRec] /\ deposit'[d] = y
      /\ \A e \in Deposits \ {d} : deposit'[e] = deposit[e]
  BY <1>1, <1>4, WrittenDeposit DEF IInv, RowsOK
<1> QED
  BY <1>2, <1>3, <1>4, <1>5, <1>6, LinkingKeeps

\* A deposit saved, and the look back.
LEMMA LookBackKeeps ==
  ASSUME IInv, NEW d \in Deposits, NEW dep \in DepositRec, LookBack(dep, d), dep.tx = None,
         dep.status \in {"waiting", "done"}, deposit[d].tx = None, UNCHANGED <<books, lockDay>>,
         fresh' = fresh \cup {d}
  PROVE  IInv'
<1> DEFINE hits == IF dep.status = "waiting" THEN {c \in Credits : Fits(dep, d, c)} ELSE {}
<1>1. CASE hits = {}
  <2>1. deposit' = [deposit EXCEPT ![d] = dep] /\ UNCHANGED credit
    BY <1>1 DEF LookBack
  <2>2. /\ deposit' \in [Deposits -> DepositRec] /\ deposit'[d] = dep
        /\ \A e \in Deposits \ {d} : deposit'[e] = deposit[e]
    BY <2>1, WrittenDeposit DEF IInv, RowsOK
  <2>3. \A c \in Credits : LinksStay(c) /\ c # deposit[d].tx /\ credit'[c] = credit[c]
    BY <2>1, Kinds DEF LinksStay
  <2>4. ASSUME deposit'[d].status = "waiting", NEW c \in Credits PROVE ~Fits(deposit[d], d, c)'
    <3>1. ~Fits(dep, d, c)
      BY <1>1, <2>2, <2>4
    <3>2. DepositOf(c)' = DepositOf(c)
      BY <2>2, Kinds DEF DepositOf
    <3> QED
      BY <2>1, <2>2, <3>1, <3>2 DEF Fits, Eligible, Booked, Linked, InWindow, Open
  <2>5. credit' \in [Credits -> CreditRow]
    BY <2>1, RowsNow DEF IInv
  <2> QED
    BY <2>2, <2>3, <2>4, <2>5, SavingKeeps
<1>2. CASE hits # {}
  <2>1. \E c \in Oldest(hits, LAMBDA x : Day[x]) : LinkCredit(dep, d, c, TRUE)
    BY <1>2 DEF LookBack
  <2>2. PICK c \in hits : LinkCredit(dep, d, c, TRUE)
    BY <2>1 DEF Oldest
  <2>3. c \in Credits /\ Fits(dep, d, c)
    BY <2>2
  <2> QED
    BY <2>2, <2>3, LinkCreditKeeps DEF Fits
<1> QED
  BY <1>1, <1>2

\* A deposit that has not arrived names no credit.
LEMMA DepositFree ==
  ASSUME IInv, NEW d \in Deposits, deposit[d].status # "arrived"
  PROVE  deposit[d] \in DepositRec /\ deposit[d].tx = None
  BY RowAt DEF IInv, RowsOK, DepositsAgree

\* A deposit recorded or edited looks back over the credits already there.
LEMMA CreateDepositKeeps ==
  ASSUME IInv, NEW d \in Deposits, NEW day \in DepositDays, NEW into \in {"kashbook", "account"},
         CreateDeposit(d, day, into) \/ EditDeposit(d, day, into)
  PROVE  IInv'
<1>1. StatusInto[into] \in {"waiting", "done"} /\ day \in Days
  BY Kinds DEF StatusInto
<1>2. /\ deposit[d].status # "arrived" /\ UNCHANGED <<books, lockDay>> /\ fresh' = fresh \cup {d}
      /\ \/ LookBack([NoDeposit EXCEPT !.status = StatusInto[into], !.day = day], d)
         \/ LookBack([deposit[d] EXCEPT !.status = StatusInto[into], !.day = day], d)
  BY DEF CreateDeposit, EditDeposit
<1>3. NoDeposit \in DepositRec /\ NoDeposit.tx = None
  <2>1. 1 \in Days
    BY Kinds
  <2> QED
    BY <2>1 DEF NoDeposit, DepositRec
<1>4. deposit[d] \in DepositRec /\ deposit[d].tx = None
  BY <1>2, DepositFree
<1>5. PICK x \in DepositRec : x.tx = None /\ LookBack([x EXCEPT !.status = StatusInto[into], !.day = day], d)
  BY <1>2, <1>3, <1>4
<1> DEFINE y == [x EXCEPT !.status = StatusInto[into], !.day = day]
<1>6. y \in DepositRec /\ y.status \in {"waiting", "done"} /\ y.tx = None
  BY <1>1, <1>5 DEF DepositRec
<1>7. LookBack(y, d)
  BY <1>5
<1> HIDE DEF y
<1> QED
  BY <1>2, <1>4, <1>6, <1>7, LookBackKeeps

\* A cancelled deposit had no credit to let go.
LEMMA CancelKeeps == ASSUME IInv, NEW d \in Deposits, CancelDeposit(d) PROVE IInv'
<1> DEFINE y == [deposit[d] EXCEPT !.status = "cancelled"]
<1>1. deposit[d] \in DepositRec /\ deposit[d].tx = None
  BY DepositFree DEF CancelDeposit
<1>2. y \in DepositRec /\ y.status = "cancelled" /\ y.tx = None
  BY <1>1 DEF DepositRec
<1>3. deposit' = [deposit EXCEPT ![d] = y] /\ UNCHANGED <<credit, books, lockDay, fresh>>
  BY DEF CancelDeposit
<1> HIDE DEF y
<1>4. /\ deposit' \in [Deposits -> DepositRec] /\ deposit'[d] = y
      /\ \A e \in Deposits \ {d} : deposit'[e] = deposit[e]
  BY <1>2, <1>3, WrittenDeposit DEF IInv, RowsOK
<1>5. \A c \in Credits : LinksStay(c) /\ c # deposit[d].tx /\ credit'[c] = credit[c]
  BY <1>1, <1>3, Kinds DEF LinksStay
<1>6. credit' \in [Credits -> CreditRow]
  BY <1>3, RowsNow DEF IInv
<1> QED
  BY <1>2, <1>3, <1>4, <1>5, <1>6, SavingKeeps

\* The owner's pick is a credit nothing else explains.
LEMMA PickKeeps ==
  ASSUME IInv, NEW d \in Deposits, NEW c \in Credits, PickTransfer(d, c)
  PROVE  IInv'
<1>1. deposit[d] \in DepositRec /\ deposit[d].tx = None
  BY DepositFree DEF PickTransfer
<1> QED
  BY <1>1, LinkCreditKeeps DEF PickTransfer, ByHand

\* An undone deposit gives its credit back and refuses it from then on.
LEMMA UndoDepositKeeps ==
  ASSUME IInv, NEW d \in Deposits, UndoDeposit(d)
  PROVE  IInv'
<1> DEFINE c == deposit[d].tx
           m == deposit[d].was
           y == [deposit[d] EXCEPT !.status = "waiting", !.tx = None, !.auto = FALSE, !.was = "none",
                                   !.rejected = @ \cup {c}]
<1>1. deposit[d] \in DepositRec /\ c \in Credits /\ m \in {"none", "banked", "bankedCash"}
  <2>1. deposit[d] \in DepositRec /\ c # None
    BY RowAt DEF IInv, RowsOK, DepositsAgree, UndoDeposit
  <2> QED
    BY <2>1, DepositFields
<1>2. credit[c].mark = "banked" /\ ~Linked(c)
  <2>1. c # None
    BY <1>1, Kinds
  <2> QED
    BY <2>1 DEF IInv, DepositsAgree
<1>3. deposit' = [deposit EXCEPT ![d] = y] /\ UNCHANGED <<books, lockDay>> /\ fresh' = fresh \ {d, c}
  <2>1. deposit' = [deposit EXCEPT ![d] = y]
    BY DEF UndoDeposit
  <2> QED
    BY DEF UndoDeposit, ByHand
<1>4. credit' = [credit EXCEPT ![c].mark = m]
  <2>1. credit' = [credit EXCEPT ![c].mark = IF @ \in {"banked", "bankedCash"} THEN m ELSE @]
    BY DEF UndoDeposit
  <2> HIDE DEF c, m
  <2> QED
    BY <1>2, <2>1
<1>5. y \in DepositRec /\ y.status = "waiting" /\ y.tx = None
  <2> HIDE DEF c
  <2> QED
    BY <1>1 DEF DepositRec
<1>6. Wrote(c, credit[c].at, m, credit[c].sale, credit[c].customer, credit[c].invoice, credit[c].matched)
  <2>1. m \in Marks
    BY <1>1 DEF Marks
  <2> HIDE DEF c, m
  <2> QED
    BY <1>1, <1>4, <2>1, WroteMark DEF IInv, RowsOK
<1> HIDE DEF y
<1>7. /\ deposit' \in [Deposits -> DepositRec] /\ deposit'[d] = y
      /\ \A e \in Deposits \ {d} : deposit'[e] = deposit[e]
  BY <1>3, <1>5, WrittenDeposit DEF IInv, RowsOK
<1>8. /\ \A b \in Credits : LinksStay(b)
      /\ credit' \in [Credits -> CreditRow]
      /\ \A b \in Credits \ {c} : credit'[b] = credit[b]
  <2> HIDE DEF c, m
  <2> QED
    BY <1>1, <1>2, <1>6, WroteLinksStay
<1> QED
  BY <1>3, <1>5, <1>7, <1>8, SavingKeeps

\* The arriving credit finds the oldest waiting deposit it fits, or none did.
LEMMA OfferToDepositsKeeps ==
  ASSUME IInv, NEW c \in Credits, OfferToDeposits(c)
  PROVE  IInv'
<1> DEFINE waiting == {d \in Deposits : deposit[d].status = "waiting" /\ Fits(deposit[d], d, c)}
<1>1. credit[c].at = "booked" /\ UNCHANGED <<books, lockDay, fresh>>
  BY DEF OfferToDeposits
<1>2. CASE DepositOf(c) # {}
  <2>1. credit' = [credit EXCEPT ![c].at = "done"] /\ UNCHANGED deposit
    BY <1>2 DEF OfferToDeposits
  <2>2. Wrote(c, "done", credit[c].mark, credit[c].sale, credit[c].customer, credit[c].invoice,
              credit[c].matched)
    BY <2>1, WroteAt DEF IInv, RowsOK
  <2> QED
    BY <1>1, <1>2, <2>1, <2>2, CreditOnly
<1>3. CASE DepositOf(c) = {} /\ waiting = {}
  <2>1. credit' = [credit EXCEPT ![c].at = "offered"] /\ UNCHANGED deposit
    BY <1>3 DEF OfferToDeposits
  <2>2. Wrote(c, "offered", credit[c].mark, credit[c].sale, credit[c].customer, credit[c].invoice,
              credit[c].matched)
    BY <2>1, WroteAt DEF IInv, RowsOK
  <2>3. (\A d \in Deposits : deposit[d].status = "waiting" => ~Fits(deposit[d], d, c)) /\ c \in Booked
    BY <1>1, <1>3 DEF Booked
  <2> QED
    BY <1>1, <2>1, <2>2, <2>3, CreditOnly
<1>4. CASE DepositOf(c) = {} /\ waiting # {}
  <2>1. PICK d \in Oldest(waiting, LAMBDA x : deposit[x].day) :
          /\ deposit' = [deposit EXCEPT ![d] = [@ EXCEPT !.status = "arrived",
                                 !.tx = c, !.auto = TRUE, !.was = "none"]]
          /\ credit' = [credit EXCEPT ![c].at = "done", ![c].mark = "banked"]
    BY <1>4 DEF OfferToDeposits
  <2>2. d \in Deposits /\ deposit[d].status = "waiting" /\ Fits(deposit[d], d, c)
    BY <2>1 DEF Oldest
  <2>3. deposit[d] \in DepositRec /\ deposit[d].tx = None /\ ~Linked(c) /\ c \notin deposit[d].rejected
    BY <2>2, DepositFree DEF Fits, Eligible
  <2> DEFINE y == [deposit[d] EXCEPT !.status = "arrived", !.tx = c, !.auto = TRUE, !.was = "none"]
  <2>4. y \in DepositRec /\ y.status = "arrived" /\ y.tx = c /\ y.rejected = deposit[d].rejected
    BY <2>3 DEF DepositRec
  <2>5. deposit' = [deposit EXCEPT ![d] = y]
    BY <2>1
  <2> HIDE DEF y
  <2>6. /\ deposit' \in [Deposits -> DepositRec] /\ deposit'[d] = y
        /\ \A e \in Deposits \ {d} : deposit'[e] = deposit[e]
    BY <2>2, <2>4, <2>5, WrittenDeposit DEF IInv, RowsOK
  <2>7. Wrote(c, "done", "banked", credit[c].sale, credit[c].customer, credit[c].invoice,
              credit[c].matched)
    BY <2>1, WroteBanked DEF IInv, RowsOK
  <2>8. fresh' \subseteq fresh \cup {d}
    BY <1>1
  <2> QED
    BY <1>1, <1>4, <2>2, <2>3, <2>4, <2>6, <2>7, <2>8, LinkingKeeps
<1> QED
  BY <1>2, <1>3, <1>4

-----------------------------------------------------------------------------
(* Sales *)

\* A credit that nothing is linked to has no payment and no matched part.
LEMMA Unlinked ==
  ASSUME IInv, NEW c \in Credits, credit[c].customer = None, credit[c].invoice = None
  PROVE  PaymentsOf(c) = {}
<1> SUFFICES ASSUME NEW p \in PaymentsOf(c) PROVE FALSE
  OBVIOUS
<1>1. p.of \in Debts \/ p.of \in Invoices
  BY DEF PaymentsOf, IInv, RowsOK, PaymentsOK, PaymentRec
<1>2. p.of \in Debts => Owner[p.of] \in Customers
  BY Kinds
<1>3. p.of \in Debts => credit[c].customer = Owner[p.of]
  BY DEF IInv, CreditOK, PaymentsAt
<1>4. p.of \notin Debts => credit[c].invoice # None
  BY DEF IInv, CreditOK, PaymentsAt
<1> QED
  BY <1>1, <1>2, <1>3, <1>4, Kinds

\* What a step on sale s leaves: the credits that are not the sale's as they were.
LEMMA SaleStep ==
  ASSUME IInv, NEW s \in Sales, NEW t \in SaleRec, sale' = [sale EXCEPT ![s] = t],
         credit' \in [Credits -> CreditRow],
         UNCHANGED <<deposit, debts, paid, invoice, off, payments, customers, lockDay>>,
         fresh' \subseteq fresh,
         \A b \in Credits : \/ credit'[b] = credit[b] /\ credit[b].sale # s
                            \/ CreditOK(b)' /\ DepositOf(b) = {} /\ b \notin fresh',
         t.tx # None => t.amount > 0 /\ t.tx \in Credits /\ credit'[t.tx].sale = s,
         \A r \in Sales \ {s} : sale[r].tx # None => credit'[sale[r].tx].sale = r
  PROVE  IInv'
<1>1. sale \in [Sales -> SaleRec]
  BY RowsNow DEF IInv
<1>2. sale' \in [Sales -> SaleRec] /\ sale'[s] = t /\ \A r \in Sales \ {s} : sale'[r] = sale[r]
  BY <1>1
<1>3. RowsOK'
  <2>1. PaymentsOK'
    BY RowsNow DEF IInv, PaymentsOK
  <2> QED
    BY <1>2, <2>1, RowsNow, RowsFrame DEF IInv
<1>4. \A b \in Credits : CreditOK(b)'
  <2> SUFFICES ASSUME NEW b \in Credits PROVE CreditOK(b)'
    OBVIOUS
  <2>1. CASE credit'[b] = credit[b] /\ credit[b].sale # s
    <3>1. PaymentsOf(b)' = PaymentsOf(b)
      BY DEF PaymentsOf
    <3>2. credit[b].sale # None => sale'[credit[b].sale] = sale[credit[b].sale]
      <4>1. credit[b].sale \in Sales \cup {None}
        BY RowAt, CreditFields DEF IInv, RowsOK
      <4> QED
        BY <1>2, <2>1, <4>1
    <3> QED
      BY <2>1, <3>1, <3>2, CreditFrame
  <2> QED
    BY <2>1
<1>5. DepositsAgree'
  <2>1. \A b \in Credits : DepositOf(b) # {} => credit'[b].mark = credit[b].mark /\ ~Linked(b)'
    BY Deposited DEF Linked
  <2> QED
    BY <2>1, DepositsFrame
<1>6. SalesAgree'
  BY <1>2 DEF SalesAgree, IInv
<1>7. PaidAgree' /\ NoMissedPair'
  <2>1. PaidAgree'
    BY PaidFrame
  <2> QED
    BY <2>1, MissedFrame
<1> QED
  BY <1>3, <1>4, <1>5, <1>6, <1>7 DEF IInv

\* A sale that no credit names.
LEMMA SaleAlone ==
  ASSUME IInv, NEW s \in Sales, NEW t \in SaleRec, sale' = [sale EXCEPT ![s] = t], t.tx = None,
         sale[s].tx = None, UNCHANGED credit,
         UNCHANGED <<deposit, debts, paid, invoice, off, payments, customers, lockDay, fresh>>
  PROVE  IInv'
<1>1. \A b \in Credits : credit[b].sale # s
  <2> SUFFICES ASSUME NEW b \in Credits, credit[b].sale = s PROVE FALSE
    OBVIOUS
  <2>1. sale[s].tx = b
    BY Kinds DEF IInv, CreditOK, SaleAt
  <2> QED
    BY <2>1, Kinds
<1>2. credit' \in [Credits -> CreditRow]
  BY RowsNow DEF IInv
<1>3. \A r \in Sales \ {s} : sale[r].tx # None => credit'[sale[r].tx].sale = r
  BY DEF IInv, SalesAgree
<1> QED
  BY <1>1, <1>2, <1>3, SaleStep

\* A sale and its credit are linked, changed or taken apart.
LEMMA SaleWithCredit ==
  ASSUME IInv, NEW s \in Sales, NEW t \in SaleRec, sale' = [sale EXCEPT ![s] = t],
         NEW c \in Credits, NEW n \in Nat, NEW z \in {s, None},
         Wrote(c, credit[c].at, credit[c].mark, z, credit[c].customer, credit[c].invoice, n),
         UNCHANGED <<deposit, debts, paid, invoice, off, payments, customers, lockDay>>,
         fresh' \subseteq fresh, c \notin fresh', DepositOf(c) = {},
         credit[c].mark = "none", credit[c].customer = None, credit[c].invoice = None,
         credit[c].sale \in {s, None}, sale[s].tx \in {c, None},
         z = s => t.tx = c /\ t.amount > 0 /\ n = Least(t.amount, Amount[c]),
         z = None => n = 0 /\ t.tx = None
  PROVE  IInv'
<1>1. /\ credit' \in [Credits -> CreditRow] /\ credit'[c].sale = z /\ credit'[c].customer = None
      /\ credit'[c].invoice = None /\ credit'[c].mark = "none" /\ credit'[c].matched = n
      /\ \A b \in Credits \ {c} : credit'[b] = credit[b]
  BY DEF Wrote
<1>2. PaymentsOf(c)' = {}
  BY Unlinked DEF PaymentsOf
<1>3. sale'[s] = t
  BY RowsNow DEF IInv
<1>4. n <= Amount[c] /\ n = CarriedBy(c)'
  <2>1. Amount[c] \in Nat \ {0}
    BY Kinds DEF Money
  <2>2. t.amount \in Nat
    BY DEF SaleRec
  <2>3. CASE z = s
    <3>1. CarriedBy(c)' = Least(t.amount, Amount[c])
      BY <1>1, <1>3, <2>3, Kinds DEF CarriedBy
    <3> QED
      BY <2>1, <2>2, <2>3, <3>1 DEF Least
  <2>4. CASE z = None
    <3>1. CarriedBy(c)' = SumFunction([p \in {} |-> p.amount])
      BY <1>1, <1>2, <2>4, Zenon DEF CarriedBy, Sum
    <3>2. SumFunction([p \in {} |-> p.amount]) = 0
      BY SumEmpty
    <3> QED
      BY <2>1, <2>4, <3>1, <3>2
  <2> QED
    BY <2>3, <2>4
<1>5. CreditOK(c)'
  <2>1. MatchedAt(c)' /\ PaymentsAt(c)'
    BY <1>1, <1>2, <1>4 DEF MatchedAt, PaymentsAt
  <2>2. OneWay(credit[c])' /\ SaleAt(c)'
    BY <1>1, <1>3 DEF OneWay, SaleAt
  <2> QED
    BY <2>1, <2>2 DEF CreditOK
<1>6. \A b \in Credits \ {c} : credit[b].sale # s
  <2> SUFFICES ASSUME NEW b \in Credits \ {c}, credit[b].sale = s PROVE FALSE
    OBVIOUS
  <2>1. sale[s].tx = b
    BY Kinds DEF IInv, CreditOK, SaleAt
  <2> QED
    BY <2>1, Kinds
<1>7. \A r \in Sales \ {s} : sale[r].tx # None => credit'[sale[r].tx].sale = r
  <2> SUFFICES ASSUME NEW r \in Sales \ {s}, sale[r].tx # None PROVE credit'[sale[r].tx].sale = r
    OBVIOUS
  <2>1. credit[sale[r].tx].sale = r /\ sale[r].tx \in Credits
    BY RowsNow DEF IInv, SalesAgree, SaleRec
  <2>2. sale[r].tx # c
    BY <2>1, Kinds
  <2> QED
    BY <1>1, <2>1, <2>2
<1>8. t.tx # None => t.amount > 0 /\ t.tx \in Credits /\ credit'[t.tx].sale = s
  BY <1>1
<1>9. \A b \in Credits : \/ credit'[b] = credit[b] /\ credit[b].sale # s
                         \/ CreditOK(b)' /\ DepositOf(b) = {} /\ b \notin fresh'
  BY <1>1, <1>5, <1>6
<1> QED
  BY <1>1, <1>7, <1>8, <1>9, SaleStep

\* The fields of a Sales row.
LEMMA SaleFields ==
  ASSUME IInv, NEW s \in Sales
  PROVE  sale[s] \in SaleRec /\ sale[s].amount \in Nat /\ sale[s].tx \in Credits \cup {None}
  BY RowsNow DEF IInv, SaleRec

\* The smaller of two amounts is an amount.
LEMMA LeastNat == ASSUME NEW a \in Nat, NEW b \in Nat PROVE Least(a, b) \in Nat
  BY DEF Least

\* Nothing explains a credit the transactions screen may match.
LEMMA MatchableCredit ==
  ASSUME NEW c \in Credits, Matchable(c)
  PROVE  /\ credit[c].mark = "none" /\ credit[c].sale = None /\ credit[c].customer = None
         /\ credit[c].invoice = None /\ DepositOf(c) = {} /\ c \in Booked
  BY DEF Matchable, Explained, Linked

\* A credit matched to a sale that has no transfer.
LEMMA MatchSaleKeeps ==
  ASSUME IInv, NEW c \in Credits, NEW s \in Sales, MatchSale(c, s)
  PROVE  IInv'
<1> DEFINE n == Least(sale[s].amount, Amount[c])
           t == [sale[s] EXCEPT !.tx = c]
<1>1. /\ sale' = [sale EXCEPT ![s] = t] /\ credit' = [credit EXCEPT ![c].sale = s, ![c].matched = n]
      /\ UNCHANGED <<deposit, debts, paid, invoice, off, payments, customers, lockDay>>
      /\ fresh' = fresh \ {c} /\ Matchable(c) /\ sale[s].amount > 0 /\ sale[s].tx = None
  <2>1. sale' = [sale EXCEPT ![s] = t]
    BY DEF MatchSale
  <2> QED
    BY <2>1 DEF MatchSale, ByHand
<1>2. n \in Nat
  BY SaleFields, LeastNat, Kinds DEF Money
<1>3. t \in SaleRec /\ t.tx = c /\ t.amount = sale[s].amount
  BY SaleFields DEF SaleRec
<1> HIDE DEF n, t
<1>4. Wrote(c, credit[c].at, credit[c].mark, s, credit[c].customer, credit[c].invoice, n)
  BY <1>1, <1>2, WroteSale DEF IInv, RowsOK
<1>5. s # None
  BY Kinds
<1> QED
  BY <1>1, <1>2, <1>3, <1>4, <1>5, MatchableCredit, SaleWithCredit DEF n

\* A sale made from a credit, never for more than it.
LEMMA CreateSaleKeeps ==
  ASSUME IInv, NEW c \in Credits, NEW s \in Sales, NEW a \in 1..Amount[c], CreateSale(c, s, a)
  PROVE  IInv'
<1> DEFINE t == [amount |-> a, tx |-> c]
<1>1. /\ sale' = [sale EXCEPT ![s] = t] /\ credit' = [credit EXCEPT ![c].sale = s, ![c].matched = a]
      /\ UNCHANGED <<deposit, debts, paid, invoice, off, payments, customers, lockDay>>
      /\ fresh' = fresh \ {c} /\ Matchable(c) /\ sale[s].amount = 0
  BY DEF CreateSale, ByHand
<1>2. a \in Nat /\ a > 0 /\ a = Least(a, Amount[c])
  BY Kinds DEF Money, Least
<1>3. t \in SaleRec /\ t.tx = c /\ t.amount = a
  BY <1>2 DEF SaleRec
<1> HIDE DEF t
<1>4. Wrote(c, credit[c].at, credit[c].mark, s, credit[c].customer, credit[c].invoice, a)
  BY <1>1, <1>2, WroteSale DEF IInv, RowsOK
<1>5. sale[s].tx = None
  BY <1>1 DEF IInv, SalesAgree
<1>6. s # None
  BY Kinds
<1> QED
  BY <1>1, <1>2, <1>3, <1>4, <1>5, <1>6, MatchableCredit, SaleWithCredit

\* The credit of a sale.
LEMMA CreditOfSale ==
  ASSUME IInv, NEW s \in Sales, sale[s].tx # None
  PROVE  LET c == sale[s].tx
         IN  /\ c \in Credits /\ credit[c].sale = s /\ credit[c].customer = None
             /\ credit[c].invoice = None /\ credit[c].mark = "none" /\ DepositOf(c) = {}
             /\ c \notin fresh
<1> DEFINE c == sale[s].tx
<1>1. c \in Credits /\ credit[c].sale = s /\ s # None
  BY SaleFields, Kinds DEF IInv, SalesAgree
<1>2. CreditOK(c)
  BY <1>1 DEF IInv
<1>3. DepositOf(c) = {}
  BY <1>1, Deposited DEF Linked
<1> QED
  BY <1>1, <1>2, <1>3 DEF CreditOK, OneWay, SaleAt

\* The matched part of a credit follows its sale's amount.
LEMMA SaveSaleKeeps ==
  ASSUME IInv, NEW s \in Sales, NEW a \in SaleAmounts, SaveSale(s, a)
  PROVE  IInv'
<1> DEFINE c == sale[s].tx
           t == [sale[s] EXCEPT !.amount = a]
<1>1. /\ UNCHANGED <<deposit, debts, paid, invoice, off, payments, customers, lockDay, fresh>>
      /\ credit' = IF c = None \/ credit[c].sale # s THEN credit
                   ELSE [credit EXCEPT ![c].matched = Least(a, Amount[c])]
  BY DEF SaveSale
<1>2. sale' = [sale EXCEPT ![s] = t]
  BY DEF SaveSale
<1>3. a \in Nat /\ a > 0
  BY Kinds
<1>4. t \in SaleRec /\ t.tx = c /\ t.amount = a
  BY <1>3, SaleFields DEF SaleRec
<1> HIDE DEF t
<1>5. CASE c = None
  BY <1>1, <1>2, <1>4, <1>5, SaleAlone
<1>6. CASE c # None
  <2>1. /\ c \in Credits /\ credit[c].sale = s /\ credit[c].customer = None
        /\ credit[c].invoice = None /\ credit[c].mark = "none" /\ DepositOf(c) = {}
        /\ c \notin fresh
    BY <1>6, CreditOfSale
  <2> DEFINE n == Least(a, Amount[c])
  <2>2. n \in Nat
    BY <1>3, <2>1, LeastNat, Kinds DEF Money
  <2>3. credit' = [credit EXCEPT ![c].matched = n]
    BY <1>1, <1>6, <2>1
  <2>4. sale[s].tx = c
    OBVIOUS
  <2> HIDE DEF n, c
  <2>5. Wrote(c, credit[c].at, credit[c].mark, credit[c].sale, credit[c].customer, credit[c].invoice, n)
    BY <2>1, <2>2, <2>3, WroteMatched DEF IInv, RowsOK
  <2>6. Wrote(c, credit[c].at, credit[c].mark, s, credit[c].customer, credit[c].invoice, n)
    BY <2>1, <2>5
  <2>7. s # None
    BY Kinds
  <2> QED
    BY <1>1, <1>2, <1>3, <1>4, <2>1, <2>2, <2>4, <2>6, <2>7, SaleWithCredit DEF n
<1> QED
  BY <1>5, <1>6

\* A deleted sale lets its credit go.
LEMMA DeleteSaleKeeps ==
  ASSUME IInv, NEW s \in Sales, DeleteSale(s)
  PROVE  IInv'
<1> DEFINE c == sale[s].tx
           t == [amount |-> 0, tx |-> None]
<1>1. /\ UNCHANGED <<deposit, debts, paid, invoice, off, payments, customers, lockDay, fresh>>
      /\ credit' = IF c = None \/ credit[c].sale # s THEN credit
                   ELSE [credit EXCEPT ![c].sale = None, ![c].matched = 0]
  BY DEF DeleteSale
<1>2. sale' = [sale EXCEPT ![s] = t]
  BY DEF DeleteSale
<1>3. t \in SaleRec /\ t.tx = None
  BY DEF SaleRec
<1> HIDE DEF t
<1>4. CASE c = None
  BY <1>1, <1>2, <1>3, <1>4, SaleAlone
<1>5. CASE c # None
  <2>1. /\ c \in Credits /\ credit[c].sale = s /\ credit[c].customer = None
        /\ credit[c].invoice = None /\ credit[c].mark = "none" /\ DepositOf(c) = {}
        /\ c \notin fresh
    BY <1>5, CreditOfSale
  <2>2. credit' = [credit EXCEPT ![c].sale = None, ![c].matched = 0]
    BY <1>1, <1>5, <2>1
  <2>3. sale[s].tx = c /\ s # None
    BY Kinds
  <2> HIDE DEF c
  <2>4. Wrote(c, credit[c].at, credit[c].mark, None, credit[c].customer, credit[c].invoice, 0)
    BY <2>1, <2>2, WroteSale DEF IInv, RowsOK
  <2> QED
    BY <1>1, <1>2, <1>3, <2>1, <2>3, <2>4, SaleWithCredit
<1> QED
  BY <1>4, <1>5

-----------------------------------------------------------------------------
(* What payments add up to *)

Total(S) == SumFunction([p \in S |-> p.amount])

\* What a record has been paid, and what a credit carries, are totals of payments.
LEMMA Totals ==
  /\ \A x : PaidSum(x) = Total({p \in payments : p.of = x})
  /\ \A c \in Credits : credit[c].sale = None => CarriedBy(c) = Total(PaymentsOf(c))
  BY DEF PaidSum, CarriedBy, Sum, Total

\* No payments, nothing paid.
LEMMA TotalNone == Total({}) = 0
<1>1. DOMAIN [p \in {} |-> p.amount] = {}
  OBVIOUS
<1> QED
  BY <1>1, SumEmpty DEF Total

\* A total of payments is an amount.
LEMMA TotalNat ==
  ASSUME NEW S, S \subseteq PaymentRec, IsFiniteSet(S)
  PROVE  Total(S) \in Nat
<1> DEFINE f == [p \in S |-> p.amount]
<1>1. DOMAIN f = S /\ \A p \in DOMAIN f : f[p] \in Nat
  BY DEF PaymentRec
<1> HIDE DEF f
<1>2. SumFunction(f) \in Nat
  BY <1>1, SumNat
<1> QED
  BY <1>2 DEF Total, f

\* A payment more adds what it is for.
LEMMA TotalWith ==
  ASSUME NEW S, S \subseteq PaymentRec, IsFiniteSet(S), NEW q \in PaymentRec, q \notin S
  PROVE  Total(S \cup {q}) = Total(S) + q.amount
<1> DEFINE T == S \cup {q}
           f == [p \in S |-> p.amount]
           g == [p \in T |-> p.amount]
<1>1. /\ DOMAIN f = S /\ DOMAIN g = S \cup {q} /\ g[q] = q.amount
      /\ \A p \in DOMAIN f : g[p] = f[p]
  OBVIOUS
<1>2. \A p \in DOMAIN g : g[p] \in Int
  BY DEF PaymentRec
<1> HIDE DEF f, g
<1>3. SumFunction(g) = SumFunction(f) + g[q]
  BY <1>1, <1>2, SumWith
<1> QED
  BY <1>1, <1>3 DEF Total, f, g

\* A payment less takes off what it was for.
LEMMA TotalWithout ==
  ASSUME NEW S, S \subseteq PaymentRec, IsFiniteSet(S), NEW q \in S
  PROVE  Total(S \ {q}) = Total(S) - q.amount /\ q.amount > 0 /\ Total(S \ {q}) \in Nat
<1> DEFINE T == S \ {q}
<1>1. T \subseteq PaymentRec /\ IsFiniteSet(T) /\ q \notin T /\ q \in PaymentRec /\ T \cup {q} = S
  BY FS_Subset
<1> HIDE DEF T
<1>2. Total(S) = Total(T) + q.amount
  BY <1>1, TotalWith
<1>3. q.amount \in Nat /\ q.amount > 0 /\ Total(T) \in Nat
  BY <1>1, TotalNat DEF PaymentRec
<1> QED
  BY <1>2, <1>3 DEF T

\* A payment rewritten for the same amount leaves the total.
LEMMA TotalSwap ==
  ASSUME NEW S, S \subseteq PaymentRec, IsFiniteSet(S), NEW p \in S,
         NEW q \in PaymentRec, q \notin S \ {p}, q.amount = p.amount
  PROVE  Total((S \ {p}) \cup {q}) = Total(S)
<1>1. S \ {p} \subseteq PaymentRec /\ IsFiniteSet(S \ {p})
  BY FS_Subset
<1>2. Total((S \ {p}) \cup {q}) = Total(S \ {p}) + q.amount
  BY <1>1, TotalWith
<1>3. Total(S \ {p}) = Total(S) - p.amount /\ Total(S) \in Nat /\ q.amount \in Nat
  BY TotalWithout, TotalNat DEF PaymentRec
<1> QED
  BY <1>2, <1>3

\* Two groups of payments add up.
LEMMA TotalParts ==
  ASSUME NEW S, NEW T, S \subseteq PaymentRec, T \subseteq PaymentRec, IsFiniteSet(S), IsFiniteSet(T),
         S \cap T = {}
  PROVE  Total(S \cup T) = Total(S) + Total(T)
<1> DEFINE U == S \cup T
           f == [p \in U |-> p.amount]
           g == [p \in S |-> p.amount]
           h == [p \in T |-> p.amount]
<1>1. IsFiniteSet(U)
  BY FS_Union
<1>2. /\ DOMAIN f = U /\ DOMAIN g = S /\ DOMAIN h = T
      /\ \A p \in S : g[p] = f[p]
      /\ \A p \in T : h[p] = f[p]
  OBVIOUS
<1>3. \A p \in U : f[p] \in Int
  BY DEF PaymentRec
<1>4. DOMAIN f = DOMAIN g \cup DOMAIN h /\ DOMAIN g \cap DOMAIN h = {}
  BY <1>2
<1> HIDE DEF f, g, h
<1>5. SumFunction(f) = SumFunction(g) + SumFunction(h)
  BY <1>1, <1>2, <1>3, <1>4, SumParts
<1> QED
  BY <1>5 DEF Total, f, g, h, U

\* The payments there are, and those of a debt, an invoice or a credit.
LEMMA PaymentsNow ==
  ASSUME IInv
  PROVE  /\ payments \subseteq PaymentRec /\ IsFiniteSet(payments)
         /\ \A x : /\ {p \in payments : p.of = x} \subseteq PaymentRec
                   /\ IsFiniteSet({p \in payments : p.of = x})
         /\ \A c : PaymentsOf(c) \subseteq PaymentRec /\ IsFiniteSet(PaymentsOf(c))
         /\ \A p, q \in payments : p.id = q.id => p = q
<1>1. payments \subseteq PaymentRec /\ IsFiniteSet(payments) /\ \A p, q \in payments : p.id = q.id => p = q
  BY DEF IInv, RowsOK, PaymentsOK
<1>2. \A S \in SUBSET payments : S \subseteq PaymentRec /\ IsFiniteSet(S)
  BY <1>1, FS_Subset
<1>3. \A x : {p \in payments : p.of = x} \in SUBSET payments
  OBVIOUS
<1>4. \A c : PaymentsOf(c) \in SUBSET payments
  BY DEF PaymentsOf
<1> QED
  BY <1>1, <1>2, <1>3, <1>4

\* The fields of a DebtPayment or InvoicePayment row.
LEMMA PaymentFields ==
  ASSUME NEW p \in PaymentRec
  PROVE  /\ p.id \in PaymentIds /\ p.of \in Debts \cup Invoices /\ p.amount \in Nat \ {0}
         /\ p.tx \in Credits \cup {None} /\ p.day \in Days /\ p.was \in 0..LastDay
  BY DEF PaymentRec

\* A payment as it is written.
LEMMA PaymentForm ==
  ASSUME NEW id \in PaymentIds, NEW of \in Debts \cup Invoices, NEW a \in Nat \ {0},
         NEW c \in Credits \cup {None}, NEW day \in Days, NEW was \in 0..LastDay
  PROVE  LET q == Payment(id, of, a, c, day, was)
         IN  /\ q \in PaymentRec /\ q.id = id /\ q.of = of /\ q.amount = a /\ q.tx = c
             /\ q.day = day /\ q.was = was
  BY DEF Payment, PaymentRec

\* A payment more.
LEMMA OneMore ==
  ASSUME IInv, NEW q \in PaymentRec, q.id \in FreeIds, payments' = payments \cup {q}
  PROVE  /\ PaymentsOK' /\ q \notin payments
         /\ \A x : PaidSum(x)' = IF x = q.of THEN PaidSum(x) + q.amount ELSE PaidSum(x)
         /\ \A c : PaymentsOf(c)' = IF c = q.tx THEN PaymentsOf(c) \cup {q} ELSE PaymentsOf(c)
         /\ Total(PaymentsOf(q.tx) \cup {q}) = Total(PaymentsOf(q.tx)) + q.amount
<1>1. q \notin payments /\ \A p \in payments : p.id # q.id
  BY DEF FreeIds
<1>2. PaymentsOK'
  <2>1. IsFiniteSet(payments \cup {q})
    BY PaymentsNow, FS_AddElement
  <2> QED
    BY <1>1, <2>1, PaymentsNow DEF PaymentsOK
<1>3. ASSUME NEW x PROVE PaidSum(x)' = IF x = q.of THEN PaidSum(x) + q.amount ELSE PaidSum(x)
  <2> DEFINE S == {p \in payments : p.of = x}
             T == {p \in payments' : p.of = x}
  <2>1. PaidSum(x) = Total(S) /\ PaidSum(x)' = Total(T)
    BY DEF PaidSum, Sum, Total
  <2>2. S \subseteq PaymentRec /\ IsFiniteSet(S) /\ q \notin S
    BY <1>1, PaymentsNow
  <2>3. T = IF x = q.of THEN S \cup {q} ELSE S
    OBVIOUS
  <2> HIDE DEF S, T
  <2>4. Total(S \cup {q}) = Total(S) + q.amount
    BY <2>2, TotalWith
  <2> QED
    BY <2>1, <2>3, <2>4
<1>4. \A c : PaymentsOf(c)' = IF c = q.tx THEN PaymentsOf(c) \cup {q} ELSE PaymentsOf(c)
  BY DEF PaymentsOf
<1>5. Total(PaymentsOf(q.tx) \cup {q}) = Total(PaymentsOf(q.tx)) + q.amount
  <2>1. PaymentsOf(q.tx) \subseteq PaymentRec /\ IsFiniteSet(PaymentsOf(q.tx)) /\ q \notin PaymentsOf(q.tx)
    BY <1>1, PaymentsNow DEF PaymentsOf
  <2> QED
    BY <2>1, TotalWith
<1> QED
  BY <1>1, <1>2, <1>3, <1>4, <1>5

\* A payment less.
LEMMA OneLess ==
  ASSUME IInv, NEW q \in payments, payments' = payments \ {q}
  PROVE  /\ PaymentsOK'
         /\ \A x : PaidSum(x)' = IF x = q.of THEN PaidSum(x) - q.amount ELSE PaidSum(x)
         /\ \A x : x = q.of => PaidSum(x) - q.amount \in Nat
         /\ \A c : PaymentsOf(c)' = IF c = q.tx THEN PaymentsOf(c) \ {q} ELSE PaymentsOf(c)
<1>1. PaymentsOK'
  <2>1. IsFiniteSet(payments \ {q})
    BY PaymentsNow, FS_Subset
  <2> QED
    BY <2>1, PaymentsNow DEF PaymentsOK
<1>2. ASSUME NEW x PROVE /\ PaidSum(x)' = IF x = q.of THEN PaidSum(x) - q.amount ELSE PaidSum(x)
                         /\ x = q.of => PaidSum(x) - q.amount \in Nat
  <2> DEFINE S == {p \in payments : p.of = x}
             T == {p \in payments' : p.of = x}
  <2>1. PaidSum(x) = Total(S) /\ PaidSum(x)' = Total(T)
    BY DEF PaidSum, Sum, Total
  <2>2. S \subseteq PaymentRec /\ IsFiniteSet(S)
    BY PaymentsNow
  <2>3. (x = q.of => q \in S) /\ T = IF x = q.of THEN S \ {q} ELSE S
    OBVIOUS
  <2> HIDE DEF S, T
  <2>4. x = q.of => Total(S \ {q}) = Total(S) - q.amount /\ Total(S \ {q}) \in Nat
    BY <2>2, <2>3, TotalWithout
  <2> QED
    BY <2>1, <2>3, <2>4
<1>3. \A c : PaymentsOf(c)' = IF c = q.tx THEN PaymentsOf(c) \ {q} ELSE PaymentsOf(c)
  BY DEF PaymentsOf
<1> QED
  BY <1>1, <1>2, <1>3

\* A payment of nobody's transfer gets one.
LEMMA OneLinked ==
  ASSUME IInv, NEW p \in payments, NEW c \in Credits, NEW q \in PaymentRec, p.tx = None,
         q.id = p.id, q.of = p.of, q.amount = p.amount, q.tx = c,
         payments' = (payments \ {p}) \cup {q}
  PROVE  /\ PaymentsOK' /\ q \notin payments
         /\ \A x : PaidSum(x)' = PaidSum(x)
         /\ \A b \in Credits : PaymentsOf(b)' = IF b = c THEN PaymentsOf(b) \cup {q} ELSE PaymentsOf(b)
         /\ Total(PaymentsOf(c) \cup {q}) = Total(PaymentsOf(c)) + q.amount
<1>1. q \notin payments
  <2>1. q # p
    BY Kinds
  <2> QED
    BY <2>1, PaymentsNow
<1>2. PaymentsOK'
  <2>1. IsFiniteSet((payments \ {p}) \cup {q})
    BY PaymentsNow, FS_Subset, FS_AddElement
  <2> QED
    BY <2>1, PaymentsNow DEF PaymentsOK
<1>3. ASSUME NEW x PROVE PaidSum(x)' = PaidSum(x)
  <2> DEFINE S == {r \in payments : r.of = x}
             T == {r \in payments' : r.of = x}
  <2>1. PaidSum(x) = Total(S) /\ PaidSum(x)' = Total(T)
    BY DEF PaidSum, Sum, Total
  <2>2. S \subseteq PaymentRec /\ IsFiniteSet(S) /\ q \notin S
    BY <1>1, PaymentsNow
  <2>3. (x = p.of => p \in S) /\ T = IF x = p.of THEN (S \ {p}) \cup {q} ELSE S
    OBVIOUS
  <2> HIDE DEF S, T
  <2>4. x = p.of => Total((S \ {p}) \cup {q}) = Total(S)
    BY <2>2, <2>3, TotalSwap
  <2> QED
    BY <2>1, <2>3, <2>4
<1>4. \A b \in Credits : PaymentsOf(b)' = IF b = c THEN PaymentsOf(b) \cup {q} ELSE PaymentsOf(b)
  BY Kinds DEF PaymentsOf
<1>5. Total(PaymentsOf(c) \cup {q}) = Total(PaymentsOf(c)) + q.amount
  <2>1. PaymentsOf(c) \subseteq PaymentRec /\ IsFiniteSet(PaymentsOf(c)) /\ q \notin PaymentsOf(c)
    BY <1>1, PaymentsNow DEF PaymentsOf
  <2> QED
    BY <2>1, TotalWith
<1> QED
  BY <1>1, <1>2, <1>3, <1>4, <1>5

-----------------------------------------------------------------------------
(* Payments *)

\* A step on payments leaves each credit as it was, with its payments, or has linked
\* or freed it by hand, or the server goes on with one that no deposit fits.
LEMMA PayStep ==
  ASSUME IInv, UNCHANGED <<deposit, sale, customers, lockDay>>, fresh' \subseteq fresh,
         credit' \in [Credits -> CreditRow], PaymentsOK', debts' \subseteq Debts,
         off' \subseteq Invoices, invoice' \in [Invoices -> {"open", "void"}],
         paid' \in [Debts \cup Invoices -> Nat], PaidAgree',
         \A b \in Credits :
           \/ credit'[b] = credit[b] /\ PaymentsOf(b)' = PaymentsOf(b)
           \/ /\ CreditOK(b)' /\ DepositOf(b) = {} /\ credit'[b].sale = credit[b].sale
              /\ b \notin fresh' \/ Linked(b)'
  PROVE  IInv'
<1>1. RowsOK'
  BY RowsNow, RowsFrame DEF IInv
<1>2. \A b \in Credits : CreditOK(b)'
  BY CreditFrame
<1>3. DepositsAgree'
  <2>1. \A b \in Credits : DepositOf(b) # {} => credit'[b].mark = credit[b].mark /\ ~Linked(b)'
    BY Deposited DEF Linked
  <2> QED
    BY <2>1, DepositsFrame
<1>4. SalesAgree'
  BY SalesFrame
<1>5. NoMissedPair'
  BY MissedFrame
<1> QED
  BY <1>1, <1>2, <1>3, <1>4, <1>5 DEF IInv

\* What is still owed of x, and a payment of a part of it.
LEMMA PaidNow ==
  ASSUME IInv
  PROVE  /\ paid \in [Debts \cup Invoices -> Nat]
         /\ \A x \in Debts \cup Invoices : /\ paid[x] \in Nat /\ Amount[x] \in Nat /\ Due(x) \in Nat
                                           /\ paid[x] + Due(x) = Amount[x] /\ paid[x] = PaidSum(x)
<1>1. paid \in [Debts \cup Invoices -> Nat]
  BY RowsNow DEF IInv
<1>2. ASSUME NEW x \in Debts \cup Invoices
      PROVE  /\ paid[x] \in Nat /\ Amount[x] \in Nat /\ Due(x) \in Nat
             /\ paid[x] + Due(x) = Amount[x] /\ paid[x] = PaidSum(x)
  <2>1. paid[x] \in Nat /\ Amount[x] \in Nat
    BY <1>1, Kinds DEF Money
  <2>2. paid[x] = PaidSum(x) /\ paid[x] <= Amount[x]
    BY DEF IInv, PaidAgree
  <2> QED
    BY <2>1, <2>2 DEF Due
<1> QED
  BY <1>1, <1>2

\* A payment that is recorded is what paidAmount or amountPaid goes up by.
LEMMA PaidMore ==
  ASSUME IInv, NEW q \in PaymentRec, q.id \in FreeIds, payments' = payments \cup {q},
         q.amount <= Due(q.of), paid' = [paid EXCEPT ![q.of] = paid[q.of] + q.amount]
  PROVE  paid' \in [Debts \cup Invoices -> Nat] /\ PaidAgree'
<1> DEFINE x == q.of
<1>1. x \in Debts \cup Invoices /\ q.amount \in Nat
  BY PaymentFields
<1>2. paid' \in [Debts \cup Invoices -> Nat]
  BY <1>1, PaidNow
<1>3. ASSUME NEW y \in Debts \cup Invoices PROVE paid'[y] = PaidSum(y)' /\ paid'[y] <= Amount[y]
  <2>1. PaidSum(y)' = IF y = q.of THEN PaidSum(y) + q.amount ELSE PaidSum(y)
    BY OneMore
  <2>2. paid'[y] = IF y = x THEN paid[y] + q.amount ELSE paid[y]
    BY <1>1, PaidNow
  <2>3. /\ paid[y] \in Nat /\ Amount[y] \in Nat /\ Due(y) \in Nat
        /\ paid[y] + Due(y) = Amount[y] /\ paid[y] = PaidSum(y)
    BY PaidNow
  <2>4. y = x => q.amount <= Due(y)
    OBVIOUS
  <2> QED
    BY <1>1, <2>1, <2>2, <2>3, <2>4
<1> QED
  BY <1>2, <1>3 DEF PaidAgree

\* A new payment's id is no other payment's.
LEMMA NewIdFree == ASSUME FreeIds # {} PROVE NewId \in FreeIds /\ NewId \in PaymentIds
<1>1. NewId \in FreeIds
  BY DEF NewId
<1> QED
  BY <1>1 DEF FreeIds

\* A repayment by hand, of a debt or of an invoice.
LEMMA HandPayment ==
  ASSUME IInv, NEW x \in Debts \cup Invoices, NEW a \in Nat, a \in 1..Due(x), NEW day \in Days, FreeIds # {},
         payments' = payments \cup {Payment(NewId, x, a, None, day, 0)},
         paid' = [paid EXCEPT ![x] = @ + a],
         UNCHANGED <<credit, deposit, sale, customers, lockDay, fresh>>, debts' \subseteq Debts,
         off' \subseteq Invoices, invoice' \in [Invoices -> {"open", "void"}]
  PROVE  IInv'
<1> DEFINE q == Payment(NewId, x, a, None, day, 0)
<1>1. a \in Nat \ {0} /\ a <= Due(x) /\ 0 \in 0..LastDay
  BY PaidNow, Kinds
<1>2. NewId \in FreeIds /\ NewId \in PaymentIds
  BY NewIdFree
<1>3. /\ q \in PaymentRec /\ q.id = NewId /\ q.of = x /\ q.amount = a /\ q.tx = None
  <2>1. NewId \in PaymentIds /\ x \in Debts \cup Invoices /\ a \in Nat \ {0} /\ day \in Days /\ 0 \in 0..LastDay
    BY <1>1, <1>2
  <2>2. None \in Credits \cup {None}
    OBVIOUS
  <2>3. q \in PaymentRec
    BY <2>1, <2>2, PaymentForm
  <2>4. q.id = NewId /\ q.of = x /\ q.amount = a /\ q.tx = None
    BY DEF Payment
  <2> QED
    BY <2>3, <2>4
<1>4. payments' = payments \cup {q} /\ paid' = [paid EXCEPT ![x] = paid[x] + a]
  OBVIOUS
<1> HIDE DEF q
<1>5. paid' \in [Debts \cup Invoices -> Nat] /\ PaidAgree'
  BY <1>1, <1>2, <1>3, <1>4, PaidMore
<1>6. PaymentsOK' /\ \A c : PaymentsOf(c)' = IF c = q.tx THEN PaymentsOf(c) \cup {q} ELSE PaymentsOf(c)
  BY <1>2, <1>3, <1>4, OneMore
<1>7. \A c \in Credits : credit'[c] = credit[c] /\ PaymentsOf(c)' = PaymentsOf(c)
  BY <1>3, <1>6, Kinds
<1>8. credit' \in [Credits -> CreditRow]
  BY RowsNow DEF IInv
<1> QED
  BY <1>5, <1>6, <1>7, <1>8, PayStep

\* A repayment recorded by hand.
LEMMA PayDebtKeeps ==
  ASSUME IInv, NEW x \in Debts, NEW a \in 1..Amount[x], NEW day \in HandDays, PayDebt(x, a, day)
  PROVE  IInv'
<1>1. /\ a \in 1..Due(x) /\ FreeIds # {}
      /\ payments' = payments \cup {Payment(NewId, x, a, None, day, 0)}
      /\ paid' = [paid EXCEPT ![x] = @ + a]
      /\ UNCHANGED <<credit, deposit, sale, debts, invoice, off, customers, lockDay, pending, fresh>>
  BY DEF PayDebt
<1>2. a \in Nat /\ day \in Days
  BY Kinds DEF Money
<1>3. debts' \subseteq Debts /\ off' \subseteq Invoices /\ invoice' \in [Invoices -> {"open", "void"}]
  BY <1>1, RowsNow DEF IInv
<1> QED
  BY <1>1, <1>2, <1>3, HandPayment

\* A payment of an invoice, whatever pays it.
LEMMA PayingWrote ==
  ASSUME IInv, NEW i \in Invoices, NEW a \in 1..Amount[i], NEW day, Paying(i, a, day)
  PROVE  /\ a \in Nat \ {0} /\ a \in 1..Due(i) /\ FreeIds # {} /\ paid' = [paid EXCEPT ![i] = @ + a]
         /\ UNCHANGED <<deposit, sale, debts, off, customers, lockDay>>
         /\ debts' \subseteq Debts /\ off' \subseteq Invoices /\ invoice' \in [Invoices -> {"open", "void"}]
<1>1. /\ a \in 1..Due(i) /\ FreeIds # {} /\ paid' = [paid EXCEPT ![i] = @ + a]
      /\ UNCHANGED <<deposit, sale, debts, off, customers, lockDay>>
      /\ invoice' = [invoice EXCEPT ![i] = "open"]
  BY DEF Paying
<1>2. a \in Nat \ {0}
  BY Kinds DEF Money
<1>3. debts' \subseteq Debts /\ off' \subseteq Invoices
  BY <1>1, RowsNow DEF IInv
<1>4. invoice' \in [Invoices -> {"open", "void"}]
  BY <1>1, RowsNow DEF IInv
<1> QED
  BY <1>1, <1>2, <1>3, <1>4

\* An invoice payment recorded by hand.
LEMMA PayInvoiceKeeps ==
  ASSUME IInv, NEW i \in Invoices, NEW a \in 1..Amount[i], NEW day \in HandDays, PayInvoice(i, a, day)
  PROVE  IInv'
<1>1. /\ a \in Nat \ {0} /\ a \in 1..Due(i) /\ FreeIds # {} /\ paid' = [paid EXCEPT ![i] = @ + a]
      /\ UNCHANGED <<deposit, sale, debts, off, customers, lockDay>>
      /\ debts' \subseteq Debts /\ off' \subseteq Invoices /\ invoice' \in [Invoices -> {"open", "void"}]
  BY PayingWrote DEF PayInvoice
<1>2. payments' = payments \cup {Payment(NewId, i, a, None, day, 0)} /\ UNCHANGED <<credit, fresh>>
  BY DEF PayInvoice
<1>3. a \in Nat /\ day \in Days
  BY <1>1, Kinds
<1> QED
  BY <1>1, <1>2, <1>3, HandPayment

-----------------------------------------------------------------------------
(* Payments by a transfer *)

\* A credit of invoice payments, or of none yet, that pays another part.
LEMMA InvoiceCredit ==
  ASSUME IInv, NEW c \in Credits, credit[c].sale = None, credit[c].customer = None,
         credit[c].mark = "none", NEW at, NEW q \in PaymentRec, q.of \in Invoices,
         q.amount + credit[c].matched <= Amount[c],
         NEW z, z = IF credit[c].invoice = None THEN q.of ELSE credit[c].invoice,
         Wrote(c, at, "none", None, None, z, credit[c].matched + q.amount),
         PaymentsOf(c)' = PaymentsOf(c) \cup {q}, UNCHANGED customers,
         Total(PaymentsOf(c) \cup {q}) = Total(PaymentsOf(c)) + q.amount
  PROVE  /\ CreditOK(c)' /\ DepositOf(c) = {} /\ credit'[c].sale = credit[c].sale /\ Linked(c)'
         /\ credit' \in [Credits -> CreditRow] /\ \A b \in Credits \ {c} : credit'[b] = credit[b]
<1>1. /\ credit'[c].sale = None /\ credit'[c].customer = None /\ credit'[c].invoice = z
      /\ credit'[c].matched = credit[c].matched + q.amount /\ credit'[c].mark = "none"
  BY DEF Wrote
<1>2. q.of # None /\ z # None /\ q.of \notin Debts
  BY Kinds
<1>3. credit[c].matched = Total(PaymentsOf(c))
  <2>1. credit[c].matched = CarriedBy(c)
    BY DEF IInv, CreditOK, MatchedAt
  <2> QED
    BY <2>1, Totals
<1>4. CarriedBy(c)' = Total(PaymentsOf(c) \cup {q})
  BY <1>1 DEF CarriedBy, Sum, Total
<1>5. MatchedAt(c)'
  <2>1. credit[c].matched \in Nat /\ q.amount \in Nat /\ Amount[c] \in Nat
    <3>1. credit[c].matched \in Nat
      BY RowAt, CreditFields DEF IInv, RowsOK
    <3> QED
      BY <3>1, PaymentFields, Kinds DEF Money
  <2> QED
    BY <1>1, <1>3, <1>4, <2>1 DEF MatchedAt
<1>6. PaymentsAt(c)'
  <2>1. PaymentsAt(c)
    BY DEF IInv, CreditOK
  <2>2. \E p \in PaymentsOf(c)' : p.of = z
    BY <2>1 DEF PaymentsAt
  <2>3. ASSUME NEW p \in PaymentsOf(c)' PROVE p.of \notin Debts
    <3>1. CASE p = q
      BY <1>2, <3>1
    <3>2. CASE p \in PaymentsOf(c)
      <4>1. p.of \in Debts => credit[c].customer = Owner[p.of] /\ Owner[p.of] \in Customers
        BY <2>1, <3>2, Kinds DEF PaymentsAt
      <4> QED
        BY <4>1, Kinds
    <3> QED
      BY <2>3, <3>1, <3>2
  <2> QED
    BY <1>1, <1>2, <2>2, <2>3 DEF PaymentsAt
<1>7. OneWay(credit[c])' /\ SaleAt(c)' /\ Linked(c)'
  BY <1>1, <1>2 DEF OneWay, SaleAt, Linked
<1>8. DepositOf(c) = {}
  BY Deposited
<1> QED
  BY <1>1, <1>5, <1>6, <1>7, <1>8 DEF CreditOK, Wrote

\* What linkableCredit asks of a credit.
LEMMA LinkableCredit ==
  ASSUME NEW c \in Credits, Linkable(c)
  PROVE  /\ credit[c].mark = "none" /\ credit[c].sale = None /\ credit[c].customer = None
         /\ DepositOf(c) = {} /\ c \in Booked
  BY DEF Linkable

\* Another part of the credit is used, and it keeps the invoice it first paid.
LEMMA UsedForWrote ==
  ASSUME IInv, NEW c \in Credits, NEW i \in Invoices, NEW a \in Nat, credit' = UsedFor(c, i, a)
  PROVE  LET z == IF credit[c].invoice = None THEN i ELSE credit[c].invoice
         IN  Wrote(c, credit[c].at, credit[c].mark, credit[c].sale, credit[c].customer, z, credit[c].matched + a)
<1> DEFINE r == credit[c]
           z == IF r.invoice = None THEN i ELSE r.invoice
           n == r.matched + a
<1>1. r \in CreditRow
  BY RowAt DEF IInv, RowsOK
<1>2. n \in Nat /\ z \in Invoices \cup {None}
  BY <1>1, CreditFields
<1>3. credit' = [credit EXCEPT ![c].invoice = z, ![c].matched = n]
  BY DEF UsedFor
<1> HIDE DEF z, n
<1>4. Wrote(c, credit[c].at, credit[c].mark, credit[c].sale, credit[c].customer, z, n)
  BY <1>2, <1>3, WroteInvoice DEF IInv, RowsOK
<1> QED
  BY <1>4 DEF z, n

\* An invoice paid from a part of a credit no other payment used.
LEMMA PayInvoiceFromKeeps ==
  ASSUME IInv, NEW i \in Invoices, NEW a \in 1..Amount[i], NEW c \in Credits, PayInvoiceFrom(i, a, c)
  PROVE  IInv'
<1> DEFINE q == Payment(NewId, i, a, c, Day[c], 0)
           z == IF credit[c].invoice = None THEN i ELSE credit[c].invoice
<1>1. /\ a \in Nat \ {0} /\ a \in 1..Due(i) /\ FreeIds # {} /\ paid' = [paid EXCEPT ![i] = @ + a]
      /\ UNCHANGED <<deposit, sale, debts, off, customers, lockDay>>
      /\ debts' \subseteq Debts /\ off' \subseteq Invoices /\ invoice' \in [Invoices -> {"open", "void"}]
  BY PayingWrote DEF PayInvoiceFrom
<1>2. /\ Linkable(c) /\ a <= LeftOf(c) /\ payments' = payments \cup {q} /\ credit' = UsedFor(c, i, a)
      /\ fresh' = fresh \ {c}
  BY DEF PayInvoiceFrom, ByHand
<1>3. NewId \in FreeIds /\ NewId \in PaymentIds
  BY <1>1, NewIdFree
<1>4. q \in PaymentRec /\ q.id = NewId /\ q.of = i /\ q.amount = a /\ q.tx = c
  <2>1. Day[c] \in Days /\ 0 \in 0..LastDay
    BY Kinds
  <2> QED
    BY <1>1, <1>3, <2>1, PaymentForm
<1> HIDE DEF q
<1>5. paid' \in [Debts \cup Invoices -> Nat] /\ PaidAgree'
  <2>1. a <= Due(i) /\ paid' = [paid EXCEPT ![i] = paid[i] + a]
    BY <1>1, PaidNow
  <2> QED
    BY <1>2, <1>3, <1>4, <2>1, PaidMore
<1>6. /\ PaymentsOK' /\ \A b : PaymentsOf(b)' = IF b = q.tx THEN PaymentsOf(b) \cup {q} ELSE PaymentsOf(b)
      /\ Total(PaymentsOf(q.tx) \cup {q}) = Total(PaymentsOf(q.tx)) + q.amount
  BY <1>2, <1>3, <1>4, OneMore
<1>7. /\ credit[c].mark = "none" /\ credit[c].sale = None /\ credit[c].customer = None
  BY <1>2, LinkableCredit
<1>8. Wrote(c, credit[c].at, "none", None, None, z, credit[c].matched + a)
  BY <1>1, <1>2, <1>7, UsedForWrote
<1>9. a + credit[c].matched <= Amount[c]
  <2>1. credit[c].matched \in Nat /\ Amount[c] \in Nat
    BY RowAt, CreditFields, Kinds DEF IInv, RowsOK, Money
  <2> QED
    BY <1>1, <1>2, <2>1 DEF LeftOf
<1>10. /\ CreditOK(c)' /\ DepositOf(c) = {} /\ credit'[c].sale = credit[c].sale /\ Linked(c)'
       /\ credit' \in [Credits -> CreditRow] /\ \A b \in Credits \ {c} : credit'[b] = credit[b]
  <2>1. z = IF credit[c].invoice = None THEN q.of ELSE credit[c].invoice
    BY <1>4
  <2> HIDE DEF z
  <2> QED
    BY <1>1, <1>4, <1>6, <1>7, <1>8, <1>9, <2>1, InvoiceCredit
<1>11. \A b \in Credits \ {c} : credit'[b] = credit[b] /\ PaymentsOf(b)' = PaymentsOf(b)
  BY <1>4, <1>6, <1>10
<1> QED
  BY <1>1, <1>2, <1>5, <1>6, <1>10, <1>11, PayStep

\* An invoice payment recorded by hand is given the credit it was.
LEMMA LinkPaymentKeeps ==
  ASSUME IInv, NEW p \in payments, NEW c \in Credits, LinkPayment(p, c)
  PROVE  IInv'
<1> DEFINE i == p.of
           a == p.amount
           q == Payment(p.id, i, a, c, Day[c], p.day)
           z == IF credit[c].invoice = None THEN i ELSE credit[c].invoice
<1>1. /\ i \in Invoices /\ p.tx = None /\ Linkable(c) /\ a <= LeftOf(c)
      /\ payments' = (payments \ {p}) \cup {q} /\ credit' = UsedFor(c, i, a)
      /\ fresh' = fresh \ {c} /\ UNCHANGED <<deposit, sale, debts, paid, invoice, off, customers, lockDay>>
  BY DEF LinkPayment, ByHand
<1>2. /\ p \in PaymentRec /\ p.id \in PaymentIds /\ a \in Nat \ {0} /\ p.day \in Days
  BY PaymentsNow, PaymentFields
<1>3. q \in PaymentRec /\ q.id = p.id /\ q.of = i /\ q.amount = a /\ q.tx = c
  <2>1. Day[c] \in Days /\ p.day \in 0..LastDay
    BY <1>2, Kinds
  <2> QED
    BY <1>1, <1>2, <2>1, PaymentForm
<1> HIDE DEF q
<1>4. /\ PaymentsOK' /\ \A x : PaidSum(x)' = PaidSum(x)
      /\ \A b \in Credits : PaymentsOf(b)' = IF b = c THEN PaymentsOf(b) \cup {q} ELSE PaymentsOf(b)
      /\ Total(PaymentsOf(c) \cup {q}) = Total(PaymentsOf(c)) + q.amount
  BY <1>1, <1>3, OneLinked
<1>5. paid' \in [Debts \cup Invoices -> Nat] /\ PaidAgree'
  BY <1>1, <1>4, PaidNow DEF PaidAgree, IInv
<1>6. /\ credit[c].mark = "none" /\ credit[c].sale = None /\ credit[c].customer = None
  BY <1>1, LinkableCredit
<1>7. Wrote(c, credit[c].at, "none", None, None, z, credit[c].matched + a)
  BY <1>1, <1>2, <1>6, UsedForWrote
<1>8. a + credit[c].matched <= Amount[c]
  <2>1. credit[c].matched \in Nat /\ Amount[c] \in Nat
    BY RowAt, CreditFields, Kinds DEF IInv, RowsOK, Money
  <2> QED
    BY <1>1, <1>2, <2>1 DEF LeftOf
<1>9. /\ CreditOK(c)' /\ DepositOf(c) = {} /\ credit'[c].sale = credit[c].sale /\ Linked(c)'
      /\ credit' \in [Credits -> CreditRow] /\ \A b \in Credits \ {c} : credit'[b] = credit[b]
  <2>1. z = IF credit[c].invoice = None THEN q.of ELSE credit[c].invoice
    BY <1>3
  <2> HIDE DEF z, i, a
  <2> QED
    BY <1>1, <1>3, <1>4, <1>6, <1>7, <1>8, <2>1, InvoiceCredit
<1>10. \A b \in Credits \ {c} : credit'[b] = credit[b] /\ PaymentsOf(b)' = PaymentsOf(b)
  BY <1>4, <1>9
<1>11. debts' \subseteq Debts /\ off' \subseteq Invoices /\ invoice' \in [Invoices -> {"open", "void"}]
  BY <1>1, RowsNow DEF IInv
<1> QED
  BY <1>1, <1>4, <1>5, <1>9, <1>10, <1>11, PayStep

\* An unlinked credit has no payments and nothing matched.
LEMMA NothingMatched ==
  ASSUME IInv, NEW c \in Credits, credit[c].sale = None, credit[c].customer = None, credit[c].invoice = None
  PROVE  PaymentsOf(c) = {} /\ credit[c].matched = 0
<1>1. PaymentsOf(c) = {}
  BY Unlinked
<1>2. credit[c].matched = CarriedBy(c)
  BY DEF IInv, CreditOK, MatchedAt
<1> QED
  BY <1>1, <1>2, Totals, TotalNone

\* The arriving credit pays the one invoice that owes exactly it.
LEMMA OfferToInvoicesKeeps ==
  ASSUME IInv, NEW c \in Credits, OfferToInvoices(c)
  PROVE  IInv'
<1> DEFINE owing == {i \in Invoices : invoice[i] = "open" /\ i \notin off /\ Due(i) = Amount[c]}
           pays == Cardinality(owing) = 1 /\ ~Explained(c) /\ Open({Day[c]})
<1>1. /\ credit[c].at = "offered"
      /\ UNCHANGED <<deposit, sale, debts, invoice, off, customers, lockDay, pending, fresh, ops>>
  BY DEF OfferToInvoices
<1>2. CASE ~pays
  <2>1. credit' = [credit EXCEPT ![c].at = "done"] /\ UNCHANGED <<payments, paid>>
    BY <1>2 DEF OfferToInvoices
  <2>2. Wrote(c, "done", credit[c].mark, credit[c].sale, credit[c].customer, credit[c].invoice,
              credit[c].matched)
    BY <2>1, WroteAt DEF IInv, RowsOK
  <2>3. c \in Booked
    BY <1>1 DEF Booked
  <2>4. c \in fresh => \A d \in Deposits : d \in fresh /\ deposit[d].status = "waiting" => ~Fits(deposit[d], d, c)
    BY <1>1 DEF IInv, NoMissedPair
  <2>5. UNCHANGED <<deposit, books, lockDay>> /\ fresh' = fresh
    BY <1>1, <2>1 DEF books
  <2> QED
    BY <2>2, <2>3, <2>4, <2>5, CreditOnly
<1>3. CASE pays
  <2>1. PICK i \in owing :
                /\ FreeIds # {}
                /\ payments' = payments \cup {Payment(NewId, i, Amount[c], c, Day[c], 0)}
                /\ paid' = [paid EXCEPT ![i] = Amount[i]]
                /\ credit' = [credit EXCEPT ![c].at = "done", ![c].invoice = i,
                                            ![c].matched = Amount[c]]
    BY <1>3 DEF OfferToInvoices
  <2> DEFINE a == Amount[c]
             q == Payment(NewId, i, a, c, Day[c], 0)
  <2>2. i \in Invoices /\ Due(i) = a /\ a \in Nat \ {0} /\ a \in Nat /\ Day[c] \in Days /\ 0 \in 0..LastDay
    BY <2>1, Kinds DEF Money
  <2>3. /\ credit[c].mark = "none" /\ credit[c].sale = None /\ credit[c].customer = None
        /\ credit[c].invoice = None
    BY <1>3 DEF Explained, Linked
  <2>4. NewId \in FreeIds /\ NewId \in PaymentIds
    BY <2>1, NewIdFree
  <2>5. payments' = payments \cup {q}
    BY <2>1
  <2>6. q \in PaymentRec /\ q.id = NewId /\ q.of = i /\ q.amount = a /\ q.tx = c
    <3>1. i \in Debts \cup Invoices /\ c \in Credits \cup {None}
      BY <2>2
    <3> HIDE DEF a
    <3> QED
      BY <2>2, <2>4, <3>1, PaymentForm
  <2>7. credit' = [credit EXCEPT ![c].at = "done", ![c].invoice = i, ![c].matched = a]
    BY <2>1
  <2> HIDE DEF q, a
  <2>8. Wrote(c, "done", "none", None, None, i, a)
    BY <2>2, <2>3, <2>7, WroteOffered DEF IInv, RowsOK
  <2>9. paid' \in [Debts \cup Invoices -> Nat] /\ PaidAgree'
    <3>1. i \in Debts \cup Invoices
      BY <2>2
    <3>2. paid[i] + a = Amount[i]
      BY <2>2, <3>1, PaidNow
    <3>3. paid' = [paid EXCEPT ![i] = paid[i] + a] /\ a <= Due(i)
      <4>1. paid' = [paid EXCEPT ![i] = Amount[i]]
        BY <2>1
      <4>2. paid' = [paid EXCEPT ![i] = paid[i] + a]
        BY <3>2, <4>1
      <4>3. a <= Due(i)
        BY <2>2
      <4> QED
        BY <4>2, <4>3
    <3> QED
      BY <2>4, <2>5, <2>6, <3>3, PaidMore
  <2>10. /\ PaymentsOK' /\ \A b : PaymentsOf(b)' = IF b = q.tx THEN PaymentsOf(b) \cup {q} ELSE PaymentsOf(b)
         /\ Total(PaymentsOf(q.tx) \cup {q}) = Total(PaymentsOf(q.tx)) + q.amount
    BY <2>4, <2>5, <2>6, OneMore
  <2>11. credit[c].matched = 0
    BY <2>3, NothingMatched
  <2>12. Wrote(c, "done", "none", None, None, i, credit[c].matched + q.amount)
         /\ q.amount + credit[c].matched <= Amount[c]
    <3>1. credit[c].matched + q.amount = a /\ q.amount + credit[c].matched = a /\ a <= a /\ a = Amount[c]
      BY <2>2, <2>6, <2>11 DEF a
    <3> QED
      BY <2>8, <3>1
  <2>13. /\ CreditOK(c)' /\ DepositOf(c) = {} /\ credit'[c].sale = credit[c].sale /\ Linked(c)'
         /\ credit' \in [Credits -> CreditRow] /\ \A b \in Credits \ {c} : credit'[b] = credit[b]
    BY <1>1, <2>2, <2>3, <2>6, <2>10, <2>12, InvoiceCredit
  <2>14. \A b \in Credits \ {c} : credit'[b] = credit[b] /\ PaymentsOf(b)' = PaymentsOf(b)
    BY <2>6, <2>10, <2>13
  <2>15. debts' \subseteq Debts /\ off' \subseteq Invoices /\ invoice' \in [Invoices -> {"open", "void"}]
    BY <1>1, RowsNow DEF IInv
  <2> QED
    BY <1>1, <2>9, <2>10, <2>13, <2>14, <2>15, PayStep
<1> QED
  BY <1>2, <1>3

\* A credit that nothing explained is put on debts of customer k.
LEMMA CustomerCredit ==
  ASSUME IInv, NEW c \in Credits, Matchable(c), NEW k \in Customers, NEW N, NEW n, n = Total(N), n <= Amount[c],
         Wrote(c, credit[c].at, credit[c].mark, credit[c].sale, k, credit[c].invoice, n),
         PaymentsOf(c)' = N, \A p \in N : p.of \in Debts /\ Owner[p.of] = k
  PROVE  /\ CreditOK(c)' /\ DepositOf(c) = {} /\ credit'[c].sale = credit[c].sale
         /\ credit' \in [Credits -> CreditRow] /\ \A b \in Credits \ {c} : credit'[b] = credit[b]
<1>1. /\ credit[c].mark = "none" /\ credit[c].sale = None /\ credit[c].customer = None
      /\ credit[c].invoice = None /\ DepositOf(c) = {}
  BY MatchableCredit
<1>2. /\ credit'[c].sale = None /\ credit'[c].customer = k /\ credit'[c].invoice = None
      /\ credit'[c].matched = n /\ credit'[c].mark = "none"
  BY <1>1 DEF Wrote
<1>3. CarriedBy(c)' = Total(N)
  BY <1>2 DEF CarriedBy, Sum, Total
<1>4. MatchedAt(c)' /\ PaymentsAt(c)'
  BY <1>2, <1>3 DEF MatchedAt, PaymentsAt
<1>5. OneWay(credit[c])' /\ SaleAt(c)'
  BY <1>2 DEF OneWay, SaleAt
<1> QED
  BY <1>1, <1>4, <1>5 DEF CreditOK, Wrote

\* A repayment recorded by hand is given the credit it was.
LEMMA LinkDebtPaymentKeeps ==
  ASSUME IInv, NEW p \in payments, NEW c \in Credits, LinkDebtPayment(c, p)
  PROVE  IInv'
<1> DEFINE x == p.of
           a == p.amount
           q == Payment(p.id, x, a, c, Day[c], p.day)
           k == Owner[x]
<1>1. /\ x \in debts /\ p.tx = None /\ Matchable(c) /\ a <= Amount[c]
      /\ payments' = (payments \ {p}) \cup {q}
      /\ credit' = [credit EXCEPT ![c].customer = k, ![c].matched = a]
      /\ fresh' = fresh \ {c} /\ UNCHANGED <<deposit, sale, debts, paid, invoice, off, customers, lockDay>>
  BY DEF LinkDebtPayment, ByHand
<1>2. /\ p \in PaymentRec /\ p.id \in PaymentIds /\ a \in Nat \ {0} /\ a \in Nat /\ p.day \in Days
  BY PaymentsNow, PaymentFields
<1>3. x \in Debts /\ x \in Debts \cup Invoices /\ k \in Customers
  BY <1>1, RowsNow, Kinds DEF IInv
<1>4. q \in PaymentRec /\ q.id = p.id /\ q.of = x /\ q.amount = a /\ q.tx = c
  <2>1. Day[c] \in Days /\ p.day \in 0..LastDay /\ c \in Credits \cup {None}
    BY <1>2, Kinds
  <2> HIDE DEF x, a
  <2> QED
    BY <1>2, <1>3, <2>1, PaymentForm
<1> HIDE DEF q
<1>5. /\ PaymentsOK' /\ \A y : PaidSum(y)' = PaidSum(y)
      /\ \A b \in Credits : PaymentsOf(b)' = IF b = c THEN PaymentsOf(b) \cup {q} ELSE PaymentsOf(b)
      /\ Total(PaymentsOf(c) \cup {q}) = Total(PaymentsOf(c)) + q.amount
  BY <1>1, <1>4, OneLinked
<1>6. paid' \in [Debts \cup Invoices -> Nat] /\ PaidAgree'
  BY <1>1, <1>5, PaidNow DEF PaidAgree, IInv
<1>7. Wrote(c, credit[c].at, credit[c].mark, credit[c].sale, k, credit[c].invoice, a)
  <2> HIDE DEF k, a
  <2> QED
    BY <1>1, <1>2, <1>3, WroteCustomer DEF IInv, RowsOK
<1>8. PaymentsOf(c) = {}
  BY <1>1, MatchableCredit, Unlinked
<1>9. PaymentsOf(c)' = {q} /\ a = Total({q})
  <2>1. {} \cup {q} = {q} /\ Total({}) = 0
    BY TotalNone
  <2>2. Total({q}) = 0 + q.amount
    BY <1>5, <1>8, <2>1
  <2> QED
    BY <1>2, <1>4, <1>5, <1>8, <2>2
<1>10. /\ CreditOK(c)' /\ DepositOf(c) = {} /\ credit'[c].sale = credit[c].sale
       /\ credit' \in [Credits -> CreditRow] /\ \A b \in Credits \ {c} : credit'[b] = credit[b]
  <2>1. \A r \in {q} : r.of \in Debts /\ Owner[r.of] = k
    BY <1>3, <1>4
  <2> HIDE DEF k, a, x
  <2> QED
    BY <1>1, <1>3, <1>7, <1>9, <2>1, CustomerCredit
<1>11. \A b \in Credits \ {c} : credit'[b] = credit[b] /\ PaymentsOf(b)' = PaymentsOf(b)
  BY <1>5, <1>10
<1>12. debts' \subseteq Debts /\ off' \subseteq Invoices /\ invoice' \in [Invoices -> {"open", "void"}]
  BY <1>1, RowsNow DEF IInv
<1> QED
  BY <1>1, <1>5, <1>6, <1>10, <1>11, <1>12, PayStep

\* New payments put shares of credit c on the debts that are owed.
Pays(c, owed, share, id, new) ==
  /\ owed \subseteq Debts /\ \A x \in owed : share[x] \in Nat \ {0}
  /\ id \in Injection(owed, FreeIds)
  /\ \A p \in new : \E x \in owed : p = Payment(id[x], x, share[x], c, Day[c], 0)
  /\ \A x \in owed : Payment(id[x], x, share[x], c, Day[c], 0) \in new
  /\ payments' = payments \cup new

\* What each debt and each credit then has.
PaidBy(c, owed, share, new) ==
  /\ PaymentsOK' /\ \A p \in new : p.of \in owed
  /\ \A x : PaidSum(x)' = IF x \in owed THEN PaidSum(x) + share[x] ELSE PaidSum(x)
  /\ \A b \in Credits : PaymentsOf(b)' = IF b = c THEN PaymentsOf(b) \cup new ELSE PaymentsOf(b)
  /\ Total(new) = SumFunction([x \in owed |-> share[x]])

\* match-debt writes one payment for each debt it pays, each for that debt's share.
LEMMA NewPayments ==
  ASSUME IInv, NEW c \in Credits, NEW owed, NEW share, NEW id, NEW new, Pays(c, owed, share, id, new)
  PROVE  PaidBy(c, owed, share, new)
<1>0. /\ owed \subseteq Debts /\ \A x \in owed : share[x] \in Nat \ {0}
      /\ id \in Injection(owed, FreeIds)
      /\ \A p \in new : \E x \in owed : p = Payment(id[x], x, share[x], c, Day[c], 0)
      /\ \A x \in owed : Payment(id[x], x, share[x], c, Day[c], 0) \in new
      /\ payments' = payments \cup new
  BY DEF Pays
<1> DEFINE P(x) == Payment(id[x], x, share[x], c, Day[c], 0)
<1>1. \A x \in owed : id[x] \in FreeIds /\ id[x] \in PaymentIds
  BY <1>0 DEF Injection, FreeIds
<1>2. \A x, y \in owed : id[x] = id[y] => x = y
  BY <1>0 DEF Injection, IsInjective
<1>3. PICK m : /\ \A x \in owed : /\ m[x] \in PaymentRec /\ m[x].id = id[x] /\ m[x].of = x
                                   /\ m[x].amount = share[x] /\ m[x].tx = c /\ m[x] \in new
               /\ \A p \in new : \E x \in owed : p = m[x]
               /\ m \in [owed -> new]
  <2> DEFINE n == [x \in owed |-> P(x)]
  <2>1. ASSUME NEW x \in owed
        PROVE  /\ n[x] \in PaymentRec /\ n[x].id = id[x] /\ n[x].of = x
               /\ n[x].amount = share[x] /\ n[x].tx = c /\ n[x] \in new
    <3>1. /\ id[x] \in PaymentIds /\ x \in Debts \cup Invoices /\ share[x] \in Nat \ {0}
          /\ c \in Credits \cup {None} /\ Day[c] \in Days /\ 0 \in 0..LastDay
      BY <1>0, <1>1, Kinds
    <3>2. P(x) \in PaymentRec
      BY <3>1, PaymentForm
    <3>3. n[x] = P(x) /\ P(x).id = id[x] /\ P(x).of = x /\ P(x).amount = share[x] /\ P(x).tx = c
      BY DEF Payment
    <3>4. P(x) \in new
      BY <1>0
    <3> QED
      BY <3>2, <3>3, <3>4
  <2>2. (\A p \in new : \E x \in owed : p = n[x]) /\ n \in [owed -> new]
    BY <1>0
  <2> HIDE DEF n
  <2> QED
    BY <2>1, <2>2
<1>4. ASSUME NEW p \in new
      PROVE  \E x \in owed : p = m[x] /\ p \in PaymentRec /\ p.id = id[x] /\ p.of = x /\ p.tx = c
  <2>1. PICK x \in owed : p = m[x]
    BY <1>3
  <2>2. m[x] \in PaymentRec /\ m[x].id = id[x] /\ m[x].of = x /\ m[x].tx = c
    BY <1>3
  <2> QED
    BY <2>1, <2>2
<1>5. new \subseteq PaymentRec /\ \A p \in new : p.tx = c /\ p.of \in owed
  <2> SUFFICES ASSUME NEW p \in new PROVE p \in PaymentRec /\ p.tx = c /\ p.of \in owed
    OBVIOUS
  <2> QED
    BY <1>4
<1>6. new \cap payments = {} /\ \A p \in new, q \in payments : p.id # q.id
  <2>1. ASSUME NEW p \in new PROVE p.id \in FreeIds
    BY <1>1, <1>4
  <2>2. \A q \in payments : q.id \notin FreeIds
    BY DEF FreeIds
  <2> QED
    BY <2>1, <2>2
<1>7. ASSUME NEW p \in new, NEW q \in new, p.id = q.id PROVE p = q
  <2>1. PICK x \in owed : p = m[x] /\ p.id = id[x]
    BY <1>4
  <2>2. PICK y \in owed : q = m[y] /\ q.id = id[y]
    BY <1>4
  <2>3. x = y
    BY <1>2, <1>7, <2>1, <2>2
  <2> QED
    BY <2>1, <2>2, <2>3
<1>8. IsFiniteSet(owed) /\ IsFiniteSet(new)
  <2>1. IsFiniteSet(owed)
    BY <1>0, Kinds, FS_Subset
  <2>2. m \in Surjection(owed, new)
    <3>1. \A p \in new : \E x \in owed : m[x] = p
      BY <1>3
    <3> QED
      BY <1>3, <3>1 DEF Surjection
  <2> QED
    BY <2>1, <2>2, FS_Surjection
<1>9. PaymentsOK'
  <2>1. IsFiniteSet(payments \cup new)
    BY <1>8, PaymentsNow, FS_Union
  <2>2. payments \cup new \subseteq PaymentRec
    BY <1>5, PaymentsNow
  <2>3. \A p, q \in payments \cup new : p.id = q.id => p = q
    BY <1>6, <1>7, PaymentsNow
  <2> QED
    BY <1>0, <2>1, <2>2, <2>3 DEF PaymentsOK
<1>10. ASSUME NEW x PROVE PaidSum(x)' = IF x \in owed THEN PaidSum(x) + share[x] ELSE PaidSum(x)
  <2> DEFINE S == {p \in payments : p.of = x}
             T == {p \in payments' : p.of = x}
  <2>1. PaidSum(x) = Total(S) /\ PaidSum(x)' = Total(T)
    BY DEF PaidSum, Sum, Total
  <2>2. S \subseteq PaymentRec /\ IsFiniteSet(S)
    BY PaymentsNow
  <2>3. x \notin owed => T = S
    BY <1>0, <1>5
  <2>4. ASSUME x \in owed PROVE T = S \cup {m[x]} /\ m[x] \notin S
    <3>1. ASSUME NEW p \in new PROVE p.of = x <=> p = m[x]
      <4>1. PICK y \in owed : p = m[y] /\ p.of = y
        BY <1>4
      <4>2. m[x].of = x
        BY <1>3, <2>4
      <4> QED
        BY <4>1, <4>2
    <3>2. m[x] \in new /\ m[x] \notin payments
      BY <1>3, <1>6, <2>4
    <3> QED
      BY <1>0, <3>1, <3>2
  <2> HIDE DEF S, T
  <2>5. x \in owed => Total(S \cup {m[x]}) = Total(S) + share[x]
    <3>1. ASSUME x \in owed PROVE Total(S \cup {m[x]}) = Total(S) + m[x].amount
      BY <1>3, <2>2, <2>4, <3>1, TotalWith
    <3> QED
      BY <1>3, <3>1
  <2> QED
    BY <2>1, <2>3, <2>4, <2>5
<1>11. \A b \in Credits : PaymentsOf(b)' = IF b = c THEN PaymentsOf(b) \cup new ELSE PaymentsOf(b)
  BY <1>0, <1>5 DEF PaymentsOf
<1>12. Total(new) = SumFunction([x \in owed |-> share[x]])
  <2> DEFINE f == [x \in owed |-> share[x]]
             g == [p \in new |-> p.amount]
  <2>1. DOMAIN f = owed /\ DOMAIN g = new /\ (\A x \in owed : f[x] = share[x]) /\ \A p \in new : g[p] = p.amount
    OBVIOUS
  <2> HIDE DEF f, g
  <2>2. DOMAIN g = {m[x] : x \in DOMAIN f}
    <3>1. \A x \in owed : m[x] \in new
      BY <1>3
    <3>2. \A p \in new : \E x \in owed : p = m[x]
      BY <1>3
    <3>3. new = {m[x] : x \in owed}
      BY <3>1, <3>2
    <3> QED
      BY <2>1, <3>3, Zenon
  <2>3. ASSUME NEW x \in DOMAIN f, NEW y \in DOMAIN f, m[x] = m[y] PROVE x = y
    <3>1. m[x].of = x /\ m[y].of = y
      BY <1>3, <2>1
    <3> QED
      BY <2>3, <3>1
  <2>4. \A x \in DOMAIN f : f[x] \in Int /\ g[m[x]] = f[x]
    <3>1. ASSUME NEW x \in DOMAIN f PROVE f[x] \in Int /\ g[m[x]] = f[x]
      <4>1. x \in owed /\ m[x] \in new /\ m[x].amount = share[x] /\ share[x] \in Int
        BY <1>0, <1>3, <2>1
      <4> QED
        BY <2>1, <4>1
    <3> QED
      BY <3>1
  <2>5. SumFunction(g) = SumFunction(f)
    BY <1>8, <2>1, <2>2, <2>3, <2>4, SumRenamed
  <2> QED
    BY <2>5 DEF Total, f, g
<1> QED
  BY <1>5, <1>9, <1>10, <1>11, <1>12 DEF PaidBy

\* What the shares of a credit add up to is never more than the credit.
LEMMA SharesFit ==
  ASSUME IInv, NEW c \in Credits, NEW k \in Customers, NEW share \in Shares(c, k),
         NEW owed, owed = {x \in DebtsOf(k) : share[x] > 0}
  PROVE  /\ owed \subseteq Debts /\ \A x \in owed : share[x] \in Nat \ {0} /\ share[x] <= Due(x) /\ Owner[x] = k
         /\ SumFunction([x \in owed |-> share[x]]) \in Nat
         /\ SumFunction([x \in owed |-> share[x]]) <= Amount[c]
<1> DEFINE D == DebtsOf(k)
           f == [x \in owed |-> share[x]]
           g == [x \in D |-> share[x]]
           h == [x \in D |-> Due(x)]
<1>1. Amount[c] \in Nat
  BY Kinds DEF Money
<1>2. /\ share \in [D -> 0..Amount[c]] /\ \A x \in D : share[x] <= Due(x)
      /\ SumFunction(g) = Least(Amount[c], SumFunction(h))
  BY DEF Shares, Sum
<1>3. D \subseteq Debts /\ IsFiniteSet(D) /\ \A x \in D : Owner[x] = k
  <2>1. D \subseteq Debts /\ \A x \in D : Owner[x] = k
    BY RowsNow DEF DebtsOf, IInv
  <2> QED
    BY <2>1, Kinds, FS_Subset
<1>4. \A x \in D : share[x] \in Nat /\ Due(x) \in Nat
  BY <1>1, <1>2, <1>3, PaidNow
<1>5. owed \subseteq D /\ IsFiniteSet(owed)
  BY <1>3, FS_Subset
<1>6. /\ DOMAIN f = owed /\ DOMAIN g = D /\ DOMAIN h = D /\ (\A x \in owed : f[x] = share[x])
      /\ (\A x \in D : g[x] = share[x] /\ h[x] = Due(x))
  OBVIOUS
<1> HIDE DEF f, g, h, D
<1>7. SumFunction(f) \in Nat /\ SumFunction(g) \in Nat /\ SumFunction(h) \in Nat
  <2>1. IsFiniteSet(DOMAIN f) /\ IsFiniteSet(DOMAIN g) /\ IsFiniteSet(DOMAIN h)
    BY <1>3, <1>5, <1>6
  <2>2. \A x \in DOMAIN f : f[x] \in Nat
    BY <1>4, <1>5, <1>6
  <2>3. \A x \in DOMAIN g : g[x] \in Nat
    BY <1>4, <1>6
  <2>4. \A x \in DOMAIN h : h[x] \in Nat
    BY <1>4, <1>6
  <2> QED
    BY <2>1, <2>2, <2>3, <2>4, SumNat
<1>8. SumFunction(f) <= SumFunction(g)
  <2>1. IsFiniteSet(DOMAIN g) /\ DOMAIN f \subseteq DOMAIN g
    BY <1>3, <1>5, <1>6
  <2>2. \A x \in DOMAIN f : f[x] \in Int /\ f[x] <= g[x]
    BY <1>4, <1>5, <1>6
  <2>3. \A x \in DOMAIN g : g[x] \in Int /\ g[x] >= 0
    BY <1>4, <1>6
  <2> QED
    BY <2>1, <2>2, <2>3, SumAtMost
<1>9. SumFunction(f) <= Amount[c]
  BY <1>1, <1>2, <1>7, <1>8 DEF Least
<1>10. owed \subseteq Debts /\ \A x \in owed : share[x] \in Nat \ {0} /\ share[x] <= Due(x) /\ Owner[x] = k
  BY <1>2, <1>3, <1>5
<1> QED
  BY <1>7, <1>9, <1>10 DEF f

\* A credit spread over a customer's debts, the oldest first.
LEMMA MatchDebtKeeps ==
  ASSUME IInv, NEW c \in Credits, NEW k \in Customers, MatchDebt(c, k)
  PROVE  IInv'
<1>1. PICK share \in Shares(c, k) :
        LET owed == {x \in DebtsOf(k) : share[x] > 0}
        IN  /\ Matchable(c) /\ ExistsInjection(owed, FreeIds)
            /\ LET id == CHOOSE f \in Injection(owed, FreeIds) : TRUE
               IN  payments' = payments \cup {Payment(id[x], x, share[x], c, Day[c], 0) : x \in owed}
            /\ paid' = [x \in DOMAIN paid |-> IF x \in owed THEN paid[x] + share[x] ELSE paid[x]]
            /\ credit' = [credit EXCEPT ![c].customer = k,
                                        ![c].matched = Sum(LAMBDA x : share[x], owed)]
            /\ fresh' = fresh \ {c}
            /\ UNCHANGED <<deposit, sale, debts, invoice, off, customers, lockDay, pending>>
  BY DEF MatchDebt, ByHand
<1> DEFINE owed == {x \in DebtsOf(k) : share[x] > 0}
           id == CHOOSE f \in Injection(owed, FreeIds) : TRUE
           new == {Payment(id[x], x, share[x], c, Day[c], 0) : x \in owed}
           n == SumFunction([x \in owed |-> share[x]])
<1>2. /\ Matchable(c) /\ payments' = payments \cup new /\ fresh' = fresh \ {c}
      /\ UNCHANGED <<deposit, sale, debts, invoice, off, customers, lockDay>>
      /\ paid' = [x \in DOMAIN paid |-> IF x \in owed THEN paid[x] + share[x] ELSE paid[x]]
  BY <1>1
<1>3. credit' = [credit EXCEPT ![c].customer = k, ![c].matched = n]
  BY <1>1 DEF Sum
<1>4. id \in Injection(owed, FreeIds)
  BY <1>1 DEF ExistsInjection
<1>5. /\ owed = {x \in DebtsOf(k) : share[x] > 0}
      /\ \A p \in new : \E x \in owed : p = Payment(id[x], x, share[x], c, Day[c], 0)
      /\ \A x \in owed : Payment(id[x], x, share[x], c, Day[c], 0) \in new
  OBVIOUS
<1> HIDE DEF owed, id, new
<1>6. /\ owed \subseteq Debts /\ \A x \in owed : share[x] \in Nat \ {0} /\ share[x] <= Due(x) /\ Owner[x] = k
      /\ n \in Nat /\ n <= Amount[c]
  BY <1>5, SharesFit
<1>7. /\ PaymentsOK' /\ \A p \in new : p.of \in owed
      /\ \A x : PaidSum(x)' = IF x \in owed THEN PaidSum(x) + share[x] ELSE PaidSum(x)
      /\ \A b \in Credits : PaymentsOf(b)' = IF b = c THEN PaymentsOf(b) \cup new ELSE PaymentsOf(b)
      /\ Total(new) = n
  <2>1. Pays(c, owed, share, id, new)
    <3>1. owed \subseteq Debts /\ \A x \in owed : share[x] \in Nat \ {0}
      BY <1>6
    <3> QED
      BY <1>2, <1>4, <1>5, <3>1 DEF Pays
  <2> QED
    BY <2>1, NewPayments DEF PaidBy
<1> HIDE DEF n
<1>8. paid' \in [Debts \cup Invoices -> Nat] /\ PaidAgree'
  <2>1. DOMAIN paid = Debts \cup Invoices
    BY PaidNow
  <2>2. ASSUME NEW x \in Debts \cup Invoices
        PROVE  paid'[x] \in Nat /\ paid'[x] = PaidSum(x)' /\ paid'[x] <= Amount[x]
    <3>1. paid'[x] = IF x \in owed THEN paid[x] + share[x] ELSE paid[x]
      BY <1>2, <2>1
    <3>2. /\ paid[x] \in Nat /\ Amount[x] \in Nat /\ Due(x) \in Nat
          /\ paid[x] + Due(x) = Amount[x] /\ paid[x] = PaidSum(x)
      BY PaidNow
    <3>3. x \in owed => share[x] \in Nat /\ share[x] <= Due(x)
      BY <1>6
    <3>4. PaidSum(x)' = IF x \in owed THEN PaidSum(x) + share[x] ELSE PaidSum(x)
      BY <1>7
    <3> QED
      BY <3>1, <3>2, <3>3, <3>4
  <2>3. paid' \in [Debts \cup Invoices -> Nat]
    BY <1>2, <2>1, <2>2
  <2> QED
    BY <2>2, <2>3 DEF PaidAgree
<1>9. Wrote(c, credit[c].at, credit[c].mark, credit[c].sale, k, credit[c].invoice, n)
  BY <1>3, <1>6, WroteCustomer DEF IInv, RowsOK
<1>10. PaymentsOf(c)' = new
  BY <1>2, <1>7, MatchableCredit, Unlinked
<1>11. \A p \in new : p.of \in Debts /\ Owner[p.of] = k
  BY <1>6, <1>7
<1>12. /\ CreditOK(c)' /\ DepositOf(c) = {} /\ credit'[c].sale = credit[c].sale
       /\ credit' \in [Credits -> CreditRow] /\ \A b \in Credits \ {c} : credit'[b] = credit[b]
  BY <1>2, <1>6, <1>7, <1>9, <1>10, <1>11, CustomerCredit
<1>13. \A b \in Credits \ {c} : credit'[b] = credit[b] /\ PaymentsOf(b)' = PaymentsOf(b)
  BY <1>7, <1>12
<1>14. debts' \subseteq Debts /\ off' \subseteq Invoices /\ invoice' \in [Invoices -> {"open", "void"}]
  BY <1>2, RowsNow DEF IInv
<1> QED
  BY <1>2, <1>7, <1>8, <1>12, <1>13, <1>14, PayStep

-----------------------------------------------------------------------------
(* Matches taken apart *)

\* The credit of a payment that is undone goes on with what it still pays.
LEMMA FreedCredit ==
  ASSUME IInv, NEW p \in payments, p.of \in Invoices, NEW c \in Credits, p.tx = c, credit' \in Freed(p),
         NEW rest, rest = PaymentsOf(c) \ {p}
  PROVE  /\ credit[c].mark = "none" /\ credit[c].sale = None /\ credit[c].customer = None
         /\ \A q \in rest : q.of \in Invoices
         /\ Total(rest) \in Nat /\ Total(rest) <= Amount[c]
         /\ \E z \in Invoices \cup {None} :
              /\ Wrote(c, credit[c].at, "none", None, None, z, Total(rest))
              /\ z = None => rest = {}
              /\ z # None => \E q \in rest : q.of = z
<1> DEFINE left == credit[c].matched - p.amount
           next == IF credit[c].invoice # p.of THEN {credit[c].invoice} ELSE {q.of : q \in rest}
<1>1. p \in PaymentsOf(c) /\ c # None /\ p.of \notin Debts
  BY Kinds DEF PaymentsOf
<1>2. /\ OneWay(credit[c]) /\ PaymentsAt(c) /\ MatchedAt(c)
  BY DEF IInv, CreditOK
<1>3. credit[c].invoice # None
  BY <1>1, <1>2 DEF PaymentsAt
<1>4. credit[c].mark = "none" /\ credit[c].sale = None /\ credit[c].customer = None
  BY <1>2, <1>3 DEF OneWay
<1>5. \A q \in PaymentsOf(c) : q.of \in Invoices
  <2> SUFFICES ASSUME NEW q \in PaymentsOf(c) PROVE q.of \in Invoices
    OBVIOUS
  <2>1. q.of \in Debts \cup Invoices
    BY PaymentsNow, PaymentFields
  <2>2. q.of \in Debts => credit[c].customer = Owner[q.of] /\ Owner[q.of] \in Customers
    BY <1>2, Kinds DEF PaymentsAt
  <2> QED
    BY <1>4, <2>1, <2>2, Kinds
<1>6. credit[c].matched = Total(PaymentsOf(c)) /\ credit[c].matched <= Amount[c]
  BY <1>2, <1>4, Totals DEF MatchedAt
<1>7. PaymentsOf(c) \subseteq PaymentRec /\ IsFiniteSet(PaymentsOf(c))
  BY PaymentsNow
<1>8. left = Total(rest) /\ Total(rest) \in Nat /\ Total(rest) <= Amount[c]
  <2>1. Total(rest) = Total(PaymentsOf(c)) - p.amount /\ p.amount > 0 /\ Total(rest) \in Nat
    BY <1>1, <1>7, TotalWithout
  <2>2. p.amount \in Nat /\ Amount[c] \in Nat /\ Total(PaymentsOf(c)) \in Nat
    BY <1>1, <1>7, PaymentFields, TotalNat, Kinds DEF Money
  <2> QED
    BY <1>6, <2>1, <2>2
<1>9. credit' \in (IF left > 0 /\ next # {}
                   THEN {[credit EXCEPT ![c].invoice = i, ![c].matched = left] : i \in next}
                   ELSE {[credit EXCEPT ![c].invoice = None, ![c].matched = 0]})
  BY <1>1, <1>3 DEF Freed
<1>10. \A i \in next : i \in Invoices /\ \E q \in rest : q.of = i
  <2>1. CASE credit[c].invoice # p.of
    <3>1. PICK q \in PaymentsOf(c) : q.of = credit[c].invoice
      BY <1>2, <1>3 DEF PaymentsAt
    <3>2. q \in rest /\ q.of \in Invoices
      BY <1>5, <2>1, <3>1
    <3> QED
      BY <2>1, <3>1, <3>2
  <2>2. CASE credit[c].invoice = p.of
    BY <1>5, <2>2
  <2> QED
    BY <2>1, <2>2
<1>11. ASSUME NEW q \in rest PROVE left > 0 /\ next # {}
  <2>1. rest \subseteq PaymentRec /\ IsFiniteSet(rest)
    BY <1>7, FS_Subset
  <2>2. Total(rest \ {q}) = Total(rest) - q.amount /\ q.amount > 0 /\ Total(rest \ {q}) \in Nat
    BY <2>1, TotalWithout
  <2>3. q.amount \in Nat
    BY <2>1, PaymentFields
  <2>4. left > 0
    <3> HIDE DEF left
    <3> QED
      BY <1>8, <2>2, <2>3
  <2> QED
    BY <2>4
<1> HIDE DEF left, next
<1>12. \E z \in Invoices \cup {None} :
              /\ Wrote(c, credit[c].at, "none", None, None, z, Total(rest))
              /\ z = None => rest = {}
              /\ z # None => \E q \in rest : q.of = z
  <2>1. CASE left > 0 /\ next # {}
    <3>1. PICK i \in next : credit' = [credit EXCEPT ![c].invoice = i, ![c].matched = left]
      BY <1>9, <2>1
    <3>2. i \in Invoices /\ left \in Nat
      BY <1>8, <1>10
    <3>3. Wrote(c, credit[c].at, credit[c].mark, credit[c].sale, credit[c].customer, i, left)
      BY <3>1, <3>2, WroteInvoice DEF IInv, RowsOK
    <3>4. i # None
      BY <3>2, Kinds
    <3> QED
      BY <1>4, <1>8, <1>10, <3>2, <3>3, <3>4
  <2>2. CASE ~(left > 0 /\ next # {})
    <3>1. rest = {}
      BY <1>11, <2>2
    <3>2. credit' = [credit EXCEPT ![c].invoice = None, ![c].matched = 0]
      BY <1>9, <2>2
    <3>3. Wrote(c, credit[c].at, credit[c].mark, credit[c].sale, credit[c].customer, None, 0)
      BY <3>2, WroteInvoice DEF IInv, RowsOK
    <3> QED
      BY <1>4, <3>1, <3>3, TotalNone
  <2> QED
    BY <2>1, <2>2
<1> QED
  BY <1>4, <1>5, <1>8, <1>12

\* An undone payment leaves its credit with what it still pays.
LEMMA UndoPaymentKeeps ==
  ASSUME IInv, NEW p \in payments, UndoPayment(p)
  PROVE  IInv'
<1> DEFINE c == p.tx
<1>1. /\ p.of \in Invoices /\ payments' = payments \ {p} /\ credit' \in Freed(p)
      /\ paid' = [paid EXCEPT ![p.of] = @ - p.amount] /\ fresh' = fresh \ {c}
      /\ UNCHANGED <<deposit, sale, debts, invoice, off, customers, lockDay>>
  BY DEF UndoPayment, ByHand
<1>2. /\ PaymentsOK'
      /\ \A x : PaidSum(x)' = IF x = p.of THEN PaidSum(x) - p.amount ELSE PaidSum(x)
      /\ \A x : x = p.of => PaidSum(x) - p.amount \in Nat
      /\ \A b : PaymentsOf(b)' = IF b = c THEN PaymentsOf(b) \ {p} ELSE PaymentsOf(b)
  BY <1>1, OneLess
<1>3. p \in PaymentRec /\ p.amount \in Nat /\ c \in Credits \cup {None}
  BY PaymentsNow, PaymentFields
<1>4. paid' \in [Debts \cup Invoices -> Nat] /\ PaidAgree'
  <2>1. ASSUME NEW x \in Debts \cup Invoices
        PROVE  paid'[x] \in Nat /\ paid'[x] = PaidSum(x)' /\ paid'[x] <= Amount[x]
    <3>1. /\ paid[x] \in Nat /\ Amount[x] \in Nat /\ paid[x] = PaidSum(x) /\ paid[x] <= Amount[x]
      BY PaidNow DEF IInv, PaidAgree
    <3>2. paid'[x] = IF x = p.of THEN paid[x] - p.amount ELSE paid[x]
      <4>1. paid' = [paid EXCEPT ![p.of] = paid[p.of] - p.amount]
        BY <1>1
      <4> QED
        BY <4>1, PaidNow
    <3>3. x = p.of => paid[x] - p.amount \in Nat
      BY <1>2, <3>1
    <3> QED
      BY <1>2, <1>3, <3>1, <3>2, <3>3
  <2>2. paid' \in [Debts \cup Invoices -> Nat]
    <3>1. DOMAIN paid' = Debts \cup Invoices /\ paid' = [x \in DOMAIN paid' |-> paid'[x]]
      BY <1>1, PaidNow
    <3> QED
      BY <2>1, <3>1
  <2> QED
    BY <2>1, <2>2 DEF PaidAgree
<1>5. debts' \subseteq Debts /\ off' \subseteq Invoices /\ invoice' \in [Invoices -> {"open", "void"}]
  BY <1>1, RowsNow DEF IInv
<1>6. CASE c = None
  <2>1. UNCHANGED credit
    BY <1>1, <1>6 DEF Freed
  <2>2. credit' \in [Credits -> CreditRow]
    BY <2>1, RowsNow DEF IInv
  <2>3. \A b \in Credits : credit'[b] = credit[b] /\ PaymentsOf(b)' = PaymentsOf(b)
    BY <1>2, <1>6, <2>1, Kinds
  <2> HIDE DEF c
  <2> QED
    BY <1>1, <1>2, <1>4, <1>5, <2>2, <2>3, PayStep
<1>7. CASE c # None
  <2> DEFINE rest == PaymentsOf(c) \ {p}
  <2>0. c \in Credits /\ p.tx = c /\ rest = PaymentsOf(c) \ {p}
    BY <1>3, <1>7
  <2> HIDE DEF c, rest
  <2>1. /\ credit[c].mark = "none" /\ credit[c].sale = None /\ credit[c].customer = None
        /\ \A q \in rest : q.of \in Invoices
        /\ Total(rest) \in Nat /\ Total(rest) <= Amount[c]
        /\ \E z \in Invoices \cup {None} :
              /\ Wrote(c, credit[c].at, "none", None, None, z, Total(rest))
              /\ z = None => rest = {}
              /\ z # None => \E q \in rest : q.of = z
    BY <1>1, <2>0, FreedCredit
  <2>2. PICK z \in Invoices \cup {None} :
              /\ Wrote(c, credit[c].at, "none", None, None, z, Total(rest))
              /\ z = None => rest = {}
              /\ z # None => \E q \in rest : q.of = z
    BY <2>1
  <2>3. PaymentsOf(c)' = rest /\ \A b \in Credits \ {c} : PaymentsOf(b)' = PaymentsOf(b)
    BY <1>2, <2>0
  <2>4. /\ credit' \in [Credits -> CreditRow] /\ credit'[c].mark = "none" /\ credit'[c].sale = None
        /\ credit'[c].customer = None /\ credit'[c].invoice = z /\ credit'[c].matched = Total(rest)
        /\ \A b \in Credits \ {c} : credit'[b] = credit[b]
    BY <2>2 DEF Wrote
  <2>5. CarriedBy(c)' = Total(rest)
    BY <2>3, <2>4 DEF CarriedBy, Sum, Total
  <2>6. MatchedAt(c)'
    BY <2>1, <2>4, <2>5 DEF MatchedAt
  <2>7. PaymentsAt(c)'
    <3>1. \A q \in rest : q.of \notin Debts /\ z # None
      BY <2>1, <2>2, Kinds
    <3> QED
      BY <2>2, <2>3, <2>4, <3>1 DEF PaymentsAt
  <2>8. OneWay(credit[c])' /\ SaleAt(c)'
    BY <2>4 DEF OneWay, SaleAt
  <2>9. CreditOK(c)' /\ DepositOf(c) = {} /\ credit'[c].sale = credit[c].sale
    BY <2>0, <2>1, <2>4, <2>6, <2>7, <2>8, Deposited DEF CreditOK
  <2> QED
    BY <1>1, <1>2, <1>4, <1>5, <2>3, <2>4, <2>9, PayStep
<1> QED
  BY <1>6, <1>7

\* Other payments for the same amounts.
LEMMA TotalRenamed ==
  ASSUME NEW S, NEW T, NEW m, S \subseteq PaymentRec, IsFiniteSet(S), m \in [S -> T],
         \A p \in S : m[p] \in PaymentRec /\ m[p].amount = p.amount,
         \A p, q \in S : m[p] = m[q] => p = q, \A t \in T : \E p \in S : t = m[p]
  PROVE  IsFiniteSet(T) /\ T \subseteq PaymentRec /\ Total(T) = Total(S)
<1> DEFINE f == [p \in S |-> p.amount]
           g == [p \in T |-> p.amount]
<1>1. IsFiniteSet(T)
  <2>1. m \in Surjection(S, T)
    BY DEF Surjection
  <2> QED
    BY <2>1, FS_Surjection
<1>2. DOMAIN f = S /\ DOMAIN g = T /\ (\A p \in S : f[p] = p.amount) /\ \A p \in T : g[p] = p.amount
  OBVIOUS
<1> HIDE DEF f, g
<1>3. DOMAIN g = {m[p] : p \in DOMAIN f}
  <2>1. T = {m[p] : p \in S}
    OBVIOUS
  <2> QED
    BY <1>2, <2>1, Zenon
<1>4. \A p, q \in DOMAIN f : m[p] = m[q] => p = q
  BY <1>2
<1>5. ASSUME NEW p \in DOMAIN f PROVE f[p] \in Int /\ g[m[p]] = f[p]
  <2>1. p \in S /\ m[p] \in T /\ m[p].amount = p.amount /\ p.amount \in Nat
    BY <1>2, PaymentFields
  <2> QED
    BY <1>2, <2>1
<1>6. SumFunction(g) = SumFunction(f)
  <2>1. IsFiniteSet(DOMAIN f) /\ IsFiniteSet(DOMAIN g)
    BY <1>1, <1>2
  <2> QED
    BY <1>3, <1>4, <1>5, <2>1, SumRenamed
<1>7. T \subseteq PaymentRec
  <2> SUFFICES ASSUME NEW t \in T PROVE t \in PaymentRec
    OBVIOUS
  <2> QED
    OBVIOUS
<1> QED
  BY <1>1, <1>6, <1>7 DEF Total, f, g

\* What unmatching does to the payments of credit c: those it made go, and those
\* recorded by hand are as they were before.
Made(c) == {p \in PaymentsOf(c) : p.was = 0}
Hand(c) == {p \in PaymentsOf(c) : p.was # 0}
Before(p) == Payment(p.id, p.of, p.amount, None, p.was, 0)

\* A payment recorded by hand, as it was before its match.
LEMMA BeforeForm ==
  ASSUME NEW p \in PaymentRec, p.was # 0
  PROVE  /\ Before(p) \in PaymentRec /\ Before(p).id = p.id /\ Before(p).of = p.of
         /\ Before(p).amount = p.amount /\ Before(p).tx = None
<1>1. /\ p.id \in PaymentIds /\ p.of \in Debts \cup Invoices /\ p.amount \in Nat \ {0}
      /\ p.was \in 0..LastDay /\ 0 \in 0..LastDay
  BY PaymentFields, Kinds
<1>2. p.was \in Days
  BY <1>1 DEF Days
<1>3. Before(p) \in PaymentRec
  BY <1>1, <1>2, PaymentForm DEF Before
<1> QED
  BY <1>3 DEF Before, Payment

\* An unmatch drops the payments the match made and gives the others back.
LEMMA TakenApart ==
  ASSUME IInv, NEW c \in Credits,
         payments' = (payments \ PaymentsOf(c)) \cup {Before(p) : p \in Hand(c)}
  PROVE  /\ PaymentsOK' /\ PaymentsOf(c)' = {}
         /\ \A b \in Credits \ {c} : PaymentsOf(b)' = PaymentsOf(b)
         /\ \A x : /\ PaidSum(x)' \in Nat
                   /\ PaidSum(x)' = PaidSum(x) - Total({p \in Made(c) : p.of = x})
                   /\ PaidSum(x)' <= PaidSum(x)
<1> DEFINE R == payments \ PaymentsOf(c)
           H == {Before(p) : p \in Hand(c)}
<1>1. /\ payments \subseteq PaymentRec /\ IsFiniteSet(payments)
      /\ \A p, q \in payments : p.id = q.id => p = q
  BY PaymentsNow
<1>2. Hand(c) \subseteq payments /\ Made(c) \subseteq payments /\ \A p \in Hand(c) : p.was # 0
  BY DEF Hand, Made, PaymentsOf
<1>3. ASSUME NEW p \in Hand(c)
      PROVE  /\ Before(p) \in PaymentRec /\ Before(p).id = p.id /\ Before(p).of = p.of
             /\ Before(p).amount = p.amount /\ Before(p).tx = None
  BY <1>1, <1>2, BeforeForm
<1>4. ASSUME NEW q \in H
      PROVE  \E p \in Hand(c) : /\ q = Before(p) /\ q \in PaymentRec /\ q.id = p.id /\ q.of = p.of
                                /\ q.amount = p.amount /\ q.tx = None
  <2>1. PICK p \in Hand(c) : q = Before(p)
    OBVIOUS
  <2> QED
    BY <1>3, <2>1
<1>5. \A q \in H, r \in R : q.id # r.id
  <2> SUFFICES ASSUME NEW q \in H, NEW r \in R, q.id = r.id PROVE FALSE
    OBVIOUS
  <2>1. PICK p \in Hand(c) : q.id = p.id
    BY <1>4
  <2>2. p \in payments /\ p \in PaymentsOf(c)
    BY DEF Hand, PaymentsOf
  <2> QED
    BY <1>1, <2>1, <2>2
<1>6. \A q, r \in H : q.id = r.id => q = r
  <2> SUFFICES ASSUME NEW q \in H, NEW r \in H, q.id = r.id PROVE q = r
    OBVIOUS
  <2>1. PICK p \in Hand(c) : q = Before(p) /\ q.id = p.id
    BY <1>4
  <2>2. PICK o \in Hand(c) : r = Before(o) /\ r.id = o.id
    BY <1>4
  <2>3. p = o
    BY <1>1, <1>2, <2>1, <2>2
  <2> QED
    BY <2>1, <2>2, <2>3
<1>7. \A p \in Hand(c) : Before(p) \in H
  OBVIOUS
<1>8. payments' = R \cup H /\ R \subseteq payments
  OBVIOUS
<1>9. H \subseteq PaymentRec /\ \A q \in H : q.tx = None
  <2> SUFFICES ASSUME NEW q \in H PROVE q \in PaymentRec /\ q.tx = None
    OBVIOUS
  <2> QED
    BY <1>4
<1>10. ASSUME NEW x
       PROVE  LET Hx == {q \in H : q.of = x}
                  Sx == {p \in Hand(c) : p.of = x}
              IN  IsFiniteSet(Hx) /\ Hx \subseteq PaymentRec /\ Total(Hx) = Total(Sx)
  <2> DEFINE Hx == {q \in H : q.of = x}
             Sx == {p \in Hand(c) : p.of = x}
             m == [p \in Sx |-> Before(p)]
  <2>1. Sx \subseteq PaymentRec /\ IsFiniteSet(Sx)
    BY <1>1, <1>2, FS_Subset
  <2>2. \A p \in Sx : Before(p) \in Hx
    <3> SUFFICES ASSUME NEW p \in Sx PROVE Before(p) \in Hx
      OBVIOUS
    <3>1. Before(p) \in H /\ Before(p).of = x
      BY <1>3, <1>7
    <3> QED
      BY <3>1
  <2>3. m \in [Sx -> Hx] /\ \A p \in Sx : m[p] = Before(p)
    BY <2>2
  <2>4. ASSUME NEW p \in Sx PROVE m[p] \in PaymentRec /\ m[p].amount = p.amount
    BY <1>3, <2>3
  <2>5. ASSUME NEW p \in Sx, NEW q \in Sx, m[p] = m[q] PROVE p = q
    <3>1. m[p].id = p.id /\ m[q].id = q.id
      BY <1>3, <2>3
    <3> QED
      BY <1>1, <1>2, <2>5, <3>1
  <2>6. ASSUME NEW q \in Hx PROVE \E p \in Sx : q = m[p]
    <3>1. PICK p \in Hand(c) : q = Before(p) /\ q.of = p.of
      BY <1>4
    <3>2. p \in Sx
      BY <3>1
    <3> QED
      BY <2>3, <3>1, <3>2
  <2> HIDE DEF m, Hx, Sx
  <2>7. IsFiniteSet(Hx) /\ Hx \subseteq PaymentRec /\ Total(Hx) = Total(Sx)
    BY <2>1, <2>3, <2>4, <2>5, <2>6, TotalRenamed
  <2> QED
    BY <2>7 DEF Hx, Sx
<1>11. PaymentsOK'
  <2>1. IsFiniteSet(H)
    <3> DEFINE m == [p \in Hand(c) |-> Before(p)]
    <3>1. m \in [Hand(c) -> H] /\ \A q \in H : \E p \in Hand(c) : m[p] = q
      OBVIOUS
    <3>2. m \in Surjection(Hand(c), H)
      BY <3>1 DEF Surjection
    <3>3. IsFiniteSet(Hand(c))
      BY <1>1, <1>2, FS_Subset
    <3> HIDE DEF m, H
    <3> QED
      BY <3>2, <3>3, FS_Surjection
  <2>2. IsFiniteSet(R \cup H)
    <3>1. IsFiniteSet(R)
      BY <1>1, FS_Subset
    <3> HIDE DEF R, H
    <3> QED
      BY <2>1, <3>1, FS_Union
  <2>3. R \cup H \subseteq PaymentRec
    BY <1>1, <1>9
  <2>4. \A p, q \in R \cup H : p.id = q.id => p = q
    <3> HIDE DEF H
    <3> QED
      BY <1>1, <1>5, <1>6
  <2> HIDE DEF R, H
  <2> QED
    BY <1>8, <2>2, <2>3, <2>4 DEF PaymentsOK
<1>12. PaymentsOf(c)' = {} /\ \A b \in Credits \ {c} : PaymentsOf(b)' = PaymentsOf(b)
  <2> HIDE DEF H
  <2> QED
    BY <1>8, <1>9, Kinds DEF PaymentsOf
<1>13. ASSUME NEW x
       PROVE  /\ PaidSum(x)' \in Nat
              /\ PaidSum(x)' = PaidSum(x) - Total({p \in Made(c) : p.of = x})
              /\ PaidSum(x)' <= PaidSum(x)
  <2> DEFINE Rx == {p \in R : p.of = x}
             Hx == {q \in H : q.of = x}
             Sx == {p \in Hand(c) : p.of = x}
             Mx == {p \in Made(c) : p.of = x}
  <2>1. PaidSum(x) = Total({p \in payments : p.of = x}) /\ PaidSum(x)' = Total({p \in payments' : p.of = x})
    BY DEF PaidSum, Sum, Total
  <2>2. {p \in payments : p.of = x} = Rx \cup (Sx \cup Mx) /\ Rx \cap (Sx \cup Mx) = {} /\ Sx \cap Mx = {}
    BY DEF PaymentsOf, Hand, Made
  <2>3. {p \in payments' : p.of = x} = Rx \cup Hx
    BY <1>8
  <2>4. Rx \cap Hx = {}
    BY <1>5
  <2>5. /\ Rx \subseteq PaymentRec /\ IsFiniteSet(Rx) /\ Sx \subseteq PaymentRec /\ IsFiniteSet(Sx)
        /\ Mx \subseteq PaymentRec /\ IsFiniteSet(Mx)
    <3>1. Rx \subseteq payments /\ Sx \subseteq payments /\ Mx \subseteq payments
      BY <1>2
    <3> HIDE DEF Rx, Sx, Mx
    <3> QED
      BY <1>1, <3>1, FS_Subset
  <2>6. IsFiniteSet(Hx) /\ Hx \subseteq PaymentRec /\ Total(Hx) = Total(Sx)
    BY <1>10
  <2> HIDE DEF Rx, Hx, Sx, Mx
  <2>7. Total(Sx \cup Mx) = Total(Sx) + Total(Mx)
    BY <2>2, <2>5, TotalParts
  <2>8. Total(Rx \cup (Sx \cup Mx)) = Total(Rx) + Total(Sx \cup Mx)
    <3>1. IsFiniteSet(Sx \cup Mx) /\ Sx \cup Mx \subseteq PaymentRec
      BY <2>5, FS_Union
    <3> QED
      BY <2>2, <2>5, <3>1, TotalParts
  <2>9. Total(Rx \cup Hx) = Total(Rx) + Total(Hx)
    BY <2>4, <2>5, <2>6, TotalParts
  <2>10. Total(Rx) \in Nat /\ Total(Sx) \in Nat /\ Total(Mx) \in Nat
    BY <2>5, TotalNat
  <2>11. /\ PaidSum(x)' \in Nat /\ PaidSum(x)' = PaidSum(x) - Total(Mx)
         /\ PaidSum(x)' <= PaidSum(x)
    <3>1. PaidSum(x) = Total(Rx) + (Total(Sx) + Total(Mx))
      BY <2>1, <2>2, <2>7, <2>8
    <3>2. PaidSum(x)' = Total(Rx) + Total(Sx)
      BY <2>1, <2>3, <2>6, <2>9
    <3> QED
      BY <2>10, <3>1, <3>2
  <2> QED
    BY <2>11 DEF Mx
<1> QED
  BY <1>11, <1>12, <1>13

\* What DELETE /transactions/:id/match writes.
LEMMA UnmatchWrote ==
  ASSUME IInv, NEW c \in Credits, NEW deleteSale \in BOOLEAN, Unmatch(c, deleteSale)
  PROVE  /\ Linked(c) /\ DepositOf(c) = {} /\ fresh' = fresh \ {c}
         /\ sale' = IF credit[c].sale = None THEN sale
                    ELSE [sale EXCEPT ![credit[c].sale] =
                            [amount |-> IF deleteSale THEN 0 ELSE sale[credit[c].sale].amount, tx |-> None]]
         /\ payments' = (payments \ PaymentsOf(c)) \cup {Before(p) : p \in Hand(c)}
         /\ paid' = [x \in Debts \cup Invoices |-> paid[x] - Total({p \in Made(c) : p.of = x})]
         /\ Wrote(c, credit[c].at, credit[c].mark, None, None, None, 0)
         /\ UNCHANGED <<deposit, debts, invoice, off, customers, lockDay>>
<1> DEFINE back(x) == Sum(LAMBDA p : p.amount, {p \in {p \in PaymentsOf(c) : p.was = 0} : p.of = x})
<1>1. /\ Linked(c) /\ DepositOf(c) = {} /\ fresh' = fresh \ {c}
      /\ UNCHANGED <<deposit, debts, invoice, off, customers, lockDay>>
  BY DEF Unmatch, ByHand
<1>2. sale' = IF credit[c].sale = None THEN sale
              ELSE [sale EXCEPT ![credit[c].sale] =
                      [amount |-> IF deleteSale THEN 0 ELSE sale[credit[c].sale].amount, tx |-> None]]
  BY DEF Unmatch
<1>3. payments' = (payments \ PaymentsOf(c)) \cup {Before(p) : p \in Hand(c)}
  BY DEF Unmatch, Before, Hand
<1>4. paid' = [x \in DOMAIN paid |-> paid[x] - back(x)]
  BY DEF Unmatch
<1>5. \A x : back(x) = Total({p \in Made(c) : p.of = x})
  BY DEF Sum, Total, Made
<1> HIDE DEF back
<1>6. paid' = [x \in Debts \cup Invoices |-> paid[x] - Total({p \in Made(c) : p.of = x})]
  <2>1. DOMAIN paid = Debts \cup Invoices
    BY PaidNow
  <2> QED
    BY <1>4, <1>5, <2>1
<1>7. credit' = [credit EXCEPT ![c] = [NoCredit EXCEPT !.at = credit[c].at, !.mark = credit[c].mark]]
  BY DEF Unmatch
<1>8. Wrote(c, credit[c].at, credit[c].mark, None, None, None, 0)
  BY <1>7, WroteNone DEF IInv, RowsOK
<1> QED
  BY <1>1, <1>2, <1>3, <1>6, <1>8

\* An unmatch leaves nothing that names the credit.
LEMMA UnmatchKeeps ==
  ASSUME IInv, NEW c \in Credits, NEW deleteSale \in BOOLEAN, Unmatch(c, deleteSale)
  PROVE  IInv'
<1> DEFINE s == credit[c].sale
           t == [amount |-> IF deleteSale THEN 0 ELSE sale[s].amount, tx |-> None]
           B(x) == Total({p \in Made(c) : p.of = x})
<1>1. /\ DepositOf(c) = {} /\ fresh' = fresh \ {c}
      /\ sale' = IF s = None THEN sale ELSE [sale EXCEPT ![s] = t]
      /\ payments' = (payments \ PaymentsOf(c)) \cup {Before(p) : p \in Hand(c)}
      /\ paid' = [x \in Debts \cup Invoices |-> paid[x] - B(x)]
      /\ Wrote(c, credit[c].at, credit[c].mark, None, None, None, 0)
      /\ UNCHANGED <<deposit, debts, invoice, off, customers, lockDay>>
  BY UnmatchWrote
<1>2. /\ PaymentsOK' /\ PaymentsOf(c)' = {}
      /\ \A b \in Credits \ {c} : PaymentsOf(b)' = PaymentsOf(b)
      /\ \A x : /\ PaidSum(x)' \in Nat
                /\ PaidSum(x)' = PaidSum(x) - B(x)
                /\ PaidSum(x)' <= PaidSum(x)
  BY <1>1, TakenApart
<1> HIDE DEF B
<1>3. s \in Sales \cup {None} /\ (s # None => sale[s].tx = c /\ t \in SaleRec)
  <2>1. s \in Sales \cup {None}
    BY RowAt, CreditFields DEF IInv, RowsOK
  <2>2. s # None => sale[s].tx = c
    BY DEF IInv, CreditOK, SaleAt
  <2>3. s # None => sale[s].amount \in Nat
    BY <2>1, SaleFields
  <2> HIDE DEF s
  <2> QED
    BY <2>1, <2>2, <2>3 DEF SaleRec
<1>4. /\ sale' \in [Sales -> SaleRec] /\ \A r \in Sales \ {s} : sale'[r] = sale[r]
      /\ s # None => sale'[s] = t
  <2>1. sale \in [Sales -> SaleRec]
    BY RowsNow DEF IInv
  <2> HIDE DEF s, t
  <2> QED
    BY <1>1, <1>3, <2>1
<1>5. /\ credit' \in [Credits -> CreditRow] /\ credit'[c].mark = credit[c].mark
      /\ credit'[c].sale = None /\ credit'[c].customer = None /\ credit'[c].invoice = None
      /\ credit'[c].matched = 0 /\ \A b \in Credits \ {c} : credit'[b] = credit[b]
  BY <1>1 DEF Wrote
<1>6. paid' \in [Debts \cup Invoices -> Nat] /\ PaidAgree'
  <2>1. ASSUME NEW x \in Debts \cup Invoices
        PROVE  paid'[x] \in Nat /\ paid'[x] = PaidSum(x)' /\ paid'[x] <= Amount[x]
    <3>1. /\ paid[x] \in Nat /\ Amount[x] \in Nat /\ paid[x] = PaidSum(x) /\ paid[x] <= Amount[x]
      BY PaidNow DEF IInv, PaidAgree
    <3>2. paid'[x] = paid[x] - B(x)
      BY <1>1
    <3> QED
      BY <1>2, <3>1, <3>2
  <2>2. paid' \in [Debts \cup Invoices -> Nat]
    BY <1>1, <2>1
  <2> QED
    BY <2>1, <2>2 DEF PaidAgree
<1>7. RowsOK'
  <2>1. debts' \subseteq Debts /\ off' \subseteq Invoices /\ invoice' \in [Invoices -> {"open", "void"}]
    BY <1>1, RowsNow DEF IInv
  <2> QED
    BY <1>1, <1>2, <1>4, <1>5, <1>6, <2>1, RowsNow, RowsFrame DEF IInv
<1>8. \A b \in Credits \ {c} : credit[b].sale # None => credit[b].sale \in Sales \ {s}
  <2> SUFFICES ASSUME NEW b \in Credits \ {c}, credit[b].sale # None PROVE credit[b].sale \in Sales \ {s}
    OBVIOUS
  <2>1. credit[b].sale \in Sales
    BY RowAt, CreditFields DEF IInv, RowsOK
  <2>2. sale[credit[b].sale].tx = b
    BY DEF IInv, CreditOK, SaleAt
  <2> HIDE DEF s
  <2> QED
    BY <1>3, <2>1, <2>2
<1>9. \A b \in Credits : CreditOK(b)'
  <2> SUFFICES ASSUME NEW b \in Credits PROVE CreditOK(b)'
    OBVIOUS
  <2>1. CASE b # c
    <3>1. credit[b].sale # None => sale'[credit[b].sale] = sale[credit[b].sale]
      BY <1>4, <1>8, <2>1
    <3> QED
      BY <1>1, <1>2, <1>5, <2>1, <3>1, CreditFrame
  <2>2. CASE b = c
    <3>1. CarriedBy(c)' = 0
      <4>1. CarriedBy(c)' = Total({})
        BY <1>2, <1>5, Zenon DEF CarriedBy, Sum, Total
      <4> QED
        BY <4>1, TotalNone
    <3>2. MatchedAt(c)'
      <4>1. 0 <= Amount[c]
        BY Kinds DEF Money
      <4> QED
        BY <1>5, <3>1, <4>1 DEF MatchedAt
    <3>3. PaymentsAt(c)'
      BY <1>2, <1>5 DEF PaymentsAt
    <3>4. OneWay(credit[c])' /\ SaleAt(c)'
      BY <1>5 DEF OneWay, SaleAt
    <3> QED
      BY <2>2, <3>2, <3>3, <3>4 DEF CreditOK
  <2> QED
    BY <2>1, <2>2
<1>10. DepositsAgree'
  <2>1. \A b \in Credits : DepositOf(b) # {} => credit'[b].mark = credit[b].mark /\ ~Linked(b)'
    BY <1>1, <1>5, Deposited DEF Linked
  <2> QED
    BY <1>1, <2>1, DepositsFrame
<1>11. SalesAgree'
  <2> SUFFICES ASSUME NEW r \in Sales, sale'[r].tx # None
               PROVE  credit'[sale'[r].tx].sale = r /\ sale'[r].amount > 0
    BY DEF SalesAgree
  <2>1. r # s /\ sale'[r] = sale[r]
    <3>1. t.tx = None /\ r # None
      BY Kinds
    <3> HIDE DEF s, t
    <3> QED
      BY <1>4, <3>1
  <2>2. sale[r].tx \in Credits /\ credit[sale[r].tx].sale = r /\ sale[r].amount > 0
    BY <2>1, SaleFields DEF IInv, SalesAgree
  <2>3. sale[r].tx # c
    BY <2>1, <2>2
  <2> QED
    BY <1>5, <2>1, <2>2, <2>3
<1>12. NoMissedPair'
  <2>1. UNCHANGED <<deposit, lockDay>> /\ fresh' \subseteq fresh
    BY <1>1
  <2>2. \A b \in Credits : b \in fresh' => credit'[b] = credit[b]
    BY <1>1, <1>5
  <2> QED
    BY <2>1, <2>2, MissedFrame
<1> QED
  BY <1>6, <1>7, <1>9, <1>10, <1>11, <1>12 DEF IInv

\* A deleted customer's debts go with their payments.
LEMMA DeleteCustomerKeeps ==
  ASSUME IInv, NEW k \in Customers, DeleteCustomer(k)
  PROVE  IInv'
<1> DEFINE D == DebtsOf(k)
<1>1. /\ customers' = customers \ {k} /\ debts' = debts \ D
      /\ payments' = {p \in payments : p.of \notin D}
      /\ paid' = [x \in DOMAIN paid |-> IF x \in D THEN 0 ELSE paid[x]]
      /\ UNCHANGED <<credit, deposit, sale, invoice, off, lockDay, fresh>>
  BY DEF DeleteCustomer
<1>2. D \subseteq Debts /\ \A x \in D : Owner[x] = k
  BY RowsNow DEF DebtsOf, IInv
<1> HIDE DEF D
<1>3. PaymentsOK'
  <2>1. IsFiniteSet({p \in payments : p.of \notin D})
    BY PaymentsNow, FS_Subset
  <2> QED
    BY <1>1, <2>1, PaymentsNow DEF PaymentsOK
<1>4. ASSUME NEW x PROVE PaidSum(x)' = IF x \in D THEN 0 ELSE PaidSum(x)
  <2>1. PaidSum(x) = Total({p \in payments : p.of = x}) /\ PaidSum(x)' = Total({p \in payments' : p.of = x})
    BY DEF PaidSum, Sum, Total
  <2>2. CASE x \in D
    <3>1. {p \in payments' : p.of = x} = {}
      BY <1>1, <2>2
    <3> QED
      BY <2>1, <2>2, <3>1, TotalNone
  <2>3. CASE x \notin D
    <3>1. {p \in payments' : p.of = x} = {p \in payments : p.of = x}
      BY <1>1, <2>3
    <3> QED
      BY <2>1, <2>3, <3>1
  <2> QED
    BY <2>2, <2>3
<1>5. paid' \in [Debts \cup Invoices -> Nat] /\ PaidAgree'
  <2>1. DOMAIN paid = Debts \cup Invoices
    BY PaidNow
  <2>2. ASSUME NEW x \in Debts \cup Invoices
        PROVE  paid'[x] \in Nat /\ paid'[x] = PaidSum(x)' /\ paid'[x] <= Amount[x]
    <3>1. /\ paid[x] \in Nat /\ Amount[x] \in Nat /\ paid[x] = PaidSum(x) /\ paid[x] <= Amount[x]
      BY PaidNow DEF IInv, PaidAgree
    <3>2. paid'[x] = IF x \in D THEN 0 ELSE paid[x]
      BY <1>1, <2>1
    <3> QED
      BY <1>4, <3>1, <3>2
  <2>3. paid' \in [Debts \cup Invoices -> Nat]
    BY <1>1, <2>1, <2>2
  <2> QED
    BY <2>2, <2>3 DEF PaidAgree
<1>6. RowsOK'
  <2>1. /\ debts' \subseteq Debts /\ off' \subseteq Invoices /\ invoice' \in [Invoices -> {"open", "void"}]
        /\ customers' \subseteq Customers
    BY <1>1, RowsNow DEF IInv
  <2> QED
    BY <1>1, <1>3, <1>5, <2>1, RowsNow, RowsFrame DEF IInv
<1>7. \A c \in Credits : CreditOK(c)'
  <2> SUFFICES ASSUME NEW c \in Credits PROVE CreditOK(c)'
    OBVIOUS
  <2>1. PaymentsOf(c)' = {p \in PaymentsOf(c) : p.of \notin D}
    BY <1>1 DEF PaymentsOf
  <2>2. OneWay(credit[c]) /\ SaleAt(c) /\ PaymentsAt(c) /\ MatchedAt(c)
    BY DEF IInv, CreditOK
  <2>3. CASE credit[c].customer # k
    <3>1. \A p \in PaymentsOf(c) : p.of \notin D
      BY <1>2, <2>2, <2>3 DEF PaymentsAt
    <3>2. PaymentsOf(c)' = PaymentsOf(c)
      BY <2>1, <3>1
    <3> QED
      BY <1>1, <3>2, CreditFrame
  <2>4. CASE credit[c].customer = k
    <3>1. k # None
      BY Kinds
    <3>2. credit[c].invoice = None /\ credit[c].sale = None
      BY <2>2, <2>4, <3>1 DEF OneWay
    <3>3. PaymentsAt(c)'
      BY <1>1, <2>1, <2>2, <3>2 DEF PaymentsAt
    <3>4. MatchedAt(c)'
      BY <1>1, <2>2, <2>4, <3>1 DEF MatchedAt
    <3>5. OneWay(credit[c])' /\ SaleAt(c)'
      BY <1>1, <2>2, <3>2 DEF OneWay, SaleAt
    <3> QED
      BY <3>3, <3>4, <3>5 DEF CreditOK
  <2> QED
    BY <2>3, <2>4
<1>8. DepositsAgree'
  <2>1. \A c \in Credits : DepositOf(c) # {} => credit'[c].mark = credit[c].mark /\ ~Linked(c)'
    BY <1>1, Deposited DEF Linked
  <2> QED
    BY <1>1, <2>1, DepositsFrame
<1>9. SalesAgree'
  BY <1>1, SalesFrame
<1>10. NoMissedPair'
  BY <1>1, MissedFrame
<1> QED
  BY <1>5, <1>6, <1>7, <1>8, <1>9, <1>10 DEF IInv

-----------------------------------------------------------------------------
(* The inductive invariant, and what follows from it *)

\* An empty set of books agrees.
LEMMA InitHolds == Init => IInv
<1> SUFFICES ASSUME Init PROVE IInv
  OBVIOUS
<1>1. NoCredit \in CreditRow /\ NoDeposit \in DepositRec
  <2>1. 1 \in Days
    BY Kinds
  <2> QED
    BY <2>1 DEF NoCredit, NoDeposit, CreditRow, DepositRec, Marks
<1>2. /\ credit = [c \in Credits |-> NoCredit] /\ deposit = [d \in Deposits |-> NoDeposit]
      /\ sale = [s \in Sales |-> [amount |-> 0, tx |-> None]] /\ debts \subseteq Debts
      /\ paid = [x \in Debts \cup Invoices |-> 0] /\ invoice = [i \in Invoices |-> "open"]
      /\ off = {} /\ payments = {} /\ customers = Customers /\ lockDay = 0
  BY DEF Init
<1>3. PaymentsOK
  BY <1>2, FS_EmptySet DEF PaymentsOK
<1>4. RowsOK
  <2>1. credit \in [Credits -> CreditRow] /\ deposit \in [Deposits -> DepositRec]
    BY <1>1, <1>2
  <2>2. lockDay \in 0..LastDay
    BY <1>2, Kinds
  <2>3. TypeOK
    BY <1>2, <2>1, <2>2 DEF TypeOK, CreditRow, DepositRec
  <2> QED
    BY <1>3, <2>3 DEF RowsOK
<1>5. \A c \in Credits : CreditOK(c)
  <2> SUFFICES ASSUME NEW c \in Credits PROVE CreditOK(c)
    OBVIOUS
  <2>1. /\ credit[c].at = "away" /\ credit[c].mark = "none" /\ credit[c].sale = None
        /\ credit[c].customer = None /\ credit[c].invoice = None /\ credit[c].matched = 0
    BY <1>2 DEF NoCredit
  <2>2. PaymentsOf(c) = {}
    BY <1>2 DEF PaymentsOf
  <2>3. CarriedBy(c) = 0
    BY <2>1, <2>2, Totals, TotalNone
  <2>4. 0 <= Amount[c]
    BY Kinds DEF Money
  <2> QED
    BY <2>1, <2>2, <2>3, <2>4 DEF CreditOK, OneWay, SaleAt, PaymentsAt, MatchedAt
<1>6. DepositsAgree /\ SalesAgree
  BY <1>2 DEF DepositsAgree, SalesAgree, NoDeposit
<1>7. PaidAgree
  <2> SUFFICES ASSUME NEW x \in Debts \cup Invoices PROVE paid[x] = PaidSum(x) /\ paid[x] <= Amount[x]
    BY DEF PaidAgree
  <2>1. PaidSum(x) = Total({}) /\ paid[x] = 0
    BY <1>2 DEF PaidSum, Sum, Total
  <2>2. 0 <= Amount[x]
    BY Kinds DEF Money
  <2> QED
    BY <2>1, <2>2, TotalNone
<1>8. NoMissedPair
  BY <1>2 DEF NoMissedPair, NoCredit
<1> QED
  BY <1>4, <1>5, <1>6, <1>7, <1>8 DEF IInv

\* Every request and every look-up keeps the invariant.
LEMMA NextKeeps == IInv /\ [Next]_vars => IInv'
<1> SUFFICES ASSUME IInv, [Next]_vars PROVE IInv'
  OBVIOUS
<1>1. CASE Arrive
  BY <1>1, BookKeeps, OfferToDepositsKeeps, OfferToInvoicesKeeps, OfferLostKeeps DEF Arrive
<1>2. CASE DepositOps
  BY <1>2, CreateDepositKeeps, CancelKeeps, UndoDepositKeeps, PickKeeps DEF DepositOps
<1>3. CASE MatchOps
  <2>1. PICK c \in Credits :
          \/ \E s \in Sales : MatchSale(c, s) \/ \E a \in 1..Amount[c] : CreateSale(c, s, a)
          \/ \E k \in Customers : MatchDebt(c, k)
          \/ \E p \in payments : LinkDebtPayment(c, p) \/ LinkPayment(p, c)
          \/ \E deleteSale \in BOOLEAN : Unmatch(c, deleteSale)
          \/ \E mark \in Marks : Mark(c, mark)
          \/ \E i \in Invoices : \E a \in 1..Amount[i] : PayInvoiceFrom(i, a, c)
    BY <1>3 DEF MatchOps
  <2>2. CASE \E s \in Sales : MatchSale(c, s) \/ \E a \in 1..Amount[c] : CreateSale(c, s, a)
    BY <2>2, MatchSaleKeeps, CreateSaleKeeps
  <2>3. CASE \E k \in Customers : MatchDebt(c, k)
    BY <2>3, MatchDebtKeeps
  <2>4. CASE \E p \in payments : LinkDebtPayment(c, p) \/ LinkPayment(p, c)
    BY <2>4, LinkDebtPaymentKeeps, LinkPaymentKeeps
  <2>5. CASE \E deleteSale \in BOOLEAN : Unmatch(c, deleteSale)
    BY <2>5, UnmatchKeeps
  <2>6. CASE \E mark \in Marks : Mark(c, mark)
    BY <2>6, MarkKeeps
  <2>7. CASE \E i \in Invoices : \E a \in 1..Amount[i] : PayInvoiceFrom(i, a, c)
    BY <2>7, PayInvoiceFromKeeps
  <2> QED
    BY <2>1, <2>2, <2>3, <2>4, <2>5, <2>6, <2>7
<1>4. CASE RecordOps
  <2>1. CASE \E s \in Sales : DeleteSale(s) \/ \E a \in SaleAmounts : SaveSale(s, a)
    BY <2>1, DeleteSaleKeeps, SaveSaleKeeps
  <2>2. CASE \E x \in Debts : \E a \in 1..Amount[x], day \in HandDays : PayDebt(x, a, day)
    BY <2>2, PayDebtKeeps
  <2>3. CASE \E k \in Customers : DeleteCustomer(k)
    BY <2>3, DeleteCustomerKeeps
  <2>4. CASE \E i \in Invoices : \E a \in 1..Amount[i], day \in HandDays : PayInvoice(i, a, day)
    BY <2>4, PayInvoiceKeeps
  <2>5. CASE \E p \in payments : UndoPayment(p)
    BY <2>5, UndoPaymentKeeps
  <2>6. CASE \E day \in LockDays : SetLock(day)
    BY <2>6, SetLockKeeps
  <2>7. CASE \/ \E k \in Customers : CheckDelete(k)
             \/ \E x \in Debts : AddDebt(x) \/ SyncCheckDebt(x) \/ SyncAddDebt(x)
             \/ \E i \in Invoices : Issue(i) \/ Void(i) \/ CheckPayment(i) \/ WriteOff(i) \/ UndoWriteOff(i)
    BY <2>7, StillNext
  <2> QED
    BY <1>4, <2>1, <2>2, <2>3, <2>4, <2>5, <2>6, <2>7 DEF RecordOps
<1>5. CASE UNCHANGED vars
  BY <1>5, StillNext
<1> QED
  BY <1>1, <1>2, <1>3, <1>4, <1>5 DEF Next

\* The invariant holds in every reachable state.
LEMMA Invariant == Spec => []IInv
  BY InitHolds, NextKeeps, PTL DEF Spec

\* What the invariant says of the links is LinksAgree.
LEMMA LinksFollow == IInv => LinksAgree
<1> SUFFICES ASSUME IInv PROVE LinksAgree
  OBVIOUS
<1>1. \A s \in Sales : sale[s].tx # None => credit[sale[s].tx].sale = s
  BY DEF IInv, SalesAgree
<1>2. \A c \in Credits :
       /\ credit[c].sale # None => sale[credit[c].sale].tx = c
       /\ credit[c].invoice # None => \E p \in PaymentsOf(c) : p.of = credit[c].invoice
       /\ \A p \in PaymentsOf(c) : IF p.of \in Debts THEN credit[c].customer = Owner[p.of]
                                   ELSE credit[c].invoice # None
  BY DEF IInv, CreditOK, SaleAt, PaymentsAt
<1>3. \A x \in Debts \cup Invoices :
       /\ paid[x] = Sum(LAMBDA p : p.amount, {p \in payments : p.of = x})
       /\ paid[x] <= Amount[x]
  BY DEF IInv, PaidAgree, PaidSum
<1> QED
  BY <1>1, <1>2, <1>3 DEF IInv, DepositsAgree, LinksAgree

\* What it says of one credit is OneRecordPerNaira.
LEMMA OneFollows == IInv => OneRecordPerNaira
<1> SUFFICES ASSUME IInv, NEW c \in Credits
             PROVE  /\ Cardinality({x \in {"sale", "customer", "invoice"} : credit[c][x] # None}
                         \cup (IF credit[c].mark = "none" THEN {} ELSE {"mark"})) <= 1
                    /\ credit[c].matched <= Amount[c]
                    /\ credit[c].customer \in customers \cup {None} => credit[c].matched = CarriedBy(c)
  BY DEF OneRecordPerNaira
<1> DEFINE L == {x \in {"sale", "customer", "invoice"} : credit[c][x] # None}
           W == L \cup (IF credit[c].mark = "none" THEN {} ELSE {"mark"})
<1>1. OneWay(credit[c]) /\ MatchedAt(c)
  BY DEF IInv, CreditOK
<1>2. W = {} \/ W = {"sale"} \/ W = {"customer"} \/ W = {"invoice"} \/ W = {"mark"}
  BY <1>1 DEF OneWay
<1> HIDE DEF W
<1>3. Cardinality(W) <= 1
  <2>1. Cardinality({}) = 0 /\ \A x : Cardinality({x}) = 1
    BY FS_EmptySet, FS_Singleton
  <2>2. Cardinality(W) = 0 \/ Cardinality(W) = 1
    BY <1>2, <2>1
  <2> QED
    BY <2>2
<1> QED
  BY <1>1, <1>3 DEF MatchedAt, W

\* Every row of the tables has the fields and ranges its columns have.
THEOREM TypeCorrect == Spec => []TypeOK
<1>1. IInv => TypeOK
  BY DEF IInv, RowsOK
<1> QED
  BY <1>1, Invariant, PTL

\* One naira is never explained twice: whatever the routes and the matchers do and
\* in whatever order, a credit is a sale, repayments, invoice payments or a marking,
\* and its matched amount is what those records carry, never above the credit.
THEOREM OneRecord == Spec => []OneRecordPerNaira
  BY OneFollows, Invariant, PTL

\* Both ends of every link between a transfer and a deposit, a sale, a debt or an
\* invoice agree, and paidAmount and amountPaid are what the payments add up to.
THEOREM LinkedBothWays == Spec => []LinksAgree
  BY LinksFollow, Invariant, PTL

\* The two look-ups of cashDeposits.js never both miss: a deposit left waiting and a
\* credit already offered, which the server alone decided on, do not fit.
THEOREM NothingMissed == Spec => []NoMissedPair
<1>1. IInv => NoMissedPair
  BY DEF IInv
<1> QED
  BY <1>1, Invariant, PTL

-----------------------------------------------------------------------------
(* Closed days *)

\* What a figure of a closed day counts of each record is as it was.
CreditStill(c) ==
  /\ credit'[c].mark = credit[c].mark /\ credit'[c].matched = credit[c].matched
  /\ credit'[c].at = "away" <=> credit[c].at = "away"

CashOn(x, day) == x.status \in {"waiting", "done", "arrived"} /\ x.day = day

CreditsStill == \A c \in Credits : Day[c] <= lockDay => CreditStill(c)
SalesStill == \A s \in Sales : Day[s] <= lockDay => sale'[s].amount = sale[s].amount
PaymentsStill == \A day \in 1..lockDay : {p \in payments : p.day = day}' = {p \in payments : p.day = day}
SoldStill ==
  /\ \A x \in Debts : Day[x] <= lockDay => (x \in debts' <=> x \in debts)
  /\ \A i \in Invoices : Day[i] <= lockDay => (invoice'[i] = "open" <=> invoice[i] = "open")
CashStill ==
  \A d \in Deposits : \A day \in 1..lockDay : CashOn(deposit'[d], day) <=> CashOn(deposit[d], day)
ClosedStill == CreditsStill /\ SalesStill /\ PaymentsStill /\ SoldStill /\ CashStill

\* Then the day's figures are, too.
LEMMA FiguresStill ==
  ASSUME IInv, debts' \subseteq Debts, ClosedStill
  PROVE  Frozen
<1> SUFFICES ASSUME NEW day \in 1..lockDay PROVE Figures(day)' = Figures(day)
  BY DEF Frozen
<1>0. day <= lockDay /\ day \in Nat /\ debts \subseteq Debts
  BY RowsNow, Kinds DEF IInv
<1>1. Sum(Counted, {c \in Booked : Day[c] = day})' = Sum(Counted, {c \in Booked : Day[c] = day})
  <2> DEFINE S == {c \in Booked : Day[c] = day}
  <2>1. S' = S
    BY <1>0 DEF Booked, ClosedStill, CreditsStill, CreditStill
  <2>2. \A c \in S : Counted(c)' = Counted(c)
    BY <1>0 DEF Booked, ClosedStill, CreditsStill, CreditStill, Counted
  <2> QED
    BY <2>1, <2>2 DEF Sum
<1>2. Sum(LAMBDA p : p.amount, {p \in payments : p.day = day})'
        = Sum(LAMBDA p : p.amount, {p \in payments : p.day = day})
  BY DEF Sum, ClosedStill, PaymentsStill
<1>3. Sum(LAMBDA s : sale[s].amount, {s \in Sales : Day[s] = day})'
        = Sum(LAMBDA s : sale[s].amount, {s \in Sales : Day[s] = day})
  BY <1>0 DEF Sum, ClosedStill, SalesStill
<1>4. Sum(LAMBDA x : Amount[x], {x \in debts \cup {i \in Invoices : invoice[i] = "open"} : Day[x] = day})'
        = Sum(LAMBDA x : Amount[x], {x \in debts \cup {i \in Invoices : invoice[i] = "open"} : Day[x] = day})
  <2> DEFINE S == {x \in debts \cup {i \in Invoices : invoice[i] = "open"} : Day[x] = day}
  <2>1. S' = S
    BY <1>0 DEF ClosedStill, SoldStill
  <2> QED
    BY <2>1 DEF Sum
<1>5. Sum(LAMBDA d : Amount[d],
          {d \in Deposits : deposit[d].status \in {"waiting", "done", "arrived"} /\ deposit[d].day = day})'
        = Sum(LAMBDA d : Amount[d],
              {d \in Deposits : deposit[d].status \in {"waiting", "done", "arrived"} /\ deposit[d].day = day})
  <2> DEFINE S == {d \in Deposits : deposit[d].status \in {"waiting", "done", "arrived"} /\ deposit[d].day = day}
  <2>1. S' = S
    BY DEF ClosedStill, CashStill, CashOn
  <2> QED
    BY <2>1 DEF Sum
<1> QED
  BY <1>1, <1>2, <1>3, <1>4, <1>5 DEF Figures

\* Money that moves on an open day only.
LEMMA CreditsOpen ==
  ASSUME IInv, NEW c \in Credits, Day[c] > lockDay,
         \A b \in Credits \ {c} : credit'[b] = credit[b]
  PROVE  CreditsStill
<1>1. Day[c] \in Nat /\ lockDay \in Nat
  BY Kinds, RowsNow DEF IInv
<1> QED
  BY <1>1 DEF CreditsStill, CreditStill

\* Payments that come and go on open days only.
LEMMA PaymentsOpen ==
  ASSUME IInv, \A p \in payments' \ payments : p.day > lockDay,
         \A p \in payments \ payments' : p.day > lockDay
  PROVE  PaymentsStill
<1>1. lockDay \in Nat
  BY Kinds, RowsNow DEF IInv
<1>2. ASSUME NEW day \in 1..lockDay PROVE {p \in payments : p.day = day}' = {p \in payments : p.day = day}
  <2>1. ~(day > lockDay)
    BY <1>1
  <2> QED
    BY <2>1
<1> QED
  BY <1>2 DEF PaymentsStill

\* What a step leaves alone.
LEMMA SameStill ==
  /\ UNCHANGED credit => CreditsStill
  /\ UNCHANGED sale => SalesStill
  /\ UNCHANGED payments => PaymentsStill
  /\ UNCHANGED <<debts, invoice>> => SoldStill
  /\ UNCHANGED deposit => CashStill
  BY DEF CreditsStill, CreditStill, SalesStill, PaymentsStill, SoldStill, CashStill

\* Every day and the lock date are numbers.
LEMMA NowDays ==
  ASSUME IInv
  PROVE  /\ lockDay \in Nat /\ debts \subseteq Debts
         /\ \A x \in Credits \cup Sales \cup Debts \cup Invoices : Day[x] \in Nat
         /\ \A p \in payments : p.day \in Nat
         /\ \A d \in Deposits : deposit[d].day \in Nat
  BY RowsNow, RowAt, DepositFields, PaymentFields, Kinds DEF IInv, RowsOK, PaymentsOK

\* Nothing counted moves: requests wait, invoices are written off, the lock date is set.
LEMMA NothingMoves ==
  ASSUME IInv,
         \/ \E k \in Customers : CheckDelete(k)
         \/ \E x \in Debts : SyncCheckDebt(x)
         \/ \E i \in Invoices : CheckPayment(i) \/ WriteOff(i) \/ UndoWriteOff(i)
         \/ \E day \in LockDays : SetLock(day)
         \/ UNCHANGED vars
  PROVE  Frozen
<1>1. UNCHANGED <<credit, deposit, sale, debts, invoice, payments>>
  BY DEF CheckDelete, SyncCheckDebt, CheckPayment, WriteOff, UndoWriteOff, SetLock, vars, books
<1> QED
  BY <1>1, SameStill, NowDays, FiguresStill DEF ClosedStill

\* Credit given, and an invoice issued or voided.
LEMMA OwedMoves ==
  ASSUME IInv,
         \/ \E x \in Debts : AddDebt(x)
         \/ \E i \in Invoices : Issue(i) \/ Void(i)
  PROVE  Frozen
<1>1. UNCHANGED <<credit, deposit, sale, payments>>
  BY DEF AddDebt, Issue, Void
<1>2. debts' \subseteq Debts /\ SoldStill
  <2>1. CASE \E x \in Debts : AddDebt(x)
    BY <2>1, NowDays DEF AddDebt, Open, SoldStill
  <2>2. CASE \E i \in Invoices : Issue(i) \/ Void(i)
    <3>1. PICK i \in Invoices, s \in {"open", "void"} : /\ invoice' = [invoice EXCEPT ![i] = s]
                                                        /\ Day[i] > lockDay /\ UNCHANGED debts
      BY <2>2 DEF Issue, Void, Open
    <3>2. \A j \in Invoices \ {i} : invoice'[j] = invoice[j]
      BY <3>1
    <3> QED
      BY <3>1, <3>2, NowDays DEF SoldStill
  <2> QED
    BY <2>1, <2>2
<1> QED
  BY <1>1, <1>2, SameStill, NowDays, FiguresStill DEF ClosedStill

\* A credit goes on, is marked, or is matched to a sale, on an open day or not at all.
LEMMA OfferLostMoves == ASSUME IInv, NEW c \in Credits, OfferLost(c) PROVE Frozen
<1>1. PICK at \in {"offered", "done"} : credit' = [credit EXCEPT ![c].at = at]
  BY DEF OfferLost
<1>2. Wrote(c, at, credit[c].mark, credit[c].sale, credit[c].customer, credit[c].invoice, credit[c].matched)
  BY <1>1, WroteAt DEF IInv, RowsOK
<1>3. credit[c].at # "away" /\ UNCHANGED <<deposit, books>>
  BY DEF OfferLost
<1>4. CreditsStill
  BY <1>1, <1>2, <1>3 DEF Wrote, CreditsStill, CreditStill
<1> QED
  BY <1>3, <1>4, SameStill, NowDays, FiguresStill DEF ClosedStill, books

\* classify and categorize ask the credit's day.
LEMMA MarkMoves == ASSUME IInv, NEW c \in Credits, NEW m \in Marks, Mark(c, m) PROVE Frozen
<1>1. /\ credit' = [credit EXCEPT ![c].mark = m] /\ Day[c] > lockDay
      /\ UNCHANGED <<deposit, books>>
  BY DEF Mark, Open
<1>2. \A b \in Credits \ {c} : credit'[b] = credit[b]
  BY <1>1, RowsNow DEF IInv
<1> QED
  BY <1>1, <1>2, CreditsOpen, SameStill, NowDays, FiguresStill DEF ClosedStill, books

\* A match to a sale asks the credit's day and the sale's.
LEMMA MatchSaleMoves ==
  ASSUME IInv, NEW c \in Credits, NEW s \in Sales, MatchSale(c, s)
  PROVE  Frozen
<1>1. /\ credit' = [credit EXCEPT ![c].sale = s, ![c].matched = Least(sale[s].amount, Amount[c])]
      /\ Day[c] > lockDay /\ Day[s] > lockDay /\ UNCHANGED <<deposit, debts, invoice, payments>>
      /\ sale' = [sale EXCEPT ![s].tx = c]
  BY DEF MatchSale, Open
<1>2. \A b \in Credits \ {c} : credit'[b] = credit[b]
  BY <1>1, RowsNow DEF IInv
<1>3. \A t \in Sales \ {s} : sale'[t] = sale[t]
  BY <1>1, RowsNow DEF IInv
<1>4. SalesStill
  BY <1>1, <1>3, NowDays DEF SalesStill
<1> QED
  BY <1>1, <1>2, <1>4, CreditsOpen, SameStill, NowDays, FiguresStill DEF ClosedStill

\* A sale made from a credit is on the credit's day.
LEMMA CreateSaleMoves ==
  ASSUME IInv, NEW c \in Credits, NEW s \in Sales, NEW a \in 1..Amount[c], CreateSale(c, s, a)
  PROVE  Frozen
<1>1. /\ credit' = [credit EXCEPT ![c].sale = s, ![c].matched = a]
      /\ Day[c] > lockDay /\ Day[s] > lockDay /\ UNCHANGED <<deposit, debts, invoice, payments>>
      /\ sale' = [sale EXCEPT ![s] = [amount |-> a, tx |-> c]]
  BY DEF CreateSale, Open
<1>2. \A b \in Credits \ {c} : credit'[b] = credit[b]
  BY <1>1, RowsNow DEF IInv
<1>3. \A t \in Sales \ {s} : sale'[t] = sale[t]
  BY <1>1, RowsNow DEF IInv
<1>4. SalesStill
  BY <1>1, <1>3, NowDays DEF SalesStill
<1> QED
  BY <1>1, <1>2, <1>4, CreditsOpen, SameStill, NowDays, FiguresStill DEF ClosedStill

\* A sale's amount changes, or it goes, with its credit's day open as well.
LEMMA SaleMoves ==
  ASSUME IInv, NEW s \in Sales, DeleteSale(s) \/ \E a \in SaleAmounts : SaveSale(s, a)
  PROVE  Frozen
<1> DEFINE c == sale[s].tx
<1>1. Day[s] > lockDay /\ UNCHANGED <<deposit, debts, invoice, payments>>
  BY DEF DeleteSale, SaveSale, Open
<1>2. \A t \in Sales \ {s} : sale'[t] = sale[t]
  <2>1. \/ sale' = [sale EXCEPT ![s] = [amount |-> 0, tx |-> None]]
        \/ \E a \in SaleAmounts : sale' = [sale EXCEPT ![s].amount = a]
    BY DEF DeleteSale, SaveSale
  <2> QED
    BY <2>1, RowsNow DEF IInv
<1>3. SalesStill
  BY <1>1, <1>2, NowDays DEF SalesStill
<1>4. c \in Credits \cup {None}
  BY SaleFields
<1>5. \/ UNCHANGED credit
      \/ c \in Credits /\ Day[c] > lockDay /\ (\A b \in Credits \ {c} : credit'[b] = credit[b])
  <2>1. CASE c = None \/ credit[c].sale # s
    <3>1. UNCHANGED credit
      BY <2>1 DEF DeleteSale, SaveSale
    <3> QED
      BY <3>1
  <2>2. CASE ~(c = None \/ credit[c].sale # s)
    <3>1. Day[c] > lockDay /\ c \in Credits
      BY <1>4, <2>2 DEF DeleteSale, SaveSale, Open
    <3>2. \/ credit' = [credit EXCEPT ![c].sale = None, ![c].matched = 0]
          \/ \E a \in SaleAmounts : credit' = [credit EXCEPT ![c].matched = Least(a, Amount[c])]
      BY <2>2 DEF DeleteSale, SaveSale
    <3>3. \A b \in Credits \ {c} : credit'[b] = credit[b]
      BY <3>2, RowsNow DEF IInv
    <3> QED
      BY <3>1, <3>3
  <2> QED
    BY <2>1, <2>2
<1>6. CreditsStill
  BY <1>5, CreditsOpen, SameStill
<1> QED
  BY <1>1, <1>3, <1>6, SameStill, NowDays, FiguresStill DEF ClosedStill

\* A payment by hand is on an open day; so is one that pays from a credit.
LEMMA PaymentAdded ==
  ASSUME IInv, NEW q, payments' = payments \cup {q}, q.day > lockDay
  PROVE  PaymentsStill
  BY PaymentsOpen

\* The day and the transfer of a payment as it is written.
LEMMA OnDay ==
  ASSUME NEW id, NEW of, NEW a, NEW c, NEW day, NEW was
  PROVE  LET q == Payment(id, of, a, c, day, was) IN q.day = day /\ q.tx = c
  BY DEF Payment

\* A repayment by hand, on an open day.
LEMMA PayDebtMoves ==
  ASSUME IInv, NEW x \in Debts, NEW a, NEW day, PayDebt(x, a, day)
  PROVE  Frozen
<1>1. payments' = payments \cup {Payment(NewId, x, a, None, day, 0)} /\ day > lockDay
      /\ UNCHANGED <<credit, deposit, sale, debts, invoice>>
  BY DEF PayDebt, Open
<1>2. PaymentsStill
  BY <1>1, OnDay, PaymentAdded
<1> QED
  BY <1>1, <1>2, SameStill, NowDays, FiguresStill DEF ClosedStill

\* A payment of an open invoice leaves it open; of one voided since, it is Outside.
LEMMA PayingMoves ==
  ASSUME IInv, NEW i \in Invoices, NEW a, NEW day, Paying(i, a, day)
  PROVE  /\ day > lockDay /\ UNCHANGED <<deposit, sale, debts>>
         /\ (invoice[i] = "void" /\ invoice'[i] = "open") \/ UNCHANGED invoice
<1>1. invoice' = [invoice EXCEPT ![i] = "open"] /\ invoice \in [Invoices -> {"open", "void"}]
  BY RowsNow DEF IInv, Paying
<1>2. CASE invoice[i] = "void"
  BY <1>1, <1>2 DEF Paying, Open
<1>3. CASE invoice[i] = "open"
  <2>1. invoice' = invoice
    BY <1>1, <1>3
  <2> QED
    BY <2>1 DEF Paying, Open
<1> QED
  BY <1>1, <1>2, <1>3

\* An invoice payment by hand, on an open day.
LEMMA PayInvoiceMoves ==
  ASSUME IInv, NEW i \in Invoices, NEW a, NEW day, PayInvoice(i, a, day)
  PROVE  Frozen \/ Outside
<1>1. /\ day > lockDay /\ UNCHANGED <<deposit, sale, debts>>
      /\ (invoice[i] = "void" /\ invoice'[i] = "open") \/ UNCHANGED invoice
  BY PayingMoves DEF PayInvoice
<1>2. payments' = payments \cup {Payment(NewId, i, a, None, day, 0)} /\ UNCHANGED credit
  BY DEF PayInvoice
<1>3. CASE invoice[i] = "void" /\ invoice'[i] = "open"
  BY <1>3 DEF Outside
<1>4. CASE UNCHANGED invoice
  <2>1. PaymentsStill
    BY <1>1, <1>2, OnDay, PaymentAdded
  <2> QED
    BY <1>1, <1>2, <1>4, <2>1, SameStill, NowDays, FiguresStill DEF ClosedStill
<1> QED
  BY <1>1, <1>3, <1>4

\* One from a credit is on the credit's day.
LEMMA PayInvoiceFromMoves ==
  ASSUME IInv, NEW i \in Invoices, NEW a, NEW c \in Credits, PayInvoiceFrom(i, a, c)
  PROVE  Frozen \/ Outside
<1>1. /\ Day[c] > lockDay /\ UNCHANGED <<deposit, sale, debts>>
      /\ (invoice[i] = "void" /\ invoice'[i] = "open") \/ UNCHANGED invoice
  BY PayingMoves DEF PayInvoiceFrom
<1>2. payments' = payments \cup {Payment(NewId, i, a, c, Day[c], 0)} /\ credit' = UsedFor(c, i, a)
  BY DEF PayInvoiceFrom
<1>3. \A b \in Credits \ {c} : credit'[b] = credit[b]
  BY <1>2, RowsNow DEF IInv, UsedFor
<1>4. CASE invoice[i] = "void" /\ invoice'[i] = "open"
  BY <1>4 DEF Outside
<1>5. CASE UNCHANGED invoice
  <2>1. PaymentsStill
    BY <1>1, <1>2, OnDay, PaymentAdded
  <2> QED
    BY <1>1, <1>3, <1>5, <2>1, CreditsOpen, SameStill, NowDays, FiguresStill DEF ClosedStill
<1> QED
  BY <1>1, <1>4, <1>5

\* A payment recorded by hand moves from its day to its credit's, both open.
LEMMA LinkedMoves ==
  ASSUME IInv, NEW p \in payments, NEW c \in Credits, NEW q, q.day = Day[c],
         payments' = (payments \ {p}) \cup {q}, Open({p.day, Day[c]}),
         \A b \in Credits \ {c} : credit'[b] = credit[b],
         UNCHANGED <<deposit, sale, debts, invoice>>
  PROVE  Frozen
<1>1. p.day > lockDay /\ Day[c] > lockDay
  BY DEF Open
<1>2. PaymentsStill
  BY <1>1, PaymentsOpen
<1> QED
  BY <1>1, <1>2, CreditsOpen, SameStill, NowDays, FiguresStill DEF ClosedStill

\* A repayment is given the credit it was.
LEMMA LinkDebtPaymentMoves ==
  ASSUME IInv, NEW c \in Credits, NEW p \in payments, LinkDebtPayment(c, p)
  PROVE  Frozen
<1>1. /\ payments' = (payments \ {p}) \cup {Payment(p.id, p.of, p.amount, c, Day[c], p.day)}
      /\ credit' = [credit EXCEPT ![c].customer = Owner[p.of], ![c].matched = p.amount]
      /\ Open({p.day, Day[c]}) /\ UNCHANGED <<deposit, sale, debts, invoice>>
  BY DEF LinkDebtPayment
<1>2. \A b \in Credits \ {c} : credit'[b] = credit[b]
  BY <1>1, RowsNow DEF IInv
<1> DEFINE q == Payment(p.id, p.of, p.amount, c, Day[c], p.day)
<1>3. q.day = Day[c]
  BY OnDay
<1> HIDE DEF q
<1> QED
  BY <1>1, <1>2, <1>3, LinkedMoves DEF q

\* An invoice payment is given the credit it was.
LEMMA LinkPaymentMoves ==
  ASSUME IInv, NEW c \in Credits, NEW p \in payments, LinkPayment(p, c)
  PROVE  Frozen
<1>1. /\ payments' = (payments \ {p}) \cup {Payment(p.id, p.of, p.amount, c, Day[c], p.day)}
      /\ credit' = UsedFor(c, p.of, p.amount)
      /\ Open({p.day, Day[c]}) /\ UNCHANGED <<deposit, sale, debts, invoice>>
  BY DEF LinkPayment
<1>2. \A b \in Credits \ {c} : credit'[b] = credit[b]
  BY <1>1, RowsNow DEF IInv, UsedFor
<1> DEFINE q == Payment(p.id, p.of, p.amount, c, Day[c], p.day)
<1>3. q.day = Day[c]
  BY OnDay
<1> HIDE DEF q
<1> QED
  BY <1>1, <1>2, <1>3, LinkedMoves DEF q

\* match-debt's payments are the credit's day's.
LEMMA MatchDebtMoves ==
  ASSUME IInv, NEW c \in Credits, NEW k \in Customers, MatchDebt(c, k)
  PROVE  Frozen
<1>1. PICK share \in Shares(c, k) :
        LET owed == {x \in DebtsOf(k) : share[x] > 0}
        IN  /\ Open({Day[c]})
            /\ LET id == CHOOSE f \in Injection(owed, FreeIds) : TRUE
               IN  payments' = payments \cup {Payment(id[x], x, share[x], c, Day[c], 0) : x \in owed}
            /\ credit' = [credit EXCEPT ![c].customer = k,
                                        ![c].matched = Sum(LAMBDA x : share[x], owed)]
            /\ UNCHANGED <<deposit, sale, debts, invoice>>
  BY DEF MatchDebt
<1> DEFINE owed == {x \in DebtsOf(k) : share[x] > 0}
           id == CHOOSE f \in Injection(owed, FreeIds) : TRUE
           n == Sum(LAMBDA x : share[x], owed)
           new == {Payment(id[x], x, share[x], c, Day[c], 0) : x \in owed}
<1>0. /\ Day[c] > lockDay /\ payments' = payments \cup new
      /\ credit' = [credit EXCEPT ![c].customer = k, ![c].matched = n]
  BY <1>1 DEF Open
<1> HIDE DEF n, id, owed
<1>2. \A b \in Credits \ {c} : credit'[b] = credit[b]
  BY <1>0, RowsNow DEF IInv
<1>3. \A p \in payments' : p \in payments \/ p.day = Day[c]
  BY <1>0, OnDay
<1>4. payments \subseteq payments'
  BY <1>0
<1>5. PaymentsStill
  BY <1>0, <1>3, <1>4, PaymentsOpen
<1>6. UNCHANGED <<deposit, sale, debts, invoice>>
  BY <1>1
<1> QED
  BY <1>0, <1>2, <1>5, <1>6, CreditsOpen, SameStill, NowDays, FiguresStill DEF ClosedStill

\* The one invoice that owes exactly an arriving credit, on its open day.
LEMMA OfferToInvoicesMoves ==
  ASSUME IInv, NEW c \in Credits, OfferToInvoices(c)
  PROVE  Frozen
<1>1. credit[c].at = "offered" /\ UNCHANGED <<deposit, sale, debts, invoice>>
  BY DEF OfferToInvoices
<1>2. CASE credit' = [credit EXCEPT ![c].at = "done"] /\ UNCHANGED payments
  <2>1. Wrote(c, "done", credit[c].mark, credit[c].sale, credit[c].customer, credit[c].invoice, credit[c].matched)
    BY <1>2, WroteAt DEF IInv, RowsOK
  <2>2. CreditsStill
    BY <1>1, <2>1 DEF Wrote, CreditsStill, CreditStill
  <2> QED
    BY <1>1, <1>2, <2>2, SameStill, NowDays, FiguresStill DEF ClosedStill
<1>3. CASE \E i \in Invoices :
             /\ Open({Day[c]})
             /\ payments' = payments \cup {Payment(NewId, i, Amount[c], c, Day[c], 0)}
             /\ credit' = [credit EXCEPT ![c].at = "done", ![c].invoice = i, ![c].matched = Amount[c]]
  <2>1. PICK i \in Invoices :
             /\ Open({Day[c]})
             /\ payments' = payments \cup {Payment(NewId, i, Amount[c], c, Day[c], 0)}
             /\ credit' = [credit EXCEPT ![c].at = "done", ![c].invoice = i, ![c].matched = Amount[c]]
    BY <1>3
  <2>2. Day[c] > lockDay /\ \A b \in Credits \ {c} : credit'[b] = credit[b]
    BY <2>1, RowsNow DEF IInv, Open
  <2>3. PaymentsStill
    BY <2>1, <2>2, OnDay, PaymentAdded
  <2> QED
    BY <1>1, <2>2, <2>3, CreditsOpen, SameStill, NowDays, FiguresStill DEF ClosedStill
<1> QED
  BY <1>2, <1>3 DEF OfferToInvoices

\* An unmatch moves money on the days it asked for.
LEMMA UnmatchMoves ==
  ASSUME IInv, NEW c \in Credits, NEW deleteSale \in BOOLEAN, Unmatch(c, deleteSale)
  PROVE  Frozen
<1>1. /\ sale' = IF credit[c].sale = None THEN sale
                 ELSE [sale EXCEPT ![credit[c].sale] =
                         [amount |-> IF deleteSale THEN 0 ELSE sale[credit[c].sale].amount, tx |-> None]]
      /\ payments' = (payments \ PaymentsOf(c)) \cup {Before(p) : p \in Hand(c)}
      /\ Wrote(c, credit[c].at, credit[c].mark, None, None, None, 0)
      /\ UNCHANGED <<deposit, debts, invoice>>
  BY UnmatchWrote
<1>2. Open(UnmatchDays(c))
  BY DEF Unmatch
<1>3. /\ Day[c] > lockDay
      /\ credit[c].sale # None => Day[credit[c].sale] > lockDay
      /\ \A p \in PaymentsOf(c) : p.day > lockDay
  BY <1>2 DEF Open, UnmatchDays
<1>4. \A p \in Hand(c) : Before(p).day > lockDay
  <2> SUFFICES ASSUME NEW p \in Hand(c) PROVE Before(p).day > lockDay
    OBVIOUS
  <2>1. p \in PaymentsOf(c) /\ p.was # 0 /\ Before(p).day = p.was
    BY OnDay DEF Hand, Before
  <2> QED
    BY <1>2, <2>1 DEF Open, UnmatchDays
<1>5. CreditsStill
  BY <1>1, <1>3, CreditsOpen DEF Wrote
<1>6. PaymentsStill
  BY <1>1, <1>3, <1>4, PaymentsOpen
<1>7. SalesStill
  <2>1. CASE credit[c].sale = None
    BY <1>1, <2>1, SameStill
  <2>2. CASE credit[c].sale # None
    <3>1. credit[c].sale \in Sales
      BY <2>2, RowAt, CreditFields DEF IInv, RowsOK
    <3>2. \A s \in Sales \ {credit[c].sale} : sale'[s] = sale[s]
      BY <1>1, <2>2, <3>1, RowsNow DEF IInv
    <3> QED
      BY <1>3, <2>2, <3>1, <3>2, NowDays DEF SalesStill
  <2> QED
    BY <2>1, <2>2
<1> QED
  BY <1>1, <1>5, <1>6, <1>7, SameStill, NowDays, FiguresStill DEF ClosedStill

\* So does undoing an invoice payment: its day, and its credit's.
LEMMA UndoPaymentMoves ==
  ASSUME IInv, NEW p \in payments, UndoPayment(p)
  PROVE  Frozen
<1>1. /\ payments' = payments \ {p} /\ credit' \in Freed(p) /\ UNCHANGED <<deposit, sale, debts, invoice>>
      /\ Open({p.day} \cup (IF p.tx = None THEN {} ELSE {Day[p.tx]}))
  BY DEF UndoPayment
<1>2. p.day > lockDay /\ (p.tx # None => Day[p.tx] > lockDay)
  BY <1>1 DEF Open
<1>3. PaymentsStill
  BY <1>1, <1>2, PaymentsOpen
<1>4. CreditsStill
  <2>1. CASE p.tx = None
    <3>1. UNCHANGED credit
      BY <1>1, <2>1 DEF Freed
    <3> QED
      BY <3>1, SameStill
  <2>2. CASE p.tx # None
    <3>1. p.tx \in Credits
      BY <2>2, PaymentFields DEF IInv, RowsOK, PaymentsOK
    <3>2. \/ UNCHANGED credit
          \/ credit' = [credit EXCEPT ![p.tx].invoice = None, ![p.tx].matched = 0]
          \/ \E i, n : credit' = [credit EXCEPT ![p.tx].invoice = i, ![p.tx].matched = n]
      BY <1>1 DEF Freed
    <3>3. \A b \in Credits \ {p.tx} : credit'[b] = credit[b]
      BY <3>2, RowsNow DEF IInv
    <3> QED
      BY <1>2, <2>2, <3>1, <3>3, CreditsOpen
  <2> QED
    BY <2>1, <2>2
<1> QED
  BY <1>1, <1>3, <1>4, SameStill, NowDays, FiguresStill DEF ClosedStill

\* A deposit is linked: the cash is still on its way on its own day.
LEMMA LinkMoves ==
  ASSUME IInv, NEW d \in Deposits, NEW dep \in DepositRec, NEW c \in Credits, NEW auto \in BOOLEAN,
         LinkCredit(dep, d, c, auto), Day[c] > lockDay, UNCHANGED books,
         \A day \in 1..lockDay : CashOn(dep, day) <=> CashOn(deposit[d], day),
         dep.status = "waiting"
  PROVE  Frozen
<1> DEFINE R == IF auto THEN dep.rejected ELSE dep.rejected \ {c}
           m == credit[c].mark
           y == [[[[[dep EXCEPT !.status = "arrived"] EXCEPT !.tx = c] EXCEPT !.auto = auto]
                      EXCEPT !.was = m] EXCEPT !.rejected = R]
<1>1. deposit' = [deposit EXCEPT ![d] = y] /\ credit' = [credit EXCEPT ![c].mark = "banked"]
  BY DEF LinkCredit
<1>2. y.status = "arrived" /\ y.day = dep.day
  BY DEF DepositRec
<1> HIDE DEF y
<1>3. deposit'[d] = y /\ \A e \in Deposits \ {d} : deposit'[e] = deposit[e]
  BY <1>1, RowsNow DEF IInv
<1>4. CashStill
  BY <1>2, <1>3 DEF CashStill, CashOn
<1>5. \A b \in Credits \ {c} : credit'[b] = credit[b]
  BY <1>1, RowsNow DEF IInv
<1> QED
  BY <1>4, <1>5, CreditsOpen, SameStill, NowDays, FiguresStill DEF ClosedStill, books

\* A deposit recorded or edited, both its days open.
LEMMA DepositMoves ==
  ASSUME IInv, NEW d \in Deposits, NEW day \in DepositDays, NEW into \in {"kashbook", "account"},
         CreateDeposit(d, day, into) \/ EditDeposit(d, day, into)
  PROVE  Frozen
<1>1. StatusInto[into] \in {"waiting", "done"} /\ day \in Days
  BY Kinds DEF StatusInto
<1>2. UNCHANGED books /\ day > lockDay
  BY DEF CreateDeposit, EditDeposit, Open
<1>3. PICK dep \in DepositRec : /\ LookBack(dep, d) /\ dep.day = day
                                /\ \A z \in 1..lockDay : ~CashOn(dep, z) /\ ~CashOn(deposit[d], z)
  <2> DEFINE y == [NoDeposit EXCEPT !.status = StatusInto[into], !.day = day]
             w == [deposit[d] EXCEPT !.status = StatusInto[into], !.day = day]
  <2>0. deposit[d] \in DepositRec /\ lockDay \in Nat
    BY RowAt, NowDays DEF IInv, RowsOK
  <2>1. CASE CreateDeposit(d, day, into)
    <3>1. y \in DepositRec /\ y.day = day
      BY <1>1 DEF NoDeposit, DepositRec
    <3>2. LookBack(y, d) /\ deposit[d].status = "none"
      BY <2>1 DEF CreateDeposit
    <3> HIDE DEF y
    <3>3. \A z \in 1..lockDay : ~CashOn(y, z) /\ ~CashOn(deposit[d], z)
      BY <1>2, <2>0, <3>1, <3>2, Kinds DEF CashOn
    <3> QED
      BY <3>1, <3>2, <3>3
  <2>2. CASE EditDeposit(d, day, into)
    <3>1. w \in DepositRec /\ w.day = day
      BY <1>1, <2>0 DEF DepositRec
    <3>2. LookBack(w, d) /\ deposit[d].day > lockDay
      BY <2>2 DEF EditDeposit, Open
    <3> HIDE DEF w
    <3>3. \A z \in 1..lockDay : ~CashOn(w, z) /\ ~CashOn(deposit[d], z)
      BY <1>2, <2>0, <3>1, <3>2, NowDays DEF CashOn
    <3> QED
      BY <3>1, <3>2, <3>3
  <2> QED
    BY <2>1, <2>2
<1>4. CASE deposit' = [deposit EXCEPT ![d] = dep] /\ UNCHANGED credit
  <2>1. deposit'[d] = dep /\ \A e \in Deposits \ {d} : deposit'[e] = deposit[e]
    BY <1>4, RowsNow DEF IInv
  <2>2. CashStill
    BY <1>3, <2>1 DEF CashStill
  <2> QED
    BY <1>2, <1>4, <2>2, SameStill, NowDays, FiguresStill DEF ClosedStill, books
<1>5. CASE \E c \in Credits : Fits(dep, d, c) /\ dep.status = "waiting" /\ LinkCredit(dep, d, c, TRUE)
  <2>1. PICK c \in Credits : Fits(dep, d, c) /\ dep.status = "waiting" /\ LinkCredit(dep, d, c, TRUE)
    BY <1>5
  <2>2. Day[c] > lockDay
    BY <2>1 DEF Fits, Open
  <2> QED
    BY <1>2, <1>3, <2>1, <2>2, LinkMoves
<1>6. \/ deposit' = [deposit EXCEPT ![d] = dep] /\ UNCHANGED credit
      \/ \E c \in Credits : Fits(dep, d, c) /\ dep.status = "waiting" /\ LinkCredit(dep, d, c, TRUE)
  <2> DEFINE hits == IF dep.status = "waiting" THEN {c \in Credits : Fits(dep, d, c)} ELSE {}
  <2>1. \/ deposit' = [deposit EXCEPT ![d] = dep] /\ UNCHANGED credit
        \/ \E c \in hits : LinkCredit(dep, d, c, TRUE)
    BY <1>3 DEF LookBack, Oldest
  <2> QED
    BY <2>1
<1> QED
  BY <1>4, <1>5, <1>6

\* A deposit is cancelled on an open day.
LEMMA CancelMoves ==
  ASSUME IInv, NEW d \in Deposits, CancelDeposit(d)
  PROVE  Frozen
<1>1. /\ deposit' = [deposit EXCEPT ![d].status = "cancelled"] /\ deposit[d].day > lockDay
      /\ UNCHANGED <<credit, books>>
  BY DEF CancelDeposit, Open
<1>2. deposit'[d].day = deposit[d].day /\ \A e \in Deposits \ {d} : deposit'[e] = deposit[e]
  BY <1>1, RowsNow DEF IInv, DepositRec
<1>3. CashStill
  BY <1>1, <1>2, NowDays DEF CashStill, CashOn
<1> QED
  BY <1>1, <1>3, SameStill, NowDays, FiguresStill DEF ClosedStill, books

\* The owner picks a credit of an open day.
LEMMA PickMoves ==
  ASSUME IInv, NEW d \in Deposits, NEW c \in Credits, PickTransfer(d, c)
  PROVE  Frozen
<1>1. /\ deposit[d].status = "waiting" /\ Day[c] > lockDay /\ LinkCredit(deposit[d], d, c, FALSE)
      /\ UNCHANGED books
  BY DEF PickTransfer, Open
<1>2. deposit[d] \in DepositRec
  BY RowAt DEF IInv, RowsOK
<1> QED
  BY <1>1, <1>2, LinkMoves

\* A deposit is undone while its credit's day is open.
LEMMA UndoDepositMoves ==
  ASSUME IInv, NEW d \in Deposits, UndoDeposit(d)
  PROVE  Frozen
<1> DEFINE c == deposit[d].tx
           y == [deposit[d] EXCEPT !.status = "waiting", !.tx = None, !.auto = FALSE, !.was = "none",
                                   !.rejected = @ \cup {deposit[d].tx}]
<1>1. /\ deposit[d].status = "arrived" /\ Day[c] > lockDay /\ UNCHANGED books
      /\ deposit' = [deposit EXCEPT ![d] = y]
  BY DEF UndoDeposit, Open
<1>2. deposit[d] \in DepositRec /\ c \in Credits
  BY <1>1, RowAt, DepositFields DEF IInv, RowsOK, DepositsAgree
<1>3. y.status = "waiting" /\ y.day = deposit[d].day
  BY <1>2 DEF DepositRec
<1> HIDE DEF y
<1>4. deposit'[d] = y /\ \A e \in Deposits \ {d} : deposit'[e] = deposit[e]
  BY <1>1, RowsNow DEF IInv
<1>5. CashStill
  BY <1>1, <1>3, <1>4 DEF CashStill, CashOn
<1>6. \A b \in Credits \ {c} : credit'[b] = credit[b]
  <2>1. \E m : credit' = [credit EXCEPT ![c].mark = m]
    BY DEF UndoDeposit
  <2> QED
    BY <2>1, RowsNow DEF IInv
<1> QED
  BY <1>1, <1>2, <1>5, <1>6, CreditsOpen, SameStill, NowDays, FiguresStill DEF ClosedStill, books

\* An arriving credit is a deposit's, on its open day, or goes on.
LEMMA OfferToDepositsMoves ==
  ASSUME IInv, NEW c \in Credits, OfferToDeposits(c)
  PROVE  Frozen
<1>1. credit[c].at = "booked" /\ UNCHANGED books
  BY DEF OfferToDeposits
<1>2. CASE \E a \in {"done", "offered"} : credit' = [credit EXCEPT ![c].at = a] /\ UNCHANGED deposit
  <2>1. PICK a \in {"done", "offered"} : credit' = [credit EXCEPT ![c].at = a] /\ UNCHANGED deposit
    BY <1>2
  <2>2. Wrote(c, a, credit[c].mark, credit[c].sale, credit[c].customer, credit[c].invoice, credit[c].matched)
    BY <2>1, WroteAt DEF IInv, RowsOK
  <2>3. CreditsStill
    BY <1>1, <2>2 DEF Wrote, CreditsStill, CreditStill
  <2> QED
    BY <1>1, <2>1, <2>3, SameStill, NowDays, FiguresStill DEF ClosedStill, books
<1>3. CASE \E d \in Deposits :
             /\ deposit[d].status = "waiting" /\ Fits(deposit[d], d, c)
             /\ deposit' = [deposit EXCEPT ![d] = [deposit[d] EXCEPT !.status = "arrived",
                              !.tx = c, !.auto = TRUE, !.was = "none"]]
             /\ credit' = [credit EXCEPT ![c].at = "done", ![c].mark = "banked"]
  <2>1. PICK d \in Deposits :
             /\ deposit[d].status = "waiting" /\ Fits(deposit[d], d, c)
             /\ deposit' = [deposit EXCEPT ![d] = [deposit[d] EXCEPT !.status = "arrived",
                              !.tx = c, !.auto = TRUE, !.was = "none"]]
             /\ credit' = [credit EXCEPT ![c].at = "done", ![c].mark = "banked"]
    BY <1>3
  <2> DEFINE y == [deposit[d] EXCEPT !.status = "arrived", !.tx = c, !.auto = TRUE, !.was = "none"]
  <2>2. deposit[d] \in DepositRec
    BY RowAt DEF IInv, RowsOK
  <2>3. y.status = "arrived" /\ y.day = deposit[d].day /\ deposit' = [deposit EXCEPT ![d] = y]
    BY <2>1, <2>2 DEF DepositRec
  <2> HIDE DEF y
  <2>4. deposit'[d] = y /\ \A e \in Deposits \ {d} : deposit'[e] = deposit[e]
    BY <2>3, RowsNow DEF IInv
  <2>5. CashStill
    BY <2>1, <2>3, <2>4 DEF CashStill, CashOn
  <2>6. Day[c] > lockDay /\ \A b \in Credits \ {c} : credit'[b] = credit[b]
    BY <2>1, RowsNow DEF IInv, Fits, Open
  <2> QED
    BY <1>1, <2>5, <2>6, CreditsOpen, SameStill, NowDays, FiguresStill DEF ClosedStill, books
<1>4. \/ \E a \in {"done", "offered"} : credit' = [credit EXCEPT ![c].at = a] /\ UNCHANGED deposit
      \/ \E d \in Deposits :
             /\ deposit[d].status = "waiting" /\ Fits(deposit[d], d, c)
             /\ deposit' = [deposit EXCEPT ![d] = [deposit[d] EXCEPT !.status = "arrived",
                              !.tx = c, !.auto = TRUE, !.was = "none"]]
             /\ credit' = [credit EXCEPT ![c].at = "done", ![c].mark = "banked"]
  BY DEF OfferToDeposits, Oldest
<1> QED
  BY <1>2, <1>3, <1>4

\* Every request leaves closed days alone, or is one of those the property names.
LEMMA NextMoves == IInv /\ [Next]_vars => Frozen \/ Outside
<1> SUFFICES ASSUME IInv, [Next]_vars PROVE Frozen \/ Outside
  OBVIOUS
<1>1. CASE Arrive
  BY <1>1, OfferToDepositsMoves, OfferToInvoicesMoves, OfferLostMoves DEF Arrive, Outside
<1>2. CASE DepositOps
  BY <1>2, DepositMoves, CancelMoves, UndoDepositMoves, PickMoves DEF DepositOps
<1>3. CASE MatchOps
  <2>1. PICK c \in Credits :
          \/ \E s \in Sales : MatchSale(c, s) \/ \E a \in 1..Amount[c] : CreateSale(c, s, a)
          \/ \E k \in Customers : MatchDebt(c, k)
          \/ \E p \in payments : LinkDebtPayment(c, p) \/ LinkPayment(p, c)
          \/ \E deleteSale \in BOOLEAN : Unmatch(c, deleteSale)
          \/ \E mark \in Marks : Mark(c, mark)
          \/ \E i \in Invoices : \E a \in 1..Amount[i] : PayInvoiceFrom(i, a, c)
    BY <1>3 DEF MatchOps
  <2>2. CASE \E s \in Sales : MatchSale(c, s) \/ \E a \in 1..Amount[c] : CreateSale(c, s, a)
    BY <2>2, MatchSaleMoves, CreateSaleMoves
  <2>3. CASE \E k \in Customers : MatchDebt(c, k)
    BY <2>3, MatchDebtMoves
  <2>4. CASE \E p \in payments : LinkDebtPayment(c, p) \/ LinkPayment(p, c)
    BY <2>4, LinkDebtPaymentMoves, LinkPaymentMoves
  <2>5. CASE \E deleteSale \in BOOLEAN : Unmatch(c, deleteSale)
    BY <2>5, UnmatchMoves
  <2>6. CASE \E mark \in Marks : Mark(c, mark)
    BY <2>6, MarkMoves
  <2>7. CASE \E i \in Invoices : \E a \in 1..Amount[i] : PayInvoiceFrom(i, a, c)
    BY <2>7, PayInvoiceFromMoves
  <2> QED
    BY <2>1, <2>2, <2>3, <2>4, <2>5, <2>6, <2>7
<1>4. CASE RecordOps
  <2>1. CASE \E s \in Sales : DeleteSale(s) \/ \E a \in SaleAmounts : SaveSale(s, a)
    BY <2>1, SaleMoves
  <2>2. CASE \E x \in Debts : \E a \in 1..Amount[x], day \in HandDays : PayDebt(x, a, day)
    BY <2>2, PayDebtMoves
  <2>3. CASE (\E k \in Customers : DeleteCustomer(k)) \/ \E x \in Debts : SyncAddDebt(x)
    BY <2>3 DEF Outside
  <2>4. CASE \E i \in Invoices : \E a \in 1..Amount[i], day \in HandDays : PayInvoice(i, a, day)
    BY <2>4, PayInvoiceMoves
  <2>5. CASE \E p \in payments : UndoPayment(p)
    BY <2>5, UndoPaymentMoves
  <2>6. CASE \/ \E k \in Customers : CheckDelete(k)
             \/ \E x \in Debts : SyncCheckDebt(x)
             \/ \E i \in Invoices : CheckPayment(i) \/ WriteOff(i) \/ UndoWriteOff(i)
             \/ \E day \in LockDays : SetLock(day)
    BY <2>6, NothingMoves
  <2>7. CASE (\E x \in Debts : AddDebt(x)) \/ \E i \in Invoices : Issue(i) \/ Void(i)
    BY <2>7, OwedMoves
  <2> QED
    BY <1>4, <2>1, <2>2, <2>3, <2>4, <2>5, <2>6, <2>7 DEF RecordOps
<1>5. CASE UNCHANGED vars
  BY <1>5, NothingMoves
<1> QED
  BY <1>1, <1>2, <1>3, <1>4, <1>5 DEF Next

\* Reported figures do not move: whatever is matched, undone, edited or deleted, a
\* day the books are closed on keeps its money, its sales and its cash, since every
\* route asks the lock date of each day it moves money on or off.
THEOREM ClosedDaysKept == Spec => LockedDaysFrozen
<1>1. IInv /\ [Next]_vars => [Frozen \/ Outside]_vars
  BY NextMoves
<1> QED
  BY <1>1, Invariant, PTL DEF Spec, LockedDaysFrozen

-----------------------------------------------------------------------------
(* What the ledger needs besides *)

\* Nothing explains a transfer that has not been booked.
AwayFree == \A c \in Credits : credit[c].at = "away" => ~Linked(c) /\ credit[c].mark = "none"

\* A payment is of a debt that is there, or of an issued invoice.
OfOpen == \A p \in payments : IF p.of \in Debts THEN p.of \in debts ELSE invoice[p.of] = "open"

\* A deposit's credit is for what was deposited.
SameAmount == \A d \in Deposits : deposit[d].tx # None => Amount[deposit[d].tx] = Amount[d]

Stands == AwayFree /\ OfOpen /\ SameAmount

\* A step that touches one booked credit, which stays booked.
LEMMA AwayOne ==
  ASSUME AwayFree, NEW c \in Credits, credit'[c].at # "away", \A b \in Credits \ {c} : credit'[b] = credit[b]
  PROVE  AwayFree'
  BY DEF AwayFree, Linked

\* Credits untouched.
LEMMA AwaySame == ASSUME AwayFree, UNCHANGED credit PROVE AwayFree'
  BY DEF AwayFree, Linked

\* A write to other fields leaves how far the handler is.
LEMMA AtSame ==
  ASSUME TypeOK, NEW c \in Credits, NEW x, NEW y,
         \/ credit' = [credit EXCEPT ![c].sale = x, ![c].matched = y]
         \/ credit' = [credit EXCEPT ![c].customer = x, ![c].matched = y]
         \/ credit' = [credit EXCEPT ![c].invoice = x, ![c].matched = y]
         \/ credit' = [credit EXCEPT ![c].matched = y]
         \/ credit' = [credit EXCEPT ![c].mark = x]
  PROVE  credit'[c].at = credit[c].at /\ \A b \in Credits \ {c} : credit'[b] = credit[b]
<1>1. credit \in [Credits -> CreditRow] /\ credit[c] \in CreditRow
  BY RowAt
<1> QED
  BY <1>1 DEF CreditRow

\* Payments go on being of what they are of, and a new one is of something there.
LEMMA OfFrame ==
  ASSUME IInv, OfOpen, debts \subseteq debts', \A i \in Invoices : invoice[i] = "open" => invoice'[i] = "open",
         \A p \in payments' : \/ \E q \in payments : p.of = q.of
                              \/ p.of \in Debts /\ p.of \in debts'
                              \/ p.of \in Invoices /\ invoice'[p.of] = "open"
  PROVE  OfOpen'
<1> SUFFICES ASSUME NEW p \in payments' PROVE IF p.of \in Debts THEN p.of \in debts' ELSE invoice'[p.of] = "open"
  BY DEF OfOpen
<1>1. CASE \E q \in payments : p.of = q.of
  <2>1. PICK q \in payments : p.of = q.of
    BY <1>1
  <2>2. q.of \in Debts \cup Invoices
    BY PaymentFields DEF IInv, RowsOK, PaymentsOK
  <2> QED
    BY <2>1, <2>2 DEF OfOpen
<1>2. CASE p.of \in Debts /\ p.of \in debts'
  BY <1>2
<1>3. CASE p.of \in Invoices /\ invoice'[p.of] = "open"
  BY <1>3, Kinds
<1> QED
  BY <1>1, <1>2, <1>3

\* Payments and what they are of untouched.
LEMMA OfSame == ASSUME IInv, OfOpen, UNCHANGED <<debts, invoice, payments>> PROVE OfOpen'
  BY OfFrame

\* One payment more.
LEMMA OfMore ==
  ASSUME IInv, OfOpen, NEW q, payments' = payments \cup {q}, UNCHANGED <<debts, invoice>>,
         (q.of \in Debts /\ q.of \in debts) \/ (q.of \in Invoices /\ invoice[q.of] = "open")
  PROVE  OfOpen'
  BY OfFrame

\* Deposits untouched.
LEMMA AmountSame == ASSUME SameAmount, UNCHANGED deposit PROVE SameAmount'
  BY DEF SameAmount

\* A step that touches one deposit.
LEMMA AmountOne ==
  ASSUME SameAmount, NEW d \in Deposits, \A e \in Deposits \ {d} : deposit'[e] = deposit[e],
         deposit'[d].tx # None => Amount[deposit'[d].tx] = Amount[d]
  PROVE  SameAmount'
  BY DEF SameAmount

\* A payment's record of what it is of.
LEMMA WhatOf ==
  ASSUME NEW id, NEW of, NEW a, NEW c, NEW day, NEW was
  PROVE  Payment(id, of, a, c, day, was).of = of
  BY DEF Payment

\* Steps that touch no credit, deposit or payment.
LEMMA StillStands ==
  ASSUME IInv, Stands,
         \/ \E k \in Customers : CheckDelete(k)
         \/ \E x \in Debts : AddDebt(x) \/ SyncCheckDebt(x) \/ SyncAddDebt(x)
         \/ \E i \in Invoices : Issue(i) \/ Void(i) \/ CheckPayment(i) \/ WriteOff(i) \/ UndoWriteOff(i)
         \/ \E day \in LockDays : SetLock(day)
         \/ UNCHANGED vars
  PROVE  Stands'
<1>1. UNCHANGED <<credit, deposit, payments>>
  BY DEF CheckDelete, AddDebt, SyncCheckDebt, SyncAddDebt, Issue, Void, CheckPayment, WriteOff,
         UndoWriteOff, SetLock, vars, books
<1>2. OfOpen'
  <2>1. CASE \E i \in Invoices : Void(i)
    <3>1. PICK i \in Invoices : Void(i)
      BY <2>1
    <3>2. \A p \in payments : p.of # i
      <4> SUFFICES ASSUME NEW p \in payments, p.of = i PROVE FALSE
        OBVIOUS
      <4> DEFINE S == {q \in payments : q.of = i}
      <4>1. p \in S /\ S \subseteq PaymentRec /\ IsFiniteSet(S)
        BY PaymentsNow, FS_Subset
      <4>2. PaidSum(i) = Total(S) /\ paid[i] = PaidSum(i) /\ paid[i] = 0
        BY <3>1, Totals DEF IInv, PaidAgree, Void
      <4> HIDE DEF S
      <4>3. Total(S \ {p}) = Total(S) - p.amount /\ p.amount > 0 /\ Total(S \ {p}) \in Nat
        BY <4>1, TotalWithout
      <4>4. p.amount \in Nat
        BY PaymentsNow, PaymentFields
      <4> QED
        BY <4>2, <4>3, <4>4
    <3>3. \A j \in Invoices \ {i} : invoice'[j] = invoice[j]
      BY <3>1, RowsNow DEF Void, IInv
    <3>4. \A p \in payments : p.of \in Debts \cup Invoices
      BY PaymentsNow, PaymentFields
    <3> QED
      BY <1>1, <3>1, <3>2, <3>3, <3>4, Kinds DEF Void, Stands, OfOpen
  <2>2. CASE ~\E i \in Invoices : Void(i)
    <3>1. debts \subseteq debts' /\ \A i \in Invoices : invoice[i] = "open" => invoice'[i] = "open"
      <4>1. CASE \E i \in Invoices : Issue(i)
        BY <4>1, RowsNow DEF Issue, IInv
      <4>2. CASE ~\E i \in Invoices : Issue(i)
        BY <2>2, <4>2 DEF CheckDelete, AddDebt, SyncCheckDebt, SyncAddDebt, CheckPayment, WriteOff,
           UndoWriteOff, SetLock, vars, books
      <4> QED
        BY <4>1, <4>2
    <3> QED
      BY <1>1, <3>1, OfFrame DEF Stands
  <2> QED
    BY <2>1, <2>2
<1> QED
  BY <1>1, <1>2, AwaySame, AmountSame DEF Stands

\* The handler books a credit and moves it on.
LEMMA HandlerStands ==
  ASSUME IInv, Stands, NEW c \in Credits, Book(c) \/ OfferLost(c)
  PROVE  Stands'
<1>1. PICK a \in {"booked", "offered", "done"} : credit' = [credit EXCEPT ![c].at = a]
  BY DEF Book, OfferLost
<1>2. Wrote(c, a, credit[c].mark, credit[c].sale, credit[c].customer, credit[c].invoice, credit[c].matched)
  BY <1>1, WroteAt DEF IInv, RowsOK
<1>3. AwayFree'
  BY <1>2, AwayOne DEF Wrote, Stands
<1>4. UNCHANGED <<deposit, debts, invoice, payments>>
  BY DEF Book, OfferLost, books
<1> QED
  BY <1>3, <1>4, OfSame, AmountSame DEF Stands

\* Matches and marks ask for a booked credit.
LEMMA TouchedStands ==
  ASSUME IInv, Stands, NEW c \in Credits, NEW x, NEW y, c \in Booked,
         \/ credit' = [credit EXCEPT ![c].sale = x, ![c].matched = y]
         \/ credit' = [credit EXCEPT ![c].customer = x, ![c].matched = y]
         \/ credit' = [credit EXCEPT ![c].invoice = x, ![c].matched = y]
         \/ credit' = [credit EXCEPT ![c].matched = y]
         \/ credit' = [credit EXCEPT ![c].mark = x],
         UNCHANGED deposit, OfOpen'
  PROVE  Stands'
<1>1. credit'[c].at = credit[c].at /\ \A b \in Credits \ {c} : credit'[b] = credit[b]
  BY AtSame DEF IInv, RowsOK
<1>2. credit[c].at # "away"
  BY DEF Booked
<1> QED
  BY <1>1, <1>2, AwayOne, AmountSame DEF Stands

\* The transactions screen: marks, and sales.
LEMMA ScreenStands ==
  ASSUME IInv, Stands, NEW c \in Credits,
         \/ \E m \in Marks : Mark(c, m)
         \/ \E s \in Sales : MatchSale(c, s) \/ \E a \in 1..Amount[c] : CreateSale(c, s, a)
  PROVE  Stands'
<1>1. UNCHANGED <<deposit, debts, invoice, payments>> /\ c \in Booked
  BY DEF Mark, MatchSale, CreateSale, Matchable, books
<1>2. OfOpen'
  BY <1>1, OfSame DEF Stands
<1>3. PICK x, y : \/ credit' = [credit EXCEPT ![c].mark = x]
                  \/ credit' = [credit EXCEPT ![c].sale = x, ![c].matched = y]
  BY DEF Mark, MatchSale, CreateSale
<1> QED
  BY <1>1, <1>2, <1>3, TouchedStands

\* A sale's credit is booked, since it is linked.
LEMMA SaleStands ==
  ASSUME IInv, Stands, NEW s \in Sales, DeleteSale(s) \/ \E a \in SaleAmounts : SaveSale(s, a)
  PROVE  Stands'
<1> DEFINE c == sale[s].tx
<1>1. UNCHANGED <<deposit, debts, invoice, payments>>
  BY DEF DeleteSale, SaveSale
<1>2. OfOpen'
  BY <1>1, OfSame DEF Stands
<1>3. CASE c = None \/ credit[c].sale # s
  <2>1. UNCHANGED credit
    BY <1>3 DEF DeleteSale, SaveSale
  <2> QED
    BY <1>1, <1>2, <2>1, AwaySame, AmountSame DEF Stands
<1>4. CASE ~(c = None \/ credit[c].sale # s)
  <2>1. c \in Credits /\ credit[c].sale # None
    BY <1>4, SaleFields, Kinds
  <2>2. c \in Booked
    BY <2>1 DEF Stands, AwayFree, Linked, Booked
  <2>3. PICK y : \/ credit' = [credit EXCEPT ![c].sale = None, ![c].matched = y]
                 \/ credit' = [credit EXCEPT ![c].matched = y]
    BY <1>4 DEF DeleteSale, SaveSale
  <2> QED
    BY <1>1, <1>2, <2>1, <2>2, <2>3, TouchedStands
<1> QED
  BY <1>3, <1>4

\* Payments by hand.
LEMMA HandStands ==
  ASSUME IInv, Stands,
         \/ \E x \in Debts : \E a \in 1..Amount[x], day \in HandDays : PayDebt(x, a, day)
         \/ \E i \in Invoices : \E a \in 1..Amount[i], day \in HandDays : PayInvoice(i, a, day)
  PROVE  Stands'
<1>1. UNCHANGED <<credit, deposit>>
  BY DEF PayDebt, PayInvoice, Paying
<1>2. OfOpen'
  <2>1. CASE \E x \in Debts : \E a \in 1..Amount[x], day \in HandDays : PayDebt(x, a, day)
    <3>1. PICK x \in Debts : \E a, day :
            /\ x \in debts /\ payments' = payments \cup {Payment(NewId, x, a, None, day, 0)}
            /\ UNCHANGED <<debts, invoice>>
      BY <2>1 DEF PayDebt
    <3> QED
      BY <3>1, WhatOf, OfMore DEF Stands
  <2>2. CASE \E i \in Invoices : \E a \in 1..Amount[i], day \in HandDays : PayInvoice(i, a, day)
    <3>1. PICK i \in Invoices : \E a, day :
            /\ payments' = payments \cup {Payment(NewId, i, a, None, day, 0)}
            /\ UNCHANGED debts /\ invoice' = [invoice EXCEPT ![i] = "open"]
      BY <2>2 DEF PayInvoice, Paying
    <3>2. invoice'[i] = "open" /\ \A j \in Invoices : invoice[j] = "open" => invoice'[j] = "open"
      BY <3>1, RowsNow DEF IInv
    <3> QED
      BY <3>1, <3>2, WhatOf, OfFrame DEF Stands
  <2> QED
    BY <2>1, <2>2
<1> QED
  BY <1>1, <1>2, AwaySame, AmountSame DEF Stands

\* A payment recorded by hand is given a booked credit.
LEMMA LinkStands ==
  ASSUME IInv, Stands, NEW c \in Credits, NEW p \in payments, LinkDebtPayment(c, p) \/ LinkPayment(p, c)
  PROVE  Stands'
<1>1. /\ payments' = (payments \ {p}) \cup {Payment(p.id, p.of, p.amount, c, Day[c], p.day)}
      /\ c \in Booked /\ UNCHANGED <<deposit, debts, invoice>>
  BY DEF LinkDebtPayment, LinkPayment, Matchable, Linkable
<1>2. OfOpen'
  BY <1>1, WhatOf, OfFrame DEF Stands
<1>3. PICK x, y : \/ credit' = [credit EXCEPT ![c].customer = x, ![c].matched = y]
                  \/ credit' = [credit EXCEPT ![c].invoice = x, ![c].matched = y]
  <2>1. CASE LinkDebtPayment(c, p)
    BY <2>1 DEF LinkDebtPayment
  <2>2. CASE LinkPayment(p, c)
    <3> DEFINE z == IF credit[c].invoice = None THEN p.of ELSE credit[c].invoice
               n == credit[c].matched + p.amount
    <3>1. credit' = [credit EXCEPT ![c].invoice = z, ![c].matched = n]
      BY <2>2 DEF LinkPayment, UsedFor
    <3> QED
      BY <3>1
  <2> QED
    BY <2>1, <2>2
<1> QED
  BY <1>1, <1>2, <1>3, TouchedStands

\* An invoice is paid from a booked credit.
LEMMA PayFromStands ==
  ASSUME IInv, Stands, NEW i \in Invoices, NEW a, NEW c \in Credits, PayInvoiceFrom(i, a, c)
  PROVE  Stands'
<1>1. /\ payments' = payments \cup {Payment(NewId, i, a, c, Day[c], 0)}
      /\ c \in Booked /\ UNCHANGED <<deposit, debts>> /\ invoice' = [invoice EXCEPT ![i] = "open"]
  BY DEF PayInvoiceFrom, Paying, Linkable
<1>2. invoice'[i] = "open" /\ \A j \in Invoices : invoice[j] = "open" => invoice'[j] = "open"
  BY <1>1, RowsNow DEF IInv
<1>3. OfOpen'
  BY <1>1, <1>2, WhatOf, OfFrame DEF Stands
<1> DEFINE z == IF credit[c].invoice = None THEN i ELSE credit[c].invoice
           n == credit[c].matched + a
<1>4. credit' = [credit EXCEPT ![c].invoice = z, ![c].matched = n]
  BY DEF PayInvoiceFrom, UsedFor
<1> HIDE DEF z, n
<1> QED
  BY <1>1, <1>3, <1>4, TouchedStands

\* match-debt pays debts of the customer that are there.
LEMMA MatchDebtStands ==
  ASSUME IInv, Stands, NEW c \in Credits, NEW k \in Customers, MatchDebt(c, k)
  PROVE  Stands'
<1>1. PICK share \in Shares(c, k) :
        LET owed == {x \in DebtsOf(k) : share[x] > 0}
        IN  /\ Matchable(c)
            /\ LET id == CHOOSE f \in Injection(owed, FreeIds) : TRUE
               IN  payments' = payments \cup {Payment(id[x], x, share[x], c, Day[c], 0) : x \in owed}
            /\ credit' = [credit EXCEPT ![c].customer = k,
                                        ![c].matched = Sum(LAMBDA x : share[x], owed)]
            /\ UNCHANGED <<deposit, sale, debts, invoice>>
  BY DEF MatchDebt
<1> DEFINE owed == {x \in DebtsOf(k) : share[x] > 0}
           id == CHOOSE f \in Injection(owed, FreeIds) : TRUE
           n == Sum(LAMBDA x : share[x], owed)
           new == {Payment(id[x], x, share[x], c, Day[c], 0) : x \in owed}
<1>2. /\ c \in Booked /\ payments' = payments \cup new /\ UNCHANGED <<deposit, debts, invoice>>
      /\ credit' = [credit EXCEPT ![c].customer = k, ![c].matched = n]
  BY <1>1 DEF Matchable
<1>3. owed \subseteq debts /\ owed \subseteq Debts
  BY RowsNow DEF DebtsOf, IInv
<1> HIDE DEF n, id, owed
<1>4. \A p \in new : p.of \in owed
  BY WhatOf
<1> HIDE DEF new
<1>5. OfOpen'
  <2>1. \A p \in payments' : (\E q \in payments : p.of = q.of) \/ (p.of \in Debts /\ p.of \in debts')
    BY <1>2, <1>3, <1>4
  <2> QED
    BY <1>2, <2>1, OfFrame DEF Stands
<1> QED
  BY <1>2, <1>5, TouchedStands

\* The arriving credit is booked, and the invoice it pays is issued.
LEMMA OfferToInvoicesStands ==
  ASSUME IInv, Stands, NEW c \in Credits, OfferToInvoices(c)
  PROVE  Stands'
<1>1. UNCHANGED <<deposit, debts, invoice>>
  BY DEF OfferToInvoices
<1>2. CASE credit' = [credit EXCEPT ![c].at = "done"] /\ UNCHANGED payments
  <2>1. Wrote(c, "done", credit[c].mark, credit[c].sale, credit[c].customer, credit[c].invoice, credit[c].matched)
    BY <1>2, WroteAt DEF IInv, RowsOK
  <2> QED
    BY <1>1, <1>2, <2>1, AwayOne, OfSame, AmountSame DEF Stands, Wrote
<1>3. CASE \E i \in Invoices :
             /\ invoice[i] = "open"
             /\ payments' = payments \cup {Payment(NewId, i, Amount[c], c, Day[c], 0)}
             /\ credit' = [credit EXCEPT ![c].at = "done", ![c].invoice = i, ![c].matched = Amount[c]]
  <2>1. PICK i \in Invoices :
             /\ invoice[i] = "open"
             /\ payments' = payments \cup {Payment(NewId, i, Amount[c], c, Day[c], 0)}
             /\ credit' = [credit EXCEPT ![c].at = "done", ![c].invoice = i, ![c].matched = Amount[c]]
    BY <1>3
  <2>2. Amount[c] \in Nat
    BY Kinds DEF Money
  <2>3. Wrote(c, "done", credit[c].mark, credit[c].sale, credit[c].customer, i, Amount[c])
    BY <2>1, <2>2, WroteOffered DEF IInv, RowsOK
  <2>4. OfOpen'
    BY <1>1, <2>1, WhatOf, OfMore DEF Stands
  <2> QED
    BY <1>1, <2>3, <2>4, AwayOne, AmountSame DEF Stands, Wrote
<1> QED
  BY <1>2, <1>3 DEF OfferToInvoices

\* An unmatch and an undone payment take links away.
LEMMA UnmatchStands ==
  ASSUME IInv, Stands, NEW c \in Credits, NEW deleteSale \in BOOLEAN, Unmatch(c, deleteSale)
  PROVE  Stands'
<1>1. /\ Linked(c) /\ payments' = (payments \ PaymentsOf(c)) \cup {Before(p) : p \in Hand(c)}
      /\ Wrote(c, credit[c].at, credit[c].mark, None, None, None, 0)
      /\ UNCHANGED <<deposit, debts, invoice>>
  BY UnmatchWrote
<1>2. credit'[c].at # "away"
  BY <1>1 DEF Stands, AwayFree, Wrote
<1>3. \A p \in Hand(c) : Before(p).of = p.of /\ p \in payments
  BY WhatOf DEF Hand, Before, PaymentsOf
<1>4. OfOpen'
  BY <1>1, <1>3, OfFrame DEF Stands
<1> QED
  BY <1>1, <1>2, <1>4, AwayOne, AmountSame DEF Stands, Wrote

\* An undone payment takes its link away.
LEMMA UndoPaymentStands ==
  ASSUME IInv, Stands, NEW p \in payments, UndoPayment(p)
  PROVE  Stands'
<1> DEFINE c == p.tx
<1>1. payments' = payments \ {p} /\ credit' \in Freed(p) /\ UNCHANGED <<deposit, debts, invoice>>
  BY DEF UndoPayment
<1>2. OfOpen'
  BY <1>1, OfFrame DEF Stands
<1>3. CASE c = None
  <2>1. UNCHANGED credit
    BY <1>1, <1>3 DEF Freed
  <2> QED
    BY <1>1, <1>2, <2>1, AwaySame, AmountSame DEF Stands
<1>4. CASE c # None
  <2>1. c \in Credits /\ p \in PaymentsOf(c)
    BY <1>4, PaymentsNow, PaymentFields DEF PaymentsOf
  <2>2. c \in Booked
    <3>1. Linked(c)
      <4>1. PaymentsAt(c)
        BY <2>1 DEF IInv, CreditOK
      <4>2. p.of \in Debts => Owner[p.of] # None
        BY Kinds
      <4> QED
        BY <2>1, <4>1, <4>2 DEF PaymentsAt, Linked
    <3> QED
      BY <2>1, <3>1 DEF Stands, AwayFree, Booked
  <2>3. \/ UNCHANGED credit
        \/ \E x, y : credit' = [credit EXCEPT ![c].invoice = x, ![c].matched = y]
    BY <1>1 DEF Freed
  <2>4. CASE UNCHANGED credit
    BY <1>1, <1>2, <2>4, AwaySame, AmountSame DEF Stands
  <2>5. CASE \E x, y : credit' = [credit EXCEPT ![c].invoice = x, ![c].matched = y]
    BY <1>1, <1>2, <2>1, <2>2, <2>5, TouchedStands
  <2> QED
    BY <2>3, <2>4, <2>5
<1> QED
  BY <1>3, <1>4

\* A deleted customer's debts go with their payments.
LEMMA DeleteCustomerStands ==
  ASSUME IInv, Stands, NEW k \in Customers, DeleteCustomer(k)
  PROVE  Stands'
<1>1. /\ debts' = debts \ DebtsOf(k) /\ payments' = {p \in payments : p.of \notin DebtsOf(k)}
      /\ UNCHANGED <<credit, deposit, invoice>>
  BY DEF DeleteCustomer
<1>2. OfOpen'
  BY <1>1 DEF Stands, OfOpen
<1> QED
  BY <1>1, <1>2, AwaySame, AmountSame DEF Stands

\* One deposit written, and one credit at most, which is booked.
LEMMA DepositStands ==
  ASSUME IInv, Stands, NEW d \in Deposits, \A e \in Deposits \ {d} : deposit'[e] = deposit[e],
         deposit'[d].tx # None => Amount[deposit'[d].tx] = Amount[d], UNCHANGED books,
         \/ UNCHANGED credit
         \/ \E c \in Credits : credit'[c].at # "away" /\ \A b \in Credits \ {c} : credit'[b] = credit[b]
  PROVE  Stands'
<1>1. AwayFree'
  BY AwayOne, AwaySame DEF Stands
<1>2. SameAmount'
  BY AmountOne DEF Stands
<1>3. UNCHANGED <<debts, invoice, payments>>
  BY DEF books
<1> QED
  BY <1>1, <1>2, <1>3, OfSame DEF Stands

\* linkCredit writes the deposit and the booked credit of its amount.
LEMMA LinkCreditStands ==
  ASSUME IInv, Stands, NEW d \in Deposits, NEW dep \in DepositRec, NEW c \in Credits, NEW auto \in BOOLEAN,
         LinkCredit(dep, d, c, auto), Eligible(dep, d, c), UNCHANGED books
  PROVE  Stands'
<1> DEFINE R == IF auto THEN dep.rejected ELSE dep.rejected \ {c}
           m == credit[c].mark
           y == [[[[[dep EXCEPT !.status = "arrived"] EXCEPT !.tx = c] EXCEPT !.auto = auto]
                      EXCEPT !.was = m] EXCEPT !.rejected = R]
<1>1. deposit' = [deposit EXCEPT ![d] = y] /\ credit' = [credit EXCEPT ![c].mark = "banked"]
  BY DEF LinkCredit
<1>2. m \in {"none", "banked", "bankedCash"} /\ c \in Booked /\ Amount[c] = Amount[d]
  BY DEF Eligible
<1>3. R \in SUBSET Credits
  BY DepositFields
<1>4. y \in DepositRec /\ y.tx = c
  <2> HIDE DEF R, m
  <2> QED
    BY <1>2, <1>3 DEF DepositRec
<1> HIDE DEF y, R, m
<1>5. /\ deposit'[d] = y /\ \A e \in Deposits \ {d} : deposit'[e] = deposit[e]
  BY <1>1, <1>4, WrittenDeposit DEF IInv, RowsOK
<1>6. credit'[c].at = credit[c].at /\ \A b \in Credits \ {c} : credit'[b] = credit[b]
  BY <1>1, AtSame DEF IInv, RowsOK
<1>7. credit'[c].at # "away"
  BY <1>2, <1>6 DEF Booked
<1> QED
  BY <1>2, <1>4, <1>5, <1>6, <1>7, DepositStands

\* The look-back links a booked credit of the amount, or none.
LEMMA LookBackStands ==
  ASSUME IInv, Stands, NEW d \in Deposits, NEW dep \in DepositRec, LookBack(dep, d), dep.tx = None,
         UNCHANGED books
  PROVE  Stands'
<1> DEFINE hits == IF dep.status = "waiting" THEN {c \in Credits : Fits(dep, d, c)} ELSE {}
<1>1. CASE hits = {}
  <2>1. deposit' = [deposit EXCEPT ![d] = dep] /\ UNCHANGED credit
    BY <1>1 DEF LookBack
  <2>2. deposit'[d] = dep /\ \A e \in Deposits \ {d} : deposit'[e] = deposit[e]
    BY <2>1, WrittenDeposit DEF IInv, RowsOK
  <2> QED
    BY <2>1, <2>2, DepositStands
<1>2. CASE hits # {}
  <2>1. \E c \in Oldest(hits, LAMBDA x : Day[x]) : LinkCredit(dep, d, c, TRUE)
    BY <1>2 DEF LookBack
  <2>2. PICK c \in hits : LinkCredit(dep, d, c, TRUE)
    BY <2>1 DEF Oldest
  <2>3. c \in Credits /\ Fits(dep, d, c)
    BY <2>2
  <2> QED
    BY <2>2, <2>3, LinkCreditStands DEF Fits
<1> QED
  BY <1>1, <1>2

\* A new deposit looks back once.
LEMMA CreateDepositStands ==
  ASSUME IInv, Stands, NEW d \in Deposits, NEW day \in DepositDays, NEW into \in {"kashbook", "account"},
         CreateDeposit(d, day, into) \/ EditDeposit(d, day, into)
  PROVE  Stands'
<1>1. StatusInto[into] \in {"waiting", "done"} /\ day \in Days
  BY Kinds DEF StatusInto
<1>2. /\ deposit[d].status # "arrived" /\ UNCHANGED books
      /\ \/ LookBack([NoDeposit EXCEPT !.status = StatusInto[into], !.day = day], d)
         \/ LookBack([deposit[d] EXCEPT !.status = StatusInto[into], !.day = day], d)
  BY DEF CreateDeposit, EditDeposit
<1>3. NoDeposit \in DepositRec /\ NoDeposit.tx = None
  <2>1. 1 \in Days
    BY Kinds
  <2> QED
    BY <2>1 DEF NoDeposit, DepositRec
<1>4. deposit[d] \in DepositRec /\ deposit[d].tx = None
  BY <1>2, DepositFree
<1>5. PICK x \in DepositRec : x.tx = None /\ LookBack([x EXCEPT !.status = StatusInto[into], !.day = day], d)
  BY <1>2, <1>3, <1>4
<1> DEFINE y == [x EXCEPT !.status = StatusInto[into], !.day = day]
<1>6. y \in DepositRec /\ y.tx = None
  BY <1>1, <1>5 DEF DepositRec
<1>7. LookBack(y, d)
  BY <1>5
<1> HIDE DEF y
<1> QED
  BY <1>2, <1>6, <1>7, LookBackStands

\* A cancelled deposit has no credit.
LEMMA CancelStands == ASSUME IInv, Stands, NEW d \in Deposits, CancelDeposit(d) PROVE Stands'
<1> DEFINE y == [deposit[d] EXCEPT !.status = "cancelled"]
<1>1. deposit[d] \in DepositRec /\ deposit[d].tx = None
  BY DepositFree DEF CancelDeposit
<1>2. y \in DepositRec /\ y.tx = None
  BY <1>1 DEF DepositRec
<1>3. deposit' = [deposit EXCEPT ![d] = y] /\ UNCHANGED <<credit, books>>
  BY DEF CancelDeposit
<1> HIDE DEF y
<1>4. deposit'[d] = y /\ \A e \in Deposits \ {d} : deposit'[e] = deposit[e]
  BY <1>2, <1>3, WrittenDeposit DEF IInv, RowsOK
<1> QED
  BY <1>2, <1>3, <1>4, DepositStands

\* The owner picks a booked credit of the amount.
LEMMA PickStands ==
  ASSUME IInv, Stands, NEW d \in Deposits, NEW c \in Credits, PickTransfer(d, c)
  PROVE  Stands'
<1>1. deposit[d] \in DepositRec
  BY DepositFree DEF PickTransfer
<1> QED
  BY <1>1, LinkCreditStands DEF PickTransfer

\* An undone deposit and its credit part.
LEMMA UndoDepositStands ==
  ASSUME IInv, Stands, NEW d \in Deposits, UndoDeposit(d)
  PROVE  Stands'
<1> DEFINE c == deposit[d].tx
           y == [deposit[d] EXCEPT !.status = "waiting", !.tx = None, !.auto = FALSE, !.was = "none",
                                   !.rejected = @ \cup {c}]
<1>1. deposit[d] \in DepositRec /\ c \in Credits /\ c # None
  <2>1. deposit[d] \in DepositRec /\ c # None
    BY RowAt DEF IInv, RowsOK, DepositsAgree, UndoDeposit
  <2> QED
    BY <2>1, DepositFields
<1>2. c \in Booked
  <2>1. credit[c].mark = "banked"
    BY <1>1 DEF IInv, DepositsAgree
  <2> QED
    BY <1>1, <2>1 DEF Stands, AwayFree, Booked
<1>3. /\ deposit' = [deposit EXCEPT ![d] = y] /\ UNCHANGED books
      /\ \E m : credit' = [credit EXCEPT ![c].mark = m]
  BY DEF UndoDeposit
<1>4. y \in DepositRec /\ y.tx = None
  <2> HIDE DEF c
  <2> QED
    BY <1>1 DEF DepositRec
<1> HIDE DEF y
<1>5. deposit'[d] = y /\ \A e \in Deposits \ {d} : deposit'[e] = deposit[e]
  BY <1>3, <1>4, WrittenDeposit DEF IInv, RowsOK
<1> HIDE DEF c
<1>6. credit'[c].at = credit[c].at /\ \A b \in Credits \ {c} : credit'[b] = credit[b]
  BY <1>1, <1>3, AtSame DEF IInv, RowsOK
<1>7. credit'[c].at # "away"
  BY <1>2, <1>6 DEF Booked
<1> QED
  BY <1>1, <1>3, <1>4, <1>5, <1>6, <1>7, DepositStands

\* The arriving credit is booked, and goes to a deposit of its amount.
LEMMA OfferToDepositsStands ==
  ASSUME IInv, Stands, NEW c \in Credits, OfferToDeposits(c)
  PROVE  Stands'
<1>1. credit[c].at = "booked" /\ UNCHANGED books
  BY DEF OfferToDeposits
<1>2. CASE \E a \in {"done", "offered"} : credit' = [credit EXCEPT ![c].at = a] /\ UNCHANGED deposit
  <2>1. PICK a \in {"done", "offered"} : credit' = [credit EXCEPT ![c].at = a] /\ UNCHANGED deposit
    BY <1>2
  <2>2. Wrote(c, a, credit[c].mark, credit[c].sale, credit[c].customer, credit[c].invoice, credit[c].matched)
    BY <2>1, WroteAt DEF IInv, RowsOK
  <2>3. AwayFree'
    BY <2>2, AwayOne DEF Wrote, Stands
  <2>4. UNCHANGED <<deposit, debts, invoice, payments>>
    BY <1>1, <2>1 DEF books
  <2> QED
    BY <2>3, <2>4, OfSame, AmountSame DEF Stands
<1>3. CASE \E d \in Deposits :
             /\ deposit[d].status = "waiting" /\ Fits(deposit[d], d, c)
             /\ deposit' = [deposit EXCEPT ![d] = [@ EXCEPT !.status = "arrived",
                                 !.tx = c, !.auto = TRUE, !.was = "none"]]
             /\ credit' = [credit EXCEPT ![c].at = "done", ![c].mark = "banked"]
  <2>1. PICK d \in Deposits :
             /\ deposit[d].status = "waiting" /\ Fits(deposit[d], d, c)
             /\ deposit' = [deposit EXCEPT ![d] = [@ EXCEPT !.status = "arrived",
                                 !.tx = c, !.auto = TRUE, !.was = "none"]]
             /\ credit' = [credit EXCEPT ![c].at = "done", ![c].mark = "banked"]
    BY <1>3
  <2>2. deposit[d] \in DepositRec /\ Amount[c] = Amount[d]
    BY <2>1, DepositFree DEF Fits, Eligible
  <2> DEFINE y == [deposit[d] EXCEPT !.status = "arrived", !.tx = c, !.auto = TRUE, !.was = "none"]
  <2>3. y \in DepositRec /\ y.tx = c
    BY <2>2 DEF DepositRec
  <2>4. deposit' = [deposit EXCEPT ![d] = y]
    BY <2>1
  <2> HIDE DEF y
  <2>5. deposit'[d] = y /\ \A e \in Deposits \ {d} : deposit'[e] = deposit[e]
    BY <2>3, <2>4, WrittenDeposit DEF IInv, RowsOK
  <2>6. Wrote(c, "done", "banked", credit[c].sale, credit[c].customer, credit[c].invoice, credit[c].matched)
    BY <2>1, WroteBanked DEF IInv, RowsOK
  <2>7. credit'[c].at # "away" /\ \A b \in Credits \ {c} : credit'[b] = credit[b]
    BY <2>6 DEF Wrote
  <2> QED
    BY <1>1, <2>2, <2>3, <2>5, <2>7, DepositStands
<1> QED
  BY <1>2, <1>3 DEF OfferToDeposits, Oldest

\* Nothing is linked or paid at first.
LEMMA InitStands == Init => Stands
  BY Kinds DEF Init, Stands, AwayFree, OfOpen, SameAmount, NoCredit, NoDeposit, Linked

\* Each action's lemma above.
LEMMA NextStands == IInv /\ Stands /\ [Next]_vars => Stands'
<1> SUFFICES ASSUME IInv, Stands, [Next]_vars PROVE Stands'
  OBVIOUS
<1>1. CASE Arrive
  BY <1>1, HandlerStands, OfferToDepositsStands, OfferToInvoicesStands DEF Arrive
<1>2. CASE DepositOps
  BY <1>2, CreateDepositStands, CancelStands, UndoDepositStands, PickStands DEF DepositOps
<1>3. CASE MatchOps
  BY <1>3, ScreenStands, MatchDebtStands, LinkStands, UnmatchStands, PayFromStands DEF MatchOps
<1>4. CASE RecordOps
  BY <1>4, StillStands, SaleStands, HandStands, DeleteCustomerStands, UndoPaymentStands DEF RecordOps
<1>5. CASE UNCHANGED vars
  BY <1>5, StillStands
<1> QED
  BY <1>1, <1>2, <1>3, <1>4, <1>5 DEF Next

\* From InvHolds and NextStands, in every reachable state.
LEMMA StandsAlways == Spec => [](IInv /\ Stands)
<1>1. IInv /\ Stands /\ [Next]_vars => (IInv /\ Stands)'
  BY NextKeeps, NextStands
<1>2. Init => IInv /\ Stands
  BY InitHolds, InitStands
<1> QED
  BY <1>1, <1>2, PTL DEF Spec

-----------------------------------------------------------------------------
(* The balance of an account, family by family *)

\* What a move does to an account.
Effect(acc, m) == IF m.debit = acc THEN m.k ELSE 0 - m.k
On(acc, S) == {m \in S : m.k # 0 /\ acc \in {m.debit, m.credit}}
Bal(acc, T) == SumFunction([m \in T |-> Effect(acc, m)])

\* Of each record at most one move touches the account, for what h says.
Counts(acc, row, h) ==
  \A x \in DOMAIN h :
    /\ h[x] \in Int
    /\ \A m, n \in On(acc, row[x]) : m = n
    /\ \A m \in On(acc, row[x]) : Effect(acc, m) = h[x]
    /\ On(acc, row[x]) = {} => h[x] = 0

Apart(row, h) == \A x, y \in DOMAIN h : x # y => row[x] \cap row[y] = {}
All(row, h) == UNION {row[x] : x \in DOMAIN h}

\* The moves of one kind of record add up to what is said of each.
LEMMA FamilySum ==
  ASSUME NEW acc, NEW row, NEW h, IsFiniteSet(DOMAIN h), Counts(acc, row, h), Apart(row, h)
  PROVE  /\ IsFiniteSet(On(acc, All(row, h)))
         /\ \A m \in On(acc, All(row, h)) : Effect(acc, m) \in Int
         /\ Bal(acc, On(acc, All(row, h))) = SumFunction(h)
<1> DEFINE S == DOMAIN h
           T == On(acc, All(row, h))
           k == [m \in T |-> CHOOSE x \in S : m \in row[x]]
           f == [m \in T |-> Effect(acc, m)]
<1>1. ASSUME NEW m \in T PROVE k[m] \in S /\ m \in row[k[m]] /\ m \in On(acc, row[k[m]])
  <2>1. \E x \in S : m \in row[x]
    BY DEF On, All
  <2>2. k[m] \in S /\ m \in row[k[m]]
    BY <2>1
  <2> QED
    BY <2>2 DEF On
<1>2. \A m \in T : Effect(acc, m) = h[k[m]] /\ Effect(acc, m) \in Int
  BY <1>1 DEF Counts
<1>3. \A m, n \in T : k[m] = k[n] => m = n
  BY <1>1 DEF Counts
<1>4. ASSUME NEW x \in S, x \notin {k[m] : m \in T} PROVE h[x] = 0
  <2>1. SUFFICES ASSUME NEW m \in On(acc, row[x]) PROVE FALSE
    BY DEF Counts
  <2>2. m \in T /\ m \in row[x]
    BY DEF On, All
  <2>3. k[m] \in S /\ m \in row[k[m]]
    BY <1>1, <2>2
  <2>4. k[m] = x
    BY <2>2, <2>3 DEF Apart
  <2> QED
    BY <1>4, <2>2, <2>4
<1>5. DOMAIN f = T /\ \A m \in T : f[m] = Effect(acc, m)
  OBVIOUS
<1> HIDE DEF k, f, T
<1>6. IsFiniteSet(DOMAIN f) /\ SumFunction(f) = SumFunction(h)
  BY <1>1, <1>2, <1>3, <1>4, <1>5, SumKeyed
<1> QED
  BY <1>2, <1>5, <1>6 DEF Bal, f, T

\* Two groups of moves.
LEMMA BalTwo ==
  ASSUME NEW acc, NEW S, NEW T, IsFiniteSet(S), IsFiniteSet(T), S \cap T = {},
         \A m \in S \cup T : Effect(acc, m) \in Int
  PROVE  Bal(acc, S \cup T) = Bal(acc, S) + Bal(acc, T)
<1> DEFINE f == [m \in S \cup T |-> Effect(acc, m)]
           g == [m \in S |-> Effect(acc, m)]
           h == [m \in T |-> Effect(acc, m)]
<1>1. /\ DOMAIN f = S \cup T /\ DOMAIN g = S /\ DOMAIN h = T
      /\ \A m \in S : g[m] = f[m]
      /\ \A m \in T : h[m] = f[m]
      /\ \A m \in S \cup T : f[m] \in Int
  OBVIOUS
<1>2. IsFiniteSet(S \cup T)
  BY FS_Union
<1> HIDE DEF f, g, h
<1>3. DOMAIN f = DOMAIN g \cup DOMAIN h /\ DOMAIN g \cap DOMAIN h = {} /\ IsFiniteSet(DOMAIN f)
  BY <1>1, <1>2
<1>4. SumFunction(f) = SumFunction(g) + SumFunction(h)
  BY <1>1, <1>3, SumParts
<1> QED
  BY <1>4 DEF Bal, f, g, h

-----------------------------------------------------------------------------
(* The rows of the ledger *)

BankRows(view) == [c \in Credits |-> IF c \in Booked THEN BankRow(view, c) ELSE {}]
SaleRows == [s \in Sales |-> IF sale[s].amount > 0 THEN SaleRow(s) ELSE {}]
PaymentRows(view) == [p \in payments |-> IF InBooks(p.of) THEN PaymentRow(view, p) ELSE {}]
DepositRows ==
  [d \in Deposits |-> IF deposit[d].status \notin {"none", "cancelled"} THEN DepositRow(d) ELSE {}]
OwedRows(view) ==
  [x \in Debts \cup Invoices |-> IF view = "sold" /\ InBooks(x) THEN OwedRow(x) ELSE {}]
OffRows(view) ==
  [i \in Invoices |-> IF view = "sold" /\ i \in off /\ InBooks(i) THEN WriteOffRow(i) ELSE {}]

\* The fields of a move.
LEMMA MoveFields ==
  ASSUME NEW o, NEW day, NEW d, NEW c, NEW k
  PROVE  LET m == Move(o, day, d, c, k)
         IN  m.of = o /\ m.debit = d /\ m.credit = c /\ m.k = k
  BY DEF Move

\* Whose a move is.
LEMMA OfRows ==
  ASSUME NEW view
  PROVE  /\ \A c \in Credits : \A m \in BankRows(view)[c] : m.of = <<"bank", c>>
         /\ \A s \in Sales : \A m \in SaleRows[s] : m.of = <<"sale", s>>
         /\ \A p \in payments : \A m \in PaymentRows(view)[p] : m.of = <<"payment", p.id>>
         /\ \A d \in Deposits : \A m \in DepositRows[d] : m.of = <<"deposit", d>>
         /\ \A x \in Debts \cup Invoices : \A m \in OwedRows(view)[x] : m.of = <<"owed", x>>
         /\ \A i \in Invoices : \A m \in OffRows(view)[i] : m.of = <<"off", i>>
<1>1. \A c \in Credits : \A m \in BankRows(view)[c] : m.of = <<"bank", c>>
  BY MoveFields DEF BankRows, BankRow
<1>2. \A s \in Sales : \A m \in SaleRows[s] : m.of = <<"sale", s>>
  BY MoveFields DEF SaleRows, SaleRow
<1>3. \A p \in payments : \A m \in PaymentRows(view)[p] : m.of = <<"payment", p.id>>
  BY MoveFields DEF PaymentRows, PaymentRow
<1>4. \A d \in Deposits : \A m \in DepositRows[d] : m.of = <<"deposit", d>>
  BY MoveFields DEF DepositRows, DepositRow
<1>5. \A x \in Debts \cup Invoices : \A m \in OwedRows(view)[x] : m.of = <<"owed", x>>
  BY MoveFields DEF OwedRows, OwedRow
<1>6. \A i \in Invoices : \A m \in OffRows(view)[i] : m.of = <<"off", i>>
  BY MoveFields DEF OffRows, WriteOffRow
<1> QED
  BY <1>1, <1>2, <1>3, <1>4, <1>5, <1>6

\* The ledger is its rows.
LEMMA LedgerRows ==
  ASSUME IInv, NEW view \in Views
  PROVE  \A m : m \in Ledger(view) <=>
           \/ \E c \in Credits : m \in BankRows(view)[c]
           \/ \E s \in Sales : m \in SaleRows[s]
           \/ \E p \in payments : m \in PaymentRows(view)[p]
           \/ \E d \in Deposits : m \in DepositRows[d]
           \/ \E x \in Debts \cup Invoices : m \in OwedRows(view)[x]
           \/ \E i \in Invoices : m \in OffRows(view)[i]
<1> SUFFICES ASSUME NEW m
             PROVE  m \in Ledger(view) <=>
                       \/ \E c \in Credits : m \in BankRows(view)[c]
                       \/ \E s \in Sales : m \in SaleRows[s]
                       \/ \E p \in payments : m \in PaymentRows(view)[p]
                       \/ \E d \in Deposits : m \in DepositRows[d]
                       \/ \E x \in Debts \cup Invoices : m \in OwedRows(view)[x]
                       \/ \E i \in Invoices : m \in OffRows(view)[i]
  OBVIOUS
<1>1. view # "paid" <=> view = "sold"
  BY DEF Views
<1>2. m \in Ledger(view) <=>
        \/ \E c \in Booked : m \in BankRow(view, c)
        \/ \E s \in {s \in Sales : sale[s].amount > 0} : m \in SaleRow(s)
        \/ \E p \in {p \in payments : InBooks(p.of)} : m \in PaymentRow(view, p)
        \/ \E d \in {d \in Deposits : deposit[d].status \notin {"none", "cancelled"}} : m \in DepositRow(d)
        \/ view = "sold" /\ \E x \in {x \in Debts \cup Invoices : InBooks(x)} : m \in OwedRow(x)
        \/ view = "sold" /\ \E i \in {i \in off : InBooks(i)} : m \in WriteOffRow(i)
  BY <1>1 DEF Ledger
<1>3. (\E c \in Booked : m \in BankRow(view, c)) <=> \E c \in Credits : m \in BankRows(view)[c]
  BY DEF BankRows, Booked
<1>4. (\E s \in {s \in Sales : sale[s].amount > 0} : m \in SaleRow(s)) <=> \E s \in Sales : m \in SaleRows[s]
  BY DEF SaleRows
<1>5. (\E p \in {p \in payments : InBooks(p.of)} : m \in PaymentRow(view, p)) <=>
      \E p \in payments : m \in PaymentRows(view)[p]
  BY DEF PaymentRows
<1>6. (\E d \in {d \in Deposits : deposit[d].status \notin {"none", "cancelled"}} : m \in DepositRow(d)) <=>
      \E d \in Deposits : m \in DepositRows[d]
  BY DEF DepositRows
<1>7. (view = "sold" /\ \E x \in {x \in Debts \cup Invoices : InBooks(x)} : m \in OwedRow(x)) <=>
      \E x \in Debts \cup Invoices : m \in OwedRows(view)[x]
  BY DEF OwedRows
<1>8. (view = "sold" /\ \E i \in {i \in off : InBooks(i)} : m \in WriteOffRow(i)) <=>
      \E i \in Invoices : m \in OffRows(view)[i]
  BY RowsNow DEF OffRows, IInv
<1> QED
  BY <1>2, <1>3, <1>4, <1>5, <1>6, <1>7, <1>8

\* Each record's moves are its own, and so are those of each kind of record.
LEMMA RowsApart ==
  ASSUME IInv, NEW view, NEW b, NEW s, NEW p, NEW d, NEW o, NEW w,
         DOMAIN b = Credits, DOMAIN s = Sales, DOMAIN p = payments, DOMAIN d = Deposits,
         DOMAIN o = Debts \cup Invoices, DOMAIN w = Invoices
  PROVE  /\ Apart(BankRows(view), b) /\ Apart(SaleRows, s) /\ Apart(PaymentRows(view), p)
         /\ Apart(DepositRows, d) /\ Apart(OwedRows(view), o) /\ Apart(OffRows(view), w)
<1>1. Apart(BankRows(view), b)
  BY OfRows DEF Apart
<1>2. Apart(SaleRows, s)
  BY OfRows DEF Apart
<1>3. Apart(PaymentRows(view), p)
  BY OfRows DEF Apart, IInv, RowsOK, PaymentsOK
<1>4. Apart(DepositRows, d)
  BY OfRows DEF Apart
<1>5. Apart(OwedRows(view), o)
  BY OfRows DEF Apart
<1>6. Apart(OffRows(view), w)
  BY OfRows DEF Apart
<1> QED
  BY <1>1, <1>2, <1>3, <1>4, <1>5, <1>6

\* What each kind of record does to an account, record by record.
Tally(acc, view, b, s, p, d, o, w) ==
  /\ DOMAIN b = Credits /\ DOMAIN s = Sales /\ DOMAIN p = payments /\ DOMAIN d = Deposits
  /\ DOMAIN o = Debts \cup Invoices /\ DOMAIN w = Invoices
  /\ Counts(acc, BankRows(view), b) /\ Counts(acc, SaleRows, s) /\ Counts(acc, PaymentRows(view), p)
  /\ Counts(acc, DepositRows, d) /\ Counts(acc, OwedRows(view), o) /\ Counts(acc, OffRows(view), w)

\* The balance of an account is what each kind of record does to it.
LEMMA LedgerBalance ==
  ASSUME IInv, NEW view \in Views, NEW acc, NEW b, NEW s, NEW p, NEW d, NEW o, NEW w,
         Tally(acc, view, b, s, p, d, o, w)
  PROVE  Balance({m \in Ledger(view) : m.k # 0}, acc) =
           SumFunction(b) + SumFunction(s) + SumFunction(p) + SumFunction(d) + SumFunction(o) + SumFunction(w)
<1> DEFINE B == On(acc, All(BankRows(view), b))
           S == On(acc, All(SaleRows, s))
           P == On(acc, All(PaymentRows(view), p))
           D == On(acc, All(DepositRows, d))
           O == On(acc, All(OwedRows(view), o))
           W == On(acc, All(OffRows(view), w))
<1>0. /\ DOMAIN b = Credits /\ DOMAIN s = Sales /\ DOMAIN p = payments /\ DOMAIN d = Deposits
      /\ DOMAIN o = Debts \cup Invoices /\ DOMAIN w = Invoices
      /\ Counts(acc, BankRows(view), b) /\ Counts(acc, SaleRows, s) /\ Counts(acc, PaymentRows(view), p)
      /\ Counts(acc, DepositRows, d) /\ Counts(acc, OwedRows(view), o) /\ Counts(acc, OffRows(view), w)
  BY DEF Tally
<1>1. /\ IsFiniteSet(DOMAIN b) /\ IsFiniteSet(DOMAIN s) /\ IsFiniteSet(DOMAIN p)
      /\ IsFiniteSet(DOMAIN d) /\ IsFiniteSet(DOMAIN o) /\ IsFiniteSet(DOMAIN w)
  <2>1. IsFiniteSet(payments)
    BY DEF IInv, RowsOK, PaymentsOK
  <2>2. IsFiniteSet(Debts) /\ IsFiniteSet(Invoices)
    BY Kinds, LedgerAssumption
  <2>3. IsFiniteSet(Debts \cup Invoices)
    BY <2>2, FS_Union
  <2>4. IsFiniteSet(Credits) /\ IsFiniteSet(Sales) /\ IsFiniteSet(Deposits)
    BY LedgerAssumption
  <2> QED
    BY <1>0, <2>1, <2>2, <2>3, <2>4
<1>2. /\ IsFiniteSet(B) /\ Bal(acc, B) = SumFunction(b) /\ \A m \in B : Effect(acc, m) \in Int
      /\ IsFiniteSet(S) /\ Bal(acc, S) = SumFunction(s) /\ \A m \in S : Effect(acc, m) \in Int
      /\ IsFiniteSet(P) /\ Bal(acc, P) = SumFunction(p) /\ \A m \in P : Effect(acc, m) \in Int
      /\ IsFiniteSet(D) /\ Bal(acc, D) = SumFunction(d) /\ \A m \in D : Effect(acc, m) \in Int
      /\ IsFiniteSet(O) /\ Bal(acc, O) = SumFunction(o) /\ \A m \in O : Effect(acc, m) \in Int
      /\ IsFiniteSet(W) /\ Bal(acc, W) = SumFunction(w) /\ \A m \in W : Effect(acc, m) \in Int
  BY <1>0, <1>1, RowsApart, FamilySum
<1>3. /\ \A m \in B : \E c : m.of = <<"bank", c>>
      /\ \A m \in S : \E c : m.of = <<"sale", c>>
      /\ \A m \in P : \E c : m.of = <<"payment", c>>
      /\ \A m \in D : \E c : m.of = <<"deposit", c>>
      /\ \A m \in O : \E c : m.of = <<"owed", c>>
      /\ \A m \in W : \E c : m.of = <<"off", c>>
  BY <1>0, OfRows DEF On, All
<1>4. On(acc, Ledger(view)) = B \cup (S \cup (P \cup (D \cup (O \cup W))))
  BY <1>0, LedgerRows DEF On, All
<1>5. Balance({m \in Ledger(view) : m.k # 0}, acc) = Bal(acc, On(acc, Ledger(view)))
  <2>1. {m \in {n \in Ledger(view) : n.k # 0} : acc \in {m.debit, m.credit}} = On(acc, Ledger(view))
    BY DEF On
  <2> QED
    BY <2>1 DEF Balance, Bal, Sum, Effect
<1> HIDE DEF B, S, P, D, O, W
<1>6. /\ O \cap W = {} /\ D \cap (O \cup W) = {} /\ P \cap (D \cup (O \cup W)) = {}
      /\ S \cap (P \cup (D \cup (O \cup W))) = {} /\ B \cap (S \cup (P \cup (D \cup (O \cup W)))) = {}
  BY <1>3
<1>7. /\ IsFiniteSet(O \cup W) /\ IsFiniteSet(D \cup (O \cup W)) /\ IsFiniteSet(P \cup (D \cup (O \cup W)))
      /\ IsFiniteSet(S \cup (P \cup (D \cup (O \cup W))))
  BY <1>2, FS_Union
<1>8. Bal(acc, O \cup W) = Bal(acc, O) + Bal(acc, W)
  BY <1>2, <1>6, BalTwo
<1>9. Bal(acc, D \cup (O \cup W)) = Bal(acc, D) + Bal(acc, O \cup W)
  BY <1>2, <1>6, <1>7, BalTwo
<1>10. Bal(acc, P \cup (D \cup (O \cup W))) = Bal(acc, P) + Bal(acc, D \cup (O \cup W))
  BY <1>2, <1>6, <1>7, BalTwo
<1>11. Bal(acc, S \cup (P \cup (D \cup (O \cup W)))) = Bal(acc, S) + Bal(acc, P \cup (D \cup (O \cup W)))
  BY <1>2, <1>6, <1>7, BalTwo
<1>12. Bal(acc, B \cup (S \cup (P \cup (D \cup (O \cup W))))) = Bal(acc, B) + Bal(acc, S \cup (P \cup (D \cup (O \cup W))))
  BY <1>2, <1>6, <1>7, BalTwo
<1>13. /\ SumFunction(b) \in Int /\ SumFunction(s) \in Int /\ SumFunction(p) \in Int
       /\ SumFunction(d) \in Int /\ SumFunction(o) \in Int /\ SumFunction(w) \in Int
  BY <1>0, <1>1, SumInt DEF Counts
<1> QED
  BY <1>2, <1>4, <1>5, <1>8, <1>9, <1>10, <1>11, <1>12, <1>13

-----------------------------------------------------------------------------
(* What the records leave in the accounts *)

Standing == IInv /\ Stands /\ \A c \in Credits : credit[c].customer \in customers \cup {None}

\* What a credit counts, and what its match took.
LEMMA CreditParts ==
  ASSUME Standing, NEW c \in Credits
  PROVE  /\ Amount[c] \in Nat \ {0} /\ credit[c].mark \in Marks
         /\ credit[c].matched \in Nat /\ credit[c].matched = CarriedBy(c) /\ MatchedPart(c) = credit[c].matched
         /\ ~Linked(c) => credit[c].matched = 0
         /\ Linked(c) => credit[c].mark = "none" /\ c \in Booked
         /\ c \notin Booked => credit[c].matched = 0 /\ credit[c].mark = "none"
         /\ Counted(c) = IF credit[c].mark \in {"none", "income"} THEN Amount[c] - credit[c].matched ELSE 0
<1>1. Amount[c] \in Nat \ {0}
  BY Kinds DEF Money
<1>2. /\ credit[c].mark \in Marks /\ credit[c].matched \in Nat
      /\ credit[c].sale \in Sales \cup {None} /\ credit[c].customer \in Customers \cup {None}
  BY RowAt, CreditFields DEF Standing, IInv, RowsOK
<1>3. CreditOK(c)
  BY DEF Standing, IInv
<1>4. credit[c].matched = CarriedBy(c)
  BY <1>3 DEF CreditOK, MatchedAt, Standing
<1>5. ASSUME ~Linked(c) PROVE credit[c].matched = 0
  <2>1. \A p \in PaymentsOf(c) : FALSE
    <3> SUFFICES ASSUME NEW p \in PaymentsOf(c) PROVE FALSE
      OBVIOUS
    <3>1. p.of \in Debts => Owner[p.of] # None
      BY Kinds
    <3> QED
      BY <1>3, <1>5, <3>1 DEF CreditOK, PaymentsAt, Linked
  <2>2. PaymentsOf(c) = {}
    BY <2>1
  <2>3. CarriedBy(c) = Total(PaymentsOf(c))
    BY <1>5, Totals DEF Linked
  <2> QED
    BY <1>4, <2>2, <2>3, TotalNone
<1>6. ASSUME Linked(c) PROVE credit[c].mark = "none" /\ c \in Booked
  BY <1>3, <1>6 DEF CreditOK, OneWay, Linked, Standing, Stands, AwayFree, Booked
<1>7. c \notin Booked => credit[c].matched = 0 /\ credit[c].mark = "none"
  BY <1>5 DEF Standing, Stands, AwayFree, Booked
<1>8. Counted(c) = IF credit[c].mark \in {"none", "income"} THEN Amount[c] - credit[c].matched ELSE 0
  BY DEF Counted
<1>9. MatchedPart(c) = credit[c].matched
  <2>1. CASE Linked(c)
    BY <1>1, <1>2, <1>6, <1>8, <2>1 DEF MatchedPart
  <2>2. CASE ~Linked(c)
    BY <1>5, <2>2 DEF MatchedPart
  <2> QED
    BY <2>1, <2>2
<1> QED
  BY <1>1, <1>2, <1>4, <1>5, <1>6, <1>7, <1>8, <1>9

\* What a sale waits for, and what its transfer left it.
LEMMA SaleParts ==
  ASSUME Standing, NEW s \in Sales
  PROVE  /\ sale[s].amount \in Nat
         /\ sale[s].tx = None => LinkOf(s) = 0
         /\ sale[s].tx # None =>
              /\ sale[s].tx \in Credits /\ credit[sale[s].tx].sale = s /\ sale[s].amount > 0
              /\ LinkOf(s) = credit[sale[s].tx].matched
              /\ LinkOf(s) = Least(sale[s].amount, Amount[sale[s].tx])
              /\ LinkOf(s) \in Nat /\ LinkOf(s) > 0 /\ LinkOf(s) <= sale[s].amount
<1> DEFINE C == {c \in Booked : credit[c].sale = s}
           f == [c \in C |-> MatchedPart(c)]
<1>1. sale[s].amount \in Nat /\ sale[s].tx \in Credits \cup {None}
  BY SaleFields DEF Standing
<1>2. LinkOf(s) = Least(sale[s].amount, SumFunction(f))
  BY DEF LinkOf, Sum
<1>3. \A c \in C : sale[s].tx = c
  BY Kinds DEF Standing, IInv, CreditOK, SaleAt, Booked
<1>4. CASE sale[s].tx = None
  <2>1. C = {}
    BY <1>3, <1>4, Kinds DEF Booked
  <2>2. DOMAIN f = {}
    BY <2>1
  <2>3. SumFunction(f) = 0
    BY <2>2, SumEmpty
  <2> QED
    BY <1>1, <1>2, <1>4, <2>3 DEF Least
<1>5. CASE sale[s].tx # None
  <2> DEFINE c == sale[s].tx
  <2>1. c \in Credits /\ credit[c].sale = s /\ sale[s].amount > 0
    BY <1>1, <1>5 DEF Standing, IInv, SalesAgree
  <2>2. Linked(c)
    BY <2>1, Kinds DEF Linked
  <2>3. /\ Amount[c] \in Nat \ {0} /\ credit[c].matched \in Nat /\ MatchedPart(c) = credit[c].matched
        /\ credit[c].matched = CarriedBy(c) /\ c \in Booked
    BY <2>1, <2>2, CreditParts
  <2>4. CarriedBy(c) = Least(sale[s].amount, Amount[c])
    BY <2>1, Kinds DEF CarriedBy
  <2> HIDE DEF c
  <2>5. C = {c}
    BY <1>3, <2>1, <2>3 DEF c
  <2>6. DOMAIN f = {c} /\ f[c] = MatchedPart(c)
    BY <2>5
  <2> HIDE DEF f, C
  <2>7. SumFunction(f) = credit[c].matched
    BY <2>3, <2>6, SumOne
  <2>8. LinkOf(s) = Least(sale[s].amount, Least(sale[s].amount, Amount[c]))
    BY <1>2, <2>3, <2>4, <2>7
  <2>9. LinkOf(s) = Least(sale[s].amount, Amount[c])
    BY <1>1, <2>3, <2>8 DEF Least
  <2>10. LinkOf(s) \in Nat /\ LinkOf(s) > 0 /\ LinkOf(s) <= sale[s].amount
    BY <1>1, <2>1, <2>3, <2>9 DEF Least
  <2> QED
    BY <1>1, <1>5, <2>1, <2>3, <2>4, <2>9, <2>10 DEF c
<1> QED
  BY <1>4, <1>5

\* Every payment is of something in the books.
LEMMA PaymentParts ==
  ASSUME Standing, NEW p \in payments
  PROVE  /\ p.amount \in Nat \ {0} /\ p.of \in Debts \cup Invoices /\ p.tx \in Credits \cup {None}
         /\ InBooks(p.of) /\ Holds[p.of] \in {"Cash", "OtherBank", "Undeposited"}
<1>1. p.amount \in Nat \ {0} /\ p.of \in Debts \cup Invoices /\ p.tx \in Credits \cup {None}
  BY PaymentsNow, PaymentFields DEF Standing, PaymentRec
<1>2. InBooks(p.of)
  BY <1>1 DEF Standing, Stands, OfOpen, InBooks
<1> QED
  BY <1>1, <1>2, LedgerAssumption DEF Held

\* A deposit that has arrived has a credit of its own, booked, for the same.
LEMMA DepositParts ==
  ASSUME Standing, NEW d \in Deposits
  PROVE  /\ Amount[d] \in Nat \ {0}
         /\ deposit[d].status \in {"none", "waiting", "done", "arrived", "cancelled"}
         /\ deposit[d].status = "arrived" <=> deposit[d].tx # None
         /\ deposit[d].tx # None =>
              /\ deposit[d].tx \in Credits /\ DepositOf(deposit[d].tx) = {d}
              /\ credit[deposit[d].tx].mark = "banked" /\ ~Linked(deposit[d].tx)
              /\ Amount[deposit[d].tx] = Amount[d]
<1>1. Amount[d] \in Nat \ {0}
  BY Kinds DEF Money
<1>2. deposit[d].status \in {"none", "waiting", "done", "arrived", "cancelled"} /\ deposit[d].tx \in Credits \cup {None}
  BY RowAt, DepositFields DEF Standing, IInv, RowsOK
<1> QED
  BY <1>1, <1>2 DEF Standing, IInv, DepositsAgree, Stands, SameAmount

\* One move each, or none.
LEMMA CountsOf ==
  ASSUME NEW acc, NEW row, NEW h,
         \A x \in DOMAIN h :
           \/ On(acc, row[x]) = {} /\ h[x] = 0
           \/ \E m : On(acc, row[x]) = {m} /\ Effect(acc, m) = h[x] /\ h[x] \in Int
  PROVE  Counts(acc, row, h)
  BY DEF Counts

\* A kind of record that has nothing to do with the account.
LEMMA CountsNone ==
  ASSUME NEW acc, NEW row, NEW S, IsFiniteSet(S),
         \A x \in S : \A m \in row[x] : acc \notin {m.debit, m.credit}
  PROVE  LET h == [x \in S |-> 0]
         IN  DOMAIN h = S /\ Counts(acc, row, h) /\ SumFunction(h) = 0
<1> DEFINE h == [x \in S |-> 0]
<1>1. DOMAIN h = S /\ \A x \in S : h[x] = 0
  OBVIOUS
<1> HIDE DEF h
<1>2. Counts(acc, row, h)
  BY <1>1, CountsOf DEF On
<1>3. SumFunction(h) = 0
  BY <1>1, SumZero
<1> QED
  BY <1>1, <1>2, <1>3 DEF h

\* What a transfer posts: its income, and the rest by its mark or by its match.
BankPost(view, c, i, m, n, r) ==
  /\ BankRows(view)[c] = IF credit[c].mark \in {"banked", "bankedCash", "other"}
                         THEN {i, r} ELSE {i, m, n}
  /\ i.debit = "KashBook" /\ i.credit \in {"Income", "Receipts"}
  /\ r.debit = "KashBook" /\ r.credit = MarkAccount(c) /\ r.k = Amount[c] - IncomeOf(view, c)
  /\ m.debit = "KashBook" /\ m.credit = "Matching" /\ m.k = MatchedPart(c)
  /\ n.debit = "KashBook" /\ n.credit = "Suspense"
  /\ n.k = Amount[c] - IncomeOf(view, c) - MatchedPart(c)

\* A booked transfer posts like that.
LEMMA BankPosts ==
  ASSUME NEW c \in Booked, NEW view
  PROVE  \E i, m, n, r : BankPost(view, c, i, m, n, r)
<1> DEFINE i == Move(<<"bank", c>>, Day[c], "KashBook", IncomeAccount(c), IncomeOf(view, c))
           r == Move(<<"bank", c>>, Day[c], "KashBook", MarkAccount(c), Amount[c] - IncomeOf(view, c))
           m == Move(<<"bank", c>>, Day[c], "KashBook", "Matching", MatchedPart(c))
           n == Move(<<"bank", c>>, Day[c], "KashBook", "Suspense", Amount[c] - IncomeOf(view, c) - MatchedPart(c))
<1>1. BankRows(view)[c] = IF credit[c].mark \in {"banked", "bankedCash", "other"}
                          THEN {i, r} ELSE {i, m, n}
  BY DEF BankRows, BankRow, Booked
<1>2. i.debit = "KashBook" /\ i.credit = IncomeAccount(c)
  BY MoveFields
<1>3. r.debit = "KashBook" /\ r.credit = MarkAccount(c) /\ r.k = Amount[c] - IncomeOf(view, c)
  BY MoveFields
<1>4. m.debit = "KashBook" /\ m.credit = "Matching" /\ m.k = MatchedPart(c)
  BY MoveFields
<1>5. n.debit = "KashBook" /\ n.credit = "Suspense" /\ n.k = Amount[c] - IncomeOf(view, c) - MatchedPart(c)
  BY MoveFields
<1>6. IncomeAccount(c) \in {"Income", "Receipts"}
  BY DEF IncomeAccount
<1> HIDE DEF i, r, m, n
<1> WITNESS i, m, n, r
<1> QED
  BY <1>1, <1>2, <1>3, <1>4, <1>5, <1>6 DEF BankPost

\* A transfer that is not booked posts nothing.
LEMMA NoBankPost == ASSUME NEW c \in Credits, c \notin Booked, NEW view PROVE BankRows(view)[c] = {}
  BY DEF BankRows

\* What a sale posts.
LEMMA SalePosts ==
  ASSUME NEW s \in Sales
  PROVE  IF sale[s].amount > 0
         THEN \E l, r :
                /\ SaleRows[s] = {l, r}
                /\ l.debit = "Matching" /\ l.credit = "Sales" /\ l.k = LinkOf(s)
                /\ r.debit = (IF LinkOf(s) > 0 /\ Holds[s] = "Matching" THEN "Undeposited" ELSE Holds[s])
                /\ r.credit = "Sales" /\ r.k = sale[s].amount - LinkOf(s)
         ELSE SaleRows[s] = {}
<1> DEFINE own == IF LinkOf(s) > 0 /\ Holds[s] = "Matching" THEN "Undeposited" ELSE Holds[s]
           l == Move(<<"sale", s>>, Day[s], "Matching", "Sales", LinkOf(s))
           r == Move(<<"sale", s>>, Day[s], own, "Sales", sale[s].amount - LinkOf(s))
<1>1. SaleRows[s] = IF sale[s].amount > 0 THEN {l, r} ELSE {}
  BY DEF SaleRows, SaleRow
<1>2. l.debit = "Matching" /\ l.credit = "Sales" /\ l.k = LinkOf(s)
  BY MoveFields
<1>3. r.debit = own /\ r.credit = "Sales" /\ r.k = sale[s].amount - LinkOf(s)
  BY MoveFields
<1> HIDE DEF l, r
<1> QED
  BY <1>1, <1>2, <1>3

\* What a payment posts.
LEMMA PaymentPosts ==
  ASSUME Standing, NEW view \in Views, NEW p \in payments
  PROVE  \E m : /\ PaymentRows(view)[p] = {m}
                /\ m.debit = MoneyAccount(p) /\ m.k = p.amount
                /\ m.credit = IF view = "paid" THEN "Sales" ELSE "Receivable"
<1> DEFINE m == Move(<<"payment", p.id>>, p.day, MoneyAccount(p),
                     IF view = "paid" THEN "Sales" ELSE "Receivable", p.amount)
<1>1. PaymentRows(view)[p] = {m}
  BY PaymentParts DEF PaymentRows, PaymentRow
<1>2. /\ m.debit = MoneyAccount(p) /\ m.k = p.amount
      /\ m.credit = IF view = "paid" THEN "Sales" ELSE "Receivable"
  BY MoveFields
<1> HIDE DEF m
<1> QED
  BY <1>1, <1>2

\* What a deposit posts.
LEMMA DepositPosts ==
  ASSUME Standing, NEW d \in Deposits
  PROVE  \E m : /\ DepositRows[d] = IF deposit[d].status \in {"none", "cancelled"} THEN {} ELSE {m}
                /\ m.debit = (IF deposit[d].status = "done" THEN "OtherBank" ELSE "Undeposited")
                /\ m.credit = "Cash" /\ m.k = Amount[d]
<1> DEFINE m == Move(<<"deposit", d>>, deposit[d].day,
                     IF deposit[d].status = "done" THEN "OtherBank" ELSE "Undeposited", "Cash", Amount[d])
<1>1. DepositRows[d] = IF deposit[d].status \in {"none", "cancelled"} THEN {} ELSE {m}
  BY DEF DepositRows, DepositRow
<1>2. /\ m.debit = (IF deposit[d].status = "done" THEN "OtherBank" ELSE "Undeposited")
      /\ m.credit = "Cash" /\ m.k = Amount[d]
  BY MoveFields
<1> HIDE DEF m
<1> QED
  BY <1>1, <1>2

\* What a debt or an invoice posts.
LEMMA OwedPosts ==
  ASSUME Standing, NEW view \in Views, NEW x \in Debts \cup Invoices
  PROVE  \E m : /\ OwedRows(view)[x] = IF view = "sold" /\ InBooks(x) THEN {m} ELSE {}
                /\ m.debit = "Receivable" /\ m.credit = "Sales" /\ m.k = Amount[x]
<1> DEFINE m == Move(<<"owed", x>>, Day[x], "Receivable", "Sales", Amount[x])
<1>1. OwedRows(view)[x] = IF view = "sold" /\ InBooks(x) THEN {m} ELSE {}
  BY DEF OwedRows, OwedRow
<1>2. /\ m.debit = "Receivable" /\ m.credit = "Sales" /\ m.k = Amount[x]
  BY MoveFields
<1> HIDE DEF m
<1> QED
  BY <1>1, <1>2

\* What an invoice written off posts.
LEMMA OffPosts ==
  ASSUME Standing, NEW view \in Views, NEW i \in Invoices
  PROVE  \E m : /\ OffRows(view)[i] = IF view = "sold" /\ i \in off /\ InBooks(i) THEN {m} ELSE {}
                /\ m.debit = "BadDebts" /\ m.credit = "Receivable" /\ m.k = Due(i)
<1> DEFINE m == Move(<<"off", i>>, LastDay, "BadDebts", "Receivable", Due(i))
<1>1. OffRows(view)[i] = IF view = "sold" /\ i \in off /\ InBooks(i) THEN {m} ELSE {}
  BY DEF OffRows, WriteOffRow
<1>2. /\ m.debit = "BadDebts" /\ m.credit = "Receivable" /\ m.k = Due(i)
  BY MoveFields
<1> HIDE DEF m
<1> QED
  BY <1>1, <1>2

-----------------------------------------------------------------------------
(* Bank Matching *)

\* What the matches took, credit by credit, is what they gave, record by record.
TakenOf == [c \in Credits |-> credit[c].matched]
ToSales == [s \in Sales |-> LinkOf(s)]
ToPayments == [p \in payments |-> IF p.tx = None THEN 0 ELSE p.amount]

\* What the transfers' matches took is what they gave sales and payments.
LEMMA TakenGiven ==
  ASSUME Standing
  PROVE  SumFunction(TakenOf) = SumFunction(ToSales) + SumFunction(ToPayments)
<1> DEFINE LS == {s \in Sales : sale[s].tx # None}
           PS == {p \in payments : p.tx # None}
           f == [s \in LS |-> LinkOf(s)]
           e == [p \in PS |-> p.amount]
           kf == [s \in LS |-> sale[s].tx]
           ke == [p \in PS |-> p.tx]
           a == [c \in Credits |-> SumFunction([s \in {t \in LS : kf[t] = c} |-> f[s]])]
           b == [c \in Credits |-> SumFunction([p \in {q \in PS : ke[q] = c} |-> e[p]])]
<1>1. /\ IsFiniteSet(Sales) /\ IsFiniteSet(Credits) /\ IsFiniteSet(payments)
      /\ IsFiniteSet(LS) /\ IsFiniteSet(PS)
  BY LedgerAssumption, FS_Subset DEF Standing, IInv, RowsOK, PaymentsOK
<1>2. \A s \in LS : f[s] \in Int /\ kf[s] \in Credits
  BY SaleParts
<1>3. \A p \in PS : e[p] \in Int /\ ke[p] \in Credits
  BY PaymentParts
<1>4. ASSUME NEW c \in Credits PROVE a[c] \in Int /\ b[c] \in Int /\ TakenOf[c] = a[c] + b[c]
  <2> DEFINE Sc == {t \in LS : kf[t] = c}
             Pc == {q \in PS : ke[q] = c}
             fc == [s \in Sc |-> f[s]]
             ec == [p \in Pc |-> e[p]]
  <2>1. a[c] = SumFunction(fc) /\ b[c] = SumFunction(ec)
    OBVIOUS
  <2>2. Pc = PaymentsOf(c)
    BY Kinds DEF PaymentsOf
  <2>3. ec = [p \in PaymentsOf(c) |-> p.amount]
    BY <2>2
  <2>4. b[c] = Total(PaymentsOf(c)) /\ b[c] \in Nat
    <3>1. b[c] = Total(PaymentsOf(c))
      BY <2>1, <2>3 DEF Total
    <3> QED
      BY <3>1, PaymentsNow, TotalNat DEF Standing
  <2>5. /\ credit[c].matched = CarriedBy(c) /\ credit[c].matched \in Nat /\ CreditOK(c)
        /\ credit[c].sale \in Sales \cup {None}
    BY CreditParts, RowAt, CreditFields DEF Standing, IInv, RowsOK
  <2>6. TakenOf[c] = credit[c].matched
    BY DEF TakenOf
  <2>7. CASE credit[c].sale = None
    <3>1. Sc = {}
      BY <2>7, SaleParts, Kinds
    <3>2. DOMAIN fc = {}
      BY <3>1
    <3>3. SumFunction(fc) = 0
      BY <3>2, SumEmpty
    <3>4. a[c] = 0
      BY <2>1, <3>3
    <3>5. CarriedBy(c) = Total(PaymentsOf(c))
      BY <2>7, Totals
    <3> HIDE DEF a, b
    <3> QED
      BY <2>4, <2>5, <2>6, <3>4, <3>5
  <2>8. CASE credit[c].sale # None
    <3> DEFINE s == credit[c].sale
    <3>1. s \in Sales /\ sale[s].tx = c /\ c # None
      BY <2>5, <2>8, Kinds DEF CreditOK, SaleAt
    <3>2. \A t \in LS : kf[t] = c => t = s
      BY SaleParts
    <3>3. Sc = {s}
      BY <3>1, <3>2
    <3> HIDE DEF s
    <3>4. LinkOf(s) = credit[c].matched
      BY <3>1, SaleParts
    <3>5. DOMAIN fc = {s} /\ fc[s] = LinkOf(s)
      BY <3>1, <3>3
    <3>6. SumFunction(fc) = LinkOf(s)
      <4> HIDE DEF fc
      <4> QED
        BY <2>5, <3>4, <3>5, SumOne
    <3>7. PaymentsOf(c) = {}
      <4> SUFFICES ASSUME NEW p \in PaymentsOf(c) PROVE FALSE
        OBVIOUS
      <4>1. p.of \in Debts => Owner[p.of] # None
        BY Kinds
      <4> QED
        BY <2>5, <2>8, <4>1 DEF CreditOK, PaymentsAt, OneWay
    <3>8. b[c] = 0
      BY <2>4, <3>7, TotalNone
    <3>9. a[c] = credit[c].matched
      BY <2>1, <3>4, <3>6
    <3> HIDE DEF a, b
    <3> QED
      BY <2>5, <2>6, <3>8, <3>9
  <2> QED
    BY <2>7, <2>8
<1>5. SumFunction(f) = SumFunction(a)
  <2>1. /\ DOMAIN f = LS /\ DOMAIN a = Credits
        /\ \A c \in DOMAIN a : a[c] = SumFunction(Fibre(f, kf, c))
    BY DEF Fibre
  <2> HIDE DEF f, kf, a, LS
  <2> QED
    BY <1>1, <1>2, <2>1, SumFibres
<1>6. SumFunction(e) = SumFunction(b)
  <2>1. /\ DOMAIN e = PS /\ DOMAIN b = Credits
        /\ \A c \in DOMAIN b : b[c] = SumFunction(Fibre(e, ke, c))
    BY DEF Fibre
  <2> HIDE DEF e, ke, b, PS
  <2> QED
    BY <1>1, <1>3, <2>1, SumFibres
<1>7. SumFunction(TakenOf) = SumFunction(a) + SumFunction(b)
  <2>1. /\ DOMAIN TakenOf = Credits /\ DOMAIN a = Credits /\ DOMAIN b = Credits
        /\ IsFiniteSet(DOMAIN TakenOf)
    BY <1>1 DEF TakenOf
  <2> HIDE DEF a, b
  <2> QED
    BY <1>4, <2>1, SumPlus
<1>8. SumFunction(ToSales) = SumFunction(f)
  <2>1. /\ DOMAIN ToSales = Sales /\ DOMAIN f = LS /\ LS \subseteq Sales
        /\ \A s \in LS : f[s] = ToSales[s]
        /\ \A s \in Sales : ToSales[s] \in Int
        /\ \A s \in Sales \ LS : ToSales[s] = 0
    BY SaleParts DEF ToSales
  <2> HIDE DEF f, LS
  <2> QED
    BY <1>1, <2>1, SumSupport
<1>9. SumFunction(ToPayments) = SumFunction(e)
  <2>1. /\ DOMAIN ToPayments = payments /\ DOMAIN e = PS /\ PS \subseteq payments
        /\ \A p \in PS : e[p] = ToPayments[p]
        /\ \A p \in payments : ToPayments[p] \in Int
        /\ \A p \in payments \ PS : ToPayments[p] = 0
    BY PaymentParts DEF ToPayments
  <2> HIDE DEF e, PS
  <2> QED
    BY <1>1, <2>1, SumSupport
<1> QED
  BY <1>5, <1>6, <1>7, <1>8, <1>9

\* Sales that wait for a transfer.
WaitsFor == [s \in Sales |-> IF sale[s].tx = None /\ Holds[s] = "Matching" THEN sale[s].amount ELSE 0]

\* A transfer takes from Bank Matching what its match took.
LEMMA MatchingBank ==
  ASSUME Standing, NEW view \in Views,
         NEW h, DOMAIN h = Credits, \A c \in Credits : h[c] = 0 - credit[c].matched
  PROVE  Counts("Matching", BankRows(view), h)
<1> SUFFICES ASSUME NEW c \in Credits
             PROVE  \/ On("Matching", BankRows(view)[c]) = {} /\ h[c] = 0
                    \/ \E m : On("Matching", BankRows(view)[c]) = {m} /\ Effect("Matching", m) = h[c] /\ h[c] \in Int
  BY CountsOf
<1>1. /\ credit[c].matched \in Nat /\ MatchedPart(c) = credit[c].matched
      /\ c \notin Booked => credit[c].matched = 0
      /\ credit[c].mark # "none" => credit[c].matched = 0
      /\ h[c] = 0 - credit[c].matched
  BY CreditParts
<1>2. CASE c \notin Booked
  BY <1>1, <1>2, NoBankPost DEF On
<1>3. CASE c \in Booked
  <2>0. PICK i, m, n, r : BankPost(view, c, i, m, n, r)
    BY <1>3, BankPosts
  <2>1. /\ BankRows(view)[c] = IF credit[c].mark \in {"banked", "bankedCash", "other"}
                               THEN {i, r} ELSE {i, m, n}
        /\ i.debit = "KashBook" /\ i.credit \in {"Income", "Receipts"}
        /\ r.debit = "KashBook" /\ r.credit = MarkAccount(c)
        /\ m.debit = "KashBook" /\ m.credit = "Matching" /\ m.k = MatchedPart(c)
        /\ n.debit = "KashBook" /\ n.credit = "Suspense"
    BY <2>0 DEF BankPost
  <2>2. r.credit # "Matching"
    BY <2>1 DEF MarkAccount
  <2>3. CASE credit[c].mark \in {"banked", "bankedCash", "other"}
    BY <1>1, <2>1, <2>2, <2>3 DEF On
  <2>4. CASE credit[c].mark \notin {"banked", "bankedCash", "other"}
    <3>1. On("Matching", BankRows(view)[c]) = IF MatchedPart(c) = 0 THEN {} ELSE {m}
      BY <2>1, <2>4 DEF On
    <3>2. Effect("Matching", m) = 0 - MatchedPart(c)
      BY <2>1 DEF Effect
    <3> QED
      BY <1>1, <3>1, <3>2
  <2> QED
    BY <2>3, <2>4
<1> QED
  BY <1>2, <1>3

\* A sale puts back what its transfer left it, or waits for one.
LEMMA MatchingSale ==
  ASSUME Standing, NEW h, DOMAIN h = Sales, \A s \in Sales : h[s] = WaitsFor[s] + ToSales[s]
  PROVE  Counts("Matching", SaleRows, h)
<1> SUFFICES ASSUME NEW s \in Sales
             PROVE  \/ On("Matching", SaleRows[s]) = {} /\ h[s] = 0
                    \/ \E m : On("Matching", SaleRows[s]) = {m} /\ Effect("Matching", m) = h[s] /\ h[s] \in Int
  BY CountsOf
<1> DEFINE a == sale[s].amount
           l == LinkOf(s)
<1>1. /\ a \in Nat /\ l \in Nat /\ l <= a
      /\ sale[s].tx = None => l = 0
      /\ sale[s].tx # None => l > 0
  BY SaleParts
<1>2. h[s] = (IF sale[s].tx = None /\ Holds[s] = "Matching" THEN a ELSE 0) + l
  BY DEF WaitsFor, ToSales
<1> HIDE DEF a, l
<1>3. CASE a = 0
  <2>1. SaleRows[s] = {}
    BY <1>1, <1>3, SalePosts DEF a
  <2> QED
    BY <1>1, <1>2, <1>3, <2>1 DEF On
<1>4. CASE a > 0
  <2>1. PICK x, y :
                /\ SaleRows[s] = {x, y}
                /\ x.debit = "Matching" /\ x.credit = "Sales" /\ x.k = l
                /\ y.debit = (IF l > 0 /\ Holds[s] = "Matching" THEN "Undeposited" ELSE Holds[s])
                /\ y.credit = "Sales" /\ y.k = a - l
    BY <1>4, SalePosts DEF a, l
  <2>2. CASE l > 0
    <3>1. On("Matching", SaleRows[s]) = {x}
      BY <2>1, <2>2, <1>1 DEF On
    <3>2. Effect("Matching", x) = l
      BY <2>1 DEF Effect
    <3> QED
      BY <1>1, <1>2, <2>2, <3>1, <3>2
  <2>3. CASE l = 0 /\ Holds[s] = "Matching"
    <3>1. On("Matching", SaleRows[s]) = {y}
      BY <2>1, <2>3, <1>1, <1>4 DEF On
    <3>2. Effect("Matching", y) = a
      BY <1>1, <2>1, <2>3 DEF Effect
    <3> QED
      BY <1>1, <1>2, <2>3, <3>1, <3>2
  <2>4. CASE l = 0 /\ Holds[s] # "Matching"
    <3>1. On("Matching", SaleRows[s]) = {}
      BY <2>1, <2>4, <1>1 DEF On
    <3> QED
      BY <1>1, <1>2, <2>4, <3>1
  <2> QED
    BY <1>1, <2>2, <2>3, <2>4
<1> QED
  BY <1>1, <1>3, <1>4

\* A payment puts back what its transfer gave it.
LEMMA MatchingPayment ==
  ASSUME Standing, NEW view \in Views
  PROVE  Counts("Matching", PaymentRows(view), ToPayments)
<1> SUFFICES ASSUME NEW p \in payments
             PROVE  \/ On("Matching", PaymentRows(view)[p]) = {} /\ ToPayments[p] = 0
                    \/ \E m : /\ On("Matching", PaymentRows(view)[p]) = {m}
                              /\ Effect("Matching", m) = ToPayments[p] /\ ToPayments[p] \in Int
  <2>1. DOMAIN ToPayments = payments
    BY DEF ToPayments
  <2> QED
    BY <2>1, CountsOf
<1>1. PICK m : /\ PaymentRows(view)[p] = {m}
               /\ m.debit = MoneyAccount(p) /\ m.k = p.amount
               /\ m.credit = IF view = "paid" THEN "Sales" ELSE "Receivable"
  BY PaymentPosts
<1>2. p.amount \in Nat \ {0} /\ Holds[p.of] # "Matching"
  BY PaymentParts
<1>3. ToPayments[p] = IF p.tx = None THEN 0 ELSE p.amount
  BY DEF ToPayments
<1>4. CASE p.tx = None
  BY <1>1, <1>2, <1>3, <1>4 DEF On, MoneyAccount
<1>5. CASE p.tx # None
  <2>1. On("Matching", PaymentRows(view)[p]) = {m} /\ Effect("Matching", m) = p.amount
    BY <1>1, <1>2, <1>5 DEF On, MoneyAccount, Effect
  <2> QED
    BY <1>2, <1>3, <1>5, <2>1
<1> QED
  BY <1>4, <1>5

\* Deposits, debts, invoices and write-offs leave the account alone.
LEMMA OthersNone ==
  ASSUME Standing, NEW view \in Views, NEW acc \in {"Matching", "Suspense"}
  PROVE  /\ \A d \in Deposits : \A m \in DepositRows[d] : acc \notin {m.debit, m.credit}
         /\ \A x \in Debts \cup Invoices : \A m \in OwedRows(view)[x] : acc \notin {m.debit, m.credit}
         /\ \A i \in Invoices : \A m \in OffRows(view)[i] : acc \notin {m.debit, m.credit}
<1>1. ASSUME NEW d \in Deposits, NEW m \in DepositRows[d] PROVE acc \notin {m.debit, m.credit}
  <2>1. m.debit \in {"OtherBank", "Undeposited"} /\ m.credit = "Cash"
    BY <1>1, MoveFields DEF DepositRows, DepositRow
  <2> QED
    BY <2>1
<1>2. ASSUME NEW x \in Debts \cup Invoices, NEW m \in OwedRows(view)[x] PROVE acc \notin {m.debit, m.credit}
  <2>1. m.debit = "Receivable" /\ m.credit = "Sales"
    BY <1>2, MoveFields DEF OwedRows, OwedRow
  <2> QED
    BY <2>1
<1>3. ASSUME NEW i \in Invoices, NEW m \in OffRows(view)[i] PROVE acc \notin {m.debit, m.credit}
  <2>1. m.debit = "BadDebts" /\ m.credit = "Receivable"
    BY <1>3, MoveFields DEF OffRows, WriteOffRow
  <2> QED
    BY <2>1
<1> QED
  BY <1>1, <1>2, <1>3

\* The sets of records are finite.
LEMMA Few ==
  ASSUME Standing
  PROVE  /\ IsFiniteSet(Credits) /\ IsFiniteSet(Sales) /\ IsFiniteSet(payments) /\ IsFiniteSet(Deposits)
         /\ IsFiniteSet(Debts) /\ IsFiniteSet(Invoices) /\ IsFiniteSet(Debts \cup Invoices)
<1>1. IsFiniteSet(payments)
  BY DEF Standing, IInv, RowsOK, PaymentsOK
<1>2. IsFiniteSet(Debts) /\ IsFiniteSet(Invoices)
  BY Kinds, LedgerAssumption
<1>3. IsFiniteSet(Debts \cup Invoices)
  BY <1>2, FS_Union
<1> QED
  BY <1>1, <1>2, <1>3, LedgerAssumption

\* Bank Matching holds what sales still wait for, in both views.
LEMMA MatchingClears ==
  ASSUME Standing, NEW view \in Views
  PROVE  Balance({m \in Ledger(view) : m.k # 0}, "Matching") = Waiting
<1> DEFINE b == [c \in Credits |-> 0 - credit[c].matched]
           s == [x \in Sales |-> WaitsFor[x] + ToSales[x]]
           d == [x \in Deposits |-> 0]
           o == [x \in Debts \cup Invoices |-> 0]
           w == [x \in Invoices |-> 0]
           I == {x \in Sales : sale[x].tx = None /\ Holds[x] = "Matching"}
           f == [x \in I |-> sale[x].amount]
<1>1. /\ DOMAIN b = Credits /\ DOMAIN s = Sales /\ DOMAIN ToPayments = payments
      /\ DOMAIN WaitsFor = Sales /\ DOMAIN ToSales = Sales /\ DOMAIN TakenOf = Credits
      /\ DOMAIN f = I /\ I \subseteq Sales
  BY DEF ToPayments, WaitsFor, ToSales, TakenOf
<1>2. Counts("Matching", BankRows(view), b) /\ Counts("Matching", SaleRows, s)
  BY MatchingBank, MatchingSale
<1>3. /\ DOMAIN d = Deposits /\ Counts("Matching", DepositRows, d) /\ SumFunction(d) = 0
      /\ DOMAIN o = Debts \cup Invoices /\ Counts("Matching", OwedRows(view), o) /\ SumFunction(o) = 0
      /\ DOMAIN w = Invoices /\ Counts("Matching", OffRows(view), w) /\ SumFunction(w) = 0
  BY Few, OthersNone, CountsNone
<1>4. \A x \in Sales : WaitsFor[x] \in Int /\ ToSales[x] \in Int /\ s[x] = WaitsFor[x] + ToSales[x]
  BY SaleParts DEF WaitsFor, ToSales
<1>5. \A c \in Credits : TakenOf[c] \in Int /\ b[c] = 0 - TakenOf[c]
  BY CreditParts DEF TakenOf
<1>6. /\ \A x \in I : f[x] = WaitsFor[x]
      /\ \A x \in Sales \ I : WaitsFor[x] = 0
  BY DEF WaitsFor
<1>7. Waiting = SumFunction(f)
  BY DEF Waiting, Sum
<1>8. \A p \in payments : ToPayments[p] \in Int
  BY PaymentParts DEF ToPayments
<1> HIDE DEF b, s, d, o, w, f, I
<1>9. SumFunction(s) = SumFunction(WaitsFor) + SumFunction(ToSales)
  BY <1>1, <1>4, Few, SumPlus
<1>10. SumFunction(b) = 0 - SumFunction(TakenOf)
  BY <1>1, <1>5, Few, SumNegated
<1>11. SumFunction(WaitsFor) = SumFunction(f)
  BY <1>1, <1>4, <1>6, Few, SumSupport
<1>12. SumFunction(TakenOf) = SumFunction(ToSales) + SumFunction(ToPayments)
  BY TakenGiven
<1>13. Balance({m \in Ledger(view) : m.k # 0}, "Matching") =
         SumFunction(b) + SumFunction(s) + SumFunction(ToPayments) + SumFunction(d) + SumFunction(o) + SumFunction(w)
  <2>1. Tally("Matching", view, b, s, ToPayments, d, o, w)
    BY <1>1, <1>2, <1>3, MatchingPayment DEF Tally
  <2> QED
    BY <2>1, LedgerBalance DEF Standing
<1>14. SumFunction(WaitsFor) \in Int /\ SumFunction(ToSales) \in Int /\ SumFunction(ToPayments) \in Int
  BY <1>1, <1>4, <1>8, Few, SumInt
<1> QED
  BY <1>3, <1>7, <1>9, <1>10, <1>11, <1>12, <1>13, <1>14

-----------------------------------------------------------------------------
(* Undeposited Funds *)

\* Cash that has reached the bank, by transfer and by deposit.
Reached == [c \in Credits |-> IF DepositOf(c) # {} THEN Amount[c] ELSE 0]
ArrivedOf == [d \in Deposits |-> IF deposit[d].tx # None THEN Amount[d] ELSE 0]

\* A credit reached at most one deposit, of its amount.
LEMMA DepositOfCredit ==
  ASSUME Standing, NEW c \in Credits, DepositOf(c) # {}
  PROVE  /\ credit[c].mark = "banked" /\ c \in Booked
         /\ \E d \in Deposits : DepositOf(c) = {d} /\ Amount[c] = Amount[d] /\ deposit[d].status = "arrived"
<1>1. PICK d \in Deposits : deposit[d].tx = c
  BY DEF DepositOf
<1>2. c # None
  BY Kinds
<1>3. /\ DepositOf(c) = {d} /\ credit[c].mark = "banked" /\ Amount[c] = Amount[d]
      /\ deposit[d].status = "arrived"
  BY <1>1, <1>2, DepositParts
<1>4. c \in Booked
  BY <1>3, CreditParts
<1> QED
  BY <1>3, <1>4

\* Each deposit that has arrived has a transfer of its own for the same.
LEMMA ReachedTwice ==
  ASSUME Standing
  PROVE  SumFunction(Reached) = SumFunction(ArrivedOf)
<1> DEFINE A == {d \in Deposits : deposit[d].tx # None}
           e == [d \in A |-> Amount[d]]
           k == [d \in A |-> deposit[d].tx]
<1>1. /\ DOMAIN e = A /\ A \subseteq Deposits /\ DOMAIN Reached = Credits /\ DOMAIN ArrivedOf = Deposits
      /\ IsFiniteSet(A)
  <2>1. A \subseteq Deposits
    OBVIOUS
  <2> QED
    BY <2>1, Few, FS_Subset DEF Reached, ArrivedOf
<1>2. \A d \in A : e[d] \in Int /\ k[d] \in Credits
  BY DepositParts
<1>3. ASSUME NEW c \in Credits
      PROVE  Reached[c] = SumFunction([d \in {y \in DOMAIN e : k[y] = c} |-> e[d]])
  <2> DEFINE D == {y \in DOMAIN e : k[y] = c}
             f == [d \in D |-> e[d]]
  <2>1. D = DepositOf(c)
    BY Kinds DEF DepositOf
  <2>2. CASE DepositOf(c) = {}
    <3>1. DOMAIN f = {}
      BY <2>1, <2>2
    <3>2. SumFunction(f) = 0
      BY <3>1, SumEmpty
    <3>3. Reached[c] = 0
      BY <2>2 DEF Reached
    <3> QED
      BY <3>2, <3>3
  <2>3. CASE DepositOf(c) # {}
    <3>1. PICK d \in Deposits : DepositOf(c) = {d} /\ Amount[c] = Amount[d]
      BY <2>3, DepositOfCredit
    <3>2. DOMAIN f = {d} /\ f[d] = Amount[d] /\ Amount[d] \in Int
      <4>1. D = {d}
        BY <2>1, <3>1
      <4>2. DOMAIN f = {d} /\ f[d] = e[d]
        BY <4>1
      <4>3. d \in A
        BY <1>1, <4>1
      <4>4. e[d] = Amount[d]
        BY <4>3
      <4>5. Amount[d] \in Int
        BY DepositParts
      <4> QED
        BY <4>2, <4>4, <4>5
    <3>3. SumFunction(f) = Amount[d]
      <4> HIDE DEF f
      <4> QED
        BY <3>2, SumOne
    <3>4. Reached[c] = Amount[c]
      BY <2>3 DEF Reached
    <3> QED
      BY <3>1, <3>3, <3>4
  <2> QED
    BY <2>2, <2>3
<1>4. SumFunction(e) = SumFunction(Reached)
  <2>1. \A c \in DOMAIN Reached : Reached[c] = SumFunction(Fibre(e, k, c))
    BY <1>1, <1>3 DEF Fibre
  <2> HIDE DEF e, k, A
  <2> QED
    BY <1>1, <1>2, <2>1, Few, SumFibres
<1>5. /\ \A d \in Deposits : ArrivedOf[d] \in Int
      /\ \A d \in A : e[d] = ArrivedOf[d]
      /\ \A d \in Deposits \ A : ArrivedOf[d] = 0
  BY DepositParts DEF ArrivedOf
<1> HIDE DEF e, A
<1>6. SumFunction(ArrivedOf) = SumFunction(e)
  BY <1>1, <1>5, Few, SumSupport
<1> QED
  BY <1>4, <1>6

\* A transfer takes what its deposit brought.
LEMMA UndepositedBank ==
  ASSUME Standing, NEW view \in Views,
         NEW h, DOMAIN h = Credits, \A c \in Credits : h[c] = 0 - Reached[c]
  PROVE  Counts("Undeposited", BankRows(view), h)
<1> SUFFICES ASSUME NEW c \in Credits
             PROVE  \/ On("Undeposited", BankRows(view)[c]) = {} /\ h[c] = 0
                    \/ \E m : /\ On("Undeposited", BankRows(view)[c]) = {m}
                              /\ Effect("Undeposited", m) = h[c] /\ h[c] \in Int
  BY CountsOf
<1>1. /\ Amount[c] \in Nat \ {0} /\ credit[c].mark \in Marks
      /\ h[c] = IF DepositOf(c) # {} THEN 0 - Amount[c] ELSE 0
  BY CreditParts DEF Reached
<1>2. CASE c \notin Booked
  BY <1>1, <1>2, NoBankPost, DepositOfCredit DEF On
<1>3. CASE c \in Booked
  <2>0. PICK i, m, n, r : BankPost(view, c, i, m, n, r)
    BY <1>3, BankPosts
  <2>1. /\ BankRows(view)[c] = IF credit[c].mark \in {"banked", "bankedCash", "other"}
                               THEN {i, r} ELSE {i, m, n}
        /\ i.debit = "KashBook" /\ i.credit \in {"Income", "Receipts"}
        /\ r.debit = "KashBook" /\ r.credit = MarkAccount(c) /\ r.k = Amount[c] - IncomeOf(view, c)
        /\ m.debit = "KashBook" /\ m.credit = "Matching"
        /\ n.debit = "KashBook" /\ n.credit = "Suspense"
    BY <2>0 DEF BankPost
  <2>2. CASE DepositOf(c) # {}
    <3>1. PICK d \in Deposits : DepositOf(c) = {d} /\ deposit[d].status = "arrived"
      BY <2>2, DepositOfCredit
    <3>2. credit[c].mark = "banked"
      BY <2>2, DepositOfCredit
    <3>3. r.credit = "Undeposited"
      BY <2>1, <3>1 DEF MarkAccount
    <3>4. Counted(c) = 0
      BY <3>2 DEF Counted
    <3>5. r.k = Amount[c]
      BY <1>1, <2>1, <3>2, <3>4 DEF IncomeOf
    <3>6. On("Undeposited", BankRows(view)[c]) = {r}
      BY <1>1, <2>1, <3>2, <3>3, <3>5 DEF On
    <3>7. Effect("Undeposited", r) = 0 - Amount[c]
      BY <2>1, <3>5 DEF Effect
    <3> QED
      BY <1>1, <2>2, <3>6, <3>7
  <2>3. CASE DepositOf(c) = {}
    <3>1. r.credit # "Undeposited"
      BY <2>1, <2>3 DEF MarkAccount
    <3>2. On("Undeposited", BankRows(view)[c]) = {}
      BY <2>1, <3>1 DEF On
    <3> QED
      BY <1>1, <2>3, <3>2
  <2> QED
    BY <2>2, <2>3
<1> QED
  BY <1>2, <1>3

\* What was received on its way to the bank, and what a transfer left of a sale.
SaleWay == [s \in Sales |->
  IF Holds[s] = "Undeposited" THEN (IF sale[s].tx = None THEN sale[s].amount ELSE Unbanked(s))
  ELSE IF Holds[s] = "Matching" THEN Unbanked(s) ELSE 0]

\* A sale puts in Undeposited Funds what its match left, if its money is kept there.
LEMMA UndepositedSale ==
  ASSUME Standing
  PROVE  Counts("Undeposited", SaleRows, SaleWay) /\ \A s \in Sales : SaleWay[s] \in Int
<1> SUFFICES ASSUME NEW s \in Sales
             PROVE  /\ \/ On("Undeposited", SaleRows[s]) = {} /\ SaleWay[s] = 0
                       \/ \E m : /\ On("Undeposited", SaleRows[s]) = {m}
                                 /\ Effect("Undeposited", m) = SaleWay[s] /\ SaleWay[s] \in Int
                    /\ SaleWay[s] \in Int
  <2>1. DOMAIN SaleWay = Sales
    BY DEF SaleWay
  <2> QED
    BY <2>1, CountsOf
<1> DEFINE a == sale[s].amount
           l == LinkOf(s)
<1>1. /\ a \in Nat /\ l \in Nat /\ l <= a
      /\ sale[s].tx = None => l = 0
      /\ sale[s].tx # None => l > 0 /\ a > 0 /\ Unbanked(s) = a - l
      /\ sale[s].tx = None => Unbanked(s) = 0
  BY SaleParts DEF Unbanked
<1>2. SaleWay[s] = IF Holds[s] = "Undeposited" THEN a - l
                   ELSE IF Holds[s] = "Matching" /\ l > 0 THEN a - l ELSE 0
  BY <1>1 DEF SaleWay
<1> HIDE DEF a, l
<1>3. CASE a = 0
  <2>1. SaleRows[s] = {}
    BY <1>1, <1>3, SalePosts DEF a
  <2> QED
    BY <1>1, <1>2, <1>3, <2>1 DEF On
<1>4. CASE a > 0
  <2>1. PICK x, y :
                /\ SaleRows[s] = {x, y}
                /\ x.debit = "Matching" /\ x.credit = "Sales" /\ x.k = l
                /\ y.debit = (IF l > 0 /\ Holds[s] = "Matching" THEN "Undeposited" ELSE Holds[s])
                /\ y.credit = "Sales" /\ y.k = a - l
    BY <1>4, SalePosts DEF a, l
  <2>2. CASE y.debit = "Undeposited"
    <3>1. SaleWay[s] = a - l
      BY <1>2, <2>1, <2>2
    <3>2. On("Undeposited", SaleRows[s]) = IF a - l = 0 THEN {} ELSE {y}
      BY <2>1, <2>2, <1>1 DEF On
    <3>3. Effect("Undeposited", y) = a - l
      BY <2>1, <2>2 DEF Effect
    <3> QED
      BY <1>1, <3>1, <3>2, <3>3
  <2>3. CASE y.debit # "Undeposited"
    <3>1. SaleWay[s] = 0
      BY <1>2, <2>1, <2>3
    <3>2. On("Undeposited", SaleRows[s]) = {}
      BY <2>1, <2>3, <1>1 DEF On
    <3> QED
      BY <1>1, <3>1, <3>2
  <2> QED
    BY <2>2, <2>3
<1> QED
  BY <1>1, <1>3, <1>4

\* Payments received that way, and linked to no transfer.
PaymentWay == [p \in payments |-> IF p.tx = None /\ Holds[p.of] = "Undeposited" THEN p.amount ELSE 0]

\* A payment puts in Undeposited Funds what was received there.
LEMMA UndepositedPayment ==
  ASSUME Standing, NEW view \in Views
  PROVE  Counts("Undeposited", PaymentRows(view), PaymentWay)
<1> SUFFICES ASSUME NEW p \in payments
             PROVE  \/ On("Undeposited", PaymentRows(view)[p]) = {} /\ PaymentWay[p] = 0
                    \/ \E m : /\ On("Undeposited", PaymentRows(view)[p]) = {m}
                              /\ Effect("Undeposited", m) = PaymentWay[p] /\ PaymentWay[p] \in Int
  <2>1. DOMAIN PaymentWay = payments
    BY DEF PaymentWay
  <2> QED
    BY <2>1, CountsOf
<1>1. PICK m : /\ PaymentRows(view)[p] = {m}
               /\ m.debit = MoneyAccount(p) /\ m.k = p.amount
               /\ m.credit = IF view = "paid" THEN "Sales" ELSE "Receivable"
  BY PaymentPosts
<1>2. p.amount \in Nat \ {0}
  BY PaymentParts
<1>3. PaymentWay[p] = IF m.debit = "Undeposited" THEN p.amount ELSE 0
  BY <1>1 DEF PaymentWay, MoneyAccount
<1>4. m.credit # "Undeposited"
  BY <1>1
<1>5. CASE m.debit # "Undeposited"
  BY <1>1, <1>3, <1>4, <1>5 DEF On
<1>6. CASE m.debit = "Undeposited"
  <2>1. On("Undeposited", PaymentRows(view)[p]) = {m} /\ Effect("Undeposited", m) = p.amount
    BY <1>1, <1>2, <1>6 DEF On, Effect
  <2> QED
    BY <1>2, <1>3, <1>6, <2>1
<1> QED
  BY <1>5, <1>6

\* Deposits on their way, or arrived.
DepositWay == [d \in Deposits |-> IF deposit[d].status = "waiting" THEN Amount[d] ELSE 0]

\* A deposit adds its amount while it waits, and when it has arrived.
LEMMA UndepositedDeposit ==
  ASSUME Standing, NEW h, DOMAIN h = Deposits, \A d \in Deposits : h[d] = DepositWay[d] + ArrivedOf[d]
  PROVE  Counts("Undeposited", DepositRows, h)
<1> SUFFICES ASSUME NEW d \in Deposits
             PROVE  \/ On("Undeposited", DepositRows[d]) = {} /\ h[d] = 0
                    \/ \E m : /\ On("Undeposited", DepositRows[d]) = {m}
                              /\ Effect("Undeposited", m) = h[d] /\ h[d] \in Int
  BY CountsOf
<1>1. PICK m : /\ DepositRows[d] = IF deposit[d].status \in {"none", "cancelled"} THEN {} ELSE {m}
               /\ m.debit = (IF deposit[d].status = "done" THEN "OtherBank" ELSE "Undeposited")
               /\ m.credit = "Cash" /\ m.k = Amount[d]
  BY DepositPosts
<1>2. /\ Amount[d] \in Nat \ {0}
      /\ deposit[d].status \in {"none", "waiting", "done", "arrived", "cancelled"}
      /\ deposit[d].status = "arrived" <=> deposit[d].tx # None
  BY DepositParts
<1>3. h[d] = IF deposit[d].status \in {"waiting", "arrived"} THEN Amount[d] ELSE 0
  BY <1>2 DEF DepositWay, ArrivedOf
<1>4. CASE deposit[d].status \in {"waiting", "arrived"}
  <2>1. On("Undeposited", DepositRows[d]) = {m} /\ Effect("Undeposited", m) = Amount[d]
    BY <1>1, <1>2, <1>4 DEF On, Effect
  <2> QED
    BY <1>2, <1>3, <1>4, <2>1
<1>5. CASE deposit[d].status \notin {"waiting", "arrived"}
  <2>1. On("Undeposited", DepositRows[d]) = {}
    BY <1>1, <1>2, <1>5 DEF On
  <2> QED
    BY <1>3, <1>5, <2>1
<1> QED
  BY <1>4, <1>5

\* Undeposited Funds holds what is on its way to the bank, in both views.
LEMMA UndepositedClears ==
  ASSUME Standing, NEW view \in Views
  PROVE  Balance({m \in Ledger(view) : m.k # 0}, "Undeposited") = OnItsWay
<1> DEFINE b == [c \in Credits |-> 0 - Reached[c]]
           d == [x \in Deposits |-> DepositWay[x] + ArrivedOf[x]]
           o == [x \in Debts \cup Invoices |-> 0]
           w == [x \in Invoices |-> 0]
           I == {x \in Deposits : deposit[x].status = "waiting"}
           f == [x \in I |-> Amount[x]]
           J == {p \in payments : p.tx = None /\ Holds[p.of] = "Undeposited"}
           g == [p \in J |-> p.amount]
<1>1. /\ DOMAIN b = Credits /\ DOMAIN SaleWay = Sales /\ DOMAIN PaymentWay = payments /\ DOMAIN d = Deposits
      /\ DOMAIN Reached = Credits /\ DOMAIN DepositWay = Deposits /\ DOMAIN ArrivedOf = Deposits
      /\ DOMAIN f = I /\ I \subseteq Deposits /\ DOMAIN g = J /\ J \subseteq payments
  BY DEF SaleWay, PaymentWay, Reached, DepositWay, ArrivedOf
<1>2. /\ Counts("Undeposited", BankRows(view), b) /\ Counts("Undeposited", DepositRows, d)
      /\ Counts("Undeposited", SaleRows, SaleWay) /\ Counts("Undeposited", PaymentRows(view), PaymentWay)
      /\ \A s \in Sales : SaleWay[s] \in Int
  BY UndepositedBank, UndepositedDeposit, UndepositedSale, UndepositedPayment
<1>3. /\ \A x \in Debts \cup Invoices : \A m \in OwedRows(view)[x] : "Undeposited" \notin {m.debit, m.credit}
      /\ \A x \in Invoices : \A m \in OffRows(view)[x] : "Undeposited" \notin {m.debit, m.credit}
  <2>1. ASSUME NEW x \in Debts \cup Invoices, NEW m \in OwedRows(view)[x]
        PROVE  "Undeposited" \notin {m.debit, m.credit}
    <3>1. m.debit = "Receivable" /\ m.credit = "Sales"
      BY <2>1, MoveFields DEF OwedRows, OwedRow
    <3> QED
      BY <3>1
  <2>2. ASSUME NEW i \in Invoices, NEW m \in OffRows(view)[i] PROVE "Undeposited" \notin {m.debit, m.credit}
    <3>1. m.debit = "BadDebts" /\ m.credit = "Receivable"
      BY <2>2, MoveFields DEF OffRows, WriteOffRow
    <3> QED
      BY <3>1
  <2> QED
    BY <2>1, <2>2
<1>4. /\ DOMAIN o = Debts \cup Invoices /\ Counts("Undeposited", OwedRows(view), o) /\ SumFunction(o) = 0
      /\ DOMAIN w = Invoices /\ Counts("Undeposited", OffRows(view), w) /\ SumFunction(w) = 0
  BY <1>3, Few, CountsNone
<1>5. \A c \in Credits : Reached[c] \in Int /\ b[c] = 0 - Reached[c]
  BY CreditParts DEF Reached
<1>6. \A x \in Deposits : DepositWay[x] \in Int /\ ArrivedOf[x] \in Int /\ d[x] = DepositWay[x] + ArrivedOf[x]
  BY DepositParts DEF DepositWay, ArrivedOf
<1>7. /\ \A x \in I : f[x] = DepositWay[x]
      /\ \A x \in Deposits \ I : DepositWay[x] = 0
      /\ \A p \in J : g[p] = PaymentWay[p]
      /\ \A p \in payments \ J : PaymentWay[p] = 0
      /\ \A p \in payments : PaymentWay[p] \in Int
  BY PaymentParts DEF DepositWay, PaymentWay
<1>8. OnItsWay = SumFunction(f) + SumFunction(SaleWay) + SumFunction(g)
  BY DEF OnItsWay, Sum, SaleWay
<1> HIDE DEF b, d, o, w, f, g, I, J
<1>9. SumFunction(b) = 0 - SumFunction(Reached)
  BY <1>1, <1>5, Few, SumNegated
<1>10. SumFunction(d) = SumFunction(DepositWay) + SumFunction(ArrivedOf)
  BY <1>1, <1>6, Few, SumPlus
<1>11. SumFunction(DepositWay) = SumFunction(f)
  BY <1>1, <1>6, <1>7, Few, SumSupport
<1>12. SumFunction(PaymentWay) = SumFunction(g)
  BY <1>1, <1>7, Few, SumSupport
<1>13. Balance({m \in Ledger(view) : m.k # 0}, "Undeposited") =
         SumFunction(b) + SumFunction(SaleWay) + SumFunction(PaymentWay) + SumFunction(d) + SumFunction(o) + SumFunction(w)
  <2>1. Tally("Undeposited", view, b, SaleWay, PaymentWay, d, o, w)
    BY <1>1, <1>2, <1>4 DEF Tally
  <2> QED
    BY <2>1, LedgerBalance DEF Standing
<1>14. /\ SumFunction(Reached) \in Int /\ SumFunction(DepositWay) \in Int /\ SumFunction(ArrivedOf) \in Int
       /\ SumFunction(SaleWay) \in Int /\ SumFunction(PaymentWay) \in Int
  BY <1>1, <1>2, <1>5, <1>6, <1>7, Few, SumInt
<1>15. SumFunction(Reached) = SumFunction(ArrivedOf)
  BY ReachedTwice
<1> QED
  BY <1>4, <1>8, <1>9, <1>10, <1>11, <1>12, <1>13, <1>14, <1>15

-----------------------------------------------------------------------------
(* Suspense *)

\* A transfer posts to the named accounts only.
LEMMA BankElsewhere ==
  ASSUME NEW c \in Credits, NEW view, NEW m \in BankRows(view)[c]
  PROVE  m.debit # "Receivable" /\ m.credit # "Receivable"
<1>1. c \in Booked
  BY DEF BankRows
<1>2. PICK i, n, q, r : BankPost(view, c, i, n, q, r)
  BY <1>1, BankPosts
<1>3. m \in {i, r, n, q}
  BY <1>2 DEF BankPost
<1>4. r.credit # "Receivable"
  BY <1>2 DEF BankPost, MarkAccount
<1> QED
  BY <1>2, <1>3, <1>4 DEF BankPost

\* A sale posts to Bank Matching, where its money is, and Sales.
LEMMA SaleElsewhere ==
  ASSUME NEW s \in Sales, NEW m \in SaleRows[s]
  PROVE  m.debit \in Held /\ m.credit = "Sales"
<1>1. sale[s].amount > 0
  BY DEF SaleRows
<1>2. PICK l, r :
                /\ SaleRows[s] = {l, r}
                /\ l.debit = "Matching" /\ l.credit = "Sales" /\ l.k = LinkOf(s)
                /\ r.debit = (IF LinkOf(s) > 0 /\ Holds[s] = "Matching" THEN "Undeposited" ELSE Holds[s])
                /\ r.credit = "Sales" /\ r.k = sale[s].amount - LinkOf(s)
  BY <1>1, SalePosts
<1>3. Holds[s] \in Held
  BY LedgerAssumption
<1> QED
  BY <1>2, <1>3 DEF Held

Explaining == [c \in Credits |-> IF c \in Booked /\ credit[c].mark = "none" THEN Counted(c) ELSE 0]

\* "When sold", a transfer nobody has explained is owed an explanation.
LEMMA SuspenseBank ==
  ASSUME Standing, NEW h, DOMAIN h = Credits, \A c \in Credits : h[c] = 0 - Explaining[c]
  PROVE  Counts("Suspense", BankRows("sold"), h)
<1> SUFFICES ASSUME NEW c \in Credits
             PROVE  \/ On("Suspense", BankRows("sold")[c]) = {} /\ h[c] = 0
                    \/ \E m : /\ On("Suspense", BankRows("sold")[c]) = {m}
                              /\ Effect("Suspense", m) = h[c] /\ h[c] \in Int
  BY CountsOf
<1>1. /\ Amount[c] \in Nat \ {0} /\ credit[c].mark \in Marks /\ credit[c].matched \in Nat
      /\ MatchedPart(c) = credit[c].matched
      /\ credit[c].mark # "none" => credit[c].matched = 0
      /\ Counted(c) = IF credit[c].mark \in {"none", "income"} THEN Amount[c] - credit[c].matched ELSE 0
  BY CreditParts
<1>2. h[c] = IF c \in Booked /\ credit[c].mark = "none" THEN 0 - Counted(c) ELSE 0
  BY DEF Explaining
<1>3. CASE c \notin Booked
  BY <1>2, <1>3, NoBankPost DEF On
<1>4. CASE c \in Booked
  <2>0. PICK i, m, n, r : BankPost("sold", c, i, m, n, r)
    BY <1>4, BankPosts
  <2>1. /\ BankRows("sold")[c] = IF credit[c].mark \in {"banked", "bankedCash", "other"}
                                 THEN {i, r} ELSE {i, m, n}
        /\ i.debit = "KashBook" /\ i.credit \in {"Income", "Receipts"}
        /\ r.debit = "KashBook" /\ r.credit = MarkAccount(c)
        /\ m.debit = "KashBook" /\ m.credit = "Matching"
        /\ n.debit = "KashBook" /\ n.credit = "Suspense"
        /\ n.k = Amount[c] - IncomeOf("sold", c) - MatchedPart(c)
    BY <2>0 DEF BankPost
  <2>2. CASE credit[c].mark \in {"banked", "bankedCash", "other"}
    <3>1. r.credit # "Suspense"
      BY <2>1 DEF MarkAccount
    <3>2. On("Suspense", BankRows("sold")[c]) = {}
      BY <2>1, <2>2, <3>1 DEF On
    <3> QED
      BY <1>2, <2>2, <3>2
  <2>3. CASE credit[c].mark = "income"
    <3>1. IncomeOf("sold", c) = Amount[c] /\ MatchedPart(c) = 0
      BY <1>1, <2>3 DEF IncomeOf
    <3>2. n.k = 0
      BY <1>1, <2>1, <3>1
    <3>3. On("Suspense", BankRows("sold")[c]) = {}
      BY <2>1, <2>3, <3>2 DEF On
    <3> QED
      BY <1>2, <2>3, <3>3
  <2>4. CASE credit[c].mark = "none"
    <3>1. IncomeOf("sold", c) = 0
      BY <2>4 DEF IncomeOf
    <3>2. n.k = Counted(c) /\ Counted(c) \in Int
      BY <1>1, <2>1, <2>4, <3>1
    <3>3. h[c] = 0 - Counted(c)
      BY <1>2, <1>4, <2>4
    <3>4. Effect("Suspense", n) = h[c]
      BY <2>1, <3>2, <3>3 DEF Effect
    <3>5. On("Suspense", BankRows("sold")[c]) = IF Counted(c) = 0 THEN {} ELSE {n}
      BY <2>1, <2>4, <3>2 DEF On
    <3> QED
      BY <3>2, <3>3, <3>4, <3>5
  <2> QED
    BY <1>1, <2>2, <2>3, <2>4 DEF Marks
<1> QED
  BY <1>3, <1>4

\* "When sold", Suspense is overdrawn by exactly what nobody has explained.
LEMMA SuspenseClears ==
  ASSUME Standing
  PROVE  Balance({m \in Ledger("sold") : m.k # 0}, "Suspense") = 0 - Unexplained
<1> DEFINE b == [c \in Credits |-> 0 - Explaining[c]]
           s == [x \in Sales |-> 0]
           p == [x \in payments |-> 0]
           d == [x \in Deposits |-> 0]
           o == [x \in Debts \cup Invoices |-> 0]
           w == [x \in Invoices |-> 0]
           I == {c \in Booked : credit[c].mark = "none"}
           f == [c \in I |-> Counted(c)]
<1>0. "sold" \in Views
  BY DEF Views
<1>1. DOMAIN b = Credits /\ DOMAIN Explaining = Credits /\ DOMAIN f = I /\ I \subseteq Credits
  BY DEF Explaining, Booked
<1>2. Counts("Suspense", BankRows("sold"), b)
  BY SuspenseBank
<1>3. \A x \in Sales : \A m \in SaleRows[x] : "Suspense" \notin {m.debit, m.credit}
  BY SaleElsewhere DEF Held
<1>4. \A x \in payments : \A m \in PaymentRows("sold")[x] : "Suspense" \notin {m.debit, m.credit}
  <2> SUFFICES ASSUME NEW x \in payments, NEW m \in PaymentRows("sold")[x] PROVE "Suspense" \notin {m.debit, m.credit}
    OBVIOUS
  <2>1. m.debit = MoneyAccount(x) /\ m.credit = "Receivable"
    BY <1>0, MoveFields DEF PaymentRows, PaymentRow
  <2> QED
    BY <2>1, PaymentParts DEF MoneyAccount
<1>5. /\ DOMAIN s = Sales /\ Counts("Suspense", SaleRows, s) /\ SumFunction(s) = 0
      /\ DOMAIN p = payments /\ Counts("Suspense", PaymentRows("sold"), p) /\ SumFunction(p) = 0
      /\ DOMAIN d = Deposits /\ Counts("Suspense", DepositRows, d) /\ SumFunction(d) = 0
      /\ DOMAIN o = Debts \cup Invoices /\ Counts("Suspense", OwedRows("sold"), o) /\ SumFunction(o) = 0
      /\ DOMAIN w = Invoices /\ Counts("Suspense", OffRows("sold"), w) /\ SumFunction(w) = 0
  <2>1. /\ \A x \in Deposits : \A m \in DepositRows[x] : "Suspense" \notin {m.debit, m.credit}
        /\ \A x \in Debts \cup Invoices : \A m \in OwedRows("sold")[x] : "Suspense" \notin {m.debit, m.credit}
        /\ \A x \in Invoices : \A m \in OffRows("sold")[x] : "Suspense" \notin {m.debit, m.credit}
    BY <1>0, OthersNone
  <2>2. DOMAIN s = Sales /\ Counts("Suspense", SaleRows, s) /\ SumFunction(s) = 0
    BY <1>3, Few, CountsNone
  <2>3. DOMAIN p = payments /\ Counts("Suspense", PaymentRows("sold"), p) /\ SumFunction(p) = 0
    BY <1>4, Few, CountsNone
  <2>4. DOMAIN d = Deposits /\ Counts("Suspense", DepositRows, d) /\ SumFunction(d) = 0
    BY <2>1, Few, CountsNone
  <2>5. DOMAIN o = Debts \cup Invoices /\ Counts("Suspense", OwedRows("sold"), o) /\ SumFunction(o) = 0
    BY <2>1, Few, CountsNone
  <2>6. DOMAIN w = Invoices /\ Counts("Suspense", OffRows("sold"), w) /\ SumFunction(w) = 0
    BY <2>1, Few, CountsNone
  <2> QED
    BY <2>2, <2>3, <2>4, <2>5, <2>6
<1>6. \A c \in Credits : Explaining[c] \in Int /\ b[c] = 0 - Explaining[c]
  <2>1. \A c \in Credits : Counted(c) \in Int
    BY CreditParts
  <2> QED
    BY <2>1 DEF Explaining
<1>7. /\ \A c \in I : f[c] = Explaining[c]
      /\ \A c \in Credits \ I : Explaining[c] = 0
  BY <1>1 DEF Explaining
<1>8. Unexplained = SumFunction(f)
  BY DEF Unexplained, Sum
<1> HIDE DEF b, s, p, d, o, w, f, I
<1>9. SumFunction(b) = 0 - SumFunction(Explaining)
  BY <1>1, <1>6, Few, SumNegated
<1>10. SumFunction(Explaining) = SumFunction(f)
  BY <1>1, <1>6, <1>7, Few, SumSupport
<1>11. Balance({m \in Ledger("sold") : m.k # 0}, "Suspense") =
         SumFunction(b) + SumFunction(s) + SumFunction(p) + SumFunction(d) + SumFunction(o) + SumFunction(w)
  <2>1. Tally("Suspense", "sold", b, s, p, d, o, w)
    BY <1>1, <1>2, <1>5 DEF Tally
  <2> QED
    BY <1>0, <2>1, LedgerBalance DEF Standing
<1>12. SumFunction(Explaining) \in Int
  BY <1>1, <1>6, Few, SumInt
<1> QED
  BY <1>5, <1>8, <1>9, <1>10, <1>11, <1>12

-----------------------------------------------------------------------------
(* Receivable *)

\* What has been paid, owed and given up on, of each debt and invoice.
PaidOf == [x \in Debts \cup Invoices |-> paid[x]]
GivenUp == [x \in Debts \cup Invoices |-> IF x \in off /\ InBooks(x) THEN Due(x) ELSE 0]
StillDue == [x \in Debts \cup Invoices |-> IF InBooks(x) /\ x \notin off THEN Due(x) ELSE 0]
Posted == [x \in Debts \cup Invoices |-> IF InBooks(x) THEN Amount[x] ELSE 0]
Received == [p \in payments |-> p.amount]

\* What was posted of a debt or an invoice is still due, given up, or paid.
LEMMA OwedParts ==
  ASSUME Standing, NEW x \in Debts \cup Invoices
  PROVE  /\ Amount[x] \in Nat \ {0} /\ paid[x] \in Nat /\ paid[x] = PaidSum(x) /\ Due(x) \in Int
         /\ Due(x) = Amount[x] - paid[x]
         /\ ~InBooks(x) => paid[x] = 0
         /\ Posted[x] = StillDue[x] + (GivenUp[x] + PaidOf[x])
<1>1. Amount[x] \in Nat \ {0} /\ paid[x] \in Nat /\ paid[x] = PaidSum(x)
  BY Kinds, RowsNow DEF Money, Standing, IInv, PaidAgree
<1>2. Due(x) = Amount[x] - paid[x] /\ Due(x) \in Int
  BY <1>1 DEF Due
<1>3. ASSUME ~InBooks(x) PROVE paid[x] = 0
  <2>1. {p \in payments : p.of = x} = {}
    BY <1>3, PaymentParts
  <2> QED
    BY <1>1, <2>1, Totals, TotalNone
<1>4. /\ Posted[x] = IF InBooks(x) THEN Amount[x] ELSE 0
      /\ StillDue[x] = IF InBooks(x) /\ x \notin off THEN Due(x) ELSE 0
      /\ GivenUp[x] = IF x \in off /\ InBooks(x) THEN Due(x) ELSE 0
      /\ PaidOf[x] = paid[x]
  BY DEF Posted, StillDue, GivenUp, PaidOf
<1>5. Posted[x] = StillDue[x] + (GivenUp[x] + PaidOf[x])
  BY <1>1, <1>2, <1>3, <1>4
<1> QED
  BY <1>1, <1>2, <1>3, <1>5

\* What came in, payment by payment and record by record.
LEMMA ReceivedTwice ==
  ASSUME Standing
  PROVE  SumFunction(Received) = SumFunction(PaidOf)
<1> DEFINE k == [p \in payments |-> p.of]
<1>1. /\ DOMAIN Received = payments /\ DOMAIN PaidOf = Debts \cup Invoices
      /\ \A p \in payments : Received[p] \in Int /\ k[p] \in DOMAIN PaidOf
  BY PaymentParts DEF Received, PaidOf
<1>2. ASSUME NEW x \in Debts \cup Invoices
      PROVE  PaidOf[x] = SumFunction(Fibre(Received, k, x))
  <2>1. PaidOf[x] = SumFunction([p \in {q \in payments : q.of = x} |-> p.amount])
    BY OwedParts DEF PaidOf, PaidSum, Sum
  <2>2. {y \in DOMAIN Received : k[y] = x} = {q \in payments : q.of = x}
    BY <1>1
  <2>3. Fibre(Received, k, x) = [p \in {q \in payments : q.of = x} |-> p.amount]
    BY <2>2 DEF Received, Fibre
  <2> QED
    BY <2>1, <2>3
<1>3. \A x \in DOMAIN PaidOf : PaidOf[x] = SumFunction(Fibre(Received, k, x))
  BY <1>1, <1>2
<1> HIDE DEF k
<1> QED
  BY <1>1, <1>3, Few, SumFibres

\* A payment takes from Receivable what came in.
LEMMA ReceivablePayment ==
  ASSUME Standing, NEW view \in Views, view # "paid",
         NEW h, DOMAIN h = payments, \A p \in payments : h[p] = 0 - Received[p]
  PROVE  Counts("Receivable", PaymentRows(view), h)
<1> SUFFICES ASSUME NEW p \in payments
             PROVE  \E m : /\ On("Receivable", PaymentRows(view)[p]) = {m}
                           /\ Effect("Receivable", m) = h[p] /\ h[p] \in Int
  BY CountsOf
<1>1. PICK m : /\ PaymentRows(view)[p] = {m}
               /\ m.debit = MoneyAccount(p) /\ m.k = p.amount
               /\ m.credit = IF view = "paid" THEN "Sales" ELSE "Receivable"
  BY PaymentPosts
<1>2. p.amount \in Nat \ {0} /\ h[p] = 0 - p.amount
  BY PaymentParts DEF Received
<1>3. m.debit # "Receivable"
  BY <1>1, PaymentParts DEF MoneyAccount
<1>4. On("Receivable", PaymentRows(view)[p]) = {m} /\ Effect("Receivable", m) = 0 - p.amount
  BY <1>1, <1>2, <1>3 DEF On, Effect
<1> QED
  BY <1>2, <1>4

\* A debt or an invoice in the books adds its amount to Receivable.
LEMMA ReceivableOwed ==
  ASSUME Standing, NEW view \in Views, view # "paid"
  PROVE  Counts("Receivable", OwedRows(view), Posted)
<1> SUFFICES ASSUME NEW x \in Debts \cup Invoices
             PROVE  \/ On("Receivable", OwedRows(view)[x]) = {} /\ Posted[x] = 0
                    \/ \E m : /\ On("Receivable", OwedRows(view)[x]) = {m}
                              /\ Effect("Receivable", m) = Posted[x] /\ Posted[x] \in Int
  <2>1. DOMAIN Posted = Debts \cup Invoices
    BY DEF Posted
  <2> QED
    BY <2>1, CountsOf
<1>1. PICK m : /\ OwedRows(view)[x] = IF InBooks(x) THEN {m} ELSE {}
               /\ m.debit = "Receivable" /\ m.credit = "Sales" /\ m.k = Amount[x]
  <2>1. \E m : /\ OwedRows(view)[x] = IF view = "sold" /\ InBooks(x) THEN {m} ELSE {}
              /\ m.debit = "Receivable" /\ m.credit = "Sales" /\ m.k = Amount[x]
    BY OwedPosts
  <2>2. view = "sold"
    BY DEF Views
  <2> QED
    BY <2>1, <2>2
<1>2. Amount[x] \in Nat \ {0} /\ Posted[x] = IF InBooks(x) THEN Amount[x] ELSE 0
  BY OwedParts DEF Posted
<1>3. CASE InBooks(x)
  <2>1. On("Receivable", OwedRows(view)[x]) = {m} /\ Effect("Receivable", m) = Amount[x]
    BY <1>1, <1>2, <1>3 DEF On, Effect
  <2> QED
    BY <1>2, <1>3, <2>1
<1>4. CASE ~InBooks(x)
  BY <1>1, <1>2, <1>4 DEF On
<1> QED
  BY <1>3, <1>4

\* An invoice written off takes from Receivable what was still due.
LEMMA ReceivableOff ==
  ASSUME Standing, NEW view \in Views, view # "paid",
         NEW h, DOMAIN h = Invoices, \A i \in Invoices : h[i] = 0 - GivenUp[i]
  PROVE  Counts("Receivable", OffRows(view), h)
<1> SUFFICES ASSUME NEW i \in Invoices
             PROVE  \/ On("Receivable", OffRows(view)[i]) = {} /\ h[i] = 0
                    \/ \E m : /\ On("Receivable", OffRows(view)[i]) = {m}
                              /\ Effect("Receivable", m) = h[i] /\ h[i] \in Int
  BY CountsOf
<1>1. PICK m : /\ OffRows(view)[i] = IF i \in off /\ InBooks(i) THEN {m} ELSE {}
               /\ m.debit = "BadDebts" /\ m.credit = "Receivable" /\ m.k = Due(i)
  <2>1. \E m : /\ OffRows(view)[i] = IF view = "sold" /\ i \in off /\ InBooks(i) THEN {m} ELSE {}
              /\ m.debit = "BadDebts" /\ m.credit = "Receivable" /\ m.k = Due(i)
    BY OffPosts
  <2>2. view = "sold"
    BY DEF Views
  <2> QED
    BY <2>1, <2>2
<1>2. Due(i) \in Int /\ h[i] = IF i \in off /\ InBooks(i) THEN 0 - Due(i) ELSE 0
  <2>1. i \in Debts \cup Invoices
    OBVIOUS
  <2>2. Due(i) \in Int
    BY <2>1, OwedParts
  <2>3. GivenUp[i] = IF i \in off /\ InBooks(i) THEN Due(i) ELSE 0
    BY <2>1 DEF GivenUp
  <2> QED
    BY <2>2, <2>3
<1>3. CASE i \in off /\ InBooks(i)
  <2>1. On("Receivable", OffRows(view)[i]) = IF Due(i) = 0 THEN {} ELSE {m}
    BY <1>1, <1>3 DEF On
  <2>2. Effect("Receivable", m) = 0 - Due(i)
    BY <1>1 DEF Effect
  <2> QED
    BY <1>2, <1>3, <2>1, <2>2
<1>4. CASE ~(i \in off /\ InBooks(i))
  <2>1. On("Receivable", OffRows(view)[i]) = {}
    BY <1>1, <1>4 DEF On
  <2> QED
    BY <1>2, <1>4, <2>1
<1> QED
  BY <1>3, <1>4

\* What customers owe, in one sum.
LEMMA OwedOnce ==
  ASSUME Standing
  PROVE  OwedToYou = SumFunction(StillDue)
<1> DEFINE A == debts
           B == {i \in Invoices : invoice[i] = "open" /\ i \notin off}
           f == [x \in A |-> Due(x)]
           g == [x \in B |-> Due(x)]
           h == [x \in A \cup B |-> Due(x)]
<1>1. /\ A \subseteq Debts /\ off \subseteq Invoices /\ A \cap B = {} /\ A \cup B \subseteq Debts \cup Invoices
      /\ \A i \in Invoices : invoice[i] \in {"open", "void"}
  BY RowsNow, Kinds DEF Standing, IInv
<1>2. \A x \in Debts \cup Invoices : InBooks(x) /\ x \notin off <=> x \in A \cup B
  BY <1>1, Kinds DEF InBooks
<1>3. \A x \in Debts \cup Invoices : StillDue[x] = IF x \in A \cup B THEN Due(x) ELSE 0
  BY <1>2 DEF StillDue
<1>4. \A x \in Debts \cup Invoices : Due(x) \in Int
  BY OwedParts
<1>5. OwedToYou = SumFunction(f) + SumFunction(g)
  BY DEF OwedToYou, Sum
<1>6. /\ DOMAIN f = A /\ DOMAIN g = B /\ DOMAIN h = A \cup B /\ DOMAIN StillDue = Debts \cup Invoices
      /\ \A x \in A : f[x] = h[x]
      /\ \A x \in B : g[x] = h[x]
      /\ \A x \in A \cup B : h[x] = Due(x)
  BY DEF StillDue
<1> HIDE DEF A, B, f, g, h
<1>7. IsFiniteSet(A \cup B)
  BY <1>1, Few, FS_Subset
<1>8. SumFunction(h) = SumFunction(f) + SumFunction(g)
  BY <1>1, <1>4, <1>6, <1>7, SumParts
<1>9. SumFunction(StillDue) = SumFunction(h)
  BY <1>1, <1>3, <1>4, <1>6, Few, SumSupport
<1> QED
  BY <1>5, <1>8, <1>9

\* "When sold", Receivable holds what customers owe.
LEMMA ReceivableClears ==
  ASSUME Standing, NEW view \in Views, view # "paid"
  PROVE  Balance({m \in Ledger(view) : m.k # 0}, "Receivable") = OwedToYou
<1> DEFINE b == [x \in Credits |-> 0]
           s == [x \in Sales |-> 0]
           p == [x \in payments |-> 0 - Received[x]]
           d == [x \in Deposits |-> 0]
           w == [x \in Invoices |-> 0 - GivenUp[x]]
           u == [x \in Invoices |-> GivenUp[x]]
           v == [x \in Debts \cup Invoices |-> GivenUp[x] + PaidOf[x]]
<1>1. /\ DOMAIN p = payments /\ DOMAIN w = Invoices /\ DOMAIN u = Invoices /\ DOMAIN v = Debts \cup Invoices
      /\ DOMAIN Posted = Debts \cup Invoices /\ DOMAIN Received = payments
      /\ DOMAIN PaidOf = Debts \cup Invoices /\ DOMAIN GivenUp = Debts \cup Invoices
      /\ DOMAIN StillDue = Debts \cup Invoices
  BY DEF Posted, Received, PaidOf, GivenUp, StillDue
<1>2. /\ Counts("Receivable", PaymentRows(view), p) /\ Counts("Receivable", OwedRows(view), Posted)
      /\ Counts("Receivable", OffRows(view), w)
  BY ReceivablePayment, ReceivableOwed, ReceivableOff
<1>3. DOMAIN b = Credits /\ Counts("Receivable", BankRows(view), b) /\ SumFunction(b) = 0
  <2>1. \A x \in Credits : \A m \in BankRows(view)[x] : "Receivable" \notin {m.debit, m.credit}
    BY BankElsewhere
  <2> QED
    BY <2>1, Few, CountsNone
<1>4. DOMAIN s = Sales /\ Counts("Receivable", SaleRows, s) /\ SumFunction(s) = 0
  <2>1. \A x \in Sales : \A m \in SaleRows[x] : "Receivable" \notin {m.debit, m.credit}
    BY SaleElsewhere DEF Held
  <2> QED
    BY <2>1, Few, CountsNone
<1>5. DOMAIN d = Deposits /\ Counts("Receivable", DepositRows, d) /\ SumFunction(d) = 0
  <2>1. ASSUME NEW x \in Deposits, NEW m \in DepositRows[x] PROVE "Receivable" \notin {m.debit, m.credit}
    <3>1. m.debit \in {"OtherBank", "Undeposited"} /\ m.credit = "Cash"
      BY <2>1, MoveFields DEF DepositRows, DepositRow
    <3> QED
      BY <3>1
  <2> QED
    BY <2>1, Few, CountsNone
<1>6. /\ \A x \in Debts \cup Invoices :
           /\ StillDue[x] \in Int /\ GivenUp[x] \in Int /\ PaidOf[x] \in Int /\ v[x] \in Int
           /\ v[x] = GivenUp[x] + PaidOf[x] /\ Posted[x] = StillDue[x] + v[x]
      /\ \A x \in payments : Received[x] \in Int /\ p[x] = 0 - Received[x]
      /\ \A x \in Invoices : u[x] = GivenUp[x] /\ w[x] = 0 - u[x]
      /\ \A x \in (Debts \cup Invoices) \ Invoices : GivenUp[x] = 0
  <2>1. ASSUME NEW x \in Debts \cup Invoices
        PROVE  /\ StillDue[x] \in Int /\ GivenUp[x] \in Int /\ PaidOf[x] \in Int
               /\ Posted[x] = StillDue[x] + (GivenUp[x] + PaidOf[x])
    <3>1. /\ Due(x) \in Int /\ paid[x] \in Nat /\ Posted[x] = StillDue[x] + (GivenUp[x] + PaidOf[x])
      BY <2>1, OwedParts
    <3>2. StillDue[x] \in Int /\ GivenUp[x] \in Int /\ PaidOf[x] \in Int
      BY <2>1, <3>1 DEF StillDue, GivenUp, PaidOf
    <3> QED
      BY <3>1, <3>2
  <2>2. \A x \in payments : Received[x] \in Int
    BY PaymentParts DEF Received
  <2>3. \A x \in (Debts \cup Invoices) \ Invoices : GivenUp[x] = 0
    BY RowsNow DEF GivenUp, Standing, IInv
  <2> QED
    BY <2>1, <2>2, <2>3
<1> HIDE DEF b, s, p, d, w, u, v
<1>7. SumFunction(p) = 0 - SumFunction(Received)
  BY <1>1, <1>6, Few, SumNegated
<1>8. SumFunction(w) = 0 - SumFunction(u)
  BY <1>1, <1>6, Few, SumNegated
<1>9. SumFunction(GivenUp) = SumFunction(u)
  BY <1>1, <1>6, Few, SumSupport
<1>10. SumFunction(v) = SumFunction(GivenUp) + SumFunction(PaidOf)
  BY <1>1, <1>6, Few, SumPlus
<1>11. SumFunction(Posted) = SumFunction(StillDue) + SumFunction(v)
  BY <1>1, <1>6, Few, SumPlus
<1>12. Balance({m \in Ledger(view) : m.k # 0}, "Receivable") =
         SumFunction(b) + SumFunction(s) + SumFunction(p) + SumFunction(d) + SumFunction(Posted) + SumFunction(w)
  <2>1. Tally("Receivable", view, b, s, p, d, Posted, w)
    BY <1>1, <1>2, <1>3, <1>4, <1>5 DEF Tally
  <2> QED
    BY <2>1, LedgerBalance DEF Standing
<1>13. /\ SumFunction(Received) \in Int /\ SumFunction(GivenUp) \in Int /\ SumFunction(PaidOf) \in Int
       /\ SumFunction(StillDue) \in Int
  BY <1>1, <1>6, Few, SumInt
<1>14. SumFunction(Received) = SumFunction(PaidOf) /\ OwedToYou = SumFunction(StillDue)
  BY ReceivedTwice, OwedOnce
<1> QED
  BY <1>3, <1>4, <1>5, <1>7, <1>8, <1>9, <1>10, <1>11, <1>12, <1>13, <1>14

-----------------------------------------------------------------------------
\* The four clearing accounts hold what is left to explain.
LEMMA ClearFollows == IInv /\ Stands => AccountsClear
<1> SUFFICES ASSUME IInv, Stands, \A c \in Credits : credit[c].customer \in customers \cup {None},
                    NEW view \in Views
             PROVE  LET moves == {m \in Ledger(view) : m.k # 0} IN
                    /\ Balance(moves, "Matching") = Waiting
                    /\ Balance(moves, "Undeposited") = OnItsWay
                    /\ view = "sold" => /\ Balance(moves, "Receivable") = OwedToYou
                                        /\ Balance(moves, "Suspense") = 0 - Unexplained
  BY DEF AccountsClear
<1>1. Standing
  BY DEF Standing
<1>2. Balance({m \in Ledger(view) : m.k # 0}, "Matching") = Waiting
  BY <1>1, MatchingClears
<1>3. Balance({m \in Ledger(view) : m.k # 0}, "Undeposited") = OnItsWay
  BY <1>1, UndepositedClears
<1>4. ASSUME view = "sold"
      PROVE  /\ Balance({m \in Ledger(view) : m.k # 0}, "Receivable") = OwedToYou
             /\ Balance({m \in Ledger(view) : m.k # 0}, "Suspense") = 0 - Unexplained
  <2>1. Balance({m \in Ledger(view) : m.k # 0}, "Receivable") = OwedToYou
    <3>1. view # "paid"
      BY <1>4
    <3> QED
      BY <1>1, <3>1, ReceivableClears
  <2>2. Balance({m \in Ledger("sold") : m.k # 0}, "Suspense") = 0 - Unexplained
    BY <1>1, SuspenseClears
  <2> QED
    BY <1>4, <2>1, <2>2
<1> QED
  BY <1>2, <1>3, <1>4

\* In every reachable state and in both views the clearing accounts of the
\* ledger (utils/ledger.js) hold what is left to explain, and nothing else: Bank
\* Matching what sales still wait for, Undeposited Funds what is on its way to the
\* bank and, "when sold", Receivable what customers owe and Suspense the transfers
\* nobody has explained (the debts of a deleted customer apart).
THEOREM AccountsAlwaysClear == Spec => []AccountsClear
  BY StandsAlways, ClearFollows, PTL

=============================================================================

------------------------------- MODULE Ledger -------------------------------
(***************************************************************************)
(* The double-entry ledger that utils/ledger.js derives from the records of *)
(* CreditMatching, in both views: "paid" counts money when it comes in,     *)
(* "sold" counts sales when they are made.  Nothing is posted or stored:    *)
(* the ledger is a function of the state, a set of moves of an amount from  *)
(* a credited account to a debited one.  A transfer and the record it is    *)
(* matched to are posted apart and meet in the account Bank Matching.       *)
(***************************************************************************)
EXTENDS CreditMatching

CONSTANT Holds  \* where the money of a sale, or of a payment linked to no
                \* transfer, is: the account of its payment method

Held == {"Cash", "OtherBank", "Undeposited", "Matching"}
Views == {"paid", "sold"}

ASSUME LedgerAssumption ==
  /\ Holds \in [Sales \cup Debts \cup Invoices -> Held]
  /\ \A x \in Debts \cup Invoices : Holds[x] # "Matching"
       \* no route saves a payment as "bank" without its transfer
  /\ IsFiniteSet(Credits) /\ IsFiniteSet(Deposits) /\ IsFiniteSet(Sales) /\ IsFiniteSet(Invoices)

Move(of, day, debit, credited, k) ==
  [of |-> of, day |-> day, debit |-> debit, credit |-> credited, k |-> k]

----------------------------------------------------------------------------
\* What a transfer adds to income by itself in a view, and in which account.
IncomeOf(view, c) ==
  IF credit[c].mark = "income" \/ view = "paid" THEN Counted(c) ELSE 0
IncomeAccount(c) == IF credit[c].mark = "income" THEN "Income" ELSE "Receipts"

\* What the match left in Bank Matching.
MatchedPart(c) == IF Linked(c) THEN Amount[c] - Counted(c) ELSE 0

\* Where the rest of a transfer with a mark goes.  The deposit is asked first.
MarkAccount(c) ==
  IF \E d \in DepositOf(c) : deposit[d].status = "arrived" THEN "Undeposited"
  ELSE IF credit[c].mark \in {"banked", "bankedCash"} THEN "Cash" ELSE "Purpose"

BankRow(view, c) ==
  LET rest == Amount[c] - IncomeOf(view, c)
  IN  {Move(<<"bank", c>>, Day[c], "KashBook", IncomeAccount(c), IncomeOf(view, c))} \cup
      IF credit[c].mark \in {"banked", "bankedCash", "other"}
      THEN {Move(<<"bank", c>>, Day[c], "KashBook", MarkAccount(c), rest)}
      ELSE {Move(<<"bank", c>>, Day[c], "KashBook", "Matching", MatchedPart(c)),
            Move(<<"bank", c>>, Day[c], "KashBook", "Suspense", rest - MatchedPart(c))}

\* Mutant: a linked sale's money is all in Bank Matching.
LinkWhole(s) == IF sale[s].tx = None THEN 0 ELSE sale[s].amount

\* What the transfers matched to a sale left for it, never more than the sale.
LinkOf(s) ==
  Least(sale[s].amount, Sum(MatchedPart, {c \in Booked : credit[c].sale = s}))

\* The rest is where the sale says, and waits for no second transfer.
SaleRow(s) ==
  LET own == IF LinkOf(s) > 0 /\ Holds[s] = "Matching" THEN "Undeposited" ELSE Holds[s]
  IN  {Move(<<"sale", s>>, Day[s], "Matching", "Sales", LinkOf(s)),
       Move(<<"sale", s>>, Day[s], own, "Sales", sale[s].amount - LinkOf(s))}

InBooks(x) == x \in debts \/ (x \in Invoices /\ invoice[x] # "void")

\* The link beats the account the money was received into.
MoneyAccount(p) == IF p.tx # None THEN "Matching" ELSE Holds[p.of]

PaymentRow(view, p) ==
  {Move(<<"payment", p.id>>, p.day, MoneyAccount(p), IF view = "paid" THEN "Sales" ELSE "Receivable", p.amount)}

\* Credit given and invoices issued, "when sold"; what was given up on.
OwedRow(x) == {Move(<<"owed", x>>, Day[x], "Receivable", "Sales", Amount[x])}
WriteOffRow(i) == {Move(<<"off", i>>, LastDay, "BadDebts", "Receivable", Due(i))}

DepositRow(d) ==
  {Move(<<"deposit", d>>, deposit[d].day, IF deposit[d].status = "done" THEN "OtherBank" ELSE "Undeposited",
        "Cash", Amount[d])}

Ledger(view) ==
  UNION ({BankRow(view, c) : c \in Booked}
    \cup {SaleRow(s) : s \in {s \in Sales : sale[s].amount > 0}}
    \cup {PaymentRow(view, p) : p \in {p \in payments : InBooks(p.of)}}
    \cup {DepositRow(d) : d \in {d \in Deposits : deposit[d].status \notin {"none", "cancelled"}}}
    \cup IF view = "paid" THEN {}
         ELSE {OwedRow(x) : x \in {x \in Debts \cup Invoices : InBooks(x)}}
              \cup {WriteOffRow(i) : i \in {i \in off : InBooks(i)}})

\* sumByAccount, of one account: its debits less its credits.
Balance(moves, account) ==
  Sum(LAMBDA m : IF m.debit = account THEN m.k ELSE 0 - m.k,
      {m \in moves : account \in {m.debit, m.credit}})

\* receivables: what customers owe.
OwedToYou == Sum(Due, debts) + Sum(Due, {i \in Invoices : invoice[i] = "open" /\ i \notin off})

----------------------------------------------------------------------------
\* The clearing accounts clear (utils/ledger.js): whatever was matched,
\* linked, undone and marked in between, in both views Bank Matching holds only
\* the sales that still wait for a transfer, Undeposited Funds only the cash on
\* its way to the bank and what was received that way; and "when sold"
\* Receivable is what customers owe and Suspense what nobody has explained.  (A
\* transfer applied to the debts of a customer deleted since is left out, as in
\* OneRecordPerNaira.)
Waiting == Sum(LAMBDA s : sale[s].amount,
               {s \in Sales : sale[s].tx = None /\ Holds[s] = "Matching"})
Unbanked(s) == IF sale[s].tx = None THEN 0
               ELSE sale[s].amount - Least(sale[s].amount, Amount[sale[s].tx])
OnItsWay ==
  Sum(LAMBDA d : Amount[d], {d \in Deposits : deposit[d].status = "waiting"})
    + Sum(LAMBDA s : IF Holds[s] = "Undeposited" THEN (IF sale[s].tx = None THEN sale[s].amount ELSE Unbanked(s))
                     ELSE IF Holds[s] = "Matching" THEN Unbanked(s) ELSE 0, Sales)
    + Sum(LAMBDA p : p.amount, {p \in payments : p.tx = None /\ Holds[p.of] = "Undeposited"})
Unexplained == Sum(Counted, {c \in Booked : credit[c].mark = "none"})

AccountsClear ==
  (\A c \in Credits : credit[c].customer \in customers \cup {None}) =>
    \A view \in Views :
      LET moves == {m \in Ledger(view) : m.k # 0} IN
      /\ Balance(moves, "Matching") = Waiting
      /\ Balance(moves, "Undeposited") = OnItsWay
      /\ view = "sold" => /\ Balance(moves, "Receivable") = OwedToYou
                          /\ Balance(moves, "Suspense") = 0 - Unexplained

=============================================================================

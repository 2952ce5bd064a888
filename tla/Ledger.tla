-------------------------------- MODULE Ledger --------------------------------
(***************************************************************************)
(* The ledger of a company, rebuilt from its documents.                    *)
(*                                                                         *)
(* QuickBooks publishes documents and keeps the postings to itself.  Each  *)
(* document is turned into postings that balance, or is recorded as moving *)
(* no account, or is refused; one refusal makes the ledger incomplete, and *)
(* an incomplete one may not be used.  A complete one is put against       *)
(* QuickBooks' own trial balance.                                          *)
(*                                                                         *)
(* A posting is a pair of an account and an amount: a debit is positive.   *)
(***************************************************************************)
EXTENDS Integers, FiniteSetsExt, SequencesExt

CONSTANTS
  Unnamed,    \* a reference that a document does not make
  Unstated    \* an amount or a date that it does not state

-----------------------------------------------------------------------------
(* How the kinds post: on which account the total lands and on which side, *)
(* and what carries the other side.                                        *)

Rule(head, side, rest) == [head |-> head, side |-> side, rest |-> rest]

\* A credit note or a refund posts what it takes back, the other way round.
Flip(rule) == [rule EXCEPT !.side = -@]

InvoiceRule == Rule("receivable", 1, "lines_and_tax")
BillRule == Rule("payable", -1, "lines_and_tax")
SaleRule == Rule("cash", 1, "lines_and_tax")

Rules ==
  [ Invoice       |-> InvoiceRule,
    CreditMemo    |-> Flip(InvoiceRule),
    Bill          |-> BillRule,
    VendorCredit  |-> Flip(BillRule),
    Purchase      |-> Rule("cash", -1, "lines_and_tax"),
    SalesReceipt  |-> SaleRule,
    RefundReceipt |-> Flip(SaleRule),
    Deposit       |-> Rule("cash", 1, "lines"),
    Payment       |-> Rule("cash", 1, "receivable"),
    BillPayment   |-> Rule("cash", -1, "payable"),
    Transfer      |-> Rule("cash", 1, "from"),
    JournalEntry  |-> Rule("none", 1, "stated") ]

POSTING_TYPES == DOMAIN Rules

\* The accounts of one type in the chart, a function from account ids to accounts.
OfType(chart, type) == {a \in DOMAIN chart : chart[a].type = type}

Receivables(chart) == OfType(chart, "Accounts Receivable")
Payables(chart) == OfType(chart, "Accounts Payable")
Liabilities(chart) == OfType(chart, "Other Current Liability")

\* Fault: any account of the family will do.
AnyOne(accounts) == IF accounts = {} THEN Unnamed ELSE CHOOSE a \in accounts : TRUE

\* _single_control_account: the one account of a family, if there is just one.
Only(accounts) == IF Cardinality(accounts) = 1 THEN CHOOSE a \in accounts : TRUE ELSE Unnamed

\* A control account the document names, or else the only one of its family.
Control(d, family) == IF d.control # Unnamed THEN d.control ELSE Only(family)

\* The account that paid or was paid into.  A bill payment may name two, and then names none.
Cash(d) == Only(d.cash \ {Unnamed})

AccountOf(d, chart, role) ==
  CASE role = "receivable" -> Control(d, Receivables(chart))
    [] role = "payable"    -> Control(d, Payables(chart))
    [] role = "cash"       -> Cash(d)
    [] role = "from"       -> d.control

\* _tax_account: the reference of a tax line if the chart has an account of that id, though
\* it is the id of a rate; else the only liability that could bear tax.
TaxAccount(d, chart) ==
  IF d.taxRef \in DOMAIN chart THEN d.taxRef ELSE Only(Liabilities(chart))

-----------------------------------------------------------------------------
(* One document.                                                           *)

Refusal == [outcome |-> "refused", postings |-> <<>>]
PostsNothing == [outcome |-> "nothing", postings |-> <<>>]
Posts(p) == [outcome |-> "posted", postings |-> p]

\* money(None) is zero.
Money(x) == IF x = Unstated THEN 0 ELSE x

Taxed(d) == Rules[d.kind].rest = "lines_and_tax" /\ d.tax # 0

\* No line, no tax: a document abandoned, or one that arrived without its content.
Blank(d) == d.kind # "Transfer" /\ d.lines = <<>> /\ d.tax = 0

LinePostings(d, side) ==
  [i \in DOMAIN d.lines |-> <<d.lines[i].account, side * Money(d.lines[i].amount)>>]

TaxPosting(d, chart, side) == IF Taxed(d) THEN <<<<TaxAccount(d, chart), side * d.tax>>>> ELSE <<>>

\* The postings the rules give, with Unnamed where the document leaves an account open.
Candidate(d, chart) ==
  LET rule == Rules[d.kind]
      head == <<AccountOf(d, chart, rule.head), rule.side * Money(d.total)>>
  IN CASE rule.rest = "stated" -> LinePostings(d, 1)
       [] rule.rest \in {"lines", "lines_and_tax"} ->
            <<head>> \o LinePostings(d, -rule.side) \o TaxPosting(d, chart, -rule.side)
       [] OTHER ->
            <<head, <<AccountOf(d, chart, rule.rest), -rule.side * Money(d.total)>>>>

Figures(postings) == [i \in DOMAIN postings |-> postings[i][2]]

Net(postings) == SumFunction(Figures(postings))

\* What cannot be decided without inventing a fact.
Undecidable(d) ==
  \/ d.foreign
  \/ Rules[d.kind].rest \in {"stated", "lines_and_tax"} /\ d.lines = <<>>
  \/ d.kind = "Transfer" /\ (d.cash = {d.control} \/ Money(d.total) = 0)

\* Every posting names an account of the chart, and together they come to zero.
Sound(postings, chart) ==
  /\ \A i \in DOMAIN postings : postings[i][1] \in DOMAIN chart
  /\ Net(postings) = 0

\* _derive_one, and what derive_ledger demands of its answer.
Derived(d, chart) ==
  IF \E i \in DOMAIN d.lines : d.lines[i].amount = Unstated THEN Refusal
  ELSE IF Blank(d) /\ d.total = Unstated THEN Refusal
  ELSE IF Blank(d) /\ d.total = 0 THEN PostsNothing
  ELSE IF Undecidable(d) \/ ~Sound(Candidate(d, chart), chart) THEN Refusal
  ELSE Posts(Candidate(d, chart))

-----------------------------------------------------------------------------
(* All documents of a pull, and QuickBooks' own answer.                    *)

\* Net amount of some postings on one account.
On(account, postings) ==
  SumFunctionOnSet(Figures(postings), {i \in DOMAIN postings : postings[i][1] = account})

Touched(postings) == {postings[i][1] : i \in DOMAIN postings}

\* complete: nothing refused.  A pull has read every type, or has failed.
Complete(docs, chart) == \A d \in docs : Derived(d, chart).outcome # "refused"

\* The balances of the accounts that some document moved.
Balances(docs, chart) ==
  [a \in UNION {Touched(Derived(d, chart).postings) : d \in docs} |->
     SumFunction([d \in docs |-> On(a, Derived(d, chart).postings)])]

BalanceOf(balances, a) == IF a \in DOMAIN balances THEN balances[a] ELSE 0

\* compare_to_provider: equal to the cent, in both directions.
Agrees(balances, report) ==
  /\ \A a \in DOMAIN report : a \in DOMAIN balances /\ balances[a] = report[a]
  /\ \A a \in DOMAIN balances \ DOMAIN report : balances[a] = 0

-----------------------------------------------------------------------------
(* QuickBooks' side of it.                                                 *)

\* What the adapter hands over of a document: finitely many accounts and lines, amounts in
\* cents or none.
Legible(d) ==
  /\ {"kind", "cash", "control", "lines", "total", "tax", "taxRef"} \subseteq DOMAIN d
  /\ d.kind \in POSTING_TYPES
  /\ IsFiniteSet(d.cash)
  /\ Len(d.lines) \in Nat /\ DOMAIN d.lines = 1 .. Len(d.lines)
  /\ \A i \in DOMAIN d.lines : d.lines[i].amount \in Int \cup {Unstated}
  /\ d.total \in Int \cup {Unstated}
  /\ d.tax \in Int

\* A document d as it arrives shows the document f as QuickBooks holds it: it may leave
\* references and amounts out, and a bill payment may name an account too many.
Shows(d, f) ==
  /\ d.kind = f.kind
  /\ d.cash = {} \/ f.cash \subseteq d.cash
  /\ d.control \in {f.control, Unnamed}
  /\ DOMAIN d.lines = DOMAIN f.lines
  /\ \A i \in DOMAIN f.lines :
       /\ d.lines[i].account \in {f.lines[i].account, Unnamed}
       /\ d.lines[i].amount \in {f.lines[i].amount, Unstated}
  /\ d.total \in {f.total, Unstated}
  /\ d.tax = f.tax

\* As QuickBooks holds it, a document names the account of every side, and of its tax.
NamesSides(f, chart) ==
  LET roles == {Rules[f.kind].head, Rules[f.kind].rest} IN
  /\ "cash" \in roles => \E a \in DOMAIN chart : f.cash = {a}
  /\ "receivable" \in roles => f.control \in Receivables(chart)
  /\ "payable" \in roles => f.control \in Payables(chart)

Held(f, chart) == NamesSides(f, chart) /\ (Taxed(f) => f.taxRef \in Liabilities(chart))

\* What f posted in QuickBooks: the rules, applied to the accounts it really used.
Entry(f, chart) == Candidate(f, chart)

\* What f is taken for when it arrives as d: money() reads a total that is not stated as
\* zero, and _tax_account takes the id of a rate for an account if the chart has that id.
TakenFor(d, f, chart) ==
  [f EXCEPT !.total = IF d.total = Unstated THEN 0 ELSE @,
            !.taxRef = IF d.taxRef \in DOMAIN chart THEN d.taxRef ELSE @]
=============================================================================

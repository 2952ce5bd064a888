------------------------------ MODULE Detectors ------------------------------
(***************************************************************************)
(* The checks that read a client's books: what each reports of the         *)
(* documents of a pull, of the rebuilt ledger and of the bank statements.  *)
(*                                                                         *)
(* A finding is named by its defect and by what it is about: the provider  *)
(* id of a document, of a job or of an account, the line of a statement,   *)
(* or the company.  Some carry a proposal, which is what an operator may   *)
(* decide on.  Amounts and wording of findings are left out.               *)
(***************************************************************************)
EXTENDS Ledger

CONSTANTS
  STALE_DAYS,              \* 90: age of a receivable that needs evidence
  PAYMENT_TERM_DAYS,       \* 30: term of a bill that states no due date
  PRICE_HISTORY_MINIMUM,   \* 3: purchases before a price can be abnormal
  PRICE_SPIKE_MULTIPLE     \* 2

-----------------------------------------------------------------------------
\* One entry of the list of findings.  "cause" tells apart entries that share all the rest.
Finding(defect, kind, about, cause, evidence, proposal) ==
  [ defect |-> defect, kind |-> kind, about |-> about, cause |-> cause,
    evidence |-> evidence, proposal |-> proposal ]

\* A finding about a document, by the document's id; a reported fact, not a proposal.
Report(defect, d) == Finding(defect, d.kind, <<d.id>>, Unnamed, "sufficient", Unnamed)

\* _transaction_date: an undated document is left to each check.
Dated(d) == d.date # Unstated

Of(docs, kinds) == {d \in docs : d.kind \in kinds}

LinesOf(d) == {d.lines[i] : i \in DOMAIN d.lines}

-----------------------------------------------------------------------------
\* Check 06: a purchase that repeats an earlier one by date, number, vendor and amount.
Signature(d) == <<d.date, d.number, d.party, Money(d.total)>>

Repeated(docs) ==
  {d \in Of(docs, {"Purchase"}) :
     \E e \in Of(docs, {"Purchase"}) : e.id < d.id /\ Signature(e) = Signature(d)}

\* _proposal: an id is a digest of the finding's key and of the action, and of nothing else.
Duplicates(docs) ==
  {[Report("duplicate_transaction", d) EXCEPT !.proposal = <<"duplicate_transaction", d.id>>]
     : d \in Repeated(docs)}

\* Check 05: a line on one of QuickBooks' own holding accounts.
Uncategorized(docs, chart) ==
  {Report("uncategorized_expense", d) : d \in {x \in docs : \E line \in LinesOf(x) :
     line.account \in DOMAIN chart /\ chart[line.account].name = "uncategorized"}}

\* Check 03.  A payment's open balance is what of it is not applied.
Unapplied(docs) ==
  {Report("unapplied_payment", d) : d \in {x \in Of(docs, {"Payment"}) : x.balance > 0}}

\* Check 01: a balance over STALE_DAYS old, or one whose age cannot be told.
StaleReceivables(docs, today) ==
  {[Report("stale_receivable", d) EXCEPT !.evidence = "missing"]
     : d \in {x \in Of(docs, {"Invoice"}) :
         x.balance > 0 /\ (Dated(x) => today - x.date > STALE_DAYS)}}

\* Check 13.  A bill without a due date falls due PAYMENT_TERM_DAYS after its own.
DueDate(d) == IF d.due # Unstated THEN d.due
              ELSE IF Dated(d) THEN d.date + PAYMENT_TERM_DAYS ELSE Unstated

StalePayables(docs, today) ==
  {Report("stale_payable", d) : d \in {x \in Of(docs, {"Bill"}) :
     x.balance > 0 /\ DueDate(x) # Unstated /\ today > DueDate(x)}}

-----------------------------------------------------------------------------
(* Check 12: unit prices.                                                  *)

Price(o) == o[1].lines[o[2]].price

\* The lines at a price of one vendor's item, each with its document.
Priced(docs, vendor, item) ==
  {o \in UNION {{d} \X DOMAIN d.lines : d \in Of(docs, {"Purchase", "Bill"})} :
     o[1].party = vendor /\ o[1].lines[o[2]].item = item /\ Price(o) # Unstated}

\* By date, then in the order of the pull: purchases before bills.
SoonerPriced(o, p) ==
  LET key(x) == << IF Dated(x[1]) THEN x[1].date ELSE -1,
                   IF x[1].kind = "Purchase" THEN 0 ELSE 1, x[1].id, x[2] >>
  IN \E i \in 1 .. 4 : key(o)[i] < key(p)[i] /\ \A j \in 1 .. i - 1 : key(o)[j] = key(p)[j]

\* Twice the median, which is whole.
TwiceMedian(prices) ==
  LET sorted == SortSeq(prices, <)
      middle == Len(sorted) \div 2
  IN IF Len(sorted) % 2 = 1 THEN 2 * sorted[middle + 1] ELSE sorted[middle] + sorted[middle + 1]

\* The latest price is over PRICE_SPIKE_MULTIPLE times the median of those before it.
Spike(docs, vendor, item) ==
  LET observed == SetToSortSeq(Priced(docs, vendor, item), SoonerPriced)
      twice == TwiceMedian([i \in 1 .. Len(observed) - 1 |-> Price(observed[i])])
  IN IF Len(observed) <= PRICE_HISTORY_MINIMUM THEN {}
     ELSE {d \in {observed[Len(observed)][1]} :
             twice > 0 /\ 2 * Price(observed[Len(observed)]) > twice * PRICE_SPIKE_MULTIPLE}

Vendors(docs) == {d.party : d \in docs} \ {Unnamed}
Items(docs) == UNION {{line.item : line \in LinesOf(d)} : d \in docs} \ {Unnamed}

\* One finding for a vendor and an item; it calls a bill a purchase.
AbnormalPrices(docs) ==
  UNION {{Finding("abnormal_price", "Purchase", <<d.id>>, vi, "sufficient", Unnamed)
            : d \in Spike(docs, vi[1], vi[2])} : vi \in Vendors(docs) \X Items(docs)}

-----------------------------------------------------------------------------
(* Checks 09 and 16: jobs.                                                 *)

\* What the lines of these documents put on a job.
OnJob(docs, job) ==
  MapThenSumSet(LAMBDA d : MapThenSumSet(LAMBDA i : IF d.lines[i].job = job THEN Money(d.lines[i].amount) ELSE 0,
                                         DOMAIN d.lines), docs)

JobsOf(docs) == UNION {{line.job : line \in LinesOf(d)} : d \in docs} \ {Unnamed}

Revenue(docs) == Of(docs, {"Invoice"})
Cost(docs) == Of(docs, {"Purchase", "Bill"})

\* A job with both sides, and more cost than revenue; it may be gone from the customers.
NegativeMargins(docs, customers) ==
  {Finding("negative_job_margin", "Customer", <<job>>, Unnamed,
           IF job \in customers THEN "sufficient" ELSE "missing", Unnamed)
     : job \in {j \in JobsOf(Revenue(docs)) \cap JobsOf(Cost(docs)) :
         OnJob(Revenue(docs), j) < OnJob(Cost(docs), j)}}

\* Jobs exist, both sides are active, and one side alone names jobs.
JobConfiguration(docs, jobs) ==
  IF /\ jobs # {}
     /\ Of(docs, {"Invoice", "CreditMemo", "SalesReceipt", "RefundReceipt"}) # {}
     /\ Of(docs, {"Purchase", "Bill", "VendorCredit"}) # {}
     /\ (JobsOf(Revenue(docs)) \cap jobs = {}) # (JobsOf(Cost(docs)) \cap jobs = {})
  THEN {Finding("project_profitability_configuration", "Company", <<>>, Unnamed, "sufficient", Unnamed)}
  ELSE {}

-----------------------------------------------------------------------------
(* The checks on a trusted ledger, with its balances.                      *)

\* The account's CurrentBalance, if the chart states one, is below zero.
ProviderAgreesItIsNegative(account) == account.current # Unstated /\ account.current < 0

\* Check 15.
Suspicious(account, balance) ==
  \/ account.name \in {"opening balance equity", "undeposited funds"} /\ balance # 0
  \/ /\ account.type \in {"Bank", "Accounts Receivable", "Other Current Asset", "Fixed Asset", "Other Asset"}
     /\ balance < 0 /\ ProviderAgreesItIsNegative(account)

SuspiciousAccounts(chart, balances) ==
  {Finding("suspicious_balance_sheet", "Account", <<a>>, Unnamed, "sufficient", Unnamed)
     : a \in {x \in DOMAIN chart : Suspicious(chart[x], BalanceOf(balances, x))}}

\* Check 04, for one statement after the other.
Unreconciled(statements, balances) ==
  {Finding("unreconciled_account", "Account", <<s.account>>, s.id, "sufficient", Unnamed)
     : s \in {x \in statements : x.closing # BalanceOf(balances, x.account)}}

\* Check E2: the lines that the matcher has found no movement for.  It does not try when a
\* document that moved the account has no date.
Undated(docs, chart, account) ==
  \E d \in docs : ~Dated(d) /\ account \in Touched(Derived(d, chart).postings)

UnmatchedLines(statements, docs, chart) ==
  {Finding("missing_transaction", "BankStatementLine", sl, Unnamed, "insufficient", Unnamed)
     : sl \in UNION {{<<s.id, n>> : n \in s.unmatched}
                       : s \in {x \in statements : ~Undated(docs, chart, x.account)}}}

-----------------------------------------------------------------------------
\* What analyze finds in a live pull: no source document or confirmation is on hand.
Findings(docs, chart, customers, jobs, statements, trusted, today) ==
  Duplicates(docs) \cup Uncategorized(docs, chart) \cup Unapplied(docs)
  \cup StaleReceivables(docs, today) \cup AbnormalPrices(docs)
  \cup NegativeMargins(docs, customers) \cup JobConfiguration(docs, jobs)
  \cup StalePayables(docs, today)
  \cup (IF ~trusted THEN {}
        ELSE LET balances == Balances(docs, chart) IN
             SuspiciousAccounts(chart, balances) \cup Unreconciled(statements, balances)
             \cup UnmatchedLines(statements, docs, chart))
=============================================================================

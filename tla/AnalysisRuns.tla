----------------------------- MODULE AnalysisRuns -----------------------------
(***************************************************************************)
(* The analysis of a client's books: a scan reads the trial balance, then  *)
(* pulls every document page by page, and stores in one transaction what   *)
(* the checks found, while the client's bookkeeper goes on working.        *)
(*                                                                         *)
(* Proposals outlive their scan: they are decided on, released into the    *)
(* company, and met again by the next scan.  After a release the run's       *)
(* reconciliation is made anew from a fresh pull.                          *)
(***************************************************************************)
EXTENDS Detectors

CONSTANTS
  Documents,     \* what the books may come to hold: documents, by number
  Chart,         \* the chart of accounts
  Customers,     \* the customers of the pull,
  Jobs,          \*   and those of them that are jobs
  Statements,    \* bank statements of the period
  Correction,    \* the number of the journal entry each proposal posts, once an operator
                 \*   has completed it
  TODAY,         \* the business date
  PAGE_SIZE,     \* documents in a page
  MaxRuns,       \* bound: runs stored
  MaxChanges,    \* bound: documents recorded and deleted by the bookkeeper
  ReportFails    \* whether the trial balance may be unobtainable

ASSUME AnalysisAssumption ==
  /\ PAGE_SIZE \in Nat \ {0} /\ MaxRuns \in Nat /\ MaxChanges \in Nat
  /\ ReportFails \in BOOLEAN
  /\ IsFiniteSet(DOMAIN Chart) /\ Unnamed \notin DOMAIN Chart
  /\ IsFiniteSet(Statements) /\ \A s \in Statements : s.id \in Int
  /\ \A n \in DOMAIN Documents :
       /\ Legible(Documents[n]) /\ Legible(Documents[n].full)
       /\ Shows(Documents[n], Documents[n].full) /\ Held(Documents[n].full, Chart)

VARIABLES
  company,      \* what became of each document in QuickBooks
  changes,    \* how often the bookkeeper has changed the books
  mapped,     \* the statements mapped to a ledger account
  scan,       \* the pull under way
  runs,       \* the stored runs
  proposals   \* the bookkeeping_proposals rows, by id

analysisVars == <<company, changes, mapped, scan, runs, proposals>>

-----------------------------------------------------------------------------
NotSupplied == [supplied |-> FALSE]

Supplied(balances) == [supplied |-> TRUE, balances |-> balances]

Docs(numbers) == {Documents[n] : n \in numbers}

There == {n \in DOMAIN Documents : company[n] = "there"}

\* QuickBooks' own balance of an account, from the entries of these documents.
TrueBalance(docs, a) == SumFunction([d \in docs |-> On(a, Entry(d.full, Chart))])

\* The TrialBalance report: the accounts that have a balance.
TrialBalance(docs) ==
  [a \in {x \in DOMAIN Chart : TrueBalance(docs, x) # 0} |-> TrueBalance(docs, a)]

\* The kinds a pull reads, in its order, as far as the books may hold them.
READ_OBJECTS ==
  << "Invoice", "Payment", "Bill", "Purchase", "Deposit", "JournalEntry", "BillPayment",
     "CreditMemo", "VendorCredit", "Transfer", "SalesReceipt", "RefundReceipt" >>

Kinds == {Documents[n].kind : n \in DOMAIN Documents}

FirstOf(kinds) ==
  READ_OBJECTS[CHOOSE i \in DOMAIN READ_OBJECTS :
    READ_OBJECTS[i] \in kinds /\ \A j \in 1 .. i - 1 : READ_OBJECTS[j] \notin kinds]

AtRest == [pc |-> "rest"]

\* A pull for a new run (0), or to refresh the reconciliation of a stored one.
Pull(run, report, statements) ==
  [ pc |-> "pulling", run |-> run, report |-> report, statements |-> statements,
    todo |-> Kinds, start |-> 1, pulled |-> {} ]

AnalysisInit ==
  /\ company = [n \in DOMAIN Documents |-> "unborn"]
  /\ changes = 0
  /\ mapped = {}
  /\ scan = AtRest
  /\ runs = <<>>
  /\ proposals = <<>>

-----------------------------------------------------------------------------
(* The bookkeeper, and the operator's statements.                          *)

Corrections == {Correction[p] : p \in DOMAIN Correction}

\* Ids of one kind ascend.
Record(n) ==
  /\ changes < MaxChanges /\ company[n] = "unborn" /\ n \notin Corrections
  /\ \A m \in DOMAIN Documents :
       Documents[m].kind = Documents[n].kind /\ company[m] # "unborn"
         => Documents[m].id < Documents[n].id
  /\ company' = [company EXCEPT ![n] = "there"]
  /\ changes' = changes + 1
  /\ UNCHANGED <<mapped, scan, runs, proposals>>

Delete(n) ==
  /\ changes < MaxChanges /\ company[n] = "there"
  /\ company' = [company EXCEPT ![n] = "deleted"]
  /\ changes' = changes + 1
  /\ UNCHANGED <<mapped, scan, runs, proposals>>

\* map_account, which may be withdrawn.
MapStatement(s) ==
  /\ mapped' = IF s \in mapped THEN mapped \ {s} ELSE mapped \cup {s}
  /\ UNCHANGED <<company, changes, scan, runs, proposals>>

-----------------------------------------------------------------------------
(* Scanning.                                                               *)

\* start_bookkeeping_scan asks for the trial balance first.
StartScan ==
  /\ scan = AtRest /\ Len(runs) < MaxRuns
  /\ \E report \in {Supplied(TrialBalance(Docs(There)))} \cup (IF ReportFails THEN {NotSupplied} ELSE {}) :
       scan' = Pull(0, report, mapped)
  /\ UNCHANGED <<company, changes, mapped, runs, proposals>>

\* One page of QBOAdapter.query.
ReadPage ==
  /\ scan.pc = "pulling" /\ scan.todo # {}
  /\ LET kind == FirstOf(scan.todo)
         rows == {n \in There : Documents[n].kind = kind}
         before(n) == Cardinality({m \in rows : Documents[m].id < Documents[n].id})
         page == {n \in rows : before(n) + 1 \in scan.start .. scan.start + PAGE_SIZE - 1}
     IN scan' = IF Cardinality(page) < PAGE_SIZE
                THEN [scan EXCEPT !.pulled = @ \cup page, !.todo = @ \ {kind}, !.start = 1]
                ELSE [scan EXCEPT !.pulled = @ \cup page, !.start = @ + PAGE_SIZE]
  /\ UNCHANGED <<company, changes, mapped, runs, proposals>>

\* QuickBooks does not return an entity, or the process dies: nothing is computed.
ScanFails ==
  /\ scan.pc = "pulling" /\ scan.todo # {}
  /\ scan' = AtRest
  /\ UNCHANGED <<company, changes, mapped, runs, proposals>>

\* Fault: a complete ledger is trusted whatever QuickBooks reported.
CompleteLedger(docs, report) == Complete(docs, Chart)

\* trusted_ledger: complete, and equal to the trial balance if that is supplied.
TrustedLedger(docs, report) ==
  /\ Complete(docs, Chart)
  /\ report.supplied => Agrees(Balances(docs, Chart), report.balances)

Found(docs, report, statements) ==
  Findings(docs, Chart, Customers, Jobs, statements, TrustedLedger(docs, report), TODAY)

\* The account "*" of a row that has no source.
Nowhere == 0

\* The last of the statements for an account and period.
Latest(s, k, statements) ==
  /\ <<s.account, s.period>> = k
  /\ \A y \in statements : <<y.account, y.period>> = k => y.id <= s.id

\* reconcile: one row for an account and period, of the last statement for it.
Reconcile(docs, report, statements) ==
  IF statements = {} \/ ~TrustedLedger(docs, report)
  THEN [k \in {<<Nowhere, TODAY>>} |-> [ledger |-> 0, status |-> "no_source"]]
  ELSE [k \in {<<s.account, s.period>> : s \in statements} |->
         LET s == CHOOSE x \in statements : Latest(x, k, statements)
             ledger == BalanceOf(Balances(docs, Chart), s.account)
         IN [ledger |-> ledger, status |-> IF ledger = s.closing THEN "reconciled" ELSE "exception"]]

ProposalsOf(found) == {f.proposal : f \in found} \ {Unnamed}

\* Fault: a proposal that is found again is inserted again.
StorableAgain(found) ==
  /\ \A f, g \in found : f.defect = g.defect /\ f.about = g.about => f = g
  /\ \A f \in found : f.evidence \in {"sufficient", "missing", "uncertain"}

\* What the tables accept: one finding for a defect and an id, the evidence statuses of the
\* findings table, and proposal ids that no run has used.
Storable(found) ==
  /\ \A f, g \in found : f.defect = g.defect /\ f.about = g.about => f = g
  /\ \A f \in found : f.evidence \in {"sufficient", "missing", "uncertain"}
  /\ ProposalsOf(found) \cap DOMAIN proposals = {}

\* persist_analysis, in one transaction.
Persist ==
  /\ scan.pc = "pulling" /\ scan.run = 0 /\ scan.todo = {}
  /\ LET found == Found(Docs(scan.pulled), scan.report, scan.statements) IN
     /\ Storable(found)
     /\ runs' = Append(runs,
          [ report |-> scan.report, statements |-> scan.statements, findings |-> found,
            reconciliation |-> Reconcile(Docs(scan.pulled), scan.report, scan.statements) ])
     /\ proposals' = [p \in ProposalsOf(found) \cup DOMAIN proposals |->
                       IF p \in ProposalsOf(found) THEN "detected" ELSE proposals[p]]
  /\ scan' = AtRest
  /\ UNCHANGED <<company, changes, mapped>>

\* A table refuses a row, and the transaction is rolled back with all of them.
LoseScan ==
  /\ scan.pc = "pulling" /\ scan.run = 0 /\ scan.todo = {}
  /\ ~Storable(Found(Docs(scan.pulled), scan.report, scan.statements))
  /\ scan' = AtRest
  /\ UNCHANGED <<company, changes, mapped, runs, proposals>>

-----------------------------------------------------------------------------
(* Proposals, and the reconciliation that follows a release.               *)

\* The decisions, as far as a scan is concerned.
Decide(p, verdict) ==
  /\ proposals[p] = "detected"
  /\ proposals' = [proposals EXCEPT ![p] = verdict]
  /\ UNCHANGED <<company, changes, mapped, scan, runs>>

RunOf(p) == CHOOSE r \in DOMAIN runs : \E f \in runs[r].findings : f.proposal = p

\* bookkeeping_execute: the correction is in the company, and the run's reconciliation is
\* made anew, with the evidence that the run stored.
Release(p) ==
  /\ scan = AtRest /\ proposals[p] = "approved"
  /\ proposals' = [proposals EXCEPT ![p] = "verified"]
  /\ company' = [company EXCEPT ![Correction[p]] = "there"]
  /\ scan' = Pull(RunOf(p), runs[RunOf(p)].report, runs[RunOf(p)].statements)
  /\ UNCHANGED <<changes, mapped, runs>>

Replacing(old, rows) ==
  [k \in DOMAIN rows \cup DOMAIN old |-> IF k \in DOMAIN rows THEN rows[k] ELSE old[k]]

\* refresh_reconciliation: rows of the same account and period are replaced.
Refresh ==
  /\ scan.pc = "pulling" /\ scan.run # 0 /\ scan.todo = {}
  /\ runs' = [runs EXCEPT ![scan.run].reconciliation =
                Replacing(@, Reconcile(Docs(scan.pulled), scan.report, scan.statements))]
  /\ scan' = AtRest
  /\ UNCHANGED <<company, changes, mapped, proposals>>

AnalysisNext ==
  \/ \E n \in DOMAIN Documents : Record(n) \/ Delete(n)
  \/ \E s \in Statements : MapStatement(s)
  \/ StartScan \/ ReadPage \/ ScanFails \/ Persist \/ LoseScan
  \/ \E p \in DOMAIN proposals : Release(p) \/ \E v \in {"approved", "rejected"} : Decide(p, v)
  \/ Refresh

AnalysisSpec == AnalysisInit /\ [][AnalysisNext]_analysisVars
-----------------------------------------------------------------------------
AnalysisTypeOK ==
  /\ company \in [DOMAIN Documents -> {"unborn", "there", "deleted"}]
  /\ changes \in 0 .. MaxChanges
  /\ mapped \subseteq Statements
  /\ \/ scan = AtRest
     \/ /\ scan.pc = "pulling" /\ scan.run \in 0 .. Len(runs)
        /\ scan.todo \subseteq Kinds /\ scan.pulled \subseteq DOMAIN Documents
        /\ scan.statements \subseteq Statements
  /\ Len(runs) <= MaxRuns
  /\ \A p \in DOMAIN proposals : proposals[p] \in {"detected", "approved", "rejected", "verified"}

\* Whatever accounts a document leaves out, what the rebuilt ledger posts of it is what the
\* posting rules give for the accounts QuickBooks used: nothing is filled in but a total that
\* is not stated, as zero, and a tax account, where a rate has the id of some account.
PostedAsQuickBooksDid ==
  \A d \in Docs(There) :
    Derived(d, Chart).outcome = "posted" =>
      Derived(d, Chart).postings = Entry(TakenFor(d, d.full, Chart), Chart)

\* A reconciliation on record is of the last statement that its run holds for the account and
\* period, and is reconciled just if the balance it states is that statement's closing; the
\* balance is the one QuickBooks itself reported, if it did, though documents came and went
\* between the report and the last page, and though the run was reconciled again after a
\* release.
ReconciledWithQuickBooks ==
  \A r \in DOMAIN runs : \A k \in DOMAIN runs[r].reconciliation :
    LET row == runs[r].reconciliation[k] IN
    row.status # "no_source" =>
      /\ runs[r].report.supplied => row.ledger = BalanceOf(runs[r].report.balances, k[1])
      /\ \E s \in runs[r].statements :
           Latest(s, k, runs[r].statements) /\ (row.status = "reconciled" <=> row.ledger = s.closing)

\* A scan never takes back or repeats what an operator has decided: proposals of earlier
\* runs stay, and what was approved, rejected or verified is not open again.
DecisionsOutliveScans ==
  [][\A p \in DOMAIN proposals :
       /\ p \in DOMAIN proposals'
       /\ proposals[p] # "detected" => proposals'[p] # "detected"]_analysisVars

-----------------------------------------------------------------------------
\* What the repository says of the analysis and the code does not do.

\* "A line nothing accounts for is reported but never proposed" (work_engine.py 203): when a
\* pull has ended with a trusted ledger, its unmatched lines are among the findings of a run.
UnmatchedLinesAreReported ==
  [][Persist \/ LoseScan =>
       \A f \in Found(Docs(scan.pulled), scan.report, scan.statements) :
         f.defect = "missing_transaction" =>
           \E r \in DOMAIN runs' : f \in runs'[r].findings]_analysisVars

\* "The engine then ... re-runs **reconciliation** to prove the fix landed" (README.md
\* 20-21): after the pull that follows a release, no account is on record with a balance it
\* no longer has, if nobody changed the books meanwhile.
ReconciledAnew ==
  [][(Refresh /\ scan.pulled = There) =>
       \A k \in DOMAIN runs'[scan.run].reconciliation :
         runs'[scan.run].reconciliation[k].status # "no_source" =>
           runs'[scan.run].reconciliation[k].ledger = TrueBalance(Docs(There), k[1])]_analysisVars
=============================================================================

# Shimline, specified

TLA+ models of the Shimline bookkeeping engine, the TLC runs that check them on small
instances, and TLAPS proofs of the properties that matter most. The reference is the code
under `src/backend`; every definition of a model is tied to the lines it stands for in
`PROJECT.json` ("map").

Shimline reads a client's QuickBooks company, proposes corrections to the books, lets people
review them, and writes the approved ones back. It is a FastAPI program over one SQLite file:
a request runs on a server thread with a connection of its own, a `SELECT` is a read of its
own, and the first DML after a commit opens the one transaction that the next `commit()`
ends. Two requests therefore interleave between a read and the commit that acts on it, a
second writer waits five seconds for the first and then fails, and nothing is locked while
the program talks to QuickBooks. Those interleavings, and what the network and a restart add
to them, are the subject of this directory.

## The system

| Component | State it keeps | Operations | What makes it correct |
|---|---|---|---|
| Proposal review (`work_engine.py` 1440-1610, `admin.py` 1230-1330) | `bookkeeping_proposals` (status, version, proposed_json), `bookkeeping_approvals` | `record_decision` (approve, edit, reject, escalate), `record_batch_decision`, `approver_of` | a version names one payload; nobody approves what they wrote; a batch is all or nothing |
| Proposal release (`work_engine.py` 905-1000 and 1611-1700, `qbo_adapter.py` 120-339) | `bookkeeping_executions`, the provider's records, requests in flight | `execute_saved`, `execute`, `_request`, `mutate`, `_matches` | only approved payloads are written, once, over the value that was reviewed, and "verified" means written |
| Bookkeeping analysis (`work_engine.py`, `postings.py`, `qbo_adapter.py`, `admin.py` 990-1060, 1340-1420) | runs, findings, proposals, reconciliations, canonical documents | scan: report, paged pull, rebuild, detectors, one storing transaction; refresh after a release | a posting stands on the accounts QuickBooks used; a balance on record is one QuickBooks stated, against the last statement for the account; a scan leaves decisions alone |
| Working papers (`work_engine.py`) | one paper per run and section | `persistent_working_papers` | they show the executions that were made |
| QuickBooks connection (`quickbooks.py`) | `oauth_states`, `connections` | start, callback, refresh, keepalive, revoke, disconnect | the last rotated token is the one on record; a dead grant does not stay active |
| Report pulls and exports (`qbo_reports.py`, `qbo_exports.py`, `qbo_grammar.py`) | `sync_runs`, `source_snapshots` | pull, read, export, parse | a run's status counts what it stored; nothing outlives its promise |
| Paid intake (`app.py` 376-1000, `admin.py` 1700-1745) | `payments`, `submissions`, the upload folders | create order, verify, webhook, upload, open and close the engagement | a captured order is known as paid and buys one upload; no documents outside the rows |
| Retention purge (`app.py` 437-655) | submissions and folders, snapshots, bookkeeping runs, the chart | daily purge | what is past its window goes, and no row goes before its files |
| Client accounts and portal (`clients.py`, `portal.py`, `jobs.py`, `emailing.py`) | access links, client sessions, queued mails | issue, redeem, sign out, run jobs | a client who was mailed a link can enter |
| Operator accounts (`auth.py`, `totp.py`) | users, sessions, challenges, TOTP secret, recovery codes | sign in, enrol, confirm, regenerate, disable | no active factor that its operator cannot answer |
| Tenancy (`tenancy.py`, `firm_admin.py`) | firms, memberships | create, assign, scope | a row is seen by its firm |
| CRM (`crm.py`) | organizations, aliases, opportunities, imports | intake, preview, resolve, apply, rename, pipeline form | a name that stood for a company still does; nobody is unsuppressed by a list |
| Statement matching (`matching.py`) | none: one report per call | score the admissible pairs, walk them strongest first | each line is matched once; a toss-up goes to a person, and only a toss-up does |
| GST/HST returns (`gst_return.py`, `sales_tax.py`, `tax_rates.py`, `filing_periods.py`) | filing arrangements, tax rates and overrides, stored returns | lay out periods, classify, decide, synchronize, prepare | every day is on one return; a decided rate stays decided |
| Portfolio, priority, readiness, first contact, reporting, diffing, exports, statement import | none, or a dedup store | read-only scores and renderings | they follow the rows |

How they meet. Release and review share the proposal row and the approvals: a release reads
both, then spends seconds at the provider while reviews go on, then writes the row's status.
A scan meets the proposals of earlier scans, decided or not, and a release asks for its run to
be reconciled again. Release, analysis and report pulls share one QuickBooks connection and may
refresh its token at once. Intake, webhook and purge share the payments and the upload folder;
pulls, scans and purge share the database's one writer. Jobs and the portal share the access
links. Intakes, imports and renames share the names of companies.

What is hard. (1) Every decision is a read followed by a commit that trusts it. (2) A batch is
several commits. (3) A write to QuickBooks can be applied and reported failed, applied late or
twice sent; its protections are the requestid, the SyncToken and the read-back. (4) The
process can die at any step; only rows and the provider remember. (5) The client's bookkeeper
edits the same records. (6) Uploaded documents live in two stores: rows are transactional,
folders are not. `PROJECT.json` lists each such hazard at the line where it bites, and
the property that watches it or why there is none.

## What is modelled

### `ReviewDecisions` — the review

| Model | Code |
|---|---|
| `status`, `version`, `proposed` | the columns of `bookkeeping_proposals` |
| `approvals` | the rows of `bookkeeping_approvals`, unique per proposal, version and decision |
| `request[t]` | the decision request thread `t` serves: who, what, the fingerprints the form carried, what is left to check and to decide, and what `record_decision` has read |
| `drafts` | history: every payload a proposal has had, under its version, with its author |
| `OpenBatch`, `OpenVerdict`, `OpenEdit` | a reviewer submits a form of the page; the form may be stale by the time it is served |
| `CheckFingerprint`, `RefuseBatch` | `record_batch_decision`, one read per proposal |
| `ReadProposal`, `RefuseDecision` | `record_decision` up to its first write: status, version, editor and transition table |
| `CommitDecision` | its transaction; `AfterDecision` goes on with the batch |
| `LoseDecision` | the unique constraint, or the database locked past `busy_timeout` |

A payload stands for `proposed_json` and for the fingerprint of its difference from
`current_json`, which a decision never changes. Notes and audit rows are left out. The order
in which a batch takes its proposals is left open.

### `ProposalRelease` — the release, the provider and the review beside it

| Model | Code |
|---|---|
| `executions[p]` | the row of `bookkeeping_executions`, at most one per proposal |
| `worker[w]` | the release thread `w` serves, with what it read: row, prior execution, token, attempts |
| `ReadRow`, `ReadPrior`, `ReplayOrRefuse` | the reads and early returns of `execute_saved` |
| `StartExecution`, `RefuseRelease` | approver, separation of duties, and the commit that records the start |
| `PostAnswered`, `PostUnanswered` | one HTTP attempt of `_request`: `Setback` is its retry, `execute`'s next attempt, or the end |
| `RecoverStale`, `AbandonStale` | `StaleObjectError`: re-read, compare the reviewed fields, take the fresh token or give up |
| `VerifyMatches`, `VerifyFails` | the read-back |
| `RecordFailure`, `RecordVerified`, `LoseOutcome` | the last transaction, or none |
| `Crash` | the process dies: requests and releases are gone, rows and provider stay |
| `book`, `writes`, `wire`, `ProviderHandles`, `LateArrival` | QuickBooks, as the code relies on it: a known requestid is answered from its stored result, a sparse update applies under the present SyncToken only; a request may arrive after its client gave up |
| `BookkeeperEdits` | the client's own edit in QuickBooks |

A record is one value: the fields the proposal touches, as one. The single-operator exception
is `SingleOperator`; its environment half is always true where a write can happen, for writes
are sandbox-only. `writes` is both the provider's memory of requestids and the history the
properties speak of.

### `ApprovedWrites` — what the two promise

Drafts under ascending versions, an approval by another than the author, one write per
approved draft by another than its approver. No request, no retry, no crash.
`ProposalRelease!KeepsThePromise` is its refinement: `approved` is the set of approve rows,
`ledger` the set of applied writes.

### `PaidIntake` — payments, uploads and the purge

| Model | Code |
|---|---|
| `payment[o]` | the row of `payments`: status, `upload_token_hash`, whether `paid_at` is within the token's hours, `token_used_at`, `submission_id` |
| `captured` | the orders whose money the provider has; what its signature and its events attest |
| `minted`, `held` | upload tokens, numbered; those a browser received |
| `CreateOrder`, `VerifyPayment`, `MarkPaid` | the order and verify routes and `_mark_paid`, one transaction each |
| `ReceiveEvent`, `MarkFromEvent`, `LoseEvent` | the webhook: the read of the status, the marking on another connection, or a locked database and an answer that makes the provider repeat |
| `StartIntake`, `MakeFolder`, `AbortSaving`, `Claim`, `RefuseClaim`, `DiscardFolder` | the upload route: early token check, `mkdir` and saving, its failure, the transaction with `_claim_upload_token` (`Opens`), its refusal, and the removal of the refused folder |
| `submission[s]`, `folders` | the row, with which clock runs and whether it has run out (`_due_at`), and the folder of one upload |
| `CloseEngagement`, `ReopenEngagement`, `RetentionEnds` | the status form, which restarts or clears the clock, and time |
| `StartPurge`, `Sweep`, `CommitPurge`, `FailPurge` | `purge_expired`: candidates read at once, folder and row one by one, the commit, or a rollback that brings back rows and no folders |
| `Crash` | the server process dies; the purge is another process |
| `uploads` | history: which order paid for which committed upload |

Dates are reduced to the two questions the code asks of them. The purge holds the write lock
from its first deletion (`Unlocked`). Between two awaits the server's one event loop runs a
webhook or an upload without the other; the model lets them interleave at every step, as two
server processes would, which only adds behaviours. CRM rows, accounts and mails of the
same transactions belong to other components, and the snapshots and bookkeeping runs the purge
also deletes are `DataRetention`'s.

### `StatementMatching` — bank lines and ledger movements

| Model | Code |
|---|---|
| `statement`, `ledger` | the `BankLine`s and `LedgerEntry`s: signed amount and date |
| `words` | the number of words `name_evidence` finds, for every line and movement |
| `ordinal`, `EntryBefore` | the order of the statement, and that of `cash_movements` |
| `Pairs`, `Better`, `Level` | the admissible pairs of `match` and the comparison of their `_score`s |
| `left`, `Head`, `Before` | the sorted list of pairs still to walk |
| `Settled`, `RivalsForLine`, `RivalsForEntry` | the sets and filters of one turn of the loop |
| `PassOver`, `Refuse`, `Accept` | the three ends of a turn |
| `matched`, `ambiguous` | the report; the unmatched lines and movements are what is in neither |
| `MatchAgain` | a second call of `match` on the same books, the statement in any order |

The matcher is pure; its steps are the turns of its loop, so that what is said of it holds
in the middle of the walk too, which is where a greedy walk goes wrong. Any number of shared words per pair is
allowed: more matrices than names can produce, and none fewer.

### `Ledger`, `Detectors`, `AnalysisRuns` — scans of a client's books

| Model | Code |
|---|---|
| `Rules`, `Candidate`, `Derived` | `derive_postings` and its helpers: how each kind of document posts, what it posts nothing for, and what it refuses |
| `Complete`, `Balances`, `Agrees` | `trusted_ledger`: every document posted or known to move nothing, and QuickBooks' own balances met |
| `Shows`, `Entry` | external: what QuickBooks posts for a document, and what the document that arrives may leave out of it |
| `Findings` and the operators it unites | the checks of `work_engine.py` 300-900 that run on a live pull |
| `company`, `Record`, `Delete` | QuickBooks, as pulls see it: each page is read from what is there at that moment, by offset |
| `StartScan`, `ReadPage`, `ScanFails` | `start_bookkeeping_scan` and `query`: the trial balance first, then one page at a time |
| `Persist`, `LoseScan` | `persist_analysis`, one transaction: run, findings, proposals, reconciliation; or a row the schema refuses, and nothing |
| `Decide`, `Release`, `Refresh` | the decision of a proposal, its journal entry in the books, and `refresh_reconciliation` over a fresh pull |
| `MapStatement` | the mapping of a bank statement to an account |

A document that arrives (`d`) is told apart from the one QuickBooks holds (`d.full`), as the
Accounting API leaves references out and the code fills them in where only one account can be
meant. Amounts and references are kept, since postings are made of them. Proposals are named
as the code names them, by defect and provider id. A finding's amounts and wording are not.
Left out are documents without an `Id`, changes of the chart and gaps of the pull manifest in the middle
of a pull, and checks that need source documents or confirmations, which no live scan supplies;
a pull reads every type or fails.

### `QboConnection` — authorizations and the rotating token

| Model | Code |
|---|---|
| `connection[r]` | the company's row of `connections`: client, refresh token, status, and whether the keepalive would find it idle |
| `state`, `approval` | the row of `oauth_states`, and what the customer approved at Intuit: company and code |
| `issued`, `live` | external: the tokens Intuit has issued and those it still accepts; using one spends it and issues the next |
| `task[w]` | what request, scan or timer `w` is doing, with the row it has read |
| `ReadState`, `SpendState` | `consume_state`, two statements |
| `NeedAccess`, `StartKeepalive`, `KeepAlive`, `SkipKeepalive` | who refreshes: a request with a stale token or a 401, or the timer with its list |
| `PostAnswered`, `PostRejected`, `PostUnanswered` | `_post_token` and its attempts; an attempt may be applied and its answer lost |
| `StoreTokens`, `ClearGrant`, `FlagError` | the last transaction of a callback or a refresh, by the row's id, whatever became of the row |
| `StartRevoke`, `TellIntuit`, `DropConnection`, `CustomerDisconnects`, `DisconnectHint` | revocation from both sides |
| `Dies` | a dying process, or a lock or a constraint that refuses the write |
| `excused` | history: tokens revoked at Intuit, and those whose successor was lost with its holder |

### `ClientAccess` — links, mails and client sessions

| Model | Code |
|---|---|
| `link[l]` | a row of `client_access_tokens`; `issue_access_link` (`IssueLink`) deletes the older unused ones |
| `mail[m]` | a sending: by the job queue with its retries, inline without a queue, or for an operator's page |
| `DeliverMail`, `DeliverFails`, `SenderDies` | SMTP takes the mail; fails before or after it has; the process dies with the job |
| `LookUp`, `Enter` | `redeem_access_link`, two statements, and the session |
| `inbox`, `signedIn` | what the client has received; the browsers with a session |

### `OperatorAccounts` — sign-in and the second factor

| Model | Code |
|---|---|
| `secret`, `confirmed`, `batch`, `unused` | `totp_secret_enc`, `totp_confirmed_at` and the `recovery_codes` of the user |
| `tab[t]` | what a browser of the operator is doing: signing in, challenged, enrolling, regenerating, disabling |
| `GivePassword`, `MistypePassword`, `WindowPasses` | the password and the failures of the window |
| `Answer`, `Misanswer`, `SpendAnswer` | a challenge answered, its attempts, and the code or recovery code that is spent |
| `CheckNotEnabled`, `BeginEnrolment`, `ShowSecret`, `VerifyPending`, `ConfirmEnrolment` | enrolment: each check in one statement, each write in a later transaction, by the user's id |
| `CheckEnabled`, `RegenerateCodes`, `AskToDisable`, `Disable` | the same for new codes and for disabling |
| `app`, `received`, `lost` | what the operator has: secrets in the authenticator, pages of codes that arrived or did not |
| `overtaken` | history: the stored secret was stored while another browser was between its check of a code and its commit |

### `CrmRecords` — what a company's name stands for

| Model | Code |
|---|---|
| `companies`, `aliases` | `organizations` with their opportunity; `organization_aliases` |
| `Find`, `Similar`, `WithAlias` | `find_organization`, `similar_organization`, `record_alias` |
| `imports[l]`, `Preview`, `ResolveSame`, `ResolveNew` | `import_batches` and `import_rows`: preview, and an operator's answers |
| `ReadPreview`, `Apply` | `apply_lead_import`: what it reads before it takes the write lock, and the transaction that resolves every name anew |
| `Intake`, `Rename`, `UpdateOpportunity` | `ensure_intake_engagement`, `rename_organization`, the pipeline form |

Names are normalized already. Contacts, activities and the relationship stage are left out.
Only tests call `rename_organization`. `ResolveSame` and `ResolveNew` are one step each, though
the code reads the row it resolves before it writes it; no property depends on what comes between.

### `GstReturns` and `FilingPeriods`

| Model | Code |
|---|---|
| `held`, `stored`, `StoreScan` | the documents QuickBooks has, and the rows each stored scan left: every scan leaves rows of its own |
| `rate`, `override`, `SyncRates`, `DecideRate` | `tax_rates.persist` (which only tests call) and `decide`; `Classify` is `classify` |
| `Unaccountable`, `TaxOf`, `PostedTo`, `Blocked`, `Return` | `sales_tax.period` and `gst_return.prepare`: sides, reversals, lines 101, 105 and 108, and what blocks filing |
| `OpenReturn` | the page, which prepares the return anew and stores it |
| `PeriodsBetween`, `PeriodFor`, `LastClosed`, `Due` | `filing_periods`, on real calendar dates |
| `today`, `arrangement` | the days on which somebody asks, and the recorded arrangement, which may be recorded again |

In `GstReturns` all documents fall in one period; the dates are `FilingPeriods`' part.

### `DataRetention` — pulls, scans and what the purge owes

| Model | Code |
|---|---|
| `engagement[e]`, `Close`, `Reopen` | status, `created_at` and `closed_at`, as the status form writes them |
| `pull[p]` | a `sync_runs` row with its snapshots: `StartPull` is committed, the reports and the outcome are one transaction, held open across the fetches |
| `PersistRun`, `runs`, `chart` | a scan's run, and the accounts stored with it |
| `ReadDueReports`, `DeleteReports`, `DeleteRuns`, `LosePurge` | the two passes of `purge_expired` over snapshots and bookkeeping runs, `_due_at` in both, and a purge that is rolled back |
| `writer` | SQLite's one writer: a pull from its first stored report, the purge from its first deletion |
| `shut`, `owed` | history: the promise, by what happened instead of by the columns |

### How they are composed

`ReviewDecisions` and `ProposalRelease` share variables: `ProposalRelease` extends the review
and adds the release. `Detectors` extends `Ledger`, and `AnalysisRuns` extends both. The
other modules share no variable. `MCOffice` puts `ReviewDecisions`, `PaidIntake`,
`QboConnection`, `ClientAccess`, `OperatorAccounts`, `CrmRecords` and `DataRetention` on one
instance, so that the review is explored further there than beside a release; `MCBooks` puts
`AnalysisRuns`, `StatementMatching`, `FilingPeriods` and `GstReturns`, and `MCProgress` the
parts with liveness. In each, `focus` names the part that moves in a behaviour and
the others rest. No step of a part reads or writes a variable of another, and every invariant
and action property is about one part, so that their product would show nothing that the
parts side by side do not. The status of an engagement is the one thing two of these
parts keep, each for itself: the intake for its documents, retention for the pulls.

## What is checked

| Run | Instance | Shows |
|---|---|---|
| `ReleaseCreate` | 1 create, 2 users in every role, 2 review threads, 2 release threads, crashes | types; `EveryWriteApproved`, `OneWritePerApproval`, `VerifiedWasWritten` |
| `ReleaseShared` | 2 updates of one record, a sole operator, 2 release threads, a bookkeeper, crashes, lock timeouts | `NoLostUpdate`, and `EveryWriteApproved` where `SingleOperator` holds |
| `Office` | review, intake, connection, access, accounts, records and retention side by side, with every fault | types; `OneDraftPerVersion`, `EditorNeverApproves`, `DraftsAreNeverRewritten`, `OneUploadPerPayment`, `PurgedFilesAreGone`, `ActiveMeansUsable`, `MailedClientsCanEnter`, `ActiveSecretIsHeld`, `GoneWhenPromised`, `KnownNamesStayKnown`, `OnlyTheOperatorLifts` |
| `Books` | analysis, matching, filing periods and returns side by side | types; `PostedAsQuickBooksDid`, `ReconciledWithQuickBooks`, `DecisionsOutliveScans`, `OneToOne`, `NeverATossUp`, `RefusedForCause`, `EveryDayIsFiledOnce`, `DecidedRatesStay` |
| `Progress` | releases, intake and connection side by side, each with its fairness, no faults | `KeepsThePromise`, `ReleasesEnd`, `StartedExecutionsSettle`, `CapturedBecomesPaid`, `DueIsPurged`, `DeadGrantsSurface` |
| `VerifiedUnapproved` | 1 create, 2 review threads, 1 release thread | a counterexample to `VerifiedMeansApprovedPayload` |
| `SecondCreate` | the same with one attempt | a counterexample to `OneWritePerProposal` |
| `ScanLost` | one scan of a statement with an unmatched line | a counterexample to `UnmatchedLinesAreReported` |
| `StaleReconciliation` | one scan, one released correction | a counterexample to `ReconciledAnew` |
| `WrongReturn` | a taxed sale, a taxed purchase, a sale without stated tax, revenue booked by hand, 2 scans | a counterexample to `ReturnStatesRevenue` |
| `FebruaryYearEnd` | year ends on 28 February, over a leap year | a counterexample to `EveryDayIsFiledOnce` |
| `LockedOut` | one operator, 2 browsers, 2 secrets, 1 batch of one code | a counterexample to `NeverLockedOut` |

The bounds of review and release. Two threads suffice for every race of a read with a commit,
as each request holds one read at a time. Three versions, in `Office`, are two edits on
top of what was analysed, in turn or racing for one version; the release runs need two, for
what a release has read and what was edited since. Two proposals matter where they share a
record (`ReleaseShared`, whose batches hold both). Two users are one to edit and one to
approve, and the least for which the separation of duties can be met or broken; one user is the
sole operator. Two payloads are the drafted one and another (the record's first value, in
`ProposalRelease`). Two attempts are a first and a repeat; the code's four and three repeat the
second. `MaxToken = 1` is one edit by the bookkeeper, before, between or after the two writes.
Reject and escalate only take a proposal out of review, escalate from "approved" as well:
`ReleaseShared` has both, `Office` escalate, the other runs neither.

The bounds of `Office`, besides the review's: one proposal, two reviewers, two threads, two
payloads, three versions, lock timeouts.

- Intake: two orders can be confused and two uploads can hold one token; three tokens are one
  for each order and one minted again, after which the model confirms nothing more
  (`MaxTokens`). A submission id stands for one request.
- Connection: one company, as companies share nothing but the timer's list; one client, as the
  row's organization decides nothing else, two authorizations, the timer and one other worker, so
  that a refresh of each meets the other's, a callback and a disconnect. Three grants (`MaxGrants`) are an
  authorization, a rotation, and a rotation that races the second authorization. Two attempts are
  a first and a retry.
- Access: two mails with one retry each, three links (`MaxLinks`), two browsers: every
  order of two overlapping sendings of which one is repeated.
- Accounts: two browsers, two secrets, two batches of one code, one failure in the window before
  the password is refused, two attempts to a challenge: two enrolments at once, and an enrolment
  beside a disabling.
- Records: three names of which two are alike, two lists that meet in a name and of which one has
  a row that cannot be stored, two stages, two companies, one import at a time being applied.
- Retention: one engagement, as what is due is decided for each by itself; two pulls of two
  reports, three days, `CloseDays = 1`, `UnclosedDays = 2`: an engagement can be closed on one day, reopened
  and closed on the next, and become due by either clock.

The bounds of `Books`. Two equal purchases, an invoice whose rate has an id of its own and one
whose rate shares its id with an account, a bill, a payment without its total and a reversal that
corrects the duplicate; pages of one document, so that every deletion can shift the page after it; two runs;
two changes by the bookkeeper, which post the duplicate pair or record a document and delete
it, and one statement that may be mapped. Three lines and two movements
are the least where a line settled first bears on two others; one amount suffices, as
another only makes pairs inadmissible, which dates outside the window do as well. Sixteen months
of days, over a leap year and two turns of the year, under every frequency and year ends on the last of a
long, a short and a leap month and on a day that is not a month's last (`UsualFilers`). They
exclude 28 February, which is the finding of `FebruaryYearEnd`. Two rates under three labels that classify
differently, four documents, one scan.

Threads, orders, uploads, authorizations, mails, browsers, pulls and statement lines are
interchangeable and reduced by symmetry in the runs that check no liveness; as one part
moves, one permutation serves all of them. Deadlock is not checked: a system where all
proposals have been decided and all versions used, all uploads made and purged, or all days
passed, stops, and should.

Fairness of the release is weak fairness of `Work(w)` alone: a server thread runs the release
it has taken, and every HTTP call ends, by its timeout at the latest. Users, bookkeeper and
network owe nothing. `ReleasesEnd` and `StartedExecutionsSettle` are checked without crashes and
lock timeouts, after either of which an execution may stay "started" until somebody releases it
again.

Fairness of the intake is the provider's and the timer's: an event is repeated until it is
answered, a webhook call that has begun runs to its end, and the purge runs daily and goes on
to its commit. Customers, operators and the clock owe nothing, and neither does an upload.
Failing disks are left out of `Progress`: a folder that can never be removed stops every
purge at that folder, visibly, as the code intends.

Fairness of the connection is the keepalive's: its timer goes off, and its task goes on. An
unused connection becomes idle as days pass. Requests owe nothing, and Intuit may leave any
attempt unanswered. This fairness is assumed of the behaviours in which the connection moves
(`focus`), since in the others the timer's part rests; the other two parts have no fair action
enabled before they move.

### Where the code and its documents part

- **"Verified" may name a payload nobody approved** (`VerifiedUnapproved`). An edit saved while
  its predecessor is at the provider is marked verified by `execute_saved`'s update by id.
- **One proposal may be created twice** (`SecondCreate`). A create applied with its answer
  lost, then edited and approved again, is released under another requestid.
- **An unmatched statement line loses the scan** (`ScanLost`). Its finding carries an evidence
  status that the table's `CHECK` refuses, and the scan's one transaction is rolled back.
- **A reconciliation after a release is the old one** (`StaleReconciliation`).
  `refresh_reconciliation` takes the trial balance from the run's stored evidence, which is from
  before the write; the fresh pull is not trusted against it.
- **A return may be filable and state other revenue than the books** (`WrongReturn`). Only the
  lines of journal entries are stored with a side, so invoiced revenue counts as nothing, and
  every rescan adds its rows to those of the scans before it.
- **A year that ends on 28 February loses days** (`FebruaryYearEnd`). In common years the 28th is
  carried as a month end, in leap years it is not, and periods laid out from either do not
  meet: in the months before a leap year's end, the return on offer and the period under way
  leave days between them.
- **An operator can be locked out by a secret nobody proved** (`LockedOut`). One browser's
  code is checked against the first secret, another browser stores a second, and the first then
  confirms what the row has. No page shows a secret that is active, and an operator who signs
  out without the recovery codes, or with none left, does not get in again. `ActiveSecretIsHeld`
  is what holds of the same steps: this order is the only one in which an active secret is not
  in the authenticator.

More follow from the models and are described without a run of their own:

- A batch of decisions is several commits; a refusal at the second leaves the first
  (`admin.py` 1310). A batch also approves an edit that came after its fingerprint check.
- The upload's folder is made before its row; a crash in between leaves a folder that the
  purge, which walks the rows, never sees.
- A line already refused is no rival any more (`matching.py` 226), so of two level pairs the
  one that comes first in the statement settles what becomes of the other.
- A refresh that Intuit refuses clears the row by its id: also when another refresh has
  meanwhile rotated the token, so that a live grant is dropped (it is never left active with a
  dead one, which is what `ActiveMeansUsable` says).
- Two gaps of a document are filled in (`TakenFor`), though "this module never guesses"
  (`postings.py` 20). `_tax_account` reads the id of a rate as an account's if the chart has that
  id, and the document then balances on an account QuickBooks did not use. A payment without a
  total is posted with zero on both sides (`money(None)`); of a kind with lines only a document
  that comes to zero anyhow balances so. A trial balance, where one is supplied, disagrees with
  either; nothing else does.
- Each retry of a mail revokes the link of the attempt before it, which may have arrived,
  before its own is sent; in between the client holds no link that works.
- An engagement reopened between the purge's reading and its deletion loses its data though its
  clock was cleared.

## What is proved

For every number of proposals, users, threads, records, orders, uploads, statement lines,
companies, lists, mails, browsers, documents, pulls and days, any payloads, charts and
calendars, any limits:

| Module | About | Theorems |
|---|---|---|
| `ReviewProofs` | `ReviewDecisions` | `ReviewTypeCorrect`, `OneDraftPerVersionHolds`, `EditorNeverApprovesHolds`, `DraftsAreNeverRewrittenHolds` |
| `ReleaseProofs` | `ProposalRelease`, and `ApprovedWrites` which it implements | `ReleaseInvariant`, `TypeCorrect`, `EveryWriteApprovedHolds`, `OneWritePerApprovalHolds`, `NoLostUpdateHolds`, `VerifiedWasWrittenHolds`; `ReleaseKeepsThePromise` |
| `IntakeProofs` | `PaidIntake` | `IntakeInvariant`, `IntakeTypeCorrect`, `OneUploadPerPaymentHolds`, `PurgedFilesAreGoneHolds` |
| `ConnectionProofs` | `QboConnection` | `ConnectionTypeCorrect`, `ActiveConnectionsUsable` |
| `EntryProofs` | `ClientAccess`, `OperatorAccounts` | `AccessTypeCorrect`, `MailedClientsEnter`, `AccountsTypeCorrect`, `ActiveSecretIsHeldHolds` |
| `OfficeProofs` | `DataRetention`, `CrmRecords`, `MCOffice` | `RetentionTypeCorrect`, `PurgedAsPromised`; `CrmTypeCorrect`, `KnownNamesStayKnownHolds`, `OnlyTheOperatorLiftsHolds`; `OfficeKeepsItsParts`, `OfficeTypeCorrect`, `OfficeIsSafe` |
| `LedgerProofs` | `Ledger`, `AnalysisRuns` | `PostedAsQuickBooksDidHolds`, `LedgerBalances`, `CompleteIsQuickBooks`; `AnalysisInvariant`, `AnalysisTypeCorrect`, `ReconciledWithQuickBooksHolds`, `ScansKeepDecisions` |
| `BooksProofs` | `StatementMatching`, `GstReturns`, `FilingPeriods`, `MCBooks` | `MatchInvariant`, `MatchTypeCorrect`, `OneToOneHolds`, `NeverATossUpHolds`, `RefusedForCauseHolds`; `ReturnsTypeCorrect`, `DecidedRatesAreKept`; `FilingTypeCorrect`, `ThreePeriodsAgree`, `EveryDayIsFiledOnceHolds`; `BooksKeepTheirParts`, `BooksTypeCorrect`, `BooksAreSafe` |

Every invariant and every action property of the passing runs has a theorem, those of `Office`
and `Books` both for the part and for the composition the run explores.

The assumptions are the named ones of the modules, and TLC evaluates each on every run of its module:

- limits are numbers, reviewers and releasers are users, every proposal has a draft and a
  reviewed value, the timer is one of the workers, and `None`, `Nil` and `NoGrant` are nobody,
  no row and no grant;
- `CrmAssumption`: a list is finitely many rows under names;
- `AnalysisAssumption`: a chart is finite, documents have numbers for amounts, refer to accounts
  of the chart when they come in full, and arrive as what QuickBooks holds or less (`Shows`);
- `ReturnsAssumption`: lines and rates are finitely many numbers;
- `FilingAssumption`: the first and the last day are days of the calendar.

Two theorems have a hypothesis of their own. `EveryDayIsFiledOnceHolds` needs
`NoFebruaryYearEnd`: without it the claim is false, as the run `FebruaryYearEnd` shows.
`CompleteIsQuickBooks` needs of each document that it arrives with its total, and that its tax
rate does not have the id of an account: these are the two gaps the code fills in by itself
(`TakenFor`), and with either the balances may be others. What is external — the provider's
requestid and SyncToken, Intuit's rotation, QuickBooks' postings and reports — is part of the model and so of
every theorem about it.

**Review.** `OneDraftPerVersion` is not inductive: nothing in it says that the version an edit
is about to write is new. `ReviewInv` adds that no draft is ahead of its row's version, that
the row's own draft exists, and that every version after the first has an edit on record; so an
edit that would write a version twice collides with the unique constraint on its approval row.
`EditorNeverApproves` needs in addition that a draft's author is on record as its editor and
that an approval in progress names a version whose draft exists and is not the approver's: a
draft never changes, so what was read stays true however late the commit.

**Release.** `ReleaseInv` carries the review's invariant and, for every release, message and
write, what it stands for: `HasDraft` (the payload is its version's draft), `Cleared` (that
version was approved by someone who may be paired with this releaser), `TokenHonest` (a
SyncToken that is still the record's own was read off the reviewed value) and the key made of
proposal and version. None of these can be undone, since drafts, approvals, writes and tokens
only grow (`Grows`); each action is then judged by the one release it moves. `KeysOnce` is the
provider's part: a known requestid is not applied again. `OneWritePerApproval` follows from
the keys, `NoLostUpdate` from `TokenHonest` at the moment of the write, `EveryWriteApproved`
from `Cleared` and the review's `EditorNeverApproves`.

**Promise.** Under `ReleaseInv`, a committed edit is `Edit` of the latest draft, a committed
approval is `Approve`, a request the provider applies is `Write`, and every other step leaves
drafts, approvals and writes alone.

**Intake.** `IntakeInv` adds three things to the two properties. A row is marked paid only for
a captured order, also by a webhook whose read is long past (`ConfirmationsHonest`). A
committed upload's order has its token used and its request is over (`UploadsSpent`), so that a
claim, which needs an unused token, is never the second of its order. And rows, and all that a
purge works on, belong to requests that are over (`RowsEnded`, `SweptAreGone`), so that no
folder is made under an id whose row a purge is deleting.

**Retention.** `RetentionInv` says that the column `closed_at` tells the day the engagement went
from open to closed (`ClocksTell`), so that `_due_at` and the promise count from the same day at
the moment of each reading, and that what a purge owes is among what it has read
(`OwedIsRead`), is over, and so cannot change its engagement before it is deleted.

**Connection.** `ConnInv` follows the tokens. A token on its way to the row is usable and nobody
else has seen it (`NewIsSafe`): not in a row, not in another's hands. The token of an active row
is usable, or a refresh that read it is still between Intuit and the row (`ActiveCovered`), and
whatever that refresh writes last, a new token, a cleared row or a flag, leaves no active
row with a dead one. Only what was started is approved, and rows and tasks hold only tokens
that were issued.

**Access.** `AccessInv` says that the newest link is not revoked, and that the sending that
minted it has it on its way, has delivered it, or has failed (`NewestGetsThrough`): every
revocation comes with a newer link. When nothing is on its way and nothing failed, the newest
has been delivered.

**Accounts.** `ActiveSecretIsHeld` is not inductive: a confirmation checks the secret at one time
and makes it active at another. `ConfirmingIsHeld` says of every browser in between that the
row's secret is gone, or in the authenticator, or `overtaken`; a secret stored meanwhile sets that
history, and a disabling clears the row. The types need besides that a page shows codes which were
issued (`ShownWereIssued`).

**Matching.** `NeverATossUp` needs to know why a line or movement was taken before the pair
came up, by a pair that may be only level with it. `MatchInv` adds that no pair still to walk
is better than one walked (`Downhill`), that a movement level with a line's own match went to
a strictly better line (`LineTies`), and that a line level with a movement's own match was
settled with it (`EntryTies`). So a line that loses a movement to a level pair is matched
itself or was refused; and a pair accepted later has no level rival left, by the guard of
`Accept`.

**Relationship records.** `CrmInv` ties an import under way to a list that was shown
(`imports[l]` is no longer unseen and never becomes so again). Both properties are then about
what a step appends and merges: `Applied` shows that an import leaves the companies there were
in their places with their names, sales and suppressions, and that what it appends has names
nobody had, each once; so the names on record stay unique, and a name that led to a company leads to
one afterwards (`Finding` says what `Find` finds, `SetSequence` that a set laid out as a
sequence has each member once).

**Postings.** `PostedAsQuickBooksDid` is proved document by document, along `_derive_one`: each
kind either finds its head account, its lines and its tax, and then has the postings of the full
document, or it refuses. Where a reference is left out, `Only` fills it in from the chart only
if one account can be meant, and that is then the one the full document names; `Net` of what is
posted is zero, or it is refused. The two things the code fills in otherwise are in the property
and not excluded from it: `TakenFor` puts zero for a total that is not stated, and the account
that has the rate's id for the tax account, and `TakenShown` shows that what arrives shows that
document as well. What QuickBooks posts (`Entry`) is the model's: the code's own rules, applied to the
accounts of the full document. The property is therefore about what a document leaves out, and
not about whether the rules are QuickBooks'; of that only the comparison with the trial balance
could tell.

**Sums.** The ledger adds with the library's fold, a recursion over subsets for which no induction
theorem can be cited directly. `LedgerProofs` begins with the induction it needs: strict
inclusion among the subsets of a finite set is well founded (`FS_StrictSubsetOrderingWellFounded`),
so the least subset on which a claim about sums fails gives the contradiction
(`SubsetInduction`). From it follow that a sum over a superset unfolds the same way, that a sum
is the chosen term and the rest, that sums of numbers are numbers, and that two sums may be
exchanged. `LedgerBalances` is that exchange: the balances of the accounts, added up, are the
documents' own nets, added up, and those are zero.

**Scans.** `AnalysisInv` follows a pull: what it has read are documents there are, the run it
refreshes is on record and its report and statements are that run's, and a proposal on record
comes from some run. A run, once stored, keeps its report and statements; a reconciliation is
recorded by `Persist` and `Refresh` alone, both of the last statement for the account
(`ReconcileStates`), and from a ledger that agreed with the report at hand if there was one. A run
without a report may have reconciled rows; `ReconciledWithQuickBooks` says of them only that the
statement closes at the balance they state.
`ScansKeepDecisions` is proved action by action: what a stored scan adds is nobody's proposal
yet, since the table's key would have refused it.

**Returns.** The types need that stored rows are finite sets over what is held, so that each
line of a return is a sum of numbers. `DecidedRatesStay` is inductive under the types of rates
and overrides.

**Filing periods.** Dates are turned into numbers: a month into `12 y + m - 1`, a day into its
`Place`, which orders dates as the calendar does (`Ordered`). The ends of an arrangement's
periods then lie on a grid, every `Step` months (1, 3 or 12), and the grid is the arrangement's
alone: `PeriodsBetween` lays out a part of it, whichever span it is asked for, because adding months to an
end and pinning it to the month's last day gives the end the arrangement itself has in that month. That
is where 28 February fails: pinned in a common year, it is not in a leap year.
`EveryDayHasAPeriod` finds the grid's cell of any day, `PeriodForIs` and `LastClosedIs` show that
the two searches of the code return that cell and the one before, and `ThreePeriodsAgree` is the
arithmetic that remains.

**Compositions.** `OfficeKeepsItsParts` and `BooksKeepTheirParts` show that a step of the
composition is, for each part, one of its steps or a stutter. The theorems about the parts then
hold of the compositions. The intake alone is carried over without its fairness, which its
safety does not use.

Only model-checked: `ReleasesEnd`, `StartedExecutionsSettle`, `CapturedBecomesPaid`,
`DueIsPurged` and `DeadGrantsSurface`, the liveness properties of `Progress`, which rest on
fairness and `ENABLED`; and the counterexamples. The detectors (`Findings`) occur in theorems as
whatever a run has found: that their findings are the right ones is not stated.

## What is not modelled

- Working papers and coverage rows: one read and one upsert, with no state of their own.
- Of the analysis: checks that need source documents or confirmations; documents without an
  `Id`; gaps of the pull manifest and changes of the chart in mid-pull; attachments.
- Report grammar, exports and drilling, statement import, rendering, PDF, portfolio, priority,
  readiness, first contact, diffing: parsing and projections that no other part depends on.
- Of the purge: rows without an engagement, which no caller stores, measurement rows, and the
  preview of what is due.
- Of the accounts: the steps of the TOTP clock, roles, and the rate limits.
- Of the client's account: its own row (`ensure_client`, `attach_organization`), and the
  notification of a submission.
- Of the relationship records: contacts, activities, the relationship stage, disclosure.
- Of the returns: labels, `assigned_frequency` and the elections of a frequency, the printed
  worksheet.
- Tenancy: memberships are written by a command-line script and one query decides a scope;
  no steps of several actors meet there.
- Telemetry, the web site, fixtures, scripts and data sets.

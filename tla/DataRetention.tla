--------------------------- MODULE DataRetention ---------------------------
(***************************************************************************)
(* The published promise about a client's books: what was pulled from      *)
(* QuickBooks is gone CloseDays after the engagement closes, or            *)
(* UnclosedDays after it began if it never does.  Operators pull reports   *)
(* and run scans, close and reopen engagements; the daily purge reads what *)
(* is due and deletes it.                                                  *)
(*                                                                         *)
(* One client, so that all scans share its chart of accounts.  A database  *)
(* has one writer: a pull writes from its first stored report to its last  *)
(* fetch, the purge from its first deletion to its commit.  Uploaded files *)
(* and their submissions are PaidIntake's; rows without an engagement are  *)
(* left out, since every caller gives one.                                 *)
(***************************************************************************)
EXTENDS Naturals

CONSTANTS
  Engagements, Pulls,
  Reports,         \* REPORTS
  TrialBalance,    \* the report a scan begins with
  CloseDays,       \* RETENTION_DAYS_AFTER_CLOSE
  UnclosedDays,    \* RETENTION_DAYS_UNCLOSED
  MaxDay           \* bound: days that pass

ASSUME RetentionAssumption ==
  /\ TrialBalance \in Reports
  /\ CloseDays \in Nat \ {0} /\ UnclosedDays \in Nat \ {0} /\ MaxDay \in Nat \ {0}

VARIABLES
  day,          \* today
  engagement,   \* engagements: status, created_at and closed_at; 0 is NULL
  pull,         \* sync_runs with their source_snapshots
  runs,         \* bookkeeping_runs, each by the pull its scan began with
  chart,        \* whether the client's accounts, entities and projects are on file
  sweep,        \* what the purge is doing
  writer,       \* who holds the write transaction
  shut,         \* history: the day each engagement last went from open to closed
  owed          \* history: what the promise says the last purge must remove

retentionVars == <<day, engagement, pull, runs, chart, sweep, writer, shut, owed>>
purgeVars == <<sweep, owed>>

Nobody == {"nobody"}
Purger == {"purge"}
Resting == [pc |-> "resting"]
Unused == [pc |-> "unused"]
Absent == [status |-> "absent", created |-> 0, closed |-> 0]
NothingOwed == [reports |-> {}, runs |-> {}]

-----------------------------------------------------------------------------
MayWrite(who) == writer \in {Nobody, who}

\* The pulls of an engagement with a snapshot on file.
OnFile == {p \in Pulls : pull[p].pc = "done" /\ pull[p].kept # {}}

Of(e, ps) == {p \in ps : pull[p].of = e}

\* _due_at
DueBy(today, e) ==
  today >= IF engagement[e].closed # 0 THEN engagement[e].closed + CloseDays
                                       ELSE engagement[e].created + UnclosedDays

\* The promise, by what happened to the engagement instead of its columns.
PromisedBy(today, e) ==
  today >= IF engagement[e].status = "closed" THEN shut[e] + CloseDays
                                              ELSE engagement[e].created + UnclosedDays

RetentionInit ==
  /\ day = 1
  /\ engagement = [e \in Engagements |-> Absent]
  /\ pull = [p \in Pulls |-> Unused]
  /\ runs = {} /\ chart = FALSE
  /\ sweep = Resting /\ writer = Nobody
  /\ shut = [e \in Engagements |-> 0] /\ owed = NothingOwed

-----------------------------------------------------------------------------
(* Engagements.                                                            *)

Open(e) ==
  /\ engagement[e] = Absent /\ writer = Nobody
  /\ engagement' = [engagement EXCEPT ![e] =
       [status |-> "open", created |-> day, closed |-> 0]]
  /\ UNCHANGED <<day, pull, runs, chart, writer, shut, purgeVars>>

\* Fault: closing a closed engagement starts its clock again.
CloseAfresh(e) ==
  /\ engagement[e] # Absent /\ writer = Nobody
  /\ engagement' = [engagement EXCEPT ![e].status = "closed", ![e].closed = day]
  /\ shut' = [shut EXCEPT ![e] = IF engagement[e].status = "closed" THEN @ ELSE day]
  /\ UNCHANGED <<day, pull, runs, chart, writer, purgeVars>>

\* update_engagement_status, to closed: an engagement that is closed keeps its day.
Close(e) ==
  /\ engagement[e] # Absent /\ writer = Nobody
  /\ engagement' = [engagement EXCEPT ![e].status = "closed",
                                      ![e].closed = IF @ = 0 THEN day ELSE @]
  /\ shut' = [shut EXCEPT ![e] = IF engagement[e].status = "closed" THEN @ ELSE day]
  /\ UNCHANGED <<day, pull, runs, chart, writer, purgeVars>>

\* ... and to any other status.
Reopen(e) ==
  /\ engagement[e].status = "closed" /\ writer = Nobody
  /\ engagement' = [engagement EXCEPT ![e].status = "open", ![e].closed = 0]
  /\ UNCHANGED <<day, pull, runs, chart, writer, shut, purgeVars>>

DayPasses ==
  /\ day < MaxDay
  /\ day' = day + 1
  /\ UNCHANGED <<engagement, pull, runs, chart, writer, shut, purgeVars>>

-----------------------------------------------------------------------------
(* Pulls and scans.  No status of the engagement stops either.             *)

\* pull_reports asks for all reports, a scan for the trial balance.
AskedFor == {Reports, {TrialBalance}}

\* pull commits the run before it fetches.
StartPull(p, e, wanted) ==
  /\ pull[p] = Unused /\ engagement[e] # Absent /\ writer = Nobody
  /\ pull' = [pull EXCEPT ![p] =
       [pc |-> "running", of |-> e, wanted |-> wanted, todo |-> wanted, stored |-> {}]]
  /\ UNCHANGED <<day, engagement, runs, chart, writer, shut, purgeVars>>

\* _fetch brings a report, within MAX_READ_ATTEMPTS, which is stored ...
StoreReport(p, r) ==
  /\ pull[p].pc = "running" /\ r \in pull[p].todo /\ MayWrite({p})
  /\ pull' = [pull EXCEPT ![p].todo = @ \ {r}, ![p].stored = @ \cup {r}]
  /\ writer' = {p}
  /\ UNCHANGED <<day, engagement, runs, chart, shut, purgeVars>>

\* ... or gives up, and the run goes on without it.
SkipReport(p, r) ==
  /\ pull[p].pc = "running" /\ r \in pull[p].todo
  /\ pull' = [pull EXCEPT ![p].todo = @ \ {r}]
  /\ UNCHANGED <<day, engagement, runs, chart, writer, shut, purgeVars>>

Outcome(stored, wanted) ==
  IF stored = wanted THEN "complete" ELSE IF stored # {} THEN "partial" ELSE "failed"

\* The snapshots and the run's outcome become visible together.
FinishPull(p) ==
  /\ pull[p].pc = "running" /\ pull[p].todo = {} /\ MayWrite({p})
  /\ pull' = [pull EXCEPT ![p] =
       [pc |-> "done", of |-> @.of, wanted |-> @.wanted,
        status |-> Outcome(@.stored, @.wanted), kept |-> @.stored]]
  /\ writer' = Nobody
  /\ UNCHANGED <<day, engagement, runs, chart, shut, purgeVars>>

\* No access token, a locked database or a dying process: the run stays "running" for
\* good, and nothing of it is stored.
LosePull(p) ==
  /\ pull[p].pc = "running"
  /\ pull' = [pull EXCEPT ![p] = [pc |-> "lost"]]
  /\ writer' = IF writer = {p} THEN Nobody ELSE writer
  /\ UNCHANGED <<day, engagement, runs, chart, shut, purgeVars>>

\* persist_analysis: the scan that began with this pull stores its run, and the
\* client's chart with it.
PersistRun(p) ==
  /\ pull[p].pc = "done" /\ pull[p].wanted = {TrialBalance}
  /\ p \notin runs /\ writer = Nobody
  /\ pull' = [pull EXCEPT ![p].wanted = {}]
  /\ runs' = runs \cup {p} /\ chart' = TRUE
  /\ UNCHANGED <<day, engagement, writer, shut, purgeVars>>

-----------------------------------------------------------------------------
(* The daily purge.                                                        *)

\* _purge_expired_snapshots reads the engagements that are due; the purge writes
\* already if it has met a submission that was.
ReadDueReports ==
  /\ sweep = Resting
  /\ \/ UNCHANGED writer
     \/ writer = Nobody /\ writer' = Purger
  /\ sweep' = [pc |-> "reports", now |-> day,
               due |-> {e \in Engagements : Of(e, OnFile) # {} /\ DueBy(day, e)}]
  /\ owed' = [NothingOwed EXCEPT !.reports = {p \in OnFile : PromisedBy(day, pull[p].of)}]
  /\ UNCHANGED <<day, engagement, pull, runs, chart, shut>>

\* It deletes their snapshots, and _purge_expired_bookkeeping reads what is due.
DeleteReports ==
  /\ sweep.pc = "reports"
  /\ IF sweep.due = {} THEN UNCHANGED writer ELSE MayWrite(Purger) /\ writer' = Purger
  /\ sweep' = [pc |-> "runs", now |-> sweep.now,
               gone |-> {p \in OnFile : pull[p].of \in sweep.due},
               due |-> {e \in Engagements : Of(e, runs) # {} /\ DueBy(sweep.now, e)}]
  /\ owed' = [owed EXCEPT !.runs = {p \in runs : PromisedBy(sweep.now, pull[p].of)}]
  /\ UNCHANGED <<day, engagement, pull, runs, chart, shut>>

\* It deletes the runs, and the chart of a client without any run left.
DeleteRuns ==
  /\ sweep.pc = "runs" /\ MayWrite(Purger)
  /\ pull' = [p \in Pulls |-> IF p \in sweep.gone THEN [pull[p] EXCEPT !.kept = {}]
                                                  ELSE pull[p]]
  /\ runs' = {p \in runs : pull[p].of \notin sweep.due}
  /\ chart' = (chart /\ runs' # {})
  /\ sweep' = Resting /\ writer' = Nobody
  /\ UNCHANGED <<day, engagement, shut, owed>>

\* A file that cannot be deleted, a pull that writes for longer than busy_timeout, a
\* dying process: everything is rolled back, and the timer tries again.
LosePurge ==
  /\ sweep # Resting
  /\ sweep' = Resting /\ owed' = NothingOwed
  /\ writer' = IF writer = Purger THEN Nobody ELSE writer
  /\ UNCHANGED <<day, engagement, pull, runs, chart, shut>>

RetentionNext ==
  \/ DayPasses
  \/ \E e \in Engagements : Open(e) \/ Close(e) \/ Reopen(e)
  \/ \E p \in Pulls :
       \/ \E e \in Engagements, wanted \in AskedFor : StartPull(p, e, wanted)
       \/ \E r \in Reports : StoreReport(p, r) \/ SkipReport(p, r)
       \/ FinishPull(p) \/ LosePull(p) \/ PersistRun(p)
  \/ ReadDueReports \/ DeleteReports \/ DeleteRuns \/ LosePurge

RetentionSpec == RetentionInit /\ [][RetentionNext]_retentionVars

-----------------------------------------------------------------------------
\* Rows are of their type; a finished run says what it stored; the accounts a run
\* names are on file.
RetentionTypeOK ==
  /\ day \in 1 .. MaxDay
  /\ engagement \in [Engagements ->
       [status : {"absent", "open", "closed"}, created : 0 .. MaxDay, closed : 0 .. MaxDay]]
  /\ pull \in [Pulls ->
       {Unused, [pc |-> "lost"]}
       \cup [pc : {"running"}, of : Engagements, wanted : SUBSET Reports,
             todo : SUBSET Reports, stored : SUBSET Reports]
       \cup [pc : {"done"}, of : Engagements, wanted : SUBSET Reports,
             status : {"complete", "partial", "failed"}, kept : SUBSET Reports]]
  /\ \A p \in OnFile : pull[p].status # "failed"
  /\ runs \subseteq Pulls /\ chart \in BOOLEAN /\ (runs # {} => chart)
  /\ writer \in {Nobody, Purger} \cup {{p} : p \in Pulls}
  /\ sweep.pc \in {"resting", "reports", "runs"}
  /\ shut \in [Engagements -> 0 .. MaxDay]
  /\ owed \in [reports : SUBSET Pulls, runs : SUBSET Pulls]

\* "gone 30 days after the engagement closes, or 90 days if none ever does"
\* (app.py:567): once a purge has gone through, no report and no run that was on file
\* when it looked is kept past its day, however often the engagement was closed and
\* reopened, and whatever was pulled meanwhile.
GoneWhenPromised ==
  sweep = Resting => owed.reports \cap OnFile = {} /\ owed.runs \cap runs = {}
=============================================================================

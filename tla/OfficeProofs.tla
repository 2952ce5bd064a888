----------------------------- MODULE OfficeProofs -----------------------------
(***************************************************************************)
(* Proofs about the parts MCOffice explores side by side: what the purge   *)
(* leaves, which names the relationship records resolve, and that the      *)
(* office as a whole keeps what each of its parts keeps.                   *)
(***************************************************************************)
EXTENDS MCOffice, IntakeProofs, ConnectionProofs, EntryProofs, ReviewProofs,
        FiniteSetTheorems, SequenceTheorems

(* Retention.                                                              *)


Running == [pc : {"running"}, of : Engagements, wanted : SUBSET Reports,
            todo : SUBSET Reports, stored : SUBSET Reports]
Done == [pc : {"done"}, of : Engagements, wanted : SUBSET Reports,
         status : {"complete", "partial", "failed"}, kept : SUBSET Reports]
PullRows == {Unused, [pc |-> "lost"]} \cup Running \cup Done

\* The column closed_at says when the engagement went from open to closed.
ClocksTell ==
  \A e \in Engagements : IF engagement[e].status = "closed"
                         THEN shut[e] # 0 /\ engagement[e].closed = shut[e]
                         ELSE engagement[e].closed = 0

\* A run is stored once, for a pull that is over; what a purge owes is over too, is among
\* what the purge has read, and is gone when the purge is done.
OwedIsRead ==
  /\ \A p \in owed.reports : pull[p].pc = "done"
  /\ \A p \in runs \cup owed.runs : pull[p].pc = "done" /\ pull[p].wanted = {}
  /\ sweep.pc = "reports" => /\ owed.runs = {}
                             /\ \A p \in owed.reports : pull[p].of \in sweep.due
  /\ sweep.pc = "runs" => /\ \A p \in sweep.gone : p \in Pulls /\ pull[p].pc = "done"
                          /\ owed.reports \cap OnFile \subseteq sweep.gone
                          /\ \A p \in owed.runs : pull[p].of \in sweep.due
  /\ sweep.pc = "resting" => owed.reports \cap OnFile = {} /\ owed.runs \cap runs = {}

RetentionInv == RetentionTypeOK /\ ClocksTell /\ OwedIsRead

-----------------------------------------------------------------------------
\* What a pull holds is decided by how far it is.
LEMMA RowFields ==
  ASSUME RetentionTypeOK
  PROVE  /\ pull \in [Pulls -> PullRows]
         /\ \A p \in Pulls : /\ pull[p].pc = "running" => pull[p] \in Running
                             /\ pull[p].pc = "done" => pull[p] \in Done
<1>1. pull \in [Pulls -> PullRows]
  BY DEF RetentionTypeOK, PullRows, Running, Done
<1>2. \A d \in PullRows : /\ d.pc = "running" => d \in Running
                          /\ d.pc = "done" => d \in Done
  BY DEF PullRows, Running, Done, Unused
<1> QED
  BY <1>1, <1>2

\* The purge and the promise count from the same day.
LEMMA SameClock ==
  ASSUME ClocksTell, NEW e \in Engagements, NEW today
  PROVE  DueBy(today, e) <=> PromisedBy(today, e)
<1>1. CASE engagement[e].status = "closed"
  BY <1>1 DEF ClocksTell, DueBy, PromisedBy
<1>2. CASE engagement[e].status # "closed"
  BY <1>2 DEF ClocksTell, DueBy, PromisedBy
<1> QED
  BY <1>1, <1>2

LEMMA InitRetention == RetentionInit => RetentionInv
<1> SUFFICES ASSUME RetentionInit
             PROVE  RetentionInv
  OBVIOUS
<1>1. OnFile = {}
  BY DEF RetentionInit, OnFile, Unused
<1>2. RetentionTypeOK
  <2>1. pull \in [Pulls -> PullRows]
    BY DEF RetentionInit, PullRows
  <2>2. /\ day \in 1 .. MaxDay /\ shut \in [Engagements -> 0 .. MaxDay]
        /\ engagement \in [Engagements ->
             [status : {"absent", "open", "closed"}, created : 0 .. MaxDay, closed : 0 .. MaxDay]]
    BY RetentionAssumption DEF RetentionInit, Absent
  <2>3. /\ runs \subseteq Pulls /\ chart \in BOOLEAN /\ runs = {}
        /\ writer \in {Nobody, Purger} /\ sweep.pc = "resting"
        /\ owed \in [reports : SUBSET Pulls, runs : SUBSET Pulls]
    BY DEF RetentionInit, Resting, NothingOwed
  <2> QED
    BY <1>1, <2>1, <2>2, <2>3 DEF RetentionTypeOK, PullRows, Running, Done
<1>3. ClocksTell
  BY DEF RetentionInit, ClocksTell, Absent
<1>4. OwedIsRead
  BY <1>1 DEF RetentionInit, OwedIsRead, NothingOwed, Resting
<1> QED
  BY <1>2, <1>3, <1>4 DEF RetentionInv

-----------------------------------------------------------------------------
\* The engagements change, and nothing else but the day.
LEMMA EngagementInv ==
  ASSUME RetentionInv, NEW e \in Engagements,
         DayPasses \/ Open(e) \/ Close(e) \/ Reopen(e)
  PROVE  RetentionInv'
<1>0. /\ day \in 1 .. MaxDay /\ shut \in [Engagements -> 0 .. MaxDay] /\ MaxDay \in Nat
      /\ engagement \in [Engagements ->
           [status : {"absent", "open", "closed"}, created : 0 .. MaxDay, closed : 0 .. MaxDay]]
  BY RetentionAssumption DEF RetentionInv, RetentionTypeOK
<1>1. UNCHANGED <<pull, runs, chart, sweep, owed, writer>>
  BY DEF DayPasses, Open, Close, Reopen, purgeVars
<1>2. /\ day' \in 1 .. MaxDay /\ shut' \in [Engagements -> 0 .. MaxDay]
      /\ engagement' \in [Engagements ->
           [status : {"absent", "open", "closed"}, created : 0 .. MaxDay, closed : 0 .. MaxDay]]
  <2>1. CASE DayPasses
    BY <1>0, <2>1 DEF DayPasses
  <2>2. CASE Open(e)
    BY <1>0, <2>2 DEF Open
  <2>3. CASE Close(e)
    <3> DEFINE c == IF engagement[e].closed = 0 THEN day ELSE engagement[e].closed
    <3>0. c \in 0 .. MaxDay
      BY <1>0
    <3>1. engagement' = [engagement EXCEPT ![e].status = "closed", ![e].closed = c]
      BY <2>3 DEF Close
    <3> HIDE DEF c
    <3>2. UNCHANGED day /\ shut' \in [Engagements -> 0 .. MaxDay]
      BY <1>0, <2>3 DEF Close
    <3> QED
      BY <1>0, <3>0, <3>1, <3>2
  <2>4. CASE Reopen(e)
    <3>1. /\ engagement' = [engagement EXCEPT ![e].status = "open", ![e].closed = 0]
          /\ UNCHANGED <<day, shut>> /\ 0 \in 0 .. MaxDay
      BY <1>0, <2>4 DEF Reopen
    <3> QED
      BY <1>0, <3>1
  <2> QED
    BY <2>1, <2>2, <2>3, <2>4
<1>3. OnFile' = OnFile
  BY <1>1 DEF OnFile
<1>4. RetentionTypeOK'
  BY <1>1, <1>2, <1>3 DEF RetentionInv, RetentionTypeOK
<1>5. OwedIsRead'
  BY <1>1, <1>3 DEF RetentionInv, OwedIsRead
<1>6. ClocksTell'
  <2>1. CASE DayPasses
    BY <2>1 DEF DayPasses, RetentionInv, ClocksTell
  <2>2. CASE Open(e)
    BY <1>0, <2>2 DEF Open, RetentionInv, ClocksTell
  <2>3. CASE Close(e)
    BY <1>0, <2>3 DEF Close, RetentionInv, ClocksTell
  <2>4. CASE Reopen(e)
    BY <1>0, <2>4 DEF Reopen, RetentionInv, ClocksTell
  <2> QED
    BY <2>1, <2>2, <2>3, <2>4
<1> QED
  BY <1>4, <1>5, <1>6 DEF RetentionInv

\* What is owed stays read or gone while pulls go on: none of them touches a pull that is
\* over, except to store its run, once.
LEMMA OwedKept ==
  ASSUME RetentionInv, UNCHANGED <<sweep, owed>>, pull' \in [Pulls -> PullRows],
         \A q \in Pulls : pull[q].pc = "done" =>
            /\ pull'[q].pc = "done" /\ pull'[q].of = pull[q].of /\ pull'[q].kept = pull[q].kept
            /\ pull[q].wanted = {} => pull'[q].wanted = {},
         \A q \in runs' \ runs : /\ q \in Pulls /\ pull[q].pc = "done" /\ pull[q].wanted # {}
                                 /\ pull'[q].pc = "done" /\ pull'[q].wanted = {}
  PROVE  OwedIsRead'
<1>1. owed.reports \subseteq Pulls /\ owed.runs \subseteq Pulls /\ runs \subseteq Pulls
  BY DEF RetentionInv, RetentionTypeOK
<1>2. \A q \in Pulls : pull[q].pc = "done" => (q \in OnFile' <=> q \in OnFile)
  BY DEF OnFile
<1>3. owed.reports \cap OnFile' \subseteq OnFile
  BY <1>1, <1>2 DEF RetentionInv, OwedIsRead
<1>4. owed.runs \cap runs' \subseteq runs
  BY DEF RetentionInv, OwedIsRead
<1>5. \A p \in owed'.reports : pull'[p].pc = "done" /\ pull'[p].of = pull[p].of
  BY <1>1 DEF RetentionInv, OwedIsRead
<1>6. \A p \in runs' \cup owed'.runs : pull'[p].pc = "done" /\ pull'[p].wanted = {}
  BY <1>1 DEF RetentionInv, OwedIsRead
<1>7. \A p \in owed'.runs : pull'[p].of = pull[p].of
  BY <1>1 DEF RetentionInv, OwedIsRead
<1> QED
  BY <1>3, <1>4, <1>5, <1>6, <1>7 DEF RetentionInv, OwedIsRead

LEMMA PullInv ==
  ASSUME RetentionInv, NEW p \in Pulls,
         \/ \E e \in Engagements, wanted \in AskedFor : StartPull(p, e, wanted)
         \/ \E r \in Reports : StoreReport(p, r) \/ SkipReport(p, r)
         \/ FinishPull(p) \/ LosePull(p) \/ PersistRun(p)
  PROVE  RetentionInv'
<1>0. /\ pull \in [Pulls -> PullRows]
      /\ \A q \in Pulls : /\ pull[q].pc = "running" => pull[q] \in Running
                          /\ pull[q].pc = "done" => pull[q] \in Done
  BY RowFields DEF RetentionInv
<1>1. UNCHANGED <<day, engagement, shut, sweep, owed>>
  BY DEF StartPull, StoreReport, SkipReport, FinishPull, LosePull, PersistRun, purgeVars
<1>a. ~PersistRun(p) => pull[p].pc \in {"unused", "running"}
  <2>1. ASSUME NEW e \in Engagements, NEW wanted \in AskedFor, StartPull(p, e, wanted)
        PROVE  pull[p].pc = "unused"
    BY <2>1 DEF StartPull, Unused
  <2>2. ASSUME NEW r \in Reports, StoreReport(p, r) \/ SkipReport(p, r)
        PROVE  pull[p].pc = "running"
    BY <2>2 DEF StoreReport, SkipReport
  <2>3. ASSUME FinishPull(p) \/ LosePull(p)
        PROVE  pull[p].pc = "running"
    BY <2>3 DEF FinishPull, LosePull
  <2> QED
    BY <2>1, <2>2, <2>3
<1>b. ~FinishPull(p) /\ ~PersistRun(p) => pull'[p].pc # "done"
  <2>1. ASSUME NEW e \in Engagements, NEW wanted \in AskedFor, StartPull(p, e, wanted)
        PROVE  pull'[p].pc = "running"
    BY <1>0, <2>1 DEF StartPull
  <2>2. ASSUME NEW r \in Reports, StoreReport(p, r) \/ SkipReport(p, r)
        PROVE  pull'[p].pc = "running"
    <3>1. pull[p] \in Running
      BY <1>0, <2>2 DEF StoreReport, SkipReport
    <3>2. CASE StoreReport(p, r)
      <4>1. pull'[p] = [pull[p] EXCEPT !.todo = pull[p].todo \ {r},
                                       !.stored = pull[p].stored \cup {r}]
        BY <1>0, <3>2 DEF StoreReport
      <4> QED
        BY <3>1, <4>1 DEF Running
    <3>3. CASE SkipReport(p, r)
      <4>1. pull'[p] = [pull[p] EXCEPT !.todo = pull[p].todo \ {r}]
        BY <1>0, <3>3 DEF SkipReport
      <4> QED
        BY <3>1, <4>1 DEF Running
    <3> QED
      BY <2>2, <3>2, <3>3
  <2>3. ASSUME LosePull(p)
        PROVE  pull'[p].pc = "lost"
    BY <1>0, <2>3 DEF LosePull
  <2> QED
    BY <2>1, <2>2, <2>3
<1>2. PICK d \in PullRows : pull' = [pull EXCEPT ![p] = d]
  <2>1. ASSUME NEW e \in Engagements, NEW wanted \in AskedFor, StartPull(p, e, wanted)
        PROVE  \E d \in PullRows : pull' = [pull EXCEPT ![p] = d]
    <3>1. [pc |-> "running", of |-> e, wanted |-> wanted, todo |-> wanted, stored |-> {}] \in PullRows
      BY RetentionAssumption DEF AskedFor, PullRows, Running
    <3> QED
      BY <2>1, <3>1 DEF StartPull
  <2>2. ASSUME NEW r \in Reports, StoreReport(p, r)
        PROVE  \E d \in PullRows : pull' = [pull EXCEPT ![p] = d]
    <3>1. pull[p] \in Running
      BY <1>0, <2>2 DEF StoreReport
    <3>2. [pull[p] EXCEPT !.todo = pull[p].todo \ {r}, !.stored = pull[p].stored \cup {r}] \in PullRows
      BY <3>1 DEF PullRows, Running
    <3>3. pull' = [pull EXCEPT ![p] =
            [pull[p] EXCEPT !.todo = pull[p].todo \ {r}, !.stored = pull[p].stored \cup {r}]]
      BY <1>0, <2>2 DEF StoreReport
    <3> QED
      BY <3>2, <3>3
  <2>3. ASSUME NEW r \in Reports, SkipReport(p, r)
        PROVE  \E d \in PullRows : pull' = [pull EXCEPT ![p] = d]
    <3>1. pull[p] \in Running
      BY <1>0, <2>3 DEF SkipReport
    <3>2. [pull[p] EXCEPT !.todo = pull[p].todo \ {r}] \in PullRows
      BY <3>1 DEF PullRows, Running
    <3>3. pull' = [pull EXCEPT ![p] = [pull[p] EXCEPT !.todo = pull[p].todo \ {r}]]
      BY <1>0, <2>3 DEF SkipReport
    <3> QED
      BY <3>2, <3>3
  <2>4. CASE FinishPull(p)
    <3>1. pull[p] \in Running
      BY <1>0, <2>4 DEF FinishPull
    <3>2. [pc |-> "done", of |-> pull[p].of, wanted |-> pull[p].wanted,
           status |-> Outcome(pull[p].stored, pull[p].wanted), kept |-> pull[p].stored] \in PullRows
      BY <3>1 DEF PullRows, Running, Done, Outcome
    <3> QED
      BY <2>4, <3>2 DEF FinishPull
  <2>5. CASE LosePull(p)
    BY <2>5 DEF LosePull, PullRows
  <2>6. CASE PersistRun(p)
    <3>1. pull[p] \in Done
      BY <1>0, <2>6 DEF PersistRun
    <3>2. [pull[p] EXCEPT !.wanted = {}] \in PullRows
      BY <3>1 DEF PullRows, Done
    <3>3. pull' = [pull EXCEPT ![p] = [pull[p] EXCEPT !.wanted = {}]]
      BY <1>0, <2>6 DEF PersistRun
    <3> QED
      BY <3>2, <3>3
  <2> QED
    BY <2>1, <2>2, <2>3, <2>4, <2>5, <2>6
<1>3. pull' \in [Pulls -> PullRows] /\ \A q \in Pulls \ {p} : pull'[q] = pull[q]
  BY <1>0, <1>2
<1>4. \A q \in OnFile' : pull'[q].status # "failed"
  <2>1. \A q \in OnFile : pull[q].status # "failed"
    BY DEF RetentionInv, RetentionTypeOK
  <2>2. p \in OnFile' => pull'[p].status # "failed"
    <3>1. CASE FinishPull(p)
      <4>1. pull'[p].kept = pull[p].stored
            /\ pull'[p].status = Outcome(pull[p].stored, pull[p].wanted)
        BY <1>0, <3>1 DEF FinishPull
      <4> QED
        BY <4>1 DEF OnFile, Outcome
    <3>2. CASE PersistRun(p)
      <4>1. pull[p] \in Done
        BY <1>0, <3>2 DEF PersistRun
      <4>2. pull'[p] = [pull[p] EXCEPT !.wanted = {}]
        BY <1>0, <3>2 DEF PersistRun
      <4>3. pull'[p].kept = pull[p].kept /\ pull'[p].status = pull[p].status
        BY <4>1, <4>2 DEF Done
      <4> QED
        BY <2>1, <4>1, <4>3 DEF OnFile, Done
    <3>3. CASE ~FinishPull(p) /\ ~PersistRun(p)
      BY <1>b, <3>3 DEF OnFile
    <3> QED
      BY <3>1, <3>2, <3>3
  <2> QED
    BY <1>3, <2>1, <2>2 DEF OnFile
<1>5. runs' \subseteq Pulls /\ chart' \in BOOLEAN /\ (runs' # {} => chart')
  BY DEF RetentionInv, RetentionTypeOK,
         StartPull, StoreReport, SkipReport, FinishPull, LosePull, PersistRun
<1>6. writer' \in {Nobody, Purger} \cup {{q} : q \in Pulls}
  BY DEF RetentionInv, RetentionTypeOK,
         StartPull, StoreReport, SkipReport, FinishPull, LosePull, PersistRun
<1>7. RetentionTypeOK'
  BY <1>1, <1>3, <1>4, <1>5, <1>6 DEF RetentionInv, RetentionTypeOK, PullRows, Running, Done
<1>8. OwedIsRead'
  <2>1. \A q \in Pulls : pull[q].pc = "done" =>
          /\ pull'[q].pc = "done" /\ pull'[q].of = pull[q].of /\ pull'[q].kept = pull[q].kept
          /\ pull[q].wanted = {} => pull'[q].wanted = {}
    <3>1. CASE PersistRun(p)
      <4>1. pull[p] \in Done
        BY <1>0, <3>1 DEF PersistRun
      <4>2. pull'[p] = [pull[p] EXCEPT !.wanted = {}]
        BY <1>0, <3>1 DEF PersistRun
      <4>3. /\ pull'[p].pc = "done" /\ pull'[p].of = pull[p].of /\ pull'[p].kept = pull[p].kept
            /\ pull'[p].wanted = {}
        BY <4>1, <4>2 DEF Done
      <4> QED
        BY <1>3, <4>3
    <3>2. CASE ~PersistRun(p)
      BY <1>3, <1>a, <3>2
    <3> QED
      BY <3>1, <3>2
  <2>2. \A q \in runs' \ runs : /\ q \in Pulls /\ pull[q].pc = "done" /\ pull[q].wanted # {}
                                /\ pull'[q].pc = "done" /\ pull'[q].wanted = {}
    <3>1. CASE PersistRun(p)
      <4>1. runs' \ runs = {p} /\ pull[p].pc = "done" /\ pull[p].wanted = {TrialBalance}
        BY <3>1 DEF PersistRun
      <4>2. pull'[p].pc = "done"
        BY <2>1, <4>1
      <4>3. pull'[p].wanted = {}
        BY <1>0, <3>1, <4>1 DEF PersistRun, Done
      <4> QED
        BY <4>1, <4>2, <4>3
    <3>2. CASE ~PersistRun(p)
      BY <3>2 DEF StartPull, StoreReport, SkipReport, FinishPull, LosePull
    <3> QED
      BY <3>1, <3>2
  <2> QED
    BY <1>1, <1>3, <2>1, <2>2, OwedKept
<1>9. ClocksTell'
  BY <1>1 DEF RetentionInv, ClocksTell
<1> QED
  BY <1>7, <1>8, <1>9 DEF RetentionInv

-----------------------------------------------------------------------------
LEMMA SweepInv ==
  ASSUME RetentionInv, ReadDueReports \/ DeleteReports \/ DeleteRuns \/ LosePurge
  PROVE  RetentionInv'
<1>0. /\ pull \in [Pulls -> PullRows]
      /\ \A q \in Pulls : pull[q].pc = "done" => pull[q] \in Done
      /\ runs \subseteq Pulls /\ chart \in BOOLEAN /\ (runs # {} => chart)
      /\ owed \in [reports : SUBSET Pulls, runs : SUBSET Pulls]
      /\ writer \in {Nobody, Purger} \cup {{q} : q \in Pulls}
  BY RowFields DEF RetentionInv, RetentionTypeOK
<1>1. ClocksTell'
  BY DEF ReadDueReports, DeleteReports, DeleteRuns, LosePurge, RetentionInv, ClocksTell
<1>2. \A q \in OnFile : q \in Pulls /\ pull[q].pc = "done" /\ pull[q].of \in Engagements
  BY <1>0 DEF OnFile, Done
<1>3. \A q \in runs : pull[q].pc = "done" /\ pull[q].of \in Engagements
  BY <1>0 DEF RetentionInv, OwedIsRead, Done
<1>4. CASE ReadDueReports
  <2>1. /\ owed' = [reports |-> {p \in OnFile : PromisedBy(day, pull[p].of)}, runs |-> {}]
        /\ sweep' = [pc |-> "reports", now |-> day,
             due |-> {e \in Engagements : Of(e, OnFile) # {} /\ DueBy(day, e)}]
        /\ UNCHANGED <<day, engagement, pull, runs, chart, shut>>
        /\ writer' \in {writer, Purger}
    BY <1>4 DEF ReadDueReports, NothingOwed
  <2>2. OnFile' = OnFile
    BY <2>1 DEF OnFile
  <2>3. RetentionTypeOK'
    BY <1>0, <1>2, <2>1, <2>2 DEF RetentionInv, RetentionTypeOK
  <2>4. \A p \in owed'.reports : pull'[p].of \in sweep'.due
    BY <1>2, <2>1, SameClock DEF RetentionInv, Of
  <2>5. OwedIsRead'
    BY <1>2, <2>1, <2>4 DEF RetentionInv, OwedIsRead
  <2> QED
    BY <1>1, <2>3, <2>5 DEF RetentionInv
<1>5. CASE DeleteReports
  <2>1. /\ owed' = [owed EXCEPT !.runs = {p \in runs : PromisedBy(sweep.now, pull[p].of)}]
        /\ sweep' = [pc |-> "runs", now |-> sweep.now,
             gone |-> {p \in OnFile : pull[p].of \in sweep.due},
             due |-> {e \in Engagements : Of(e, runs) # {} /\ DueBy(sweep.now, e)}]
        /\ UNCHANGED <<day, engagement, pull, runs, chart, shut>>
        /\ writer' \in {writer, Purger}
        /\ sweep.pc = "reports"
    BY <1>5 DEF DeleteReports
  <2>2. OnFile' = OnFile
    BY <2>1 DEF OnFile
  <2>3. /\ owed'.reports = owed.reports
        /\ owed'.runs = {p \in runs : PromisedBy(sweep.now, pull[p].of)}
        /\ owed' \in [reports : SUBSET Pulls, runs : SUBSET Pulls]
    BY <1>0, <2>1
  <2>4. RetentionTypeOK'
    BY <1>0, <2>1, <2>2, <2>3 DEF RetentionInv, RetentionTypeOK
  <2>5. \A p \in owed'.runs : pull'[p].of \in sweep'.due
    BY <1>3, <2>1, <2>3, SameClock DEF RetentionInv, Of
  <2>6. owed'.reports \cap OnFile' \subseteq sweep'.gone
    BY <2>1, <2>2, <2>3 DEF RetentionInv, OwedIsRead
  <2>7. /\ \A p \in owed'.reports : pull'[p].pc = "done"
        /\ \A p \in runs' \cup owed'.runs : pull'[p].pc = "done" /\ pull'[p].wanted = {}
    BY <2>1, <2>3 DEF RetentionInv, OwedIsRead
  <2>8. \A p \in sweep'.gone : p \in Pulls /\ pull'[p].pc = "done"
    BY <1>2, <2>1
  <2>9. OwedIsRead'
    BY <2>1, <2>5, <2>6, <2>7, <2>8 DEF OwedIsRead
  <2> QED
    BY <1>1, <2>4, <2>9 DEF RetentionInv
<1>6. CASE DeleteRuns
  <2>1. /\ sweep.pc = "runs" /\ sweep' = Resting /\ writer' = Nobody
        /\ UNCHANGED <<day, engagement, shut, owed>>
        /\ runs' = {p \in runs : pull[p].of \notin sweep.due}
        /\ chart' = (chart /\ runs' # {})
    BY <1>6 DEF DeleteRuns
  <2>2. \A q \in Pulls : q \notin sweep.gone => pull'[q] = pull[q]
    BY <1>6 DEF DeleteRuns
  <2>3. \A q \in Pulls : q \in sweep.gone => pull'[q] = [pull[q] EXCEPT !.kept = {}]
    BY <1>6 DEF DeleteRuns
  <2>4. \A q \in Pulls : q \in sweep.gone => pull[q] \in Done
    BY <1>0, <2>1 DEF RetentionInv, OwedIsRead
  <2>5. \A q \in Pulls : q \in sweep.gone =>
          pull'[q] \in Done /\ pull'[q].kept = {} /\ pull'[q].wanted = pull[q].wanted
    <3>1. \A d \in Done : LET k == [d EXCEPT !.kept = {}]
                          IN  k \in Done /\ k.kept = {} /\ k.wanted = d.wanted
      BY DEF Done
    <3> QED
      BY <2>3, <2>4, <3>1
  <2>6. pull' \in [Pulls -> PullRows]
    <3>1. \A q \in Pulls : pull'[q] \in PullRows
      BY <1>0, <2>2, <2>5 DEF PullRows
    <3>2. pull' = [q \in Pulls |-> pull'[q]]
      BY <1>6 DEF DeleteRuns
    <3> QED
      BY <3>1, <3>2
  <2>7. OnFile' = OnFile \ sweep.gone
    BY <1>6, <2>2, <2>5 DEF OnFile
  <2>8. \A q \in OnFile' : pull'[q].status # "failed"
    BY <2>2, <2>7 DEF OnFile, RetentionInv, RetentionTypeOK
  <2>9. RetentionTypeOK'
    BY <1>0, <2>1, <2>6, <2>8 DEF RetentionInv, RetentionTypeOK, PullRows, Running, Done, Resting
  <2>10. \A q \in Pulls : pull[q].pc = "done" => pull'[q].pc = "done" /\ pull'[q].wanted = pull[q].wanted
    BY <2>2, <2>5 DEF Done
  <2>11. owed.reports \subseteq Pulls /\ owed.runs \subseteq Pulls
    BY <1>0
  <2>12. /\ \A p \in owed'.reports : pull'[p].pc = "done"
         /\ \A p \in runs' \cup owed'.runs : pull'[p].pc = "done" /\ pull'[p].wanted = {}
    BY <1>0, <2>1, <2>10, <2>11 DEF RetentionInv, OwedIsRead
  <2>13. owed'.reports \cap OnFile' = {} /\ owed'.runs \cap runs' = {}
    BY <2>1, <2>7 DEF RetentionInv, OwedIsRead
  <2>14. OwedIsRead'
    BY <2>1, <2>12, <2>13 DEF OwedIsRead, Resting
  <2> QED
    BY <1>1, <2>9, <2>14 DEF RetentionInv
<1>7. CASE LosePurge
  <2>1. /\ owed' = NothingOwed /\ sweep' = Resting /\ writer' \in {writer, Nobody}
        /\ UNCHANGED <<day, engagement, pull, runs, chart, shut>>
    BY <1>7 DEF LosePurge
  <2>2. OnFile' = OnFile
    BY <2>1 DEF OnFile
  <2>3. owed' \in [reports : SUBSET Pulls, runs : SUBSET Pulls] /\ sweep'.pc = "resting"
    BY <2>1 DEF NothingOwed, Resting
  <2>4. RetentionTypeOK'
    BY <1>0, <2>1, <2>2, <2>3 DEF RetentionInv, RetentionTypeOK
  <2>5. OwedIsRead'
    BY <2>1, <2>3 DEF RetentionInv, OwedIsRead, NothingOwed
  <2> QED
    BY <1>1, <2>4, <2>5 DEF RetentionInv
<1> QED
  BY <1>4, <1>5, <1>6, <1>7

LEMMA StepRetention == RetentionInv /\ [RetentionNext]_retentionVars => RetentionInv'
<1> SUFFICES ASSUME RetentionInv, [RetentionNext]_retentionVars
             PROVE  RetentionInv'
  OBVIOUS
<1>1. CASE DayPasses
  <2>1. /\ day' \in 1 .. MaxDay
        /\ UNCHANGED <<engagement, pull, runs, chart, writer, shut, sweep, owed>>
    BY <1>1, RetentionAssumption DEF DayPasses, purgeVars, RetentionInv, RetentionTypeOK
  <2> QED
    BY <2>1 DEF RetentionInv, RetentionTypeOK, ClocksTell, OwedIsRead, OnFile
<1>2. CASE UNCHANGED retentionVars
  BY <1>2 DEF retentionVars, RetentionInv, RetentionTypeOK, ClocksTell, OwedIsRead, OnFile
<1> QED
  BY <1>1, <1>2, EngagementInv, PullInv, SweepInv DEF RetentionNext

-----------------------------------------------------------------------------
\* The rows of engagements, pulls and runs are of their types, a finished pull says what it
\* stored, and no run is on file without its client's chart.
THEOREM RetentionTypeCorrect == RetentionSpec => []RetentionTypeOK
<1>1. RetentionInv => RetentionTypeOK
  BY DEF RetentionInv
<1> QED
  BY <1>1, InitRetention, StepRetention, PTL DEF RetentionSpec

\* A purge that went through has left no report and no run that the published promise said
\* must be gone on the day it looked, whatever was closed, reopened and pulled meanwhile.
THEOREM PurgedAsPromised == RetentionSpec => []GoneWhenPromised
<1>1. RetentionInv => GoneWhenPromised
  BY DEF RetentionInv, OwedIsRead, GoneWhenPromised, Resting
<1> QED
  BY <1>1, InitRetention, StepRetention, PTL DEF RetentionSpec

-----------------------------------------------------------------------------
(* Relationship records.                                                   *)

CompanyRow == [name : Names, stage : Stages, sold : BOOLEAN, suppressed : BOOLEAN]

RowActions == UNION {[DOMAIN Rows[l] -> Actions] : l \in Lists}
Imported == [status : {"preview", "applied"}, rows : RowActions]
Reading == [list : {{l} : l \in Lists}, rows : RowActions]

\* An import under way is of a list that was shown.
CrmInv ==
  /\ CrmTypeOK
  /\ imports \in [Lists -> {Unseen} \cup Imported]
  /\ applying \in [Importers -> {NotApplying} \cup Reading]
  /\ \A i \in Importers : \A l \in applying[i].list : imports[l] # Unseen

LEMMA CompanyRows ==
  ASSUME CrmTypeOK
  PROVE  /\ companies \in Seq(CompanyRow) /\ companies \in [Companies -> CompanyRow]
         /\ Len(companies) \in Nat /\ Companies = 1 .. Len(companies) /\ 0 \notin Companies
<1>1. companies \in Seq(CompanyRow)
  BY DEF CrmTypeOK, CompanyRow
<1>2. /\ Len(companies) \in Nat /\ companies \in [1 .. Len(companies) -> CompanyRow]
      /\ DOMAIN companies = 1 .. Len(companies)
  BY <1>1, LenProperties
<1> QED
  BY <1>1, <1>2 DEF Companies

\* What a name is found as.
LEMMA Finding ==
  ASSUME CrmTypeOK, NEW n \in Names
  PROVE  /\ Find(n) \in {0} \cup Companies
         /\ Find(n) # 0 <=> Named(n) # {} \/ aliases[n] # 0
         /\ Named(n) # {} => companies[Find(n)].name = n
<1>1. 0 \notin Companies /\ aliases[n] \in {0} \cup Companies
  BY CompanyRows DEF CrmTypeOK
<1>2. Named(n) \subseteq Companies /\ \A c \in Named(n) : companies[c].name = n
  BY DEF Named
<1>3. Named(n) # {} => Find(n) \in Named(n)
  BY DEF Find
<1>4. Named(n) = {} => Find(n) = aliases[n]
  BY DEF Find
<1> QED
  BY <1>1, <1>2, <1>3, <1>4

\* A list of companies that has grown, or stayed as long as it was.
LEMMA SameLength ==
  ASSUME CrmTypeOK, companies' \in [Companies -> CompanyRow]
  PROVE  companies' \in Seq(CompanyRow) /\ Len(companies') = Len(companies)
         /\ Companies' = Companies
<1> DEFINE n == Len(companies)
<1>1. n \in Nat /\ Companies = 1 .. n
  BY CompanyRows
<1> HIDE DEF n
<1>2. companies' \in [1 .. n -> CompanyRow]
  BY <1>1
<1>3. companies' \in Seq(CompanyRow) /\ Len(companies') = n /\ DOMAIN companies' = 1 .. n
  BY <1>1, <1>2
<1> QED
  BY <1>1, <1>3 DEF Companies, n

\* What a row of the records may be after a step that changes no other table.
LEMMA AliasTyped ==
  ASSUME NEW C, NEW known \in [Names -> {0} \cup C], NEW c \in C, NEW n \in Names, NEW books
  PROVE  /\ WithAlias(books, known, c, n) \in [Names -> {0} \cup C]
         /\ \A m \in Names : known[m] # 0 => WithAlias(books, known, c, n)[m] # 0
         /\ 0 \notin C => books[c].name = n \/ WithAlias(books, known, c, n)[n] # 0
  BY DEF WithAlias

LEMMA CrmStarts == CrmInit => CrmInv
<1> SUFFICES ASSUME CrmInit PROVE CrmInv
  OBVIOUS
<1>1. companies \in Seq(CompanyRow) /\ Len(companies) = 0 /\ Companies = {}
  BY EmptySeq DEF CrmInit, Companies
<1>2. CrmTypeOK
  BY <1>1, CrmAssumption DEF CrmInit, CrmTypeOK, CompanyRow
<1>3. \A i \in Importers : applying[i].list = {}
  BY DEF CrmInit, NotApplying
<1> QED
  BY <1>2, <1>3 DEF CrmInit, CrmInv

\* Steps that leave the companies' names and the imports alone.
LEMMA CompaniesMove ==
  ASSUME CrmInv, UNCHANGED <<imports, applying>>,
         companies' \in [Companies -> CompanyRow],
         \A c \in Companies : companies'[c].name = companies[c].name,
         aliases' \in [Names -> {0} \cup Companies]
  PROVE  CrmInv'
<1>1. companies' \in Seq(CompanyRow) /\ Len(companies') = Len(companies) /\ Companies' = Companies
  BY SameLength DEF CrmInv
<1>2. CrmTypeOK'
  BY <1>1 DEF CrmInv, CrmTypeOK, CompanyRow
<1> QED
  BY <1>2 DEF CrmInv

LEMMA PayerInv ==
  ASSUME CrmInv, NEW n \in Names, Intake(n)
  PROVE  CrmInv'
<1>1. CrmTypeOK /\ companies \in Seq(CompanyRow) /\ companies \in [Companies -> CompanyRow]
      /\ Len(companies) \in Nat /\ Companies = 1 .. Len(companies) /\ "won" \in Stages
  BY CompanyRows, CrmAssumption DEF CrmInv
<1>2. CASE Find(n) # 0
  <2>1. Find(n) \in Companies
    BY <1>1, <1>2, Finding
  <2> DEFINE c == Find(n)
  <2>2. companies' = [companies EXCEPT ![c].stage = "won", ![c].sold = TRUE]
    BY <1>2 DEF Intake
  <2> HIDE DEF c
  <2>3. companies' \in [Companies -> CompanyRow]
        /\ \A d \in Companies : companies'[d].name = companies[d].name
    BY <1>1, <2>2 DEF CompanyRow
  <2> QED
    BY <2>3, CompaniesMove DEF Intake, CrmInv, CrmTypeOK
<1>3. CASE Find(n) = 0
  <2> DEFINE r == [name |-> n, stage |-> "won", sold |-> TRUE, suppressed |-> FALSE]
             k == Len(companies)
  <2>1. r \in CompanyRow /\ r.name = n
    BY <1>1 DEF CompanyRow
  <2>2. companies' = Append(companies, r) /\ k < MaxCompanies
    BY <1>3 DEF Intake
  <2> HIDE DEF r, k
  <2>3. companies' \in Seq(CompanyRow) /\ Len(companies') = k + 1
        /\ \A c \in 1 .. k : companies'[c] = companies[c]
        /\ companies'[k + 1] = r
    BY <1>1, <2>1, <2>2 DEF k
  <2>4. Companies' = 1 .. k + 1
    BY <2>3, LenProperties DEF Companies
  <2>5. \A c \in Companies : companies[c].name # n
    BY <1>1, <1>3, Finding DEF Named
  <2>6. \A c, d \in Companies' : companies'[c].name = companies'[d].name => c = d
    <3> SUFFICES ASSUME NEW c \in 1 .. k + 1, NEW d \in 1 .. k + 1,
                        companies'[c].name = companies'[d].name
                 PROVE  c = d
      BY <2>4
    <3>1. Companies = 1 .. k /\ k \in Nat
      BY <1>1 DEF k
    <3>2. CASE c \in 1 .. k /\ d \in 1 .. k
      BY <1>1, <2>3, <3>1, <3>2 DEF CrmTypeOK
    <3>3. CASE c \in 1 .. k /\ d = k + 1
      BY <2>1, <2>3, <2>5, <3>1, <3>3
    <3>4. CASE c = k + 1 /\ d \in 1 .. k
      BY <2>1, <2>3, <2>5, <3>1, <3>4
    <3> QED
      BY <3>1, <3>2, <3>3, <3>4
  <2>7. Companies \subseteq Companies' /\ Len(companies') <= MaxCompanies
    BY <1>1, <2>2, <2>3, <2>4, CrmAssumption DEF k
  <2>8. CrmTypeOK'
    BY <1>1, <2>3, <2>6, <2>7 DEF CrmTypeOK, CompanyRow, Intake
  <2> QED
    BY <2>8 DEF CrmInv, Intake
<1> QED
  BY <1>2, <1>3

LEMMA PreviewInv ==
  ASSUME CrmInv, NEW l \in Lists, Preview(l)
  PROVE  CrmInv'
<1> DEFINE r == [n \in DOMAIN Rows[l] |-> ActionFor(n, Rows[l][n])]
           b == [status |-> "preview", rows |-> r]
<1>1. r \in [DOMAIN Rows[l] -> Actions]
  BY DEF ActionFor, Actions
<1>2. imports' = [imports EXCEPT ![l] = b] /\ UNCHANGED <<companies, aliases, applying>>
  BY DEF Preview
<1> HIDE DEF r
<1>3. b \in Imported /\ b # Unseen /\ b.status = "preview" /\ b.rows = r
  BY <1>1 DEF Imported, RowActions, Unseen
<1> HIDE DEF b
<1>4. imports' \in [Lists -> {Unseen} \cup Imported]
      /\ \A k \in Lists : imports'[k] = IF k = l THEN b ELSE imports[k]
  BY <1>2, <1>3 DEF CrmInv
<1>5. CrmTypeOK'
  BY <1>1, <1>2, <1>3, <1>4 DEF CrmInv, CrmTypeOK, Companies
<1>6. \A i \in Importers : applying[i].list \subseteq Lists
  BY DEF CrmInv, NotApplying, Reading
<1> QED
  BY <1>2, <1>3, <1>4, <1>5, <1>6 DEF CrmInv

\* The answer to a row that was held back.
LEMMA ResolveInv ==
  ASSUME CrmInv, NEW l \in Lists, NEW n, Awaiting(l, n), NEW a \in Actions,
         imports' = [imports EXCEPT ![l].rows[n] = a],
         UNCHANGED <<companies, applying>>, aliases' \in [Names -> {0} \cup Companies]
  PROVE  CrmInv'
<1>1. imports[l] \in Imported /\ imports[l].rows \in [DOMAIN Rows[l] -> Actions]
      /\ n \in DOMAIN Rows[l]
  BY DEF CrmInv, CrmTypeOK, Awaiting, Unseen
<1> DEFINE r == [imports[l].rows EXCEPT ![n] = a]
           b == [imports[l] EXCEPT !.rows = r]
<1>2. imports' = [imports EXCEPT ![l] = b]
  BY DEF CrmInv
<1>3. r \in [DOMAIN Rows[l] -> Actions]
  BY <1>1
<1> HIDE DEF r
<1>4. b \in Imported /\ b # Unseen /\ b.status = imports[l].status /\ b.rows = r
  BY <1>1, <1>3 DEF Imported, RowActions, Unseen
<1>5. b.status \in {"preview", "applied"}
  BY <1>4 DEF Imported
<1> HIDE DEF b
<1>6. imports' \in [Lists -> {Unseen} \cup Imported]
      /\ \A k \in Lists : imports'[k] = IF k = l THEN b ELSE imports[k]
  BY <1>2, <1>4 DEF CrmInv
<1>7. CrmTypeOK'
  BY <1>3, <1>4, <1>5, <1>6 DEF CrmInv, CrmTypeOK, Companies
<1>8. \A i \in Importers : applying[i].list \subseteq Lists
  BY DEF CrmInv, NotApplying, Reading
<1> QED
  BY <1>4, <1>6, <1>7, <1>8 DEF CrmInv

LEMMA ReadPreviewInv ==
  ASSUME CrmInv, NEW i \in Importers, NEW l \in Lists, ReadPreview(i, l)
  PROVE  CrmInv'
<1> DEFINE a == [list |-> {l}, rows |-> imports[l].rows]
<1>1. imports[l] # Unseen /\ imports[l].rows \in [DOMAIN Rows[l] -> Actions]
  BY DEF CrmInv, CrmTypeOK, ReadPreview, Unseen
<1>2. a \in Reading /\ a.list = {l} /\ a.rows \in [DOMAIN Rows[l] -> Actions]
  BY <1>1 DEF Reading, RowActions
<1>3. applying' = [applying EXCEPT ![i] = a] /\ UNCHANGED <<companies, aliases, imports>>
  BY DEF ReadPreview
<1> HIDE DEF a
<1>4. applying' \in [Importers -> {NotApplying} \cup Reading]
      /\ \A j \in Importers : applying'[j] = IF j = i THEN a ELSE applying[j]
  BY <1>2, <1>3 DEF CrmInv
<1>5. CrmTypeOK'
  BY <1>2, <1>3, <1>4 DEF CrmInv, CrmTypeOK, Companies
<1> QED
  BY <1>1, <1>2, <1>3, <1>4, <1>5 DEF CrmInv

\* The elements of a finite set, each once.
LEMMA SetSequence ==
  ASSUME NEW S, IsFiniteSet(S)
  PROVE  /\ Cardinality(S) \in Nat /\ SetToSeq(S) \in [1 .. Cardinality(S) -> S]
         /\ \A j, k \in 1 .. Cardinality(S) : SetToSeq(S)[j] = SetToSeq(S)[k] => j = k
<1> DEFINE n == Cardinality(S)
<1>1. n \in Nat /\ ExistsBijection(1 .. n, S)
  BY FS_CardinalityType
<1>2. \E f \in [1 .. n -> S] : IsInjective(f)
  BY <1>1 DEF ExistsBijection, Bijection, Injection
<1>3. SetToSeq(S) \in [1 .. n -> S] /\ IsInjective(SetToSeq(S))
  BY <1>2 DEF SetToSeq
<1> HIDE DEF n
<1>4. \A j, k \in 1 .. n : SetToSeq(S)[j] = SetToSeq(S)[k] => j = k
  BY <1>3 DEF IsInjective
<1> QED
  BY <1>1, <1>3, <1>4 DEF n

LEMMA ListRows ==
  ASSUME NEW l \in Lists
  PROVE  /\ DOMAIN Rows[l] \subseteq Names /\ IsFiniteSet(DOMAIN Rows[l])
         /\ \A n \in DOMAIN Rows[l] : Rows[l][n].stage \in Stages /\ Rows[l][n].suppressed \in BOOLEAN
  BY CrmAssumption

\* What an import writes: rows are merged into companies whose names stand, and every name
\* nobody answers to becomes one company.
LEMMA Applied ==
  ASSUME CrmInv, NEW i \in Importers, Apply(i)
  PROVE  /\ companies' \in Seq(CompanyRow) /\ Len(companies') <= MaxCompanies
         /\ Companies \subseteq Companies'
         /\ \A c \in Companies : /\ companies'[c].name = companies[c].name
                                 /\ companies[c].sold => companies'[c].sold
                                 /\ companies[c].suppressed => companies'[c].suppressed
         /\ \A c, d \in Companies' : companies'[c].name = companies'[d].name => c = d
<1>1. applying[i] \in Reading /\ CrmTypeOK
  BY DEF CrmInv, Apply
<1> DEFINE l == CHOOSE x \in Lists : x \in applying[i].list
<1>2. l \in Lists /\ applying[i].list = {l} /\ applying[i].rows \in [DOMAIN Rows[l] -> Actions]
  <2>1. PICK x \in Lists : applying[i].list = {x} /\ applying[i].rows \in [DOMAIN Rows[x] -> Actions]
    BY <1>1 DEF CrmTypeOK, Apply
  <2>2. l = x
    BY <2>1
  <2> QED
    BY <2>1, <2>2
<1> DEFINE rows == applying[i].rows
           At(c) == {Rows[l][n] : n \in Landing(rows, l, c)}
           S == Landing(rows, l, 0)
           fresh == SetToSeq(S)
           new == [k \in DOMAIN fresh |-> Inserted(fresh[k], Rows[l][fresh[k]])]
<1>3. PICK stage \in [Companies -> Stages] :
        companies' = [c \in Companies |-> Merged(companies[c], At(c), stage[c])] \o new
  BY DEF Apply
<1>4. Len(companies) + Len(fresh) <= MaxCompanies
  BY DEF Apply
<1> HIDE DEF l
<1> DEFINE kept == [c \in Companies |-> Merged(companies[c], At(c), stage[c])]
<1>5. /\ companies \in Seq(CompanyRow) /\ companies \in [Companies -> CompanyRow]
      /\ Len(companies) \in Nat /\ Companies = 1 .. Len(companies)
  BY <1>1, CompanyRows
<1>6. S \subseteq DOMAIN Rows[l] /\ S \subseteq Names /\ IsFiniteSet(S)
      /\ \A n \in S : Named(n) = {}
  <2>1. S \subseteq DOMAIN Rows[l] /\ \A n \in S : Find(n) = 0
    BY <1>2 DEF Landing
  <2>2. S \subseteq Names /\ IsFiniteSet(S)
    BY <1>2, <2>1, ListRows, FS_Subset
  <2>3. \A n \in S : Named(n) = {}
    <3> HIDE DEF S
    <3> QED BY <1>1, <2>1, <2>2, Finding
  <2> QED
    BY <2>1, <2>2, <2>3
<1> HIDE DEF S
<1> DEFINE m == Cardinality(S)
           k == Len(companies)
<1>7. m \in Nat /\ fresh \in [1 .. m -> S]
      /\ \A g, h \in 1 .. m : fresh[g] = fresh[h] => g = h
  BY <1>6, SetSequence
<1>8. \A n \in DOMAIN Rows[l] : Inserted(n, Rows[l][n]) \in CompanyRow /\ Inserted(n, Rows[l][n]).name = n
  BY <1>2, ListRows DEF Inserted, Sold, CompanyRow
<1>9. Len(fresh) = m
  <2> HIDE DEF fresh, m
  <2> QED BY <1>7
<1>10. new \in [1 .. m -> CompanyRow] /\ \A g \in 1 .. m : new[g].name = fresh[g]
  <2> HIDE DEF fresh, m
  <2> QED BY <1>6, <1>7, <1>8
<1>11. new \in Seq(CompanyRow) /\ Len(new) = m
  <2> HIDE DEF new, m
  <2> QED BY <1>7, <1>10
<1>12. kept \in [1 .. k -> CompanyRow]
       /\ \A c \in 1 .. k : /\ kept[c].name = companies[c].name
                            /\ companies[c].sold => kept[c].sold
                            /\ companies[c].suppressed => kept[c].suppressed
  <2> HIDE DEF At
  <2>1. ASSUME NEW c \in Companies
        PROVE  /\ Merged(companies[c], At(c), stage[c]) \in CompanyRow
               /\ Merged(companies[c], At(c), stage[c]).name = companies[c].name
               /\ companies[c].sold => Merged(companies[c], At(c), stage[c]).sold
               /\ companies[c].suppressed => Merged(companies[c], At(c), stage[c]).suppressed
    <3> DEFINE r == companies[c]
               s == \E x \in At(c) : Sold(x)
               u == \E x \in At(c) : x.suppressed
    <3>1. r \in CompanyRow /\ stage[c] \in Stages
      BY <1>5
    <3>2. Merged(r, At(c), stage[c]) = [r EXCEPT !.stage = stage[c], !.sold = r.sold \/ s,
                                                 !.suppressed = r.suppressed \/ u]
      BY <3>1 DEF Merged, CompanyRow
    <3> HIDE DEF r, s, u
    <3>3. (r.sold \/ s) \in BOOLEAN /\ (r.suppressed \/ u) \in BOOLEAN
      OBVIOUS
    <3> QED
      BY <3>1, <3>2, <3>3 DEF CompanyRow, r
  <2> QED
    BY <1>5, <2>1
<1>13. kept \in Seq(CompanyRow) /\ Len(kept) = k
  <2> HIDE DEF kept, k
  <2> QED BY <1>5, <1>12 DEF k
<1>14. companies' = kept \o new
  BY <1>3
<1> HIDE DEF kept, new, fresh
<1>15. /\ companies' \in Seq(CompanyRow) /\ Len(companies') = k + m
       /\ \A c \in 1 .. k + m : companies'[c] = IF c <= k THEN kept[c] ELSE new[c - k]
  <2> HIDE DEF k, m
  <2>1. /\ kept \o new \in Seq(CompanyRow)
        /\ Len(kept \o new) = Len(kept) + Len(new)
        /\ \A c \in 1 .. Len(kept) + Len(new) :
             (kept \o new)[c] = IF c <= Len(kept) THEN kept[c] ELSE new[c - Len(kept)]
    BY <1>11, <1>13, ConcatProperties
  <2>2. Len(kept) = k /\ Len(new) = m
    BY <1>11, <1>13
  <2> QED
    BY <1>14, <2>1, <2>2
<1> HIDE DEF k, m
<1>16. k \in Nat /\ m \in Nat /\ Companies = 1 .. k /\ Companies' = 1 .. k + m
  BY <1>5, <1>7, <1>15, LenProperties DEF k, Companies
<1>17. \A c \in 1 .. k : companies'[c] = kept[c]
  BY <1>15, <1>16
<1>18. \A c \in 1 .. k + m : c \notin 1 .. k => c - k \in 1 .. m /\ companies'[c] = new[c - k]
  BY <1>15, <1>16
<1>19. \A c, d \in Companies' : companies'[c].name = companies'[d].name => c = d
  <2> SUFFICES ASSUME NEW c \in 1 .. k + m, NEW d \in 1 .. k + m,
                      companies'[c].name = companies'[d].name
               PROVE  c = d
    BY <1>16
  <2>1. \A b \in Companies, g \in 1 .. m : companies[b].name # fresh[g]
    BY <1>6, <1>7 DEF Named
  <2>2. CASE c \in 1 .. k /\ d \in 1 .. k
    BY <1>1, <1>12, <1>16, <1>17, <2>2 DEF CrmTypeOK
  <2>3. CASE c \in 1 .. k /\ d \notin 1 .. k
    <3>1. companies'[c].name = companies[c].name
      BY <1>12, <1>17, <2>3
    <3>2. d - k \in 1 .. m /\ companies'[d].name = fresh[d - k]
      BY <1>10, <1>18, <2>3
    <3> QED
      BY <1>16, <2>1, <2>3, <3>1, <3>2
  <2>4. CASE c \notin 1 .. k /\ d \in 1 .. k
    <3>1. companies'[d].name = companies[d].name
      BY <1>12, <1>17, <2>4
    <3>2. c - k \in 1 .. m /\ companies'[c].name = fresh[c - k]
      BY <1>10, <1>18, <2>4
    <3> QED
      BY <1>16, <2>1, <2>4, <3>1, <3>2
  <2>5. CASE c \notin 1 .. k /\ d \notin 1 .. k
    <3>1. c - k \in 1 .. m /\ d - k \in 1 .. m /\ fresh[c - k] = fresh[d - k]
      BY <1>10, <1>18, <2>5
    <3>2. c - k = d - k
      BY <1>7, <3>1
    <3> QED
      BY <1>16, <3>2
  <2> QED
    BY <2>2, <2>3, <2>4, <2>5
<1>20. Len(companies') <= MaxCompanies
  BY <1>4, <1>9, <1>15 DEF k
<1>21. Companies \subseteq Companies'
  BY <1>16
<1>22. ASSUME NEW c \in Companies
       PROVE  /\ companies'[c].name = companies[c].name
              /\ companies[c].sold => companies'[c].sold
              /\ companies[c].suppressed => companies'[c].suppressed
  <2>1. companies'[c] = kept[c] /\ c \in 1 .. k
    BY <1>16, <1>17
  <2> QED
    BY <1>12, <2>1
<1> QED
  BY <1>15, <1>19, <1>20, <1>21, <1>22

LEMMA ApplyInv ==
  ASSUME CrmInv, NEW i \in Importers, Apply(i)
  PROVE  CrmInv'
<1>1. applying[i] \in Reading /\ CrmTypeOK
  BY DEF CrmInv, Apply
<1>2. PICK l \in Lists : applying[i].list = {l}
  BY <1>1 DEF CrmTypeOK, Apply
<1>3. (CHOOSE x \in Lists : x \in applying[i].list) = l
  BY <1>2
<1> DEFINE b == [imports[l] EXCEPT !.status = "applied"]
<1>4. /\ imports' = [imports EXCEPT ![l] = b]
      /\ applying' = [applying EXCEPT ![i] = NotApplying] /\ aliases' = aliases
  BY <1>3 DEF Apply, CrmInv
<1>5. imports[l] \in Imported /\ imports[l].rows \in [DOMAIN Rows[l] -> Actions]
  BY <1>2 DEF CrmInv, CrmTypeOK, Unseen
<1>6. b \in Imported /\ b # Unseen /\ b.status = "applied" /\ b.rows = imports[l].rows
  BY <1>5 DEF Imported, Unseen
<1> HIDE DEF b
<1>7. imports' \in [Lists -> {Unseen} \cup Imported]
      /\ \A k \in Lists : imports'[k] = IF k = l THEN b ELSE imports[k]
  BY <1>4, <1>6 DEF CrmInv
<1>8. applying' \in [Importers -> {NotApplying} \cup Reading]
      /\ \A j \in Importers : applying'[j] = IF j = i THEN NotApplying ELSE applying[j]
  BY <1>4 DEF CrmInv
<1>9. CrmTypeOK'
  <2>1. \A k \in Lists : \/ imports'[k] = Unseen
                         \/ /\ imports'[k].status \in {"preview", "applied"}
                            /\ imports'[k].rows \in [DOMAIN Rows[k] -> Actions]
    BY <1>1, <1>5, <1>6, <1>7 DEF CrmTypeOK
  <2>2. \A j \in Importers :
          \/ applying'[j] = NotApplying
          \/ \E k \in Lists : /\ applying'[j].list = {k}
                              /\ applying'[j].rows \in [DOMAIN Rows[k] -> Actions]
    BY <1>1, <1>8 DEF CrmTypeOK
  <2>3. aliases' \in [Names -> {0} \cup Companies']
    BY <1>1, <1>4, Applied DEF CrmTypeOK
  <2> QED
    BY <2>1, <2>2, <2>3, Applied DEF CrmTypeOK, CompanyRow
<1>10. \A j \in Importers : \A k \in applying'[j].list : imports'[k] # Unseen
  <2>1. \A j \in Importers : applying[j].list \subseteq Lists
    BY DEF CrmInv, NotApplying, Reading
  <2> QED
    BY <1>6, <1>7, <1>8, <2>1 DEF CrmInv, NotApplying
<1> QED
  BY <1>7, <1>8, <1>9, <1>10 DEF CrmInv

LEMMA RenameInv ==
  ASSUME CrmInv, NEW c \in Companies, NEW n \in Names, Rename(c, n)
  PROVE  CrmInv'
<1>1. CrmTypeOK /\ companies \in [Companies -> CompanyRow] /\ companies[c].name \in Names
  BY CompanyRows DEF CrmInv, CompanyRow
<1>2. companies' = [companies EXCEPT ![c].name = n]
      /\ \A d \in Companies : companies[d].name = n => d = c
  BY DEF Rename, Named
<1>3. companies' \in [Companies -> CompanyRow]
      /\ \A d \in Companies : companies'[d].name = IF d = c THEN n ELSE companies[d].name
  BY <1>1, <1>2 DEF CompanyRow
<1>4. companies' \in Seq(CompanyRow) /\ Len(companies') = Len(companies) /\ Companies' = Companies
  BY <1>1, <1>3, SameLength
<1>5. [aliases EXCEPT ![n] = 0] \in [Names -> {0} \cup Companies]
  BY <1>1 DEF CrmTypeOK
<1>6. aliases' \in [Names -> {0} \cup Companies]
  <2> DEFINE known == [aliases EXCEPT ![n] = 0]
             old == companies[c].name
  <2>1. aliases' = WithAlias(companies', known, c, old)
    BY DEF Rename
  <2> HIDE DEF known, old
  <2> QED
    BY <1>1, <1>5, <2>1, AliasTyped DEF known, old
<1>7. \A d, e \in Companies : companies'[d].name = companies'[e].name => d = e
  BY <1>1, <1>2, <1>3 DEF CrmTypeOK
<1>8. CrmTypeOK'
  BY <1>1, <1>4, <1>6, <1>7 DEF CrmTypeOK, CompanyRow, Rename
<1> QED
  BY <1>8 DEF CrmInv, Rename

\* The operator's form changes no name, and takes no sale back.
LEMMA Updated ==
  ASSUME CrmInv, NEW c \in Companies, NEW s \in Stages, NEW d \in BOOLEAN,
         UpdateOpportunity(c, s, d)
  PROVE  /\ companies' \in [Companies -> CompanyRow]
         /\ \A b \in Companies : /\ companies'[b].name = companies[b].name
                                 /\ companies[b].sold => companies'[b].sold
                                 /\ b # c => companies'[b] = companies[b]
         /\ companies'[c].suppressed = d
<1>1. companies \in [Companies -> CompanyRow]
  BY CompanyRows DEF CrmInv
<1> DEFINE r == companies[c]
           u == (r.sold \/ s = "won")
           q == [r EXCEPT !.stage = s, !.sold = u, !.suppressed = d]
<1>2. companies' = [companies EXCEPT ![c] = q]
  BY <1>1 DEF UpdateOpportunity
<1>3. r \in CompanyRow /\ u \in BOOLEAN /\ (r.sold => u)
  BY <1>1
<1> HIDE DEF u, r
<1>4. q \in CompanyRow /\ q.name = r.name /\ q.sold = u /\ q.suppressed = d
  BY <1>3 DEF CompanyRow
<1> HIDE DEF q
<1> QED
  BY <1>1, <1>2, <1>3, <1>4 DEF r

LEMMA CrmStep == CrmInv /\ [CrmNext]_crmVars => CrmInv'
<1> SUFFICES ASSUME CrmInv, [CrmNext]_crmVars PROVE CrmInv'
  OBVIOUS
<1>1. ASSUME NEW l \in Lists, NEW n \in Names, ResolveNew(l, n) PROVE CrmInv'
  <2>1. "create" \in Actions /\ aliases' \in [Names -> {0} \cup Companies]
    BY <1>1 DEF ResolveNew, Actions, CrmInv, CrmTypeOK
  <2> QED
    BY <1>1, <2>1, ResolveInv DEF ResolveNew
<1>2. ASSUME NEW l \in Lists, NEW n \in Names, NEW c \in Companies, ResolveSame(l, n, c)
      PROVE  CrmInv'
  <2>1. "merge" \in Actions
    BY DEF Actions
  <2>2. aliases \in [Names -> {0} \cup Companies]
    BY DEF CrmInv, CrmTypeOK
  <2>3. aliases' \in [Names -> {0} \cup Companies]
    BY <1>2, <2>2, AliasTyped DEF ResolveSame
  <2> QED
    BY <1>2, <2>1, <2>3, ResolveInv DEF ResolveSame
<1>3. ASSUME NEW c \in Companies, NEW s \in Stages, NEW d \in BOOLEAN, UpdateOpportunity(c, s, d)
      PROVE  CrmInv'
  <2>1. UNCHANGED <<aliases, imports, applying>>
    BY <1>3 DEF UpdateOpportunity
  <2>2. aliases' \in [Names -> {0} \cup Companies]
    BY <2>1 DEF CrmInv, CrmTypeOK
  <2> QED
    BY <1>3, <2>1, <2>2, Updated, CompaniesMove
<1>4. CASE UNCHANGED crmVars
  BY <1>4 DEF crmVars, CrmInv, CrmTypeOK, Companies
<1> QED
  BY <1>1, <1>2, <1>3, <1>4, PayerInv, PreviewInv, ReadPreviewInv, ApplyInv, RenameInv DEF CrmNext

\* No company has another's name, no alias names a company that does not exist, and an import
\* applies the rows of the list it was shown, through any number of concurrent imports.
THEOREM CrmTypeCorrect == CrmSpec => []CrmTypeOK
<1>1. CrmInv => CrmTypeOK
  BY DEF CrmInv
<1> QED
  BY <1>1, CrmStarts, CrmStep, PTL DEF CrmSpec

\* What is known stays known when names stand and aliases are only added.
LEMMA NamesStand ==
  ASSUME CrmTypeOK, CrmTypeOK', Companies \subseteq Companies',
         \A c \in Companies : companies'[c].name = companies[c].name,
         \A n \in Names : aliases[n] # 0 => aliases'[n] # 0
  PROVE  \A n \in Names : Find(n) # 0 => Find(n)' # 0
<1> SUFFICES ASSUME NEW n \in Names, Find(n) # 0 PROVE Find(n)' # 0
  OBVIOUS
<1>1. Named(n) # {} \/ aliases[n] # 0
  BY Finding
<1>2. Named(n) \subseteq Named(n)'
  BY DEF Named
<1>3. 0 \notin Companies'
  BY DEF CrmTypeOK, Companies
<1>4. Named(n)' # {} => Find(n)' \in Companies'
  BY DEF Find, Named
<1>5. Named(n)' = {} => Find(n)' = aliases'[n]
  BY DEF Find
<1> QED
  BY <1>1, <1>2, <1>3, <1>4, <1>5

LEMMA RenameKnows ==
  ASSUME CrmInv, CrmInv', NEW c \in Companies, NEW n \in Names, Rename(c, n)
  PROVE  \A m \in Names : Find(m) # 0 => Find(m)' # 0
<1> SUFFICES ASSUME NEW m \in Names, Find(m) # 0 PROVE Find(m)' # 0
  OBVIOUS
<1> DEFINE old == companies[c].name
           known == [aliases EXCEPT ![n] = 0]
<1>1. CrmTypeOK /\ companies \in [Companies -> CompanyRow] /\ old \in Names /\ 0 \notin Companies
  BY CompanyRows DEF CrmInv, CompanyRow
<1>2. companies' = [companies EXCEPT ![c].name = n] /\ Companies' = Companies
  BY <1>1 DEF Rename, Companies
<1>3. \A d \in Companies : companies'[d].name = IF d = c THEN n ELSE companies[d].name
  BY <1>1, <1>2 DEF CompanyRow
<1>4. Named(m)' = {d \in Companies : (IF d = c THEN n ELSE companies[d].name) = m}
  BY <1>2, <1>3 DEF Named
<1>5. Named(m)' # {} => Find(m)' \in Companies
  BY <1>2 DEF Find, Named
<1>6. Named(m)' = {} => Find(m)' = aliases'[m]
  BY DEF Find
<1>7. aliases' = WithAlias(companies', known, c, old)
  BY DEF Rename
<1>8. known \in [Names -> {0} \cup Companies] /\ \A x \in Names : x # n => known[x] = aliases[x]
  BY <1>1 DEF CrmTypeOK
<1> HIDE DEF known
<1>9. SUFFICES ASSUME Named(m)' = {} PROVE aliases'[m] # 0
  BY <1>1, <1>5, <1>6
<1>10. m # n
  BY <1>4, <1>9
<1>11. CASE m = old
  <2>1. companies'[c].name # old
    BY <1>3, <1>10, <1>11
  <2> HIDE DEF old
  <2> QED
    BY <1>1, <1>7, <1>8, <1>11, <2>1, AliasTyped
<1>12. CASE m # old
  <2>1. Named(m) = {}
    BY <1>4, <1>9, <1>12 DEF Named
  <2>2. known[m] # 0
    BY <1>1, <1>8, <1>10, <2>1, Finding
  <2> HIDE DEF old
  <2> QED
    BY <1>1, <1>7, <1>8, <2>2, AliasTyped
<1> QED
  BY <1>11, <1>12

\* Steps that do not touch the companies but to add to them or to merge into them.
LEMMA StepKnows ==
  ASSUME CrmInv, CrmInv', CrmNext
  PROVE  \A n \in Names : Find(n) # 0 => Find(n)' # 0
<1> USE DEF CrmInv
<1>1. companies \in [Companies -> CompanyRow] /\ companies \in Seq(CompanyRow)
      /\ Len(companies) \in Nat /\ Companies = 1 .. Len(companies)
  BY CompanyRows
<1>2. ASSUME NEW n \in Names, Intake(n)
      PROVE  \A m \in Names : Find(m) # 0 => Find(m)' # 0
  <2>1. CASE Find(n) # 0
    <3> DEFINE c == Find(n)
    <3>1. c \in Companies
      BY <2>1, Finding
    <3>2. companies' = [companies EXCEPT ![c].stage = "won", ![c].sold = TRUE]
      BY <1>2, <2>1 DEF Intake
    <3> HIDE DEF c
    <3>3. /\ Companies' = Companies /\ aliases' = aliases
          /\ \A d \in Companies : companies'[d].name = companies[d].name
      <4>1. aliases' = aliases
        BY <1>2 DEF Intake
      <4>2. DOMAIN companies' = DOMAIN companies
        BY <3>2
      <4>3. \A d \in Companies : companies'[d].name = companies[d].name
        BY <1>1, <3>1, <3>2 DEF CompanyRow
      <4> QED
        BY <4>1, <4>2, <4>3 DEF Companies
    <3> QED
      BY <3>3, NamesStand
  <2>2. CASE Find(n) = 0
    <3> DEFINE r == [name |-> n, stage |-> "won", sold |-> TRUE, suppressed |-> FALSE]
    <3>1. companies' = Append(companies, r) /\ aliases' = aliases
      BY <1>2, <2>2 DEF Intake
    <3> HIDE DEF r
    <3>2. Companies' = 1 .. Len(companies) + 1 /\ \A c \in Companies : companies'[c] = companies[c]
      BY <1>1, <3>1 DEF Companies
    <3>3. Companies \subseteq Companies'
      BY <1>1, <3>2
    <3> QED
      BY <3>1, <3>2, <3>3, NamesStand
  <2> QED
    BY <2>1, <2>2
<1>3. ASSUME UNCHANGED companies, \A n \in Names : aliases[n] # 0 => aliases'[n] # 0
      PROVE  \A m \in Names : Find(m) # 0 => Find(m)' # 0
  BY <1>3, NamesStand DEF Companies
<1>4. ASSUME NEW l \in Lists, NEW n \in Names, NEW c \in Companies, ResolveSame(l, n, c)
      PROVE  \A m \in Names : Find(m) # 0 => Find(m)' # 0
  <2>1. aliases \in [Names -> {0} \cup Companies]
    BY DEF CrmTypeOK
  <2>2. aliases' = WithAlias(companies, aliases, c, n) /\ UNCHANGED companies
    BY <1>4 DEF ResolveSame
  <2>3. \A m \in Names : aliases[m] # 0 => aliases'[m] # 0
    BY <2>1, <2>2 DEF WithAlias
  <2> QED
    BY <1>3, <2>2, <2>3
<1>5. ASSUME NEW i \in Importers, Apply(i)
      PROVE  \A m \in Names : Find(m) # 0 => Find(m)' # 0
  <2>1. Companies \subseteq Companies' /\ aliases' = aliases
        /\ \A c \in Companies : companies'[c].name = companies[c].name
    BY <1>5, Applied DEF Apply
  <2> QED
    BY <2>1, NamesStand
<1>6. ASSUME NEW c \in Companies, NEW s \in Stages, NEW d \in BOOLEAN, UpdateOpportunity(c, s, d)
      PROVE  \A m \in Names : Find(m) # 0 => Find(m)' # 0
  <2>1. /\ companies' \in [Companies -> CompanyRow] /\ aliases' = aliases
        /\ \A b \in Companies : companies'[b].name = companies[b].name
    BY <1>6, Updated DEF UpdateOpportunity
  <2>2. Companies' = Companies
    BY <2>1, SameLength
  <2> QED
    BY <2>1, <2>2, NamesStand
<1>7. ASSUME NEW l \in Lists, Preview(l) PROVE \A m \in Names : Find(m) # 0 => Find(m)' # 0
  BY <1>3, <1>7 DEF Preview
<1>8. ASSUME NEW l \in Lists, NEW n \in Names, ResolveNew(l, n)
      PROVE  \A m \in Names : Find(m) # 0 => Find(m)' # 0
  BY <1>3, <1>8 DEF ResolveNew
<1>9. ASSUME NEW i \in Importers, NEW l \in Lists, ReadPreview(i, l)
      PROVE  \A m \in Names : Find(m) # 0 => Find(m)' # 0
  BY <1>3, <1>9 DEF ReadPreview
<1>10. ASSUME NEW c \in Companies, NEW n \in Names, Rename(c, n)
       PROVE  \A m \in Names : Find(m) # 0 => Find(m)' # 0
  BY <1>10, RenameKnows
<1> QED
  BY <1>2, <1>4, <1>5, <1>6, <1>7, <1>8, <1>9, <1>10 DEF CrmNext

\* No rename, answer, import or payment makes a name unknown that was known: the next payment
\* under it lands on a company there is.
THEOREM KnownNamesStayKnownHolds == CrmSpec => KnownNamesStayKnown
<1>1. CrmInv /\ CrmInv' /\ [CrmNext]_crmVars
        => [\A n \in Names : Find(n) # 0 => Find(n)' # 0]_crmVars
  BY StepKnows
<1> QED
  BY <1>1, CrmStarts, CrmStep, PTL DEF CrmSpec, KnownNamesStayKnown

LEMMA StepLifts ==
  ASSUME CrmInv, CrmNext
  PROVE  \A c \in Companies :
           /\ companies[c].sold => companies'[c].sold
           /\ companies[c].suppressed /\ ~companies'[c].suppressed
                => \E s \in Stages : UpdateOpportunity(c, s, FALSE)
<1> USE DEF CrmInv
<1> DEFINE Lifted == \A c \in Companies :
             /\ companies[c].sold => companies'[c].sold
             /\ companies[c].suppressed /\ ~companies'[c].suppressed
                  => \E s \in Stages : UpdateOpportunity(c, s, FALSE)
<1>1. companies \in [Companies -> CompanyRow] /\ companies \in Seq(CompanyRow)
      /\ Len(companies) \in Nat /\ Companies = 1 .. Len(companies)
  BY CompanyRows
<1>2. ASSUME NEW n \in Names, Intake(n) PROVE Lifted
  <2>1. CASE Find(n) # 0
    <3> DEFINE c == Find(n)
    <3>1. c \in Companies
      BY <2>1, Finding
    <3>2. companies' = [companies EXCEPT ![c].stage = "won", ![c].sold = TRUE]
      BY <1>2, <2>1 DEF Intake
    <3> HIDE DEF c
    <3>3. \A d \in Companies : /\ companies[d].sold => companies'[d].sold
                               /\ companies'[d].suppressed = companies[d].suppressed
      BY <1>1, <3>1, <3>2 DEF CompanyRow
    <3> QED
      BY <3>3
  <2>2. CASE Find(n) = 0
    <3> DEFINE r == [name |-> n, stage |-> "won", sold |-> TRUE, suppressed |-> FALSE]
    <3>1. companies' = Append(companies, r)
      BY <1>2, <2>2 DEF Intake
    <3> HIDE DEF r
    <3>2. \A c \in Companies : companies'[c] = companies[c]
      BY <1>1, <3>1
    <3> QED
      BY <3>2
  <2> QED
    BY <2>1, <2>2
<1>3. ASSUME UNCHANGED companies PROVE Lifted
  BY <1>3
<1>4. ASSUME NEW i \in Importers, Apply(i) PROVE Lifted
  BY <1>4, Applied
<1>5. ASSUME NEW c \in Companies, NEW n \in Names, Rename(c, n) PROVE Lifted
  <2>1. companies' = [companies EXCEPT ![c].name = n]
    BY <1>5 DEF Rename
  <2>2. \A d \in Companies : /\ companies'[d].sold = companies[d].sold
                             /\ companies'[d].suppressed = companies[d].suppressed
    BY <1>1, <2>1 DEF CompanyRow
  <2> QED
    BY <2>2
<1>6. ASSUME NEW c \in Companies, NEW s \in Stages, NEW d \in BOOLEAN, UpdateOpportunity(c, s, d)
      PROVE  Lifted
  <2>1. /\ \A b \in Companies : /\ companies[b].sold => companies'[b].sold
                                /\ b # c => companies'[b] = companies[b]
        /\ companies'[c].suppressed = d
    BY <1>6, Updated
  <2>2. CASE d = FALSE
    <3>1. UpdateOpportunity(c, s, FALSE)
      BY <1>6, <2>2
    <3> QED
      BY <2>1, <3>1
  <2>3. CASE d = TRUE
    BY <2>1, <2>3
  <2> QED
    BY <2>2, <2>3
<1> HIDE DEF Lifted
<1>7. Lifted
  BY <1>2, <1>3, <1>4, <1>5, <1>6
     DEF CrmNext, Preview, ResolveNew, ResolveSame, ReadPreview
<1> QED
  BY <1>7 DEF Lifted

\* A company leaves the do-not-contact list only by the operator's own form, and what was sold
\* stays sold, whatever payments, renames and imports of older lists follow.
THEOREM OnlyTheOperatorLiftsHolds == CrmSpec => OnlyTheOperatorLifts
<1>1. CrmInv /\ [CrmNext]_crmVars
        => [\A c \in Companies :
              /\ companies[c].sold => companies'[c].sold
              /\ companies[c].suppressed /\ ~companies'[c].suppressed
                   => \E s \in Stages : UpdateOpportunity(c, s, FALSE)]_crmVars
  BY StepLifts
<1> QED
  BY <1>1, CrmStarts, CrmStep, PTL DEF CrmSpec, OnlyTheOperatorLifts

-----------------------------------------------------------------------------
(* The office as a whole.                                                  *)

LEMMA OfficeStart ==
  OfficeInit => /\ Init /\ ConnInit /\ AccessInit /\ AccountsInit /\ CrmInit /\ RetentionInit
                /\ ReviewInit
  BY DEF OfficeInit

LEMMA OfficeSteps ==
  [OfficeNext]_officeVars => /\ [Next]_vars /\ [ConnNext]_connVars /\ [AccessNext]_accessVars
                             /\ [AccountsNext]_accountVars /\ [CrmNext]_crmVars
                             /\ [RetentionNext]_retentionVars /\ [ReviewNext]_reviewVars
<1> SUFFICES ASSUME [OfficeNext]_officeVars
             PROVE  /\ [Next]_vars /\ [ConnNext]_connVars /\ [AccessNext]_accessVars
                    /\ [AccountsNext]_accountVars /\ [CrmNext]_crmVars
                    /\ [RetentionNext]_retentionVars /\ [ReviewNext]_reviewVars
  OBVIOUS
<1>1. CASE IntakeMoves
  BY <1>1 DEF IntakeMoves
<1>2. CASE ConnectionMoves
  BY <1>2 DEF ConnectionMoves
<1>3. CASE AccessMoves
  BY <1>3 DEF AccessMoves
<1>4. CASE AccountsMove
  BY <1>4 DEF AccountsMove
<1>5. CASE RecordsMove
  BY <1>5 DEF RecordsMove
<1>6. CASE RetentionMoves
  BY <1>6 DEF RetentionMoves
<1>7. CASE ReviewMoves
  BY <1>7 DEF ReviewMoves
<1>8. CASE UNCHANGED officeVars
  BY <1>8 DEF officeVars
<1> QED
  BY <1>1, <1>2, <1>3, <1>4, <1>5, <1>6, <1>7, <1>8 DEF OfficeNext

\* Whatever parts of the office move, each one behaves as if it were alone.  What the intake's
\* specification assumes besides, that requests are served, is not for the office to keep.
THEOREM OfficeKeepsItsParts ==
  OfficeSpec => /\ Init /\ [][Next]_vars
                /\ ConnSpec /\ AccessSpec /\ AccountsSpec /\ CrmSpec /\ RetentionSpec
                /\ ReviewSpec
  BY OfficeStart, OfficeSteps, PTL
     DEF OfficeSpec, ConnSpec, AccessSpec, AccountsSpec, CrmSpec, RetentionSpec,
         ReviewSpec

\* The intake's invariant needs none of its fairness.
LEMMA IntakeWithoutFairness == Init /\ [][Next]_vars => []IntakeInv
  BY InitInv, NextInv, PTL

LEMMA IntakeShows == IntakeInv => TypeOK /\ OneUploadPerPayment /\ PurgedFilesAreGone
  BY DEF IntakeInv

\* Every row of every part of the office is of its type.
THEOREM OfficeTypeCorrect == OfficeSpec => []OfficeTypeOK
<1>1. TypeOK /\ ConnTypeOK /\ AccessTypeOK /\ AccountsTypeOK /\ CrmTypeOK /\ RetentionTypeOK
    /\ ReviewTypeOK => OfficeTypeOK
  BY DEF OfficeTypeOK
<1> QED
  BY <1>1, OfficeKeepsItsParts, IntakeWithoutFairness, IntakeShows, ConnectionTypeCorrect,
     AccessTypeCorrect, AccountsTypeCorrect, CrmTypeCorrect, RetentionTypeCorrect,
     ReviewTypeCorrect, PTL

\* What is proved of each part alone holds of the office as the runs explore it.
THEOREM OfficeIsSafe ==
  OfficeSpec => /\ []OneUploadPerPayment /\ []PurgedFilesAreGone /\ []ActiveMeansUsable
                /\ []MailedClientsCanEnter /\ []ActiveSecretIsHeld /\ []GoneWhenPromised
                /\ []OneDraftPerVersion /\ []EditorNeverApproves
                /\ KnownNamesStayKnown /\ OnlyTheOperatorLifts /\ DraftsAreNeverRewritten
<1>1. OfficeSpec => []OneUploadPerPayment /\ []PurgedFilesAreGone /\ []ActiveMeansUsable
  BY OfficeKeepsItsParts, IntakeWithoutFairness, IntakeShows, ActiveConnectionsUsable, PTL
<1>2. OfficeSpec => []MailedClientsCanEnter /\ []ActiveSecretIsHeld /\ []GoneWhenPromised
  BY OfficeKeepsItsParts, MailedClientsEnter, ActiveSecretIsHeldHolds, PurgedAsPromised
<1>3. OfficeSpec => KnownNamesStayKnown /\ OnlyTheOperatorLifts
  BY OfficeKeepsItsParts, KnownNamesStayKnownHolds, OnlyTheOperatorLiftsHolds
<1>4. OfficeSpec => []OneDraftPerVersion /\ []EditorNeverApproves /\ DraftsAreNeverRewritten
  BY OfficeKeepsItsParts, OneDraftPerVersionHolds, EditorNeverApprovesHolds,
     DraftsAreNeverRewrittenHolds
<1> QED
  BY <1>1, <1>2, <1>3, <1>4

=============================================================================

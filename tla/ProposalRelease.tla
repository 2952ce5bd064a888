--------------------------- MODULE ProposalRelease ---------------------------
(***************************************************************************)
(* The release of approved proposals to QuickBooks: execute_saved and      *)
(* execute (work_engine.py), the bounded retries of the adapter's _request *)
(* (qbo_adapter.py), the rows of bookkeeping_executions, the provider that *)
(* answers them, and the review of ReviewDecisions going on beside it.     *)
(*                                                                         *)
(* A release runs on a server thread.  It holds no lock while it talks to  *)
(* the provider: a request can be applied and its answer lost, applied     *)
(* after the client gave up on it, or never arrive; the process can die    *)
(* between any two steps; the client's own bookkeeper edits the same       *)
(* records.                                                                *)
(***************************************************************************)
EXTENDS ReviewDecisions

CONSTANTS
  Releasers,     \* users whose role is owner or operator
  Workers,       \* server threads that serve release requests
  Objects,       \* the provider's existing records that proposals update
  TargetOf,      \* target_provider_id: an object, or None for a create
  Current,       \* current_json: the value each proposal's review started from
  MaxAttempts,   \* max_attempts of execute (4 in the code)
  HttpAttempts,  \* attempts of _request (3 in the code)
  Crashes,       \* whether the process may die
  MaxToken       \* bound: the bookkeeper edits an object only below this token

ASSUME ReleaseAssumption ==
  /\ Releasers \subseteq Users
  /\ TargetOf \in [Proposals -> Objects \cup {None}]
  /\ None \notin Objects
  /\ Current \in [Proposals -> Payloads]
  /\ MaxAttempts \in Nat \ {0}
  /\ HttpAttempts \in Nat \ {0}
  /\ Crashes \in BOOLEAN
  /\ MaxToken \in Nat

VARIABLES
  executions,  \* bookkeeping_executions, at most one row per proposal
  worker,      \* the release each thread serves
  book,        \* the provider's records and their SyncTokens
  wire,        \* writes the client gave up on that may still arrive
  writes       \* the writes the provider applied, by requestid

releaseVars == <<executions, worker, book, wire, writes>>
vars == <<reviewVars, releaseVars>>

-----------------------------------------------------------------------------
\* One active user holding any of the three roles; writes are sandbox-only, so
\* the environment half of the route's condition always holds where a write can.
SingleOperator == Cardinality(Reviewers \cup Releasers) <= 1

IsUpdate(p) == TargetOf[p] # None

\* Faults: a key of its own for every attempt; a key made from the payload.
KeyPerAttempt(m) == <<m.proposal, m.attempt>>
KeyOfPayload(m) == <<m.proposal, m.payload>>
IdempotencyKey(m) == <<m.proposal, m.version>>

ExecutionRow(st, m, a) ==
  [ status |-> st, key |-> IdempotencyKey(m), payload |-> m.payload,
    executedBy |-> m.user, approvedBy |-> a, separated |-> a # m.user ]

Release ==
  [ pc       : {"requested", "row", "prior", "writing", "stale",
                "verifying", "verified", "failed"},
    user     : Users,
    proposal : Proposals,
    approved : BOOLEAN,               \* the row's status, as read
    version  : Nat,                   \* its version and payload, as read
    payload  : Payloads \cup {None},
    prior    : BOOLEAN,               \* whether an execution row was found
    token    : Nat,                   \* the SyncToken the next write carries
    attempt  : Nat,
    tries    : Nat ]

Working(w) == worker[w] # Idle

Move(w, pc) == worker' = [worker EXCEPT ![w].pc = pc]
Leave(w) == worker' = [worker EXCEPT ![w] = Idle]

ReleaseInit ==
  /\ ReviewInit
  /\ executions = [p \in Proposals |-> None]
  /\ worker = [w \in Workers |-> Idle]
  /\ book \in [Objects -> [value : Payloads, token : {0}]]
  /\ \A p \in Proposals : IsUpdate(p) => book[TargetOf[p]].value = Current[p]
  /\ wire = {}
  /\ writes = {}

-----------------------------------------------------------------------------
\* The page offers the release form for an approved proposal.
OpenRelease(w, u, p) ==
  /\ ~Working(w)
  /\ status[p] = "approved"
  /\ worker' = [worker EXCEPT ![w] =
       [ pc |-> "requested", user |-> u, proposal |-> p, approved |-> FALSE, version |-> 0,
         payload |-> None, prior |-> FALSE, token |-> 0, attempt |-> 0, tries |-> 0 ]]
  /\ UNCHANGED <<reviewVars, executions, book, wire, writes>>

\* execute_saved reads the proposal, then the prior execution.
ReadRow(w) ==
  /\ Working(w)
  /\ worker[w].pc = "requested"
  /\ LET p == worker[w].proposal IN
     worker' = [worker EXCEPT
       ![w].pc = "row", ![w].approved = (status[p] = "approved"),
       ![w].version = version[p], ![w].payload = proposed[p]]
  /\ UNCHANGED <<reviewVars, executions, book, wire, writes>>

PriorStatus(p) == IF executions[p] = None THEN "none" ELSE executions[p].status

ReadPrior(w) ==
  /\ Working(w)
  /\ worker[w].pc = "row"
  /\ worker[w].approved
  /\ PriorStatus(worker[w].proposal) # "verified"
  /\ worker' = [worker EXCEPT
       ![w].pc = "prior", ![w].prior = (executions[worker[w].proposal] # None)]
  /\ UNCHANGED <<reviewVars, executions, book, wire, writes>>

\* A verified execution is read back and returned, whatever the proposal's status;
\* otherwise the status as read must be approved.
ReplayOrRefuse(w) ==
  /\ Working(w)
  /\ worker[w].pc = "row"
  /\ ~worker[w].approved \/ PriorStatus(worker[w].proposal) = "verified"
  /\ Leave(w)
  /\ UNCHANGED <<reviewVars, executions, book, wire, writes>>

-----------------------------------------------------------------------------
\* The approver of the version as read, and the separation of duties.
\* Fault: an approval of any version will do.
ApprovedOnce(p, v, a) == \E b \in approvals :
  b.proposal = p /\ b.decision = "approve" /\ b.actor = a
ApprovedBy(p, v, a) == Decision(p, v, "approve", a) \in approvals

\* Fault: the approver may release.
MayReleaseOwn(r, a) == ApprovedBy(r.proposal, r.version, a)

MayRelease(r, a) ==
  /\ ApprovedBy(r.proposal, r.version, a)
  /\ a # r.user \/ SingleOperator

\* The started execution is recorded and committed before the first request.  A row
\* found earlier is updated but keeps the key and the payload hash it was born with.
StartExecution(w) ==
  /\ Working(w)
  /\ worker[w].pc = "prior"
  /\ \E a \in Users :
       LET r == worker[w] IN
       /\ MayRelease(r, a)
       /\ \/ /\ ~r.prior
             /\ executions[r.proposal] = None
             /\ executions' = [executions EXCEPT ![r.proposal] = ExecutionRow("started", r, a)]
          \/ /\ r.prior
             /\ executions' = [executions EXCEPT
                  ![r.proposal].status = "started", ![r.proposal].executedBy = r.user,
                  ![r.proposal].approvedBy = a, ![r.proposal].separated = (a # r.user)]
  /\ worker' = [worker EXCEPT ![w].pc = "writing", ![w].attempt = 1, ![w].tries = 1]
  /\ UNCHANGED <<reviewVars, book, wire, writes>>

\* PermissionError; or the row another release inserted meanwhile (IntegrityError);
\* or the database locked past busy_timeout.  Nothing is written.
RefuseRelease(w) ==
  /\ Working(w)
  /\ worker[w].pc = "prior"
  /\ \/ \A a \in Users : ~MayRelease(worker[w], a)
     \/ ~worker[w].prior /\ executions[worker[w].proposal] # None
     \/ LockTimeouts
  /\ Leave(w)
  /\ UNCHANGED <<reviewVars, executions, book, wire, writes>>

-----------------------------------------------------------------------------
\* The provider.  A requestid it has applied is answered with the stored result; an
\* update applies only under the record's present SyncToken.
WriteRequest(r) ==
  [ proposal |-> r.proposal, version |-> r.version, payload |-> r.payload,
    token |-> r.token, user |-> r.user, key |-> IdempotencyKey(r) ]

Applied(m) == \E e \in writes : e.key = m.key

TokenCurrent(m) == IsUpdate(m.proposal) => m.token = book[TargetOf[m.proposal]].token

Applies(m) == ~Applied(m) /\ TokenCurrent(m)

WriteRecord(m) ==
  [ proposal |-> m.proposal, version |-> m.version, payload |-> m.payload,
    releaser |-> m.user, key |-> m.key,
    before |-> IF IsUpdate(m.proposal) THEN book[TargetOf[m.proposal]].value ELSE None ]

ProviderHandles(m) ==
  IF Applies(m)
  THEN /\ writes' = writes \cup {WriteRecord(m)}
       /\ IF IsUpdate(m.proposal)
          THEN book' = [book EXCEPT ![TargetOf[m.proposal]] =
                          [value |-> m.payload, token |-> @.token + 1]]
          ELSE UNCHANGED book
  ELSE UNCHANGED <<book, writes>>

-----------------------------------------------------------------------------
\* One HTTP attempt of _request, its answer received: the result, or a stale token.
PostAnswered(w) ==
  /\ Working(w)
  /\ worker[w].pc = "writing"
  /\ LET m == WriteRequest(worker[w]) IN
     /\ ProviderHandles(m)
     /\ Move(w, IF Applied(m) \/ TokenCurrent(m) THEN "verifying" ELSE "stale")
  /\ UNCHANGED <<reviewVars, executions, wire>>

\* The next iteration of execute's loop, or the end of it.
\* Fault: an uncertain write is tried again without being counted.
NextAttemptUncounted(w) ==
  worker' = [worker EXCEPT ![w].pc = "writing", ![w].tries = 1]

NextAttempt(w) ==
  IF worker[w].attempt < MaxAttempts
  THEN worker' = [worker EXCEPT ![w].pc = "writing", ![w].attempt = @ + 1, ![w].tries = 1]
  ELSE Move(w, "failed")

\* 401 or 429 or 5xx, retried inside _request while attempts remain; a timeout,
\* which execute answers with a new attempt under the same key; any other error.
\* Fault: a timeout is taken for success.
SetbackIgnored(w) == Move(w, "verifying")

Setback(w) ==
  \/ /\ worker[w].tries < HttpAttempts
     /\ worker' = [worker EXCEPT ![w].tries = @ + 1]
  \/ NextAttempt(w)
  \/ Move(w, "failed")

\* One HTTP attempt whose result the client never learns: the provider has handled
\* it, will handle it later, or never receives it.
PostUnanswered(w) ==
  /\ Working(w)
  /\ worker[w].pc = "writing"
  /\ LET m == WriteRequest(worker[w]) IN
     \/ ProviderHandles(m) /\ wire' = wire
     \/ wire' \in {wire, wire \cup {m}} /\ UNCHANGED <<book, writes>>
  /\ Setback(w)
  /\ UNCHANGED <<reviewVars, executions>>

LateArrival(m) ==
  /\ ProviderHandles(m)
  /\ wire' = wire \ {m}
  /\ UNCHANGED <<reviewVars, executions, worker>>

\* StaleObjectError: re-read the target; only if the reviewed fields still hold their
\* reviewed values does the next attempt take the new token.
\* Fault: the fresh token is taken without comparing the reviewed fields.
RecoverBlindly(w) ==
  /\ Working(w)
  /\ worker[w].pc = "stale"
  /\ worker' = [worker EXCEPT ![w].pc = "writing", ![w].tries = 1,
                              ![w].token = book[TargetOf[worker[w].proposal]].token]
  /\ UNCHANGED <<reviewVars, executions, book, wire, writes>>

RecoverStale(w) ==
  /\ Working(w)
  /\ worker[w].pc = "stale"
  /\ LET o == TargetOf[worker[w].proposal] IN
     /\ book[o].value = Current[worker[w].proposal]
     /\ IF worker[w].attempt < MaxAttempts
        THEN worker' = [worker EXCEPT ![w].pc = "writing", ![w].attempt = @ + 1,
                                      ![w].tries = 1, ![w].token = book[o].token]
        ELSE Move(w, "failed")
  /\ UNCHANGED <<reviewVars, executions, book, wire, writes>>

\* "requires fresh review", or the read failed.
AbandonStale(w) ==
  /\ Working(w)
  /\ worker[w].pc = "stale"
  /\ Move(w, "failed")
  /\ UNCHANGED <<reviewVars, executions, book, wire, writes>>

\* The read-back matches the payload this release sent.  A created record is out of
\* anyone's sight but the bookkeeper's, who may have changed it (VerifyFails).
VerifyMatches(w) ==
  /\ Working(w)
  /\ worker[w].pc = "verifying"
  /\ IsUpdate(worker[w].proposal)
       => book[TargetOf[worker[w].proposal]].value = worker[w].payload
  /\ Move(w, "verified")
  /\ UNCHANGED <<reviewVars, executions, book, wire, writes>>

\* It differs, or could not be read.
VerifyFails(w) ==
  /\ Working(w)
  /\ worker[w].pc = "verifying"
  /\ Move(w, "failed")
  /\ UNCHANGED <<reviewVars, executions, book, wire, writes>>

-----------------------------------------------------------------------------
\* Fault: the exception is raised without recording it.
RaiseUnrecorded(w) ==
  /\ Working(w)
  /\ worker[w].pc = "failed"
  /\ Leave(w)
  /\ UNCHANGED <<reviewVars, executions, book, wire, writes>>

RecordFailure(w) ==
  /\ Working(w)
  /\ worker[w].pc = "failed"
  /\ executions' = [executions EXCEPT ![worker[w].proposal].status = "failed"]
  /\ Leave(w)
  /\ UNCHANGED <<reviewVars, book, wire, writes>>

\* One transaction: the execution and the proposal, both updated by id alone.
RecordVerified(w) ==
  /\ Working(w)
  /\ worker[w].pc = "verified"
  /\ executions' = [executions EXCEPT ![worker[w].proposal].status = "verified"]
  /\ status' = [status EXCEPT ![worker[w].proposal] = "verified"]
  /\ Leave(w)
  /\ UNCHANGED <<version, proposed, approvals, request, drafts, book, wire, writes>>

\* The outcome could not be recorded: the database was locked past busy_timeout.
LoseOutcome(w) ==
  /\ LockTimeouts
  /\ Working(w)
  /\ worker[w].pc \in {"failed", "verified"}
  /\ Leave(w)
  /\ UNCHANGED <<reviewVars, executions, book, wire, writes>>

-----------------------------------------------------------------------------
\* The process dies and comes back: every request in progress is gone, the rows and
\* the provider's state stay, and so does what is still on its way there.
Crash ==
  /\ Crashes
  /\ request' = [t \in Threads |-> Idle]
  /\ worker' = [w \in Workers |-> Idle]
  /\ UNCHANGED <<status, version, proposed, approvals, drafts,
                 executions, book, wire, writes>>

\* The client's bookkeeper edits a record in QuickBooks, a reviewed field or another.
BookkeeperEdits(o, x) ==
  /\ book[o].token < MaxToken
  /\ book' = [book EXCEPT ![o] = [value |-> x, token |-> @.token + 1]]
  /\ UNCHANGED <<reviewVars, executions, worker, wire, writes>>

-----------------------------------------------------------------------------
Work(w) ==
  \/ ReadRow(w)
  \/ ReadPrior(w)
  \/ ReplayOrRefuse(w)
  \/ StartExecution(w)
  \/ RefuseRelease(w)
  \/ PostAnswered(w)
  \/ PostUnanswered(w)
  \/ RecoverStale(w)
  \/ AbandonStale(w)
  \/ VerifyMatches(w)
  \/ VerifyFails(w)
  \/ RecordFailure(w)
  \/ RecordVerified(w)
  \/ LoseOutcome(w)

Next ==
  \/ ReviewNext /\ UNCHANGED releaseVars
  \/ \E w \in Workers : \/ \E u \in Releasers, p \in Proposals : OpenRelease(w, u, p)
                        \/ Work(w)
  \/ \E m \in wire : LateArrival(m)
  \/ \E o \in Objects, x \in Payloads : BookkeeperEdits(o, x)
  \/ Crash

\* A thread runs the release it has taken, and every HTTP call ends by its timeout.
\* The users, the bookkeeper and the network owe nothing.
Fairness == \A w \in Workers : WF_vars(Work(w))

Spec == ReleaseInit /\ [][Next]_vars /\ Fairness

-----------------------------------------------------------------------------
Execution ==
  [ status : {"started", "verified", "failed"}, key : Proposals \X Nat,
    payload : Payloads, executedBy : Users, approvedBy : Users, separated : BOOLEAN ]

Message ==
  [ proposal : Proposals, version : Nat, payload : Payloads, token : Nat,
    user : Users, key : Proposals \X Nat ]

AppliedWrite ==
  [ proposal : Proposals, version : Nat, payload : Payloads, releaser : Users,
    key : Proposals \X Nat, before : Payloads \cup {None} ]

ReleaseTypeOK ==
  /\ executions \in [Proposals -> {None} \cup Execution]
  /\ worker \in [Workers -> {Idle} \cup Release]
  /\ book \in [Objects -> [value : Payloads, token : Nat]]
  /\ wire \subseteq Message
  /\ writes \subseteq AppliedWrite

TypeOK == ReviewTypeOK /\ ReleaseTypeOK
-----------------------------------------------------------------------------
\* The approval gate (README.md:203, execute_saved): whatever was applied in
\* QuickBooks, by a first attempt, a retry, a late arrival or after a crash, is the
\* payload of a version that a reviewer other than its author approved and that a
\* user other than that reviewer released, unless the company has one operator.
EveryWriteApproved ==
  \A e \in writes :
    \E a \in Users :
      /\ ApprovedBy(e.proposal, e.version, a)
      /\ a # e.releaser \/ SingleOperator
      /\ \E d \in drafts : /\ d.proposal = e.proposal
                           /\ d.version = e.version
                           /\ d.payload = e.payload
                           /\ d.author # a

\* One approved version is applied at most once, however often its release is
\* retried, by whom, and however late its requests arrive: every attempt carries
\* the same requestid.
OneWritePerApproval ==
  \A e, f \in writes :
    e.proposal = f.proposal /\ e.version = f.version => e = f

\* An update is applied only to the value its review started from: what the
\* bookkeeper or another proposal changed in the meantime is never overwritten,
\* not even by the retry that takes a fresh SyncToken.
NoLostUpdate ==
  \A e \in writes : IsUpdate(e.proposal) => e.before = Current[e.proposal]

\* "Verified", on the proposal or on its execution, is said only of a proposal that
\* has been applied in QuickBooks; answers that were lost say nothing either way.
VerifiedWasWritten ==
  \A p \in Proposals :
    status[p] = "verified" \/ PriorStatus(p) = "verified"
      => \E e \in writes : e.proposal = p

\* A release comes to an end, whatever the provider answers and whoever else
\* releases the same proposal.
ReleasesEnd == \A w \in Workers : Working(w) ~> ~Working(w)

\* With no crash and no lock held past busy_timeout, an execution on record as
\* started is settled as failed or verified: no answer leaves it hanging.
StartedExecutionsSettle ==
  \A p \in Proposals : PriorStatus(p) = "started" ~> PriorStatus(p) # "started"

\* The release keeps the promise of ApprovedWrites.
Promise == INSTANCE ApprovedWrites WITH
  approved <- {[proposal |-> a.proposal, version |-> a.version, actor |-> a.actor] :
                 a \in {b \in approvals : b.decision = "approve"}},
  ledger <- {[proposal |-> e.proposal, version |-> e.version,
              payload |-> e.payload, releaser |-> e.releaser] : e \in writes}

\* Every step of review and release is a step of the promise or none of it: drafts
\* are only added, an approval is of a draft that exists and by another person, and
\* a write is of an approved draft that has not been written.
KeepsThePromise == Promise!Spec

-----------------------------------------------------------------------------
\* What the repository says of releases and the code does not do.

\* "re-reads the record from QuickBooks and compares it to what was approved before
\* marking it verified" (README.md:206): a verified proposal's present version is the
\* one that was written.
VerifiedMeansApprovedPayload ==
  \A p \in Proposals :
    status[p] = "verified"
      => \E e \in writes : e.proposal = p /\ e.version = version[p]

\* "one provider write per approved proposal"
\* (docs/BOOKKEEPING_WORK_ENGINE_V0.md:61).
OneWritePerProposal ==
  \A e, f \in writes : e.proposal = f.proposal => e = f

=============================================================================

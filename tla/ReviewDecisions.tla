--------------------------- MODULE ReviewDecisions ---------------------------
(***************************************************************************)
(* The review of bookkeeping proposals: the rows of bookkeeping_proposals  *)
(* and bookkeeping_approvals, and the HTTP requests that decide them.      *)
(*                                                                         *)
(* A request runs on a thread of its own with a connection of its own.     *)
(* SQLite makes every SELECT a read of its own and every run of DML up to  *)
(* commit() one transaction, so a decision is two steps, ReadProposal and  *)
(* CommitDecision, and other requests may run between them.  A batch is    *)
(* one fingerprint check per proposal followed by one such decision per    *)
(* proposal, each with its own commit.                                     *)
(*                                                                         *)
(* A payload stands for proposed_json, and for the fingerprint of the diff *)
(* it makes against current_json, which a decision never changes.          *)
(***************************************************************************)
EXTENDS Naturals, FiniteSets

CONSTANTS
  Proposals,     \* proposal ids
  Users,         \* active users
  Reviewers,     \* those whose role is owner or reviewer
  Payloads,      \* the values proposed_json can take
  Drafted,       \* the payload the analysis wrote for each proposal
  Threads,       \* server threads that serve decision requests
  None,          \* no user, no proposal, no payload
  Verdicts,      \* bound: the decisions other than edits that reviewers take
  LockTimeouts,  \* whether another writer may hold the database past busy_timeout
  MaxVersion     \* bound: no edit form is opened that could pass this version

ASSUME ReviewAssumption ==
  /\ Reviewers \subseteq Users
  /\ Drafted \in [Proposals -> Payloads]
  /\ Verdicts \subseteq {"approve", "reject", "escalate"}
  /\ LockTimeouts \in BOOLEAN
  /\ MaxVersion \in Nat \ {0}
  /\ None \notin Users \cup Proposals \cup Payloads

VARIABLES
  status,     \* bookkeeping_proposals.status
  version,    \* bookkeeping_proposals.version
  proposed,   \* bookkeeping_proposals.proposed_json
  approvals,  \* the rows of bookkeeping_approvals
  request,    \* the decision request each thread serves
  drafts      \* history: every payload a proposal has held, with its author

reviewVars == <<status, version, proposed, approvals, request, drafts>>

-----------------------------------------------------------------------------
TRANSITIONS ==
  [ detected   |-> {"proposed"},
    proposed   |-> {"reviewed", "rejected", "escalated"},
    reviewed   |-> {"approved", "rejected", "escalated", "proposed"},
    approved   |-> {"executed", "escalated"},
    executed   |-> {"verified"},
    verified   |-> {"reconciled"},
    reconciled |-> {},
    rejected   |-> {},
    escalated  |-> {} ]

Statuses == DOMAIN TRANSITIONS
Pending == {"proposed", "reviewed"}   \* the page offers a decision form

\* The status a decision leaves behind.
Target == [ approve |-> "approved", edit |-> "proposed",
            reject |-> "rejected", escalate |-> "escalated" ]

Decisions == DOMAIN Target

Decision(p, v, d, u) ==
  [proposal |-> p, version |-> v, decision |-> d, actor |-> u]

Draft(p, v, x, u) ==
  [proposal |-> p, version |-> v, payload |-> x, author |-> u]

\* A thread between requests, and a request in progress.
Idle == [pc |-> "idle"]

Request ==
  [ pc        : {"checking", "reading", "deciding"},
    user      : Users,
    decision  : Decisions,
    batch     : BOOLEAN,
    unchecked : SUBSET Proposals,      \* fingerprints still to compare
    undecided : SUBSET Proposals,      \* decisions still to record
    decided   : SUBSET Proposals,      \* decisions recorded and committed
    seen      : [Proposals -> Payloads \cup {None}],  \* fingerprints in the form
    payload   : Payloads \cup {None},  \* the replacement an edit carries
    proposal  : Proposals \cup {None}, \* the one being decided
    version   : Nat ]                  \* its version, as read

Busy(t) == request[t] # Idle

NewRequest(u, d, batch, S, x) ==
  [ pc |-> IF batch THEN "checking" ELSE "reading",
    user |-> u, decision |-> d, batch |-> batch,
    unchecked |-> IF batch THEN S ELSE {},
    undecided |-> S, decided |-> {},
    seen |-> [p \in Proposals |-> IF batch /\ p \in S THEN proposed[p] ELSE None],
    payload |-> x, proposal |-> None, version |-> 0 ]

-----------------------------------------------------------------------------
ReviewInit ==
  /\ status = [p \in Proposals |-> "proposed"]
  /\ version = [p \in Proposals |-> 1]
  /\ proposed = Drafted
  /\ approvals = {}
  /\ request = [t \in Threads |-> Idle]
  /\ drafts = {Draft(p, 1, Drafted[p], None) : p \in Proposals}

\* A reviewer loads the page and submits one of its forms.  The forms are there
\* for pending proposals only; nothing keeps the page from going stale before
\* the request reads the row.
OpenBatch(t, u, d, S) ==
  /\ ~Busy(t)
  /\ S # {}
  /\ \A p \in S : status[p] \in Pending
  /\ request' = [request EXCEPT ![t] = NewRequest(u, d, TRUE, S, None)]
  /\ UNCHANGED <<status, version, proposed, approvals, drafts>>

OpenVerdict(t, u, d, p) ==
  /\ ~Busy(t)
  /\ status[p] \in Pending
  /\ request' = [request EXCEPT ![t] = NewRequest(u, d, FALSE, {p}, None)]
  /\ UNCHANGED <<status, version, proposed, approvals, drafts>>

OpenEdits(p) ==
  {t \in Threads : Busy(t) /\ request[t].decision = "edit" /\ p \in request[t].undecided}

OpenEdit(t, u, p, x) ==
  /\ ~Busy(t)
  /\ status[p] \in Pending
  /\ version[p] + Cardinality(OpenEdits(p)) < MaxVersion
  /\ request' = [request EXCEPT ![t] = NewRequest(u, "edit", FALSE, {p}, x)]
  /\ UNCHANGED <<status, version, proposed, approvals, drafts>>

-----------------------------------------------------------------------------
\* record_batch_decision: compare each fingerprint with the row as it stands.
CheckFingerprint(t, p) ==
  /\ Busy(t)
  /\ request[t].pc = "checking"
  /\ p \in request[t].unchecked
  /\ request[t].seen[p] = proposed[p]
  /\ request' = [request EXCEPT
       ![t].unchecked = @ \ {p},
       ![t].pc = IF request[t].unchecked = {p} THEN "reading" ELSE "checking"]
  /\ UNCHANGED <<status, version, proposed, approvals, drafts>>

\* BatchChanged: one mismatch refuses the batch.
RefuseBatch(t, p) ==
  /\ Busy(t)
  /\ request[t].pc = "checking"
  /\ p \in request[t].unchecked
  /\ request[t].seen[p] # proposed[p]
  /\ request' = [request EXCEPT ![t] = Idle]
  /\ UNCHANGED <<status, version, proposed, approvals, drafts>>

\* record_decision, up to its first write: the status and version it reads, the
\* separation of duties between editor and approver, and the transition table.
ReadStatus(p) == IF status[p] = "proposed" THEN "reviewed" ELSE status[p]

\* Fault: the editor looked up under the version before the edit.
EditedBefore(p, v, u) == Decision(p, v - 1, "edit", u) \in approvals
EditedBy(p, v, u) == Decision(p, v, "edit", u) \in approvals

MayDecide(d, p, u) ==
  /\ d = "approve" => ~EditedBy(p, version[p], u)
  /\ d # "edit" => Target[d] \in TRANSITIONS[ReadStatus(p)]

ReadProposal(t, p) ==
  /\ Busy(t)
  /\ request[t].pc = "reading"
  /\ p \in request[t].undecided
  /\ MayDecide(request[t].decision, p, request[t].user)
  /\ request' = [request EXCEPT
       ![t].pc = "deciding", ![t].proposal = p, ![t].version = version[p]]
  /\ UNCHANGED <<status, version, proposed, approvals, drafts>>

\* PermissionError or ValueError: the request ends, and with it the rest of a batch.
RefuseDecision(t, p) ==
  /\ Busy(t)
  /\ request[t].pc = "reading"
  /\ p \in request[t].undecided
  /\ ~MayDecide(request[t].decision, p, request[t].user)
  /\ request' = [request EXCEPT ![t] = Idle]
  /\ UNCHANGED <<status, version, proposed, approvals, drafts>>

-----------------------------------------------------------------------------
\* record_decision, its one transaction.  The approvals table admits one row per
\* proposal, version and decision; the proposal row is updated by id alone.
DecidedVersion(r) == IF r.decision = "edit" THEN r.version + 1 ELSE r.version

\* Fault: the unique constraint leaves out edits.
CollidesOnVerdict(r) ==
  \E a \in approvals : /\ a.proposal = r.proposal
                       /\ a.version = r.version
                       /\ a.decision = r.decision
                       /\ a.decision # "edit"

Collides(r) ==
  \E a \in approvals : /\ a.proposal = r.proposal
                       /\ a.version = DecidedVersion(r)
                       /\ a.decision = r.decision

AfterDecision(r) ==
  IF r.undecided = {r.proposal} THEN Idle
  ELSE [r EXCEPT !.pc = "reading", !.undecided = @ \ {r.proposal},
                 !.decided = @ \cup {r.proposal}, !.proposal = None, !.version = 0]

WriteDecision(r) ==
  /\ status' = [status EXCEPT ![r.proposal] = Target[r.decision]]
  /\ approvals' = approvals \cup
       {Decision(r.proposal, DecidedVersion(r), r.decision, r.user)}
  /\ IF r.decision = "edit"
     THEN /\ version' = [version EXCEPT ![r.proposal] = r.version + 1]
          /\ proposed' = [proposed EXCEPT ![r.proposal] = r.payload]
          /\ drafts' = drafts \cup
               {Draft(r.proposal, r.version + 1, r.payload, r.user)}
     ELSE UNCHANGED <<version, proposed, drafts>>

CommitDecision(t) ==
  /\ Busy(t)
  /\ request[t].pc = "deciding"
  /\ ~Collides(request[t])
  /\ WriteDecision(request[t])
  /\ request' = [request EXCEPT ![t] = AfterDecision(request[t])]

\* IntegrityError, or the database locked past busy_timeout: the connection is
\* closed without a commit and the request answers 500.
LoseDecision(t) ==
  /\ Busy(t)
  /\ request[t].pc = "deciding"
  /\ Collides(request[t]) \/ LockTimeouts
  /\ request' = [request EXCEPT ![t] = Idle]
  /\ UNCHANGED <<status, version, proposed, approvals, drafts>>

-----------------------------------------------------------------------------
Submit(t) ==
  \E u \in Reviewers :
    \/ \E d \in Verdicts, S \in SUBSET Proposals : OpenBatch(t, u, d, S)
    \/ \E d \in Verdicts, p \in Proposals : OpenVerdict(t, u, d, p)
    \/ \E p \in Proposals, x \in Payloads : OpenEdit(t, u, p, x)

Serve(t) ==
  \/ \E p \in Proposals : \/ CheckFingerprint(t, p)
                          \/ RefuseBatch(t, p)
                          \/ ReadProposal(t, p)
                          \/ RefuseDecision(t, p)
  \/ CommitDecision(t)
  \/ LoseDecision(t)

ReviewNext == \E t \in Threads : Submit(t) \/ Serve(t)

ReviewSpec == ReviewInit /\ [][ReviewNext]_reviewVars

-----------------------------------------------------------------------------
ReviewTypeOK ==
  /\ status \in [Proposals -> Statuses]
  /\ version \in [Proposals -> Nat \ {0}]
  /\ proposed \in [Proposals -> Payloads]
  /\ approvals \subseteq [proposal : Proposals, version : Nat \ {0},
                          decision : Decisions, actor : Users]
  /\ request \in [Threads -> {Idle} \cup Request]
  /\ drafts \subseteq [proposal : Proposals, version : Nat \ {0},
                       payload : Payloads, author : Users \cup {None}]

\* A version names one payload.  The idempotency key a release sends is made of
\* the proposal's id and version, so two payloads under one version would let the
\* provider answer a new change with the result of an old one.  Two edits may
\* both have read version n before either wrote n + 1.
OneDraftPerVersion ==
  \A d, e \in drafts :
    d.proposal = e.proposal /\ d.version = e.version => d = e

\* Preparer is not reviewer (work_engine.py:1501): whoever wrote the payload of a
\* version never approves that version, whatever the status and version were when
\* the approving request read them.
EditorNeverApproves ==
  \A a \in approvals, d \in drafts :
    /\ a.decision = "approve"
    /\ d.proposal = a.proposal
    /\ d.version = a.version
    => d.author # a.actor

\* record_decision changes a payload only under a version the proposal has not
\* had before, and the version never goes back: an approval row keeps naming the
\* payload its approver decided on.
DraftsAreNeverRewritten ==
  [][\A p \in Proposals :
       /\ version'[p] >= version[p]
       /\ proposed'[p] # proposed[p] => version'[p] > version[p]]_reviewVars
=============================================================================

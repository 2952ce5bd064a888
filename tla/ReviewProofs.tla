----------------------------- MODULE ReviewProofs -----------------------------
(***************************************************************************)
(* Proofs about ReviewDecisions: its type invariant, that a version names  *)
(* one payload, that an editor never approves, and that drafts are never   *)
(* rewritten.                                                              *)
(*                                                                         *)
(* The argument: every version from 2 to the present one has its edit on   *)
(* record (EditsOnRecord), so an edit that read a version no longer        *)
(* present collides with the unique constraint, and one that does not      *)
(* collide writes a version nobody has used.  Drafts of the versions that  *)
(* exist are therefore settled, and so is who wrote them: what an approval *)
(* found out about the editor when it read the row still holds when it     *)
(* commits (ApproverDiffers).                                              *)
(***************************************************************************)
EXTENDS ReviewDecisions, TLAPS

\* The tables are consistent with one another.
DraftsBounded == \A d \in drafts : d.version <= version[d.proposal]

PresentDraft ==
  \A p \in Proposals :
    \E d \in drafts : /\ d.proposal = p
                      /\ d.version = version[p]
                      /\ d.payload = proposed[p]

EditsOnRecord ==
  \A p \in Proposals : \A v \in 2..version[p] :
    \E a \in approvals : a.proposal = p /\ a.version = v /\ a.decision = "edit"

AuthorsOnRecord ==
  \A d \in drafts :
    d.author # None => Decision(d.proposal, d.version, "edit", d.author) \in approvals

ApprovalsDrafted ==
  \A a \in approvals :
    \E d \in drafts : d.proposal = a.proposal /\ d.version = a.version

\* What a request found out and has yet to act on.
AnswersVersion(r) ==
  /\ r.decision = "edit" => r.payload \in Payloads
  /\ r.pc = "deciding" =>
       /\ r.proposal \in Proposals
       /\ r.version \in 1..version[r.proposal]
       /\ \E d \in drafts : d.proposal = r.proposal /\ d.version = r.version

ApproverDiffers(r) ==
  r.pc = "deciding" /\ r.decision = "approve"
    => \A d \in drafts :
         d.proposal = r.proposal /\ d.version = r.version => d.author # r.user

RequestsCurrent ==
  \A t \in Threads : Busy(t) => AnswersVersion(request[t]) /\ ApproverDiffers(request[t])

TablesInv ==
  /\ DraftsBounded
  /\ PresentDraft
  /\ OneDraftPerVersion
  /\ EditsOnRecord
  /\ AuthorsOnRecord
  /\ ApprovalsDrafted
  /\ EditorNeverApproves

ReviewInv == ReviewTypeOK /\ TablesInv /\ RequestsCurrent

tables == <<status, version, proposed, approvals, drafts>>

-----------------------------------------------------------------------------
LEMMA BusyIsRequest ==
  ASSUME ReviewTypeOK, NEW t \in Threads, Busy(t)
  PROVE  request[t] \in Request
  BY DEF ReviewTypeOK, Busy

LEMMA DecisionsAre ==
  /\ Decisions = {"approve", "edit", "reject", "escalate"}
  /\ \A d \in Decisions : Target[d] \in Statuses
  BY DEF Decisions, Target, Statuses, TRANSITIONS

\* The initial state.
LEMMA ReviewInitInv == ReviewInit => ReviewInv
<1> SUFFICES ASSUME ReviewInit PROVE ReviewInv
  OBVIOUS
<1> USE ReviewAssumption DEF ReviewInit
<1>1. ReviewTypeOK
  BY DEF ReviewTypeOK, Statuses, TRANSITIONS, Draft
<1>2. DraftsBounded /\ OneDraftPerVersion
  BY DEF DraftsBounded, OneDraftPerVersion, Draft
<1>3. PresentDraft
  <2> SUFFICES ASSUME NEW p \in Proposals
               PROVE  \E d \in drafts : /\ d.proposal = p
                                        /\ d.version = version[p]
                                        /\ d.payload = proposed[p]
    BY DEF PresentDraft
  <2>1. Draft(p, 1, Drafted[p], None) \in drafts
    OBVIOUS
  <2> QED
    BY <2>1 DEF Draft
<1>4. EditsOnRecord
  BY DEF EditsOnRecord
<1>5. AuthorsOnRecord /\ ApprovalsDrafted /\ EditorNeverApproves
  BY DEF AuthorsOnRecord, ApprovalsDrafted, EditorNeverApproves, Draft
<1>6. RequestsCurrent
  BY DEF RequestsCurrent, Busy
<1> QED
  BY <1>1, <1>2, <1>3, <1>4, <1>5, <1>6 DEF ReviewInv, TablesInv

\* A step that leaves the tables alone and moves one thread's request.
LEMMA RequestMoves ==
  ASSUME ReviewInv, NEW t \in Threads, NEW r,
         UNCHANGED tables,
         request' = [request EXCEPT ![t] = r],
         r = Idle \/ (r \in Request /\ AnswersVersion(r) /\ ApproverDiffers(r))
  PROVE  ReviewInv'
<1>1. ReviewTypeOK'
  BY DEF ReviewInv, ReviewTypeOK, tables
<1>2. TablesInv'
  BY DEF ReviewInv, TablesInv, tables, DraftsBounded, PresentDraft, OneDraftPerVersion,
         EditsOnRecord, AuthorsOnRecord, ApprovalsDrafted, EditorNeverApproves
<1>3. RequestsCurrent'
  BY DEF ReviewInv, ReviewTypeOK, RequestsCurrent, Busy, AnswersVersion, ApproverDiffers, tables
<1> QED
  BY <1>1, <1>2, <1>3 DEF ReviewInv

-----------------------------------------------------------------------------
\* The steps that only move a request.
LEMMA SubmitInv ==
  ASSUME ReviewInv, NEW t \in Threads, Submit(t)
  PROVE  ReviewInv'
<1> USE DEF AnswersVersion, ApproverDiffers, Request, NewRequest
<1>0. proposed \in [Proposals -> Payloads]
  BY DEF ReviewInv, ReviewTypeOK
<1>1. PICK u \in Reviewers :
        \/ \E d \in Verdicts, S \in SUBSET Proposals : OpenBatch(t, u, d, S)
        \/ \E d \in Verdicts, p \in Proposals : OpenVerdict(t, u, d, p)
        \/ \E p \in Proposals, x \in Payloads : OpenEdit(t, u, p, x)
  BY DEF Submit
<1>2. u \in Users
  BY <1>1, ReviewAssumption
<1>3. CASE \E d \in Verdicts, S \in SUBSET Proposals : OpenBatch(t, u, d, S)
  <2>1. PICK d \in Verdicts, S \in SUBSET Proposals : OpenBatch(t, u, d, S)
    BY <1>3
  <2> DEFINE r == NewRequest(u, d, TRUE, S, None)
  <2>2. d \in Decisions /\ d # "edit"
    BY DecisionsAre, ReviewAssumption
  <2>3. r \in Request /\ AnswersVersion(r) /\ ApproverDiffers(r)
    BY <1>0, <1>2, <2>2
  <2> QED
    BY <2>1, <2>3, RequestMoves DEF OpenBatch, tables
<1>4. CASE \E d \in Verdicts, p \in Proposals : OpenVerdict(t, u, d, p)
  <2>1. PICK d \in Verdicts, p \in Proposals : OpenVerdict(t, u, d, p)
    BY <1>4
  <2> DEFINE r == NewRequest(u, d, FALSE, {p}, None)
  <2>2. d \in Decisions /\ d # "edit"
    BY DecisionsAre, ReviewAssumption
  <2>3. r \in Request /\ AnswersVersion(r) /\ ApproverDiffers(r)
    BY <1>0, <1>2, <2>2
  <2> QED
    BY <2>1, <2>3, RequestMoves DEF OpenVerdict, tables
<1>5. CASE \E p \in Proposals, x \in Payloads : OpenEdit(t, u, p, x)
  <2>1. PICK p \in Proposals, x \in Payloads : OpenEdit(t, u, p, x)
    BY <1>5
  <2> DEFINE r == NewRequest(u, "edit", FALSE, {p}, x)
  <2>2. r \in Request /\ AnswersVersion(r) /\ ApproverDiffers(r)
    BY <1>0, <1>2, DecisionsAre
  <2> QED
    BY <2>1, <2>2, RequestMoves DEF OpenEdit, tables
<1> QED
  BY <1>1, <1>3, <1>4, <1>5

LEMMA CheckInv ==
  ASSUME ReviewInv, NEW t \in Threads, NEW p \in Proposals, CheckFingerprint(t, p)
  PROVE  ReviewInv'
<1> DEFINE r == [request[t] EXCEPT
      !.unchecked = @ \ {p},
      !.pc = IF request[t].unchecked = {p} THEN "reading" ELSE "checking"]
<1>1. request[t] \in Request /\ AnswersVersion(request[t])
  BY BusyIsRequest DEF ReviewInv, CheckFingerprint, RequestsCurrent
<1>2. request' = [request EXCEPT ![t] = r]
  BY DEF CheckFingerprint, ReviewInv, ReviewTypeOK
<1>3. r \in Request /\ AnswersVersion(r) /\ ApproverDiffers(r)
  BY <1>1 DEF Request, AnswersVersion, ApproverDiffers
<1> QED
  BY <1>2, <1>3, RequestMoves DEF CheckFingerprint, tables

LEMMA ReadInv ==
  ASSUME ReviewInv, NEW t \in Threads, NEW p \in Proposals, ReadProposal(t, p)
  PROVE  ReviewInv'
<1> DEFINE r == [request[t] EXCEPT
      !.pc = "deciding", !.proposal = p, !.version = version[p]]
<1>1. request[t] \in Request /\ AnswersVersion(request[t])
  BY BusyIsRequest DEF ReviewInv, ReadProposal, RequestsCurrent
<1>2. request' = [request EXCEPT ![t] = r]
  BY DEF ReadProposal, ReviewInv, ReviewTypeOK
<1>3. version[p] \in Nat \ {0}
  BY DEF ReviewInv, ReviewTypeOK
<1>4. r \in Request
  BY <1>1, <1>3 DEF Request
<1>5. \E d \in drafts : d.proposal = p /\ d.version = version[p]
  BY DEF ReviewInv, TablesInv, PresentDraft
<1>6. AnswersVersion(r)
  BY <1>1, <1>3, <1>5 DEF Request, AnswersVersion
<1>7. ASSUME r.decision = "approve", NEW d \in drafts, d.proposal = p, d.version = version[p]
      PROVE  d.author # r.user
  <2>1. r.decision = request[t].decision /\ r.user = request[t].user
    BY <1>1 DEF Request
  <2>2. Decision(p, version[p], "edit", r.user) \notin approvals
    BY <1>7, <2>1 DEF ReadProposal, MayDecide, EditedBy
  <2>3. r.user # None
    BY <1>1, <2>1, ReviewAssumption DEF Request
  <2> QED
    BY <1>7, <2>2, <2>3 DEF ReviewInv, TablesInv, AuthorsOnRecord
<1>8. ApproverDiffers(r)
  BY <1>1, <1>7 DEF ApproverDiffers, Request
<1> QED
  BY <1>2, <1>4, <1>6, <1>8, RequestMoves DEF ReadProposal, tables

LEMMA EndInv ==
  ASSUME ReviewInv, NEW t \in Threads, UNCHANGED tables,
         request' = [request EXCEPT ![t] = Idle]
  PROVE  ReviewInv'
  BY RequestMoves

-----------------------------------------------------------------------------
\* The commit of a decision.
LEMMA CommitFacts ==
  ASSUME ReviewInv, NEW t \in Threads, CommitDecision(t)
  PROVE  /\ request[t] \in Request
         /\ request[t].proposal \in Proposals
         /\ request[t].version \in 1..version[request[t].proposal]
         /\ version[request[t].proposal] \in Nat \ {0}
         /\ AnswersVersion(request[t])
         /\ ApproverDiffers(request[t])
  BY BusyIsRequest DEF ReviewInv, ReviewTypeOK, CommitDecision, RequestsCurrent, AnswersVersion

\* What remains of a batch, or nothing, carries nothing read.
LEMMA AfterDecisionOK ==
  ASSUME NEW r \in Request, r.proposal \in Proposals
  PROVE  \/ AfterDecision(r) = Idle
         \/ /\ AfterDecision(r) \in Request
            /\ AfterDecision(r).pc = "reading"
            /\ AfterDecision(r).decision = r.decision
            /\ AfterDecision(r).payload = r.payload
<1>1. CASE r.undecided = {r.proposal}
  BY <1>1 DEF AfterDecision
<1>2. CASE r.undecided # {r.proposal}
  <2> DEFINE a == [r EXCEPT !.pc = "reading", !.undecided = @ \ {r.proposal}]
             b == [a EXCEPT !.decided = @ \cup {r.proposal}]
             c == [b EXCEPT !.proposal = None, !.version = 0]
  <2>1. AfterDecision(r) = c
    BY <1>2 DEF AfterDecision
  <2>2. a \in Request /\ a.pc = "reading" /\ a.decision = r.decision /\ a.payload = r.payload
    BY DEF Request
  <2> HIDE DEF a
  <2>3. b \in Request /\ b.pc = "reading" /\ b.decision = r.decision /\ b.payload = r.payload
    BY <2>2 DEF Request
  <2> HIDE DEF b
  <2>4. c \in Request /\ c.pc = "reading" /\ c.decision = r.decision /\ c.payload = r.payload
    BY <2>3 DEF Request
  <2> QED
    BY <2>1, <2>4
<1> QED
  BY <1>1, <1>2

\* An edit that does not collide read the present version.
LEMMA EditIsCurrent ==
  ASSUME ReviewInv, NEW t \in Threads, CommitDecision(t), request[t].decision = "edit"
  PROVE  request[t].version = version[request[t].proposal]
<1> DEFINE r == request[t]
<1>1. r.proposal \in Proposals /\ r.version \in 1..version[r.proposal]
      /\ version[r.proposal] \in Nat \ {0}
  BY CommitFacts
<1>2. SUFFICES ASSUME r.version # version[r.proposal] PROVE FALSE
  OBVIOUS
<1>3. r.version + 1 \in 2..version[r.proposal]
  BY <1>1, <1>2
<1>4. PICK a \in approvals :
        a.proposal = r.proposal /\ a.version = r.version + 1 /\ a.decision = "edit"
  BY <1>1, <1>3 DEF ReviewInv, TablesInv, EditsOnRecord
<1> QED
  BY <1>4 DEF CommitDecision, Collides, DecidedVersion

LEMMA CommitEditInv ==
  ASSUME ReviewInv, NEW t \in Threads, CommitDecision(t), request[t].decision = "edit"
  PROVE  ReviewInv'
<1> DEFINE r == request[t]
           p == r.proposal
           w == version[p] + 1
           new == Draft(p, w, r.payload, r.user)
           row == Decision(p, w, "edit", r.user)
<1>1. /\ r \in Request /\ p \in Proposals /\ AnswersVersion(r)
      /\ version[p] \in Nat \ {0} /\ r.version = version[p]
      /\ r.user \in Users /\ r.payload \in Payloads
  BY CommitFacts, EditIsCurrent DEF AnswersVersion, Request
<1>2. /\ status' = [status EXCEPT ![p] = "proposed"]
      /\ approvals' = approvals \cup {row}
      /\ version' = [version EXCEPT ![p] = w]
      /\ proposed' = [proposed EXCEPT ![p] = r.payload]
      /\ drafts' = drafts \cup {new}
      /\ request' = [request EXCEPT ![t] = AfterDecision(r)]
  BY <1>1 DEF CommitDecision, WriteDecision, DecidedVersion, Target
<1>3. AfterDecision(r) \in {Idle} \cup Request
  BY <1>1, AfterDecisionOK
<1>4. ReviewTypeOK
  BY DEF ReviewInv
<1>5. ReviewTypeOK'
  <2>1. row \in [proposal : Proposals, version : Nat \ {0}, decision : Decisions, actor : Users]
    BY <1>1, DecisionsAre DEF Decision
  <2>2. new \in [proposal : Proposals, version : Nat \ {0},
                 payload : Payloads, author : Users \cup {None}]
    BY <1>1 DEF Draft
  <2>3. "proposed" \in Statuses
    BY DEF Statuses, TRANSITIONS
  <2> QED
    BY <1>1, <1>2, <1>3, <1>4, <2>1, <2>2, <2>3 DEF ReviewTypeOK
<1>6. /\ \A q \in Proposals : version[q] \in Nat /\ version'[q] >= version[q]
      /\ version'[p] = w
      /\ \A q \in Proposals : q # p => version'[q] = version[q] /\ proposed'[q] = proposed[q]
      /\ proposed'[p] = r.payload
  BY <1>1, <1>2, <1>4 DEF ReviewTypeOK
<1>7. new.proposal = p /\ new.version = w /\ new.payload = r.payload /\ new.author = r.user
  BY DEF Draft
<1>8. \A d \in drafts : d.proposal \in Proposals /\ d.version \in Nat /\ d.version <= version[d.proposal]
  BY <1>4 DEF ReviewTypeOK, ReviewInv, TablesInv, DraftsBounded
<1>9. DraftsBounded'
  BY <1>1, <1>2, <1>6, <1>7, <1>8 DEF DraftsBounded
<1>10. PresentDraft'
  <2> SUFFICES ASSUME NEW q \in Proposals
               PROVE  \E d \in drafts' : d.proposal = q /\ d.version = version'[q]
                                         /\ d.payload = proposed'[q]
    BY DEF PresentDraft
  <2>1. CASE q = p
    BY <2>1, <1>2, <1>6, <1>7
  <2>2. CASE q # p
    BY <2>2, <1>2, <1>6 DEF ReviewInv, TablesInv, PresentDraft
  <2> QED
    BY <2>1, <2>2
<1>11. \A d \in drafts : ~(d.proposal = p /\ d.version = w)
  BY <1>1, <1>8
<1>12. OneDraftPerVersion'
  BY <1>2, <1>7, <1>11 DEF OneDraftPerVersion, ReviewInv, TablesInv
<1>13. row \in approvals' /\ row.proposal = p /\ row.version = w /\ row.decision = "edit"
  BY <1>2 DEF Decision
<1>14. EditsOnRecord'
  <2> SUFFICES ASSUME NEW q \in Proposals, NEW v \in 2..version'[q]
               PROVE  \E a \in approvals' : a.proposal = q /\ a.version = v /\ a.decision = "edit"
    BY DEF EditsOnRecord
  <2>1. CASE q = p /\ v = w
    BY <2>1, <1>13
  <2>2. CASE ~(q = p /\ v = w)
    <3>1. v \in 2..version[q]
      BY <2>2, <1>1, <1>6
    <3> QED
      BY <3>1, <1>2 DEF ReviewInv, TablesInv, EditsOnRecord
  <2> QED
    BY <2>1, <2>2
<1>15. AuthorsOnRecord'
  BY <1>2, <1>7, <1>13 DEF AuthorsOnRecord, ReviewInv, TablesInv, Decision
<1>16. ApprovalsDrafted'
  BY <1>2, <1>7, <1>13 DEF ApprovalsDrafted, ReviewInv, TablesInv
<1>17. EditorNeverApproves'
  <2> SUFFICES ASSUME NEW a \in approvals', NEW d \in drafts', a.decision = "approve",
                      d.proposal = a.proposal, d.version = a.version
               PROVE  d.author # a.actor
    BY DEF EditorNeverApproves
  <2>1. a \in approvals
    BY <1>2, <1>13
  <2>2. d # new
    BY <2>1, <1>7, <1>11 DEF ReviewInv, TablesInv, ApprovalsDrafted
  <2> QED
    BY <1>2, <2>1, <2>2 DEF ReviewInv, TablesInv, EditorNeverApproves
<1>18. RequestsCurrent'
  <2> SUFFICES ASSUME NEW s \in Threads, Busy(s)'
               PROVE  AnswersVersion(request[s])' /\ ApproverDiffers(request[s])'
    BY DEF RequestsCurrent
  <2>1. CASE s = t
    <3>1. request'[s] = AfterDecision(r) /\ AfterDecision(r) # Idle
      BY <2>1, <1>2, <1>4 DEF Busy, ReviewTypeOK
    <3>2. request'[s].pc = "reading" /\ request'[s].payload = r.payload
      BY <1>1, <3>1, AfterDecisionOK DEF AnswersVersion
    <3> QED
      BY <1>1, <3>2 DEF AnswersVersion, ApproverDiffers
  <2>2. CASE s # t
    <3> DEFINE q == request[s]
    <3>1. request'[s] = q /\ Busy(s)
      BY <2>2, <1>2, <1>4 DEF Busy, ReviewTypeOK
    <3>2. q \in Request /\ AnswersVersion(q) /\ ApproverDiffers(q)
      BY <3>1, <1>4, BusyIsRequest DEF ReviewInv, RequestsCurrent
    <3>3. AnswersVersion(q)'
      BY <3>1, <3>2, <1>2, <1>6 DEF AnswersVersion
    <3>4. ASSUME q.pc = "deciding", q.decision = "approve", NEW d \in drafts',
                 d.proposal = q.proposal, d.version = q.version
          PROVE  d.author # q.user
      <4>1. d # new
        BY <3>2, <3>4, <1>1, <1>7 DEF AnswersVersion
      <4> QED
        BY <3>2, <3>4, <4>1, <1>2 DEF ApproverDiffers
    <3>5. ApproverDiffers(q)'
      BY <3>1, <3>4 DEF ApproverDiffers
    <3> QED
      BY <3>1, <3>3, <3>5
  <2> QED
    BY <2>1, <2>2
<1> QED
  BY <1>5, <1>9, <1>10, <1>12, <1>14, <1>15, <1>16, <1>17, <1>18 DEF ReviewInv, TablesInv

\* A verdict adds its row under a version that has a draft, and an approval was
\* read to be of someone else's draft; no edit can have added another draft of it.
LEMMA CommitVerdictInv ==
  ASSUME ReviewInv, NEW t \in Threads, CommitDecision(t), request[t].decision # "edit"
  PROVE  ReviewInv'
<1> DEFINE r == request[t]
           p == r.proposal
           row == Decision(p, r.version, r.decision, r.user)
<1>1. /\ r \in Request /\ p \in Proposals /\ AnswersVersion(r) /\ ApproverDiffers(r)
      /\ version[p] \in Nat \ {0} /\ r.version \in 1..version[p]
      /\ r.user \in Users /\ r.decision \in Decisions /\ r.pc = "deciding"
  BY CommitFacts DEF Request, CommitDecision
<1>2. /\ status' = [status EXCEPT ![p] = Target[r.decision]]
      /\ approvals' = approvals \cup {row}
      /\ UNCHANGED <<version, proposed, drafts>>
      /\ request' = [request EXCEPT ![t] = AfterDecision(r)]
  BY DEF CommitDecision, WriteDecision, DecidedVersion
<1>3. ReviewTypeOK
  BY DEF ReviewInv
<1>4. /\ row.proposal = p /\ row.version = r.version
      /\ row.decision = r.decision /\ row.actor = r.user
  BY DEF Decision
<1>5. ReviewTypeOK'
  <2>1. row \in [proposal : Proposals, version : Nat \ {0}, decision : Decisions, actor : Users]
    BY <1>1 DEF Decision
  <2>2. AfterDecision(r) \in {Idle} \cup Request
    BY <1>1, AfterDecisionOK
  <2>3. Target[r.decision] \in Statuses
    BY <1>1, DecisionsAre
  <2> QED
    BY <1>2, <1>3, <2>1, <2>2, <2>3 DEF ReviewTypeOK
<1>6. DraftsBounded' /\ PresentDraft' /\ OneDraftPerVersion'
  BY <1>2 DEF ReviewInv, TablesInv, DraftsBounded, PresentDraft, OneDraftPerVersion
<1>7. EditsOnRecord' /\ AuthorsOnRecord'
  BY <1>2 DEF ReviewInv, TablesInv, EditsOnRecord, AuthorsOnRecord
<1>8. ApprovalsDrafted'
  BY <1>1, <1>2, <1>4 DEF ReviewInv, TablesInv, ApprovalsDrafted, AnswersVersion
<1>9. EditorNeverApproves'
  BY <1>1, <1>2, <1>4 DEF ReviewInv, TablesInv, EditorNeverApproves, ApproverDiffers
<1>10. RequestsCurrent'
  <2> SUFFICES ASSUME NEW s \in Threads, Busy(s)'
               PROVE  AnswersVersion(request[s])' /\ ApproverDiffers(request[s])'
    BY DEF RequestsCurrent
  <2>1. CASE s = t
    <3>1. request'[s] = AfterDecision(r) /\ AfterDecision(r) # Idle
      BY <2>1, <1>2, <1>3 DEF Busy, ReviewTypeOK
    <3>2. request'[s].pc = "reading" /\ request'[s].decision # "edit"
      BY <1>1, <3>1, AfterDecisionOK
    <3> QED
      BY <3>2 DEF AnswersVersion, ApproverDiffers
  <2>2. CASE s # t
    <3>1. request'[s] = request[s] /\ Busy(s)
      BY <2>2, <1>2, <1>3 DEF Busy, ReviewTypeOK
    <3> QED
      BY <3>1, <1>2 DEF ReviewInv, RequestsCurrent, AnswersVersion, ApproverDiffers
  <2> QED
    BY <2>1, <2>2
<1> QED
  BY <1>5, <1>6, <1>7, <1>8, <1>9, <1>10 DEF ReviewInv, TablesInv

-----------------------------------------------------------------------------
LEMMA ServeInv ==
  ASSUME ReviewInv, NEW t \in Threads, Serve(t)
  PROVE  ReviewInv'
<1>1. ASSUME NEW p \in Proposals, CheckFingerprint(t, p) PROVE ReviewInv'
  BY <1>1, CheckInv
<1>2. ASSUME NEW p \in Proposals, RefuseBatch(t, p) PROVE ReviewInv'
  BY <1>2, EndInv DEF RefuseBatch, tables
<1>3. ASSUME NEW p \in Proposals, ReadProposal(t, p) PROVE ReviewInv'
  BY <1>3, ReadInv
<1>4. ASSUME NEW p \in Proposals, RefuseDecision(t, p) PROVE ReviewInv'
  BY <1>4, EndInv DEF RefuseDecision, tables
<1>5. CASE CommitDecision(t)
  BY <1>5, CommitEditInv, CommitVerdictInv
<1>6. CASE LoseDecision(t)
  BY <1>6, EndInv DEF LoseDecision, tables
<1> QED
  BY <1>1, <1>2, <1>3, <1>4, <1>5, <1>6 DEF Serve

LEMMA ReviewStepInv == ReviewInv /\ [ReviewNext]_reviewVars => ReviewInv'
<1> SUFFICES ASSUME ReviewInv, [ReviewNext]_reviewVars PROVE ReviewInv'
  OBVIOUS
<1>1. ASSUME NEW t \in Threads, Submit(t) PROVE ReviewInv'
  BY <1>1, SubmitInv
<1>2. ASSUME NEW t \in Threads, Serve(t) PROVE ReviewInv'
  BY <1>2, ServeInv
<1>3. CASE UNCHANGED reviewVars
  BY <1>3 DEF reviewVars, ReviewInv, ReviewTypeOK, TablesInv, DraftsBounded, PresentDraft,
     OneDraftPerVersion, EditsOnRecord, AuthorsOnRecord, ApprovalsDrafted,
     EditorNeverApproves, RequestsCurrent, Busy, AnswersVersion, ApproverDiffers
<1> QED
  BY <1>1, <1>2, <1>3 DEF ReviewNext

\* The review's state, for any number of proposals, reviewers and threads: the
\* types, the consistency of the tables, and what each request has yet to act on.
THEOREM ReviewInvariant == ReviewSpec => []ReviewInv
  BY ReviewInitInv, ReviewStepInv, PTL DEF ReviewSpec

\* The rows and the requests in progress have the types the code gives them.
THEOREM ReviewTypeCorrect == ReviewSpec => []ReviewTypeOK
  BY ReviewInvariant, PTL DEF ReviewInv

\* Versions name payloads (record_decision): two edits that read the same version
\* cannot both commit, since the approvals table admits one edit row per version.
THEOREM OneDraftPerVersionHolds == ReviewSpec => []OneDraftPerVersion
  BY ReviewInvariant, PTL DEF ReviewInv, TablesInv

\* Preparer is not reviewer (record_decision), across requests that read the row
\* and write their decision at different times.
THEOREM EditorNeverApprovesHolds == ReviewSpec => []EditorNeverApproves
  BY ReviewInvariant, PTL DEF ReviewInv, TablesInv

-----------------------------------------------------------------------------
\* A step of the review changes a payload only under a later version.
LEMMA StepRewritesNothing ==
  ASSUME ReviewInv, [ReviewNext]_reviewVars, NEW p \in Proposals
  PROVE  /\ version'[p] >= version[p]
         /\ proposed'[p] # proposed[p] => version'[p] > version[p]
<1>1. version[p] \in Nat /\ ReviewTypeOK
  BY DEF ReviewInv, ReviewTypeOK
<1>2. CASE UNCHANGED <<version, proposed>>
  BY <1>1, <1>2
<1>3. ASSUME NEW t \in Threads, CommitDecision(t), request[t].decision = "edit"
      PROVE  /\ version'[p] >= version[p]
             /\ proposed'[p] # proposed[p] => version'[p] > version[p]
  <2> DEFINE q == request[t].proposal
  <2>1. /\ q \in Proposals
        /\ version' = [version EXCEPT ![q] = version[q] + 1]
        /\ proposed' = [proposed EXCEPT ![q] = request[t].payload]
    BY <1>3, CommitFacts, EditIsCurrent DEF CommitDecision, WriteDecision
  <2> QED
    BY <1>1, <2>1 DEF ReviewTypeOK
<1>4. ASSUME NEW t \in Threads, CommitDecision(t), request[t].decision # "edit"
      PROVE  UNCHANGED <<version, proposed>>
  BY <1>4 DEF CommitDecision, WriteDecision
<1>5. ASSUME NEW t \in Threads, Submit(t)
      PROVE  UNCHANGED <<version, proposed>>
  BY <1>5 DEF Submit, OpenBatch, OpenVerdict, OpenEdit
<1>6. ASSUME NEW t \in Threads, Serve(t), ~CommitDecision(t)
      PROVE  UNCHANGED <<version, proposed>>
  BY <1>6 DEF Serve, CheckFingerprint, RefuseBatch, ReadProposal, RefuseDecision, LoseDecision
<1> QED
  BY <1>2, <1>3, <1>4, <1>5, <1>6 DEF ReviewNext, reviewVars

\* An approval row keeps naming the payload its approver decided on (the UPDATE of
\* record_decision raises the version whenever it replaces proposed_json).
THEOREM DraftsAreNeverRewrittenHolds == ReviewSpec => DraftsAreNeverRewritten
<1>1. ReviewInv /\ [ReviewNext]_reviewVars
        => [\A p \in Proposals :
              /\ version'[p] >= version[p]
              /\ proposed'[p] # proposed[p] => version'[p] > version[p]]_reviewVars
  BY StepRewritesNothing
<1> QED
  BY <1>1, ReviewInvariant, PTL DEF ReviewSpec, DraftsAreNeverRewritten
=============================================================================

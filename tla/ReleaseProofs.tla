---------------------------- MODULE ReleaseProofs ----------------------------
(***************************************************************************)
(* Proofs about ProposalRelease: the types, the approval gate, one write   *)
(* per approval, no lost update, "verified" only of what was written, and  *)
(* that the release implements ApprovedWrites.                             *)
(***************************************************************************)
EXTENDS ProposalRelease, ReviewProofs

\* What a release, a message on the wire and an applied write stand for.
HasDraft(m) ==
  \E d \in drafts : /\ d.proposal = m.proposal
                    /\ d.version = m.version
                    /\ d.payload = m.payload

Cleared(m, u) ==
  \E a \in Users : ApprovedBy(m.proposal, m.version, a) /\ (a # u \/ SingleOperator)

\* A token that is still the record's own was read off the reviewed value.
TokenHonest(m) ==
  IsUpdate(m.proposal) =>
    /\ m.token <= book[TargetOf[m.proposal]].token
    /\ m.token = book[TargetOf[m.proposal]].token
         => book[TargetOf[m.proposal]].value = Current[m.proposal]

KeyOf(m) == <<m.proposal, m.version>>

Written(m) == \E e \in writes : e.key = KeyOf(m)

Underway(r) == r.pc \notin {"requested", "row", "prior"}

ReleaseOK(r) ==
  /\ TokenHonest(r)
  /\ r.pc # "requested" => HasDraft(r)
  /\ Underway(r) => Cleared(r, r.user)
  /\ r.pc = "stale" => IsUpdate(r.proposal)
  /\ r.pc \in {"verifying", "verified"} => Written(r)

OnRecord(r) == r.prior \/ Underway(r) => executions[r.proposal] \in Execution

MessageOK(m) ==
  TokenHonest(m) /\ HasDraft(m) /\ Cleared(m, m.user) /\ m.key = KeyOf(m)

WriteOK(e) ==
  /\ HasDraft(e)
  /\ Cleared(e, e.releaser)
  /\ e.key = KeyOf(e)
  /\ IsUpdate(e.proposal) => e.before = Current[e.proposal]

BookHonest ==
  \A p \in Proposals :
    IsUpdate(p) /\ book[TargetOf[p]].token = 0 => book[TargetOf[p]].value = Current[p]

ReleasesOK == \A w \in Workers : Working(w) => ReleaseOK(worker[w]) /\ OnRecord(worker[w])
WireOK == \A m \in wire : MessageOK(m)
WritesOK == \A e \in writes : WriteOK(e)
KeysOnce == \A e, f \in writes : e.key = f.key => e = f

ProviderInv == BookHonest /\ WireOK /\ WritesOK /\ KeysOnce

ReleaseInv ==
  ReviewInv /\ ReleaseTypeOK /\ ProviderInv /\ ReleasesOK /\ VerifiedWasWritten

\* What every step leaves in place: drafts, approvals, writes and execution rows,
\* and a record whose token has not moved.
Grows ==
  /\ drafts \subseteq drafts'
  /\ approvals \subseteq approvals'
  /\ writes \subseteq writes'
  /\ \A o \in Objects : book'[o] = book[o] \/ book'[o].token > book[o].token
  /\ \A p \in Proposals : executions[p] \in Execution => executions'[p] \in Execution

-----------------------------------------------------------------------------
LEMMA TargetExists ==
  ASSUME NEW p \in Proposals, IsUpdate(p)
  PROVE  TargetOf[p] \in Objects
  BY ReleaseAssumption DEF IsUpdate

\* What held of a draft, an approval, a token or a write still holds.
LEMMA DraftStays ==
  ASSUME Grows
  PROVE  \A m : HasDraft(m) => HasDraft(m)'
  BY DEF Grows, HasDraft

LEMMA ClearedStays ==
  ASSUME Grows
  PROVE  \A m, u : Cleared(m, u) => Cleared(m, u)'
  BY DEF Grows, Cleared, ApprovedBy

LEMMA WrittenStays ==
  ASSUME Grows
  PROVE  \A m : Written(m) => Written(m)'
  BY DEF Grows, Written

LEMMA TokenStays ==
  ASSUME ReleaseTypeOK, ReleaseTypeOK', Grows
  PROVE  \A m : m.proposal \in Proposals /\ m.token \in Nat /\ TokenHonest(m)
                  => TokenHonest(m)'
<1> SUFFICES ASSUME NEW m, m.proposal \in Proposals, m.token \in Nat, TokenHonest(m),
                    IsUpdate(m.proposal)
             PROVE  /\ m.token <= book'[TargetOf[m.proposal]].token
                    /\ m.token = book'[TargetOf[m.proposal]].token
                         => book'[TargetOf[m.proposal]].value = Current[m.proposal]
  BY DEF TokenHonest, IsUpdate
<1> DEFINE o == TargetOf[m.proposal]
<1>1. o \in Objects
  BY TargetExists
<1>2. book[o].token \in Nat /\ book'[o].token \in Nat
  BY <1>1 DEF ReleaseTypeOK
<1> QED
  BY <1>1, <1>2 DEF Grows, TokenHonest

LEMMA MessageStays ==
  ASSUME ReleaseTypeOK, ReleaseTypeOK', Grows
  PROVE  \A m \in Message : MessageOK(m) => MessageOK(m)'
  BY DraftStays, ClearedStays, TokenStays DEF MessageOK, KeyOf, Message

LEMMA WriteStays ==
  ASSUME Grows
  PROVE  \A e \in AppliedWrite : WriteOK(e) => WriteOK(e)'
  BY DraftStays, ClearedStays DEF WriteOK, KeyOf

LEMMA ReleaseStays ==
  ASSUME ReleaseTypeOK, ReleaseTypeOK', Grows
  PROVE  \A r \in Release :
           /\ ReleaseOK(r) => ReleaseOK(r)'
           /\ OnRecord(r) => OnRecord(r)'
<1> SUFFICES ASSUME NEW r \in Release
             PROVE  /\ ReleaseOK(r) => ReleaseOK(r)'
                    /\ OnRecord(r) => OnRecord(r)'
  OBVIOUS
<1>1. r.proposal \in Proposals /\ r.token \in Nat
  BY DEF Release
<1>2. ReleaseOK(r) => ReleaseOK(r)'
  BY <1>1, DraftStays, ClearedStays, WrittenStays, TokenStays DEF ReleaseOK, Underway
<1>3. OnRecord(r) => OnRecord(r)'
  BY <1>1 DEF OnRecord, Grows, Underway
<1> QED
  BY <1>2, <1>3

\* A step that grows what is on record, leaves the releases of the other threads
\* alone and leaves one thread with an honest release, or none.
LEMMA OthersStay ==
  ASSUME ReleaseInv, ReleaseTypeOK', Grows, NEW w \in Workers, NEW r,
         worker' = [worker EXCEPT ![w] = r],
         r = Idle \/ (r \in Release /\ ReleaseOK(r)' /\ OnRecord(r)')
  PROVE  ReleasesOK'
<1> SUFFICES ASSUME NEW v \in Workers, Working(v)'
             PROVE  ReleaseOK(worker[v])' /\ OnRecord(worker[v])'
  BY DEF ReleasesOK
<1>0. ReleaseTypeOK
  BY DEF ReleaseInv
<1>1. CASE v = w
  <2>1. worker'[v] = r /\ r # Idle
    BY <1>0, <1>1 DEF Working, ReleaseTypeOK
  <2> QED
    BY <2>1 DEF ReleaseOK, OnRecord, TokenHonest, HasDraft, Cleared, Written, Underway, KeyOf
<1>2. CASE v # w
  <2>1. worker'[v] = worker[v] /\ Working(v)
    BY <1>0, <1>2 DEF Working, ReleaseTypeOK
  <2>2. worker[v] \in Release /\ ReleaseOK(worker[v]) /\ OnRecord(worker[v])
    BY <1>0, <2>1 DEF ReleaseInv, ReleasesOK, ReleaseTypeOK, Working
  <2> DEFINE q == worker[v]
  <2>3. \A x \in Release : (ReleaseOK(x) => ReleaseOK(x)') /\ (OnRecord(x) => OnRecord(x)')
    BY <1>0, ReleaseStays
  <2>4. PICK x \in Release : x = worker[v]
    BY <2>2
  <2>5. ReleaseOK(x)' /\ OnRecord(x)' /\ worker'[v] = x
    BY <2>1, <2>2, <2>3, <2>4
  <2> QED
    BY <2>5 DEF ReleaseOK, OnRecord, TokenHonest, HasDraft, Cleared, Written, Underway, KeyOf
<1> QED
  BY <1>1, <1>2

\* The reviewed side of a step that touches no record and no write.
LEMMA ProviderStays ==
  ASSUME ReleaseInv, Grows, ReleaseTypeOK', UNCHANGED <<book, wire, writes>>
  PROVE  ProviderInv'
<1>0. ReleaseTypeOK /\ ProviderInv
  BY DEF ReleaseInv
<1>1. BookHonest' /\ KeysOnce'
  BY <1>0 DEF ProviderInv, BookHonest, KeysOnce
<1>2. WireOK'
  BY <1>0, MessageStays DEF ProviderInv, WireOK, ReleaseTypeOK
<1>3. WritesOK'
  BY <1>0, WriteStays DEF ProviderInv, WritesOK, ReleaseTypeOK
<1> QED
  BY <1>1, <1>2, <1>3 DEF ProviderInv
-----------------------------------------------------------------------------
\* The provider handles a message that was cleared: what it applies is a write of
\* an approved draft, over the reviewed value, under a key not used before.
LEMMA ProviderStep ==
  ASSUME ReleaseInv, NEW m \in Message, MessageOK(m), ProviderHandles(m),
         UNCHANGED reviewVars, UNCHANGED executions
  PROVE  /\ Grows
         /\ book' \in [Objects -> [value : Payloads, token : Nat]]
         /\ writes' \subseteq AppliedWrite
         /\ BookHonest' /\ WritesOK' /\ KeysOnce'
         /\ Applied(m) \/ TokenCurrent(m) => \E e \in writes' : e.key = m.key
<1> DEFINE p == m.proposal
           o == TargetOf[p]
           row == WriteRecord(m)
<1>0. /\ ReleaseTypeOK /\ BookHonest /\ WritesOK /\ KeysOnce
      /\ p \in Proposals /\ m.version \in Nat /\ m.payload \in Payloads /\ m.user \in Users
  BY DEF ReleaseInv, ProviderInv, Message
<1>1. UNCHANGED <<drafts, approvals, executions>>
  BY DEF reviewVars
<1>2. CASE ~Applies(m)
  <2>1. UNCHANGED <<book, writes>>
    BY <1>2 DEF ProviderHandles
  <2>2. Applied(m) \/ TokenCurrent(m) => Applied(m)
    BY <1>2 DEF Applies
  <2>3. Grows
    BY <1>1, <2>1 DEF Grows
  <2>4. WritesOK'
    BY <1>0, <2>3, WriteStays, <2>1 DEF WritesOK, ReleaseTypeOK
  <2> QED
    BY <1>0, <2>1, <2>2, <2>3, <2>4 DEF ReleaseTypeOK, BookHonest, KeysOnce, Applied
<1>3. CASE Applies(m)
  <2>1. /\ row.proposal = p /\ row.version = m.version /\ row.payload = m.payload
        /\ row.releaser = m.user /\ row.key = m.key
        /\ IsUpdate(p) => row.before = book[o].value
    BY DEF WriteRecord
  <2>2. writes' = writes \cup {row} /\ ~Applied(m) /\ TokenCurrent(m)
    BY <1>3 DEF ProviderHandles, Applies
  <2>3. row \in AppliedWrite
    <3>1. IsUpdate(p) => book[o].value \in Payloads
      BY <1>0, TargetExists DEF ReleaseTypeOK
    <3> QED
      BY <1>0, <3>1 DEF WriteRecord, AppliedWrite, Message
  <2>4. \/ ~IsUpdate(p) /\ UNCHANGED book
        \/ IsUpdate(p) /\ o \in Objects
           /\ book' = [book EXCEPT ![o] = [value |-> m.payload, token |-> book[o].token + 1]]
    BY <1>0, <1>3, TargetExists DEF ProviderHandles
  <2>5. /\ book' \in [Objects -> [value : Payloads, token : Nat]]
        /\ \A q \in Objects : \/ book'[q] = book[q]
                              \/ book'[q].token > book[q].token /\ book'[q].token # 0
    BY <1>0, <2>4 DEF ReleaseTypeOK
  <2>6. Grows
    BY <1>1, <2>2, <2>5 DEF Grows
  <2>7. BookHonest'
    <3> SUFFICES ASSUME NEW q \in Proposals, IsUpdate(q), book'[TargetOf[q]].token = 0
                 PROVE  book'[TargetOf[q]].value = Current[q]
      BY DEF BookHonest, IsUpdate
    <3>1. TargetOf[q] \in Objects
      BY TargetExists
    <3>2. book'[TargetOf[q]] = book[TargetOf[q]]
      BY <2>5, <3>1
    <3> QED
      BY <1>0, <3>2 DEF BookHonest
  <2>8. WriteOK(row)
    <3>1. HasDraft(row) /\ Cleared(row, row.releaser) /\ row.key = KeyOf(row)
      BY <2>1 DEF MessageOK, HasDraft, Cleared, KeyOf
    <3>2. IsUpdate(row.proposal) => row.before = Current[row.proposal]
      BY <2>1, <2>2 DEF MessageOK, TokenHonest, TokenCurrent
    <3> QED
      BY <3>1, <3>2 DEF WriteOK
  <2>9. WritesOK'
    <3>1. \A e \in writes' : e \in AppliedWrite /\ WriteOK(e)
      BY <1>0, <2>2, <2>3, <2>8 DEF WritesOK, ReleaseTypeOK
    <3> QED
      BY <2>6, <3>1, WriteStays DEF WritesOK
  <2>10. KeysOnce'
    BY <1>0, <2>1, <2>2 DEF KeysOnce, Applied
  <2> QED
    BY <1>0, <2>1, <2>2, <2>3, <2>5, <2>6, <2>7, <2>9, <2>10 DEF ReleaseTypeOK
<1> QED
  BY <1>2, <1>3
-----------------------------------------------------------------------------
LEMMA ReleaseInitInv == ReleaseInit => ReleaseInv
<1> SUFFICES ASSUME ReleaseInit PROVE ReleaseInv
  OBVIOUS
<1>1. ReviewInv
  BY ReviewInitInv DEF ReleaseInit
<1>2. ReleaseTypeOK
  BY DEF ReleaseInit, ReleaseTypeOK
<1>3. ProviderInv
  BY DEF ReleaseInit, ProviderInv, BookHonest, WireOK, WritesOK, KeysOnce
<1>4. ReleasesOK
  BY DEF ReleaseInit, ReleasesOK, Working
<1>5. VerifiedWasWritten
  BY DEF ReleaseInit, ReviewInit, VerifiedWasWritten, PriorStatus
<1> QED
  BY <1>1, <1>2, <1>3, <1>4, <1>5 DEF ReleaseInv

LEMMA WorkingFacts ==
  ASSUME ReleaseInv, NEW w \in Workers, Working(w)
  PROVE  worker[w] \in Release /\ ReleaseOK(worker[w]) /\ OnRecord(worker[w])
  BY DEF ReleaseInv, ReleaseTypeOK, ReleasesOK, Working

\* A thread's step that writes at most the proposal's status and its execution row.
LEMMA RecordMoves ==
  ASSUME ReleaseInv, NEW w \in Workers, NEW r,
         UNCHANGED <<drafts, approvals, book, wire, writes>>,
         ReviewInv', VerifiedWasWritten',
         executions' \in [Proposals -> {None} \cup Execution],
         \A p \in Proposals : executions[p] \in Execution => executions'[p] \in Execution,
         worker' = [worker EXCEPT ![w] = r],
         \/ r = Idle
         \/ /\ r \in Release /\ ReleaseOK(r)
            /\ r.prior \/ Underway(r) => executions'[r.proposal] \in Execution
  PROVE  ReleaseInv'
<1>1. Grows
  BY DEF Grows
<1>2. ReleaseTypeOK'
  BY DEF ReleaseInv, ReleaseTypeOK
<1>3. ProviderInv'
  BY <1>1, <1>2, ProviderStays
<1>4. r = Idle \/ (r \in Release /\ ReleaseOK(r)' /\ OnRecord(r)')
  BY DEF ReleaseOK, OnRecord, TokenHonest, HasDraft, Cleared, ApprovedBy, Written, Underway, KeyOf
<1>5. ReleasesOK'
  BY <1>1, <1>2, <1>4, OthersStay
<1> QED
  BY <1>2, <1>3, <1>5 DEF ReleaseInv

\* A thread's step that writes nothing.
LEMMA QuietMoves ==
  ASSUME ReleaseInv, NEW w \in Workers, NEW r,
         UNCHANGED reviewVars, UNCHANGED <<executions, book, wire, writes>>,
         worker' = [worker EXCEPT ![w] = r],
         r = Idle \/ (r \in Release /\ ReleaseOK(r) /\ OnRecord(r))
  PROVE  ReleaseInv'
<1>1. ReviewInv'
  BY ReviewStepInv DEF ReleaseInv
<1>2. VerifiedWasWritten'
  BY DEF ReleaseInv, VerifiedWasWritten, PriorStatus, reviewVars
<1>3. ReleaseTypeOK
  BY DEF ReleaseInv
<1> QED
  BY <1>1, <1>2, <1>3, RecordMoves DEF reviewVars, OnRecord, ReleaseTypeOK

LEMMA LeaveInv ==
  ASSUME ReleaseInv, NEW w \in Workers, Leave(w),
         UNCHANGED reviewVars, UNCHANGED <<executions, book, wire, writes>>
  PROVE  ReleaseInv'
  BY QuietMoves DEF Leave

-----------------------------------------------------------------------------
\* Opening a release and the reads before it is recorded.
LEMMA OpenReleaseInv ==
  ASSUME ReleaseInv, NEW w \in Workers, NEW u \in Releasers, NEW p \in Proposals,
         OpenRelease(w, u, p)
  PROVE  ReleaseInv'
<1> DEFINE r == [ pc |-> "requested", user |-> u, proposal |-> p, approved |-> FALSE,
                  version |-> 0, payload |-> None, prior |-> FALSE, token |-> 0,
                  attempt |-> 0, tries |-> 0 ]
<1>1. r \in Release
  BY ReleaseAssumption DEF Release
<1>2. TokenHonest(r)
  <2> SUFFICES ASSUME IsUpdate(p)
               PROVE  /\ 0 <= book[TargetOf[p]].token
                      /\ 0 = book[TargetOf[p]].token => book[TargetOf[p]].value = Current[p]
    BY DEF TokenHonest
  <2>1. book[TargetOf[p]].token \in Nat
    BY TargetExists DEF ReleaseInv, ReleaseTypeOK
  <2> QED
    BY <2>1 DEF ReleaseInv, ProviderInv, BookHonest
<1>3. ReleaseOK(r) /\ OnRecord(r)
  BY <1>2 DEF ReleaseOK, OnRecord, Underway
<1> QED
  BY <1>1, <1>3, QuietMoves DEF OpenRelease

LEMMA ReadRowInv ==
  ASSUME ReleaseInv, NEW w \in Workers, ReadRow(w)
  PROVE  ReleaseInv'
<1> DEFINE p == worker[w].proposal
           r == [worker[w] EXCEPT !.pc = "row", !.approved = (status[p] = "approved"),
                                  !.version = version[p], !.payload = proposed[p]]
<1>1. worker[w] \in Release /\ TokenHonest(worker[w]) /\ OnRecord(worker[w])
  BY WorkingFacts DEF ReadRow, ReleaseOK
<1>2. p \in Proposals /\ version[p] \in Nat /\ proposed[p] \in Payloads
  BY <1>1 DEF Release, ReleaseInv, ReviewInv, ReviewTypeOK
<1>3. /\ r \in Release /\ r.proposal = p /\ r.version = version[p] /\ r.payload = proposed[p]
      /\ r.token = worker[w].token /\ r.pc = "row" /\ r.prior = worker[w].prior
  BY <1>1, <1>2 DEF Release
<1>4. HasDraft(r)
  BY <1>2, <1>3 DEF ReleaseInv, ReviewInv, TablesInv, PresentDraft, HasDraft
<1>5. ReleaseOK(r) /\ OnRecord(r)
  BY <1>1, <1>3, <1>4 DEF ReleaseOK, OnRecord, TokenHonest, Underway
<1>6. worker' = [worker EXCEPT ![w] = r]
  BY DEF ReadRow, ReleaseInv, ReleaseTypeOK
<1> HIDE DEF r
<1> QED
  BY <1>3, <1>5, <1>6, QuietMoves DEF ReadRow

LEMMA ReadPriorInv ==
  ASSUME ReleaseInv, NEW w \in Workers, ReadPrior(w)
  PROVE  ReleaseInv'
<1> DEFINE p == worker[w].proposal
           r == [worker[w] EXCEPT !.pc = "prior", !.prior = (executions[p] # None)]
<1>1. worker[w] \in Release /\ ReleaseOK(worker[w]) /\ worker[w].pc = "row"
  BY WorkingFacts DEF ReadPrior
<1>2. p \in Proposals
  BY <1>1 DEF Release
<1>3. /\ r \in Release /\ r.proposal = p /\ r.version = worker[w].version
      /\ r.payload = worker[w].payload /\ r.token = worker[w].token
      /\ r.pc = "prior" /\ r.prior = (executions[p] # None)
  BY <1>1 DEF Release
<1>4. ReleaseOK(r)
  BY <1>1, <1>3 DEF ReleaseOK, TokenHonest, HasDraft, Underway
<1>5. OnRecord(r)
  BY <1>2, <1>3 DEF OnRecord, Underway, ReleaseInv, ReleaseTypeOK
<1>6. worker' = [worker EXCEPT ![w] = r]
  BY DEF ReadPrior, ReleaseInv, ReleaseTypeOK
<1> HIDE DEF r
<1> QED
  BY <1>3, <1>4, <1>5, <1>6, QuietMoves DEF ReadPrior
\* The execution is recorded: the approver it names cleared this release.
LEMMA StartExecutionInv ==
  ASSUME ReleaseInv, NEW w \in Workers, StartExecution(w)
  PROVE  ReleaseInv'
<1> DEFINE r0 == worker[w]
           p == r0.proposal
           r == [r0 EXCEPT !.pc = "writing", !.attempt = 1, !.tries = 1]
<1>0. ReleaseTypeOK
  BY DEF ReleaseInv
<1>1. r0 \in Release /\ ReleaseOK(r0) /\ OnRecord(r0) /\ r0.pc = "prior"
  BY WorkingFacts DEF StartExecution
<1>2. p \in Proposals /\ r0.version \in Nat /\ r0.user \in Users
  BY <1>1 DEF Release
<1>3. r0.payload \in Payloads
  BY <1>1 DEF ReleaseOK, HasDraft, ReleaseInv, ReviewInv, ReviewTypeOK
<1>4. PICK a \in Users :
        /\ MayRelease(r0, a)
        /\ \/ /\ ~r0.prior
              /\ executions[p] = None
              /\ executions' = [executions EXCEPT ![p] = ExecutionRow("started", r0, a)]
           \/ /\ r0.prior
              /\ executions' = [executions EXCEPT
                   ![p].status = "started", ![p].executedBy = r0.user,
                   ![p].approvedBy = a, ![p].separated = (a # r0.user)]
  BY DEF StartExecution
<1>5. \E x \in Execution : x.status = "started" /\ executions' = [executions EXCEPT ![p] = x]
  <2>1. CASE ~r0.prior
    <3>1. ExecutionRow("started", r0, a) \in Execution
      BY <1>2, <1>3 DEF ExecutionRow, Execution, IdempotencyKey
    <3> QED
      BY <1>4, <2>1, <3>1 DEF ExecutionRow
  <2>2. CASE r0.prior
    <3>1. executions[p] \in Execution
      BY <1>1, <2>2 DEF OnRecord
    <3> DEFINE x == [executions[p] EXCEPT !.status = "started", !.executedBy = r0.user,
                                          !.approvedBy = a, !.separated = (a # r0.user)]
    <3>2. x \in Execution /\ x.status = "started"
      BY <1>2, <3>1 DEF Execution
    <3>3. executions' = [executions EXCEPT ![p] = x]
      BY <1>0, <1>2, <1>4, <2>2 DEF ReleaseTypeOK
    <3> HIDE DEF x
    <3> QED
      BY <3>2, <3>3
  <2> QED
    BY <2>1, <2>2
<1>6. PICK x \in Execution : x.status = "started" /\ executions' = [executions EXCEPT ![p] = x]
  BY <1>5
<1>7. /\ executions' \in [Proposals -> {None} \cup Execution]
      /\ \A q \in Proposals : executions[q] \in Execution => executions'[q] \in Execution
      /\ executions'[p] \in Execution
  BY <1>0, <1>2, <1>6 DEF ReleaseTypeOK
<1>8. ReviewInv'
  BY ReviewStepInv DEF StartExecution, ReleaseInv
<1>9. VerifiedWasWritten'
  <2> SUFFICES ASSUME NEW q \in Proposals, status'[q] = "verified" \/ PriorStatus(q)' = "verified"
               PROVE  \E e \in writes' : e.proposal = q
    BY DEF VerifiedWasWritten
  <2>1. status[q] = "verified" \/ PriorStatus(q) = "verified"
    BY <1>0, <1>2, <1>6 DEF PriorStatus, ReleaseTypeOK, StartExecution, reviewVars
  <2> QED
    BY <2>1 DEF ReleaseInv, VerifiedWasWritten, StartExecution
<1>10. /\ r \in Release /\ r.proposal = p /\ r.version = r0.version /\ r.payload = r0.payload
       /\ r.token = r0.token /\ r.user = r0.user /\ r.pc = "writing"
  BY <1>1 DEF Release
<1>11. Cleared(r0, r0.user)
  BY <1>4 DEF MayRelease, Cleared
<1>12. ReleaseOK(r)
  BY <1>1, <1>10, <1>11 DEF ReleaseOK, TokenHonest, HasDraft, Cleared
<1>13. worker' = [worker EXCEPT ![w] = r]
  BY <1>0 DEF StartExecution, ReleaseTypeOK
<1> HIDE DEF r
<1> QED
  BY <1>7, <1>8, <1>9, <1>10, <1>12, <1>13, RecordMoves DEF StartExecution, reviewVars

-----------------------------------------------------------------------------
\* The request a release sends is cleared.
LEMMA RequestOK ==
  ASSUME ReleaseInv, NEW w \in Workers, Working(w), worker[w].pc = "writing"
  PROVE  WriteRequest(worker[w]) \in Message /\ MessageOK(WriteRequest(worker[w]))
<1> DEFINE r == worker[w]
           m == WriteRequest(r)
<1>1. r \in Release /\ ReleaseOK(r)
  BY WorkingFacts
<1>2. r.payload \in Payloads
  BY <1>1 DEF ReleaseOK, HasDraft, ReleaseInv, ReviewInv, ReviewTypeOK
<1>3. /\ m.proposal = r.proposal /\ m.version = r.version /\ m.payload = r.payload
      /\ m.token = r.token /\ m.user = r.user /\ m.key = <<r.proposal, r.version>>
  BY DEF WriteRequest, IdempotencyKey
<1>4. m \in Message
  BY <1>1, <1>2 DEF WriteRequest, IdempotencyKey, Message, Release
<1>5. MessageOK(m)
  BY <1>1, <1>3 DEF MessageOK, ReleaseOK, Underway, TokenHonest, HasDraft, Cleared, KeyOf
<1> QED
  BY <1>4, <1>5

\* The provider's step closed over the rest of the state.
LEMMA ProviderClose ==
  ASSUME ReleaseInv, NEW m \in Message, MessageOK(m), ProviderHandles(m),
         UNCHANGED reviewVars, UNCHANGED executions, ReleaseTypeOK', WireOK', ReleasesOK'
  PROVE  ReleaseInv'
<1>1. ProviderInv'
  BY ProviderStep DEF ProviderInv
<1>2. ReviewInv'
  BY ReviewStepInv DEF ReleaseInv
<1>3. VerifiedWasWritten'
  BY ProviderStep DEF ReleaseInv, VerifiedWasWritten, PriorStatus, reviewVars, Grows
<1> QED
  BY <1>1, <1>2, <1>3 DEF ReleaseInv

LEMMA PostAnsweredInv ==
  ASSUME ReleaseInv, NEW w \in Workers, PostAnswered(w)
  PROVE  ReleaseInv'
<1> DEFINE r0 == worker[w]
           m == WriteRequest(r0)
           pc == IF Applied(m) \/ TokenCurrent(m) THEN "verifying" ELSE "stale"
           r == [r0 EXCEPT !.pc = pc]
<1>0. ReleaseTypeOK
  BY DEF ReleaseInv
<1>1. r0 \in Release /\ ReleaseOK(r0) /\ OnRecord(r0) /\ r0.pc = "writing"
  BY WorkingFacts DEF PostAnswered
<1>2. m \in Message /\ MessageOK(m) /\ ProviderHandles(m)
  BY RequestOK DEF PostAnswered
<1>3. m.key = KeyOf(r0)
  BY DEF WriteRequest, IdempotencyKey, KeyOf
<1>4. /\ Grows
      /\ book' \in [Objects -> [value : Payloads, token : Nat]]
      /\ writes' \subseteq AppliedWrite
      /\ Applied(m) \/ TokenCurrent(m) => \E e \in writes' : e.key = m.key
  BY <1>2, ProviderStep DEF PostAnswered
<1>5. /\ r \in Release /\ r.proposal = r0.proposal /\ r.version = r0.version
      /\ r.payload = r0.payload /\ r.token = r0.token /\ r.user = r0.user /\ r.pc = pc
  BY <1>1 DEF Release
<1>6. worker' = [worker EXCEPT ![w] = r]
  BY <1>0 DEF PostAnswered, Move, ReleaseTypeOK
<1> HIDE DEF r
<1>7. ReleaseTypeOK'
  BY <1>0, <1>4, <1>5, <1>6 DEF ReleaseTypeOK, PostAnswered
<1>8. PICK c \in Release : c = r
  BY <1>5
<1>9. PICK b \in Release : b = r0
  BY <1>1
<1>10. ReleaseOK(b)' /\ OnRecord(b)'
  BY <1>0, <1>1, <1>4, <1>7, <1>9, ReleaseStays
<1>11. Written(c)' \/ c.pc # "verifying"
  BY <1>3, <1>4, <1>5, <1>8 DEF Written, KeyOf
<1>12. c.pc = "verifying" \/ (c.pc = "stale" /\ IsUpdate(c.proposal))
  BY <1>5, <1>8 DEF TokenCurrent, WriteRequest
<1>13. ReleaseOK(c)' /\ OnRecord(c)'
  BY <1>1, <1>5, <1>8, <1>9, <1>10, <1>11, <1>12
     DEF ReleaseOK, OnRecord, Underway, TokenHonest, HasDraft, Cleared
<1>14. ReleasesOK'
  BY <1>4, <1>6, <1>7, <1>8, <1>13, OthersStay
<1>15. WireOK'
  BY <1>0, <1>4, <1>7, MessageStays DEF PostAnswered, WireOK, ReleaseInv, ProviderInv, ReleaseTypeOK
<1> QED
  BY <1>2, <1>7, <1>14, <1>15, ProviderClose DEF PostAnswered
\* After a setback the release is still writing the same request, or has failed.
LEMMA SetbackOK ==
  ASSUME ReleaseInv, NEW w \in Workers, Working(w), worker[w].pc = "writing", Setback(w)
  PROVE  \E r \in Release :
           /\ worker' = [worker EXCEPT ![w] = r]
           /\ ReleaseOK(r) /\ OnRecord(r)
<1> DEFINE r0 == worker[w]
<1>0. ReleaseTypeOK
  BY DEF ReleaseInv
<1>1. r0 \in Release /\ ReleaseOK(r0) /\ OnRecord(r0) /\ r0.attempt \in Nat /\ r0.tries \in Nat
  BY WorkingFacts DEF Release
<1>2. ASSUME NEW r \in Release, r.pc \in {"writing", "failed"}, r.proposal = r0.proposal,
             r.version = r0.version, r.payload = r0.payload, r.token = r0.token,
             r.user = r0.user
      PROVE  ReleaseOK(r) /\ OnRecord(r)
  BY <1>1, <1>2 DEF ReleaseOK, OnRecord, Underway, TokenHonest, HasDraft, Cleared
<1>3. CASE worker' = [worker EXCEPT ![w].tries = @ + 1]
  <2> DEFINE r == [r0 EXCEPT !.tries = @ + 1]
  <2>1. worker' = [worker EXCEPT ![w] = r]
    BY <1>0, <1>3 DEF ReleaseTypeOK
  <2>2. r \in Release /\ ReleaseOK(r) /\ OnRecord(r)
    BY <1>1, <1>2 DEF Release
  <2> QED
    BY <2>1, <2>2
<1>4. CASE worker' = [worker EXCEPT ![w].pc = "writing", ![w].attempt = @ + 1, ![w].tries = 1]
  <2> DEFINE n == r0.attempt + 1
             r == [r0 EXCEPT !.pc = "writing", !.attempt = n, !.tries = 1]
  <2>0. n \in Nat
    BY <1>1
  <2>1. worker' = [worker EXCEPT ![w] = r]
    BY <1>0, <1>4 DEF ReleaseTypeOK
  <2> HIDE DEF n
  <2>2. /\ r \in Release /\ r.pc = "writing" /\ r.proposal = r0.proposal
        /\ r.version = r0.version /\ r.payload = r0.payload /\ r.token = r0.token
        /\ r.user = r0.user
    BY <1>1, <2>0 DEF Release
  <2> HIDE DEF r
  <2>3. ReleaseOK(r) /\ OnRecord(r)
    BY <1>2, <2>2
  <2> QED
    BY <2>1, <2>2, <2>3
<1>5. CASE Move(w, "failed")
  <2> DEFINE r == [r0 EXCEPT !.pc = "failed"]
  <2>1. worker' = [worker EXCEPT ![w] = r]
    BY <1>0, <1>5 DEF ReleaseTypeOK, Move
  <2>2. r \in Release /\ ReleaseOK(r) /\ OnRecord(r)
    BY <1>1, <1>2 DEF Release
  <2> QED
    BY <2>1, <2>2
<1> QED
  BY <1>3, <1>4, <1>5 DEF Setback, NextAttempt

LEMMA PostUnansweredInv ==
  ASSUME ReleaseInv, NEW w \in Workers, PostUnanswered(w)
  PROVE  ReleaseInv'
<1> DEFINE m == WriteRequest(worker[w])
<1>0. ReleaseTypeOK
  BY DEF ReleaseInv
<1>1. m \in Message /\ MessageOK(m)
  BY RequestOK DEF PostUnanswered
<1>2. PICK r \in Release : /\ worker' = [worker EXCEPT ![w] = r]
                           /\ ReleaseOK(r) /\ OnRecord(r)
  BY SetbackOK DEF PostUnanswered
<1>3. CASE ProviderHandles(m) /\ wire' = wire
  <2>1. /\ Grows
        /\ book' \in [Objects -> [value : Payloads, token : Nat]]
        /\ writes' \subseteq AppliedWrite
    BY <1>1, <1>3, ProviderStep DEF PostUnanswered
  <2>2. ReleaseTypeOK'
    BY <1>0, <1>2, <1>3, <2>1 DEF ReleaseTypeOK, PostUnanswered
  <2>3. ReleaseOK(r)' /\ OnRecord(r)'
    BY <1>0, <1>2, <2>1, <2>2, ReleaseStays
  <2>4. ReleasesOK'
    BY <1>2, <2>1, <2>2, <2>3, OthersStay
  <2>5. WireOK'
    BY <1>0, <1>3, <2>1, <2>2, MessageStays DEF WireOK, ReleaseInv, ProviderInv, ReleaseTypeOK
  <2> QED
    BY <1>1, <1>3, <2>2, <2>4, <2>5, ProviderClose DEF PostUnanswered
<1>4. CASE wire' \in {wire, wire \cup {m}} /\ UNCHANGED <<book, writes>>
  <2>1. Grows /\ UNCHANGED reviewVars /\ UNCHANGED <<executions, book, writes>>
    BY <1>4 DEF Grows, PostUnanswered, reviewVars
  <2>2. ReleaseTypeOK'
    BY <1>0, <1>1, <1>2, <1>4, <2>1 DEF ReleaseTypeOK
  <2>3. ReleaseOK(r)' /\ OnRecord(r)'
    BY <1>0, <1>2, <2>1, <2>2, ReleaseStays
  <2>4. ReleasesOK'
    BY <1>2, <2>1, <2>2, <2>3, OthersStay
  <2>5. WireOK'
    <3>1. \A n \in wire' : n \in Message /\ MessageOK(n)
      BY <1>0, <1>1, <1>4 DEF WireOK, ReleaseInv, ProviderInv, ReleaseTypeOK
    <3> QED
      BY <1>0, <2>1, <2>2, <3>1, MessageStays DEF WireOK
  <2>6. WritesOK' /\ BookHonest' /\ KeysOnce'
    <3>1. WritesOK'
      BY <1>0, <2>1, WriteStays DEF WritesOK, ReleaseInv, ProviderInv, ReleaseTypeOK
    <3> QED
      BY <2>1, <3>1 DEF BookHonest, KeysOnce, ReleaseInv, ProviderInv
  <2>7. ReviewInv' /\ VerifiedWasWritten'
    BY <2>1, ReviewStepInv DEF ReleaseInv, VerifiedWasWritten, PriorStatus, reviewVars
  <2> QED
    BY <2>2, <2>4, <2>5, <2>6, <2>7 DEF ReleaseInv, ProviderInv
<1> QED
  BY <1>3, <1>4 DEF PostUnanswered

LEMMA LateArrivalInv ==
  ASSUME ReleaseInv, NEW m \in wire, LateArrival(m)
  PROVE  ReleaseInv'
<1>0. ReleaseTypeOK
  BY DEF ReleaseInv
<1>1. m \in Message /\ MessageOK(m) /\ ProviderHandles(m)
  BY <1>0 DEF ReleaseInv, ProviderInv, WireOK, ReleaseTypeOK, LateArrival
<1>2. /\ Grows
      /\ book' \in [Objects -> [value : Payloads, token : Nat]]
      /\ writes' \subseteq AppliedWrite
  BY <1>1, ProviderStep DEF LateArrival
<1>3. ReleaseTypeOK'
  BY <1>0, <1>2 DEF ReleaseTypeOK, LateArrival
<1>4. ReleasesOK'
  <2> SUFFICES ASSUME NEW v \in Workers, Working(v)
               PROVE  ReleaseOK(worker[v])' /\ OnRecord(worker[v])'
    BY DEF ReleasesOK, Working, LateArrival
  <2>1. PICK x \in Release : x = worker[v] /\ ReleaseOK(x) /\ OnRecord(x)
    BY WorkingFacts
  <2>2. ReleaseOK(x)' /\ OnRecord(x)' /\ worker'[v] = x
    BY <1>0, <1>2, <1>3, <2>1, ReleaseStays DEF LateArrival
  <2> QED
    BY <2>2 DEF ReleaseOK, OnRecord, TokenHonest, HasDraft, Cleared, Written, Underway, KeyOf
<1>5. WireOK'
  BY <1>0, <1>2, <1>3, MessageStays DEF WireOK, ReleaseInv, ProviderInv, ReleaseTypeOK, LateArrival
<1> QED
  BY <1>1, <1>3, <1>4, <1>5, ProviderClose DEF LateArrival
-----------------------------------------------------------------------------
\* A release that only moves on, under the version, payload and token it had.
LEMMA MoveInv ==
  ASSUME ReleaseInv, NEW w \in Workers, NEW pc, Working(w), Underway(worker[w]),
         Move(w, pc), UNCHANGED reviewVars, UNCHANGED <<executions, book, wire, writes>>,
         pc = "failed" \/ (pc = "verified" /\ worker[w].pc = "verifying")
  PROVE  ReleaseInv'
<1> DEFINE r0 == worker[w]
           r == [r0 EXCEPT !.pc = pc]
<1>1. r0 \in Release /\ ReleaseOK(r0) /\ OnRecord(r0)
  BY WorkingFacts
<1>2. /\ r \in Release /\ r.pc = pc /\ r.proposal = r0.proposal /\ r.version = r0.version
      /\ r.payload = r0.payload /\ r.token = r0.token /\ r.user = r0.user
  BY <1>1 DEF Release
<1>3. ReleaseOK(r) /\ OnRecord(r)
  BY <1>1, <1>2
     DEF ReleaseOK, OnRecord, Underway, TokenHonest, HasDraft, Cleared, Written, KeyOf
<1>4. worker' = [worker EXCEPT ![w] = r]
  BY DEF Move, ReleaseInv, ReleaseTypeOK
<1> HIDE DEF r
<1> QED
  BY <1>2, <1>3, <1>4, QuietMoves

\* The retry after a stale token reads the token and the reviewed fields together.
LEMMA RecoverStaleInv ==
  ASSUME ReleaseInv, NEW w \in Workers, RecoverStale(w)
  PROVE  ReleaseInv'
<1> DEFINE r0 == worker[w]
           o == TargetOf[r0.proposal]
<1>0. ReleaseTypeOK
  BY DEF ReleaseInv
<1>1. r0 \in Release /\ ReleaseOK(r0) /\ OnRecord(r0) /\ r0.pc = "stale"
  BY WorkingFacts DEF RecoverStale
<1>2. CASE r0.attempt < MaxAttempts
  <2> DEFINE n == r0.attempt + 1
             k == book[o].token
             a == [r0 EXCEPT !.pc = "writing", !.attempt = n]
             r == [a EXCEPT !.tries = 1, !.token = k]
  <2>1. n \in Nat
    BY <1>1 DEF Release
  <2>2. worker' = [worker EXCEPT ![w] = r]
    BY <1>0, <1>2 DEF RecoverStale, ReleaseTypeOK
  <2>3. UNCHANGED reviewVars /\ UNCHANGED <<executions, book, wire, writes>>
    BY DEF RecoverStale
  <2>4. book[o].value = Current[r0.proposal]
    BY DEF RecoverStale
  <2>5. IsUpdate(r0.proposal)   \* a create carries no token and is never stale
    BY <1>1 DEF ReleaseOK
  <2>6. k \in Nat
    BY <1>0, <1>1, <2>5, TargetExists DEF ReleaseTypeOK, Release
  <2> HIDE DEF n
  <2>7. /\ a \in Release /\ a.pc = "writing" /\ a.proposal = r0.proposal
        /\ a.version = r0.version /\ a.payload = r0.payload /\ a.user = r0.user
    BY <1>1, <2>1 DEF Release
  <2> HIDE DEF a, k
  <2>8. /\ r \in Release /\ r.pc = "writing" /\ r.proposal = r0.proposal
        /\ r.version = r0.version /\ r.payload = r0.payload /\ r.user = r0.user
        /\ r.token = k
    BY <2>6, <2>7 DEF Release
  <2> HIDE DEF r
  <2>9. TokenHonest(r)
    BY <2>4, <2>6, <2>8 DEF TokenHonest, k
  <2>10. ReleaseOK(r) /\ OnRecord(r)
    BY <1>1, <2>8, <2>9 DEF ReleaseOK, OnRecord, Underway, HasDraft, Cleared
  <2> QED
    BY <2>2, <2>3, <2>8, <2>10, QuietMoves
<1>3. CASE ~(r0.attempt < MaxAttempts)
  BY <1>1, <1>3, MoveInv DEF RecoverStale, Underway
<1> QED
  BY <1>2, <1>3
-----------------------------------------------------------------------------
\* The outcome is recorded on a row that is there.
LEMMA RecordFailureInv ==
  ASSUME ReleaseInv, NEW w \in Workers, RecordFailure(w)
  PROVE  ReleaseInv'
<1> DEFINE p == worker[w].proposal
           x == [executions[p] EXCEPT !.status = "failed"]
<1>0. ReleaseTypeOK
  BY DEF ReleaseInv
<1>1. p \in Proposals /\ executions[p] \in Execution
  BY WorkingFacts DEF RecordFailure, OnRecord, Underway, Release
<1>2. x \in Execution /\ x.status = "failed"
  BY <1>1 DEF Execution
<1>3. executions' = [executions EXCEPT ![p] = x]
  BY <1>0, <1>1 DEF RecordFailure, ReleaseTypeOK
<1> HIDE DEF x
<1>4. /\ executions' \in [Proposals -> {None} \cup Execution]
      /\ \A q \in Proposals : executions[q] \in Execution => executions'[q] \in Execution
  BY <1>0, <1>1, <1>2, <1>3 DEF ReleaseTypeOK
<1>5. ReviewInv'
  BY ReviewStepInv DEF RecordFailure, ReleaseInv
<1>6. VerifiedWasWritten'
  <2> SUFFICES ASSUME NEW q \in Proposals, status'[q] = "verified" \/ PriorStatus(q)' = "verified"
               PROVE  \E e \in writes' : e.proposal = q
    BY DEF VerifiedWasWritten
  <2>1. status[q] = "verified" \/ PriorStatus(q) = "verified"
    BY <1>0, <1>1, <1>2, <1>3 DEF PriorStatus, ReleaseTypeOK, RecordFailure, reviewVars
  <2> QED
    BY <2>1 DEF ReleaseInv, VerifiedWasWritten, RecordFailure
<1> QED
  BY <1>4, <1>5, <1>6, RecordMoves DEF RecordFailure, Leave, reviewVars

\* A change of status alone disturbs nothing the review keeps.
LEMMA StatusMoves ==
  ASSUME ReviewInv, NEW p \in Proposals, NEW s \in Statuses,
         status' = [status EXCEPT ![p] = s],
         UNCHANGED <<version, proposed, approvals, request, drafts>>
  PROVE  ReviewInv'
  BY DEF ReviewInv, ReviewTypeOK, TablesInv, DraftsBounded, PresentDraft, OneDraftPerVersion,
     EditsOnRecord, AuthorsOnRecord, ApprovalsDrafted, EditorNeverApproves, RequestsCurrent,
     Busy, AnswersVersion, ApproverDiffers

LEMMA RecordVerifiedInv ==
  ASSUME ReleaseInv, NEW w \in Workers, RecordVerified(w)
  PROVE  ReleaseInv'
<1> DEFINE r == worker[w]
           p == r.proposal
           x == [executions[p] EXCEPT !.status = "verified"]
<1>0. ReleaseTypeOK
  BY DEF ReleaseInv
<1>1. p \in Proposals /\ executions[p] \in Execution /\ Written(r)
  BY WorkingFacts DEF RecordVerified, ReleaseOK, OnRecord, Underway, Release
<1>2. x \in Execution
  BY <1>1 DEF Execution
<1>3. executions' = [executions EXCEPT ![p] = x]
  BY <1>0, <1>1 DEF RecordVerified, ReleaseTypeOK
<1> HIDE DEF x
<1>4. /\ executions' \in [Proposals -> {None} \cup Execution]
      /\ \A q \in Proposals : executions[q] \in Execution => executions'[q] \in Execution
  BY <1>0, <1>1, <1>2, <1>3 DEF ReleaseTypeOK
<1>5. ReviewInv'
  <2>1. "verified" \in Statuses
    BY DEF Statuses, TRANSITIONS
  <2> QED
    BY <1>1, <2>1, StatusMoves DEF RecordVerified, ReleaseInv
<1>6. \E e \in writes : e.proposal = p
  <2>1. PICK e \in writes : e.key = KeyOf(r)
    BY <1>1 DEF Written
  <2>2. e.key = KeyOf(e)
    BY DEF ReleaseInv, ProviderInv, WritesOK, WriteOK
  <2> QED
    BY <2>1, <2>2 DEF KeyOf
<1>7. VerifiedWasWritten'
  <2> SUFFICES ASSUME NEW q \in Proposals, status'[q] = "verified" \/ PriorStatus(q)' = "verified"
               PROVE  \E e \in writes : e.proposal = q
    BY DEF VerifiedWasWritten, RecordVerified
  <2>1. CASE q = p
    BY <1>6, <2>1
  <2>2. CASE q # p
    <3>1. status'[q] = status[q] /\ executions'[q] = executions[q]
      BY <1>0, <1>1, <1>3, <2>2 DEF RecordVerified, ReleaseInv, ReviewInv, ReviewTypeOK, ReleaseTypeOK
    <3> QED
      BY <3>1 DEF ReleaseInv, VerifiedWasWritten, PriorStatus
  <2> QED
    BY <2>1, <2>2
<1> QED
  BY <1>4, <1>5, <1>7, RecordMoves DEF RecordVerified, Leave

-----------------------------------------------------------------------------
\* A step that grows what is on record and leaves the provider and the rows alone.
LEMMA ReviewMoves ==
  ASSUME ReleaseInv, ReviewInv', UNCHANGED <<executions, book, wire, writes>>,
         drafts \subseteq drafts', approvals \subseteq approvals',
         \A p \in Proposals : status'[p] = "verified" => status[p] = "verified",
         worker' = worker \/ worker' = [w \in Workers |-> Idle]
  PROVE  ReleaseInv'
<1>0. ReleaseTypeOK
  BY DEF ReleaseInv
<1>1. Grows
  BY DEF Grows
<1>2. ReleaseTypeOK'
  BY <1>0 DEF ReleaseTypeOK
<1>3. ProviderInv'
  BY <1>1, <1>2, ProviderStays
<1>4. ReleasesOK'
  <2> SUFFICES ASSUME NEW v \in Workers, Working(v)'
               PROVE  ReleaseOK(worker[v])' /\ OnRecord(worker[v])'
    BY DEF ReleasesOK
  <2>1. worker' = worker /\ Working(v)
    BY DEF Working
  <2>2. PICK x \in Release : x = worker[v] /\ ReleaseOK(x) /\ OnRecord(x)
    BY <2>1, WorkingFacts
  <2>3. ReleaseOK(x)' /\ OnRecord(x)' /\ worker'[v] = x
    BY <1>0, <1>1, <1>2, <2>1, <2>2, ReleaseStays
  <2> QED
    BY <2>3 DEF ReleaseOK, OnRecord, TokenHonest, HasDraft, Cleared, Written, Underway, KeyOf
<1>5. VerifiedWasWritten'
  BY DEF ReleaseInv, VerifiedWasWritten, PriorStatus
<1> QED
  BY <1>2, <1>3, <1>4, <1>5 DEF ReleaseInv

\* The review only adds drafts and approvals, and verifies nothing.
LEMMA ReviewGrows ==
  ASSUME ReviewInv, ReviewNext
  PROVE  /\ drafts \subseteq drafts' /\ approvals \subseteq approvals'
         /\ \A p \in Proposals : status'[p] = "verified" => status[p] = "verified"
<1>1. PICK t \in Threads : Submit(t) \/ Serve(t)
  BY DEF ReviewNext
<1>2. CASE CommitDecision(t)
  <2>1. Target[request[t].decision] # "verified"
    BY <1>2, CommitFacts, DecisionsAre DEF Target, Request
  <2>2. status' = [status EXCEPT ![request[t].proposal] = Target[request[t].decision]]
        /\ drafts \subseteq drafts' /\ approvals \subseteq approvals'
    BY <1>2 DEF CommitDecision, WriteDecision
  <2> QED
    BY <2>1, <2>2 DEF ReviewInv, ReviewTypeOK
<1>3. CASE Submit(t)
  BY <1>3 DEF Submit, OpenBatch, OpenVerdict, OpenEdit
<1>4. CASE Serve(t) /\ ~CommitDecision(t)
  BY <1>4 DEF Serve, CheckFingerprint, RefuseBatch, ReadProposal, RefuseDecision, LoseDecision
<1> QED
  BY <1>1, <1>2, <1>3, <1>4

LEMMA ReviewInterleaves ==
  ASSUME ReleaseInv, ReviewNext, UNCHANGED releaseVars
  PROVE  ReleaseInv'
  BY ReviewGrows, ReviewStepInv, ReviewMoves DEF ReleaseInv, releaseVars

LEMMA CrashInv ==
  ASSUME ReleaseInv, Crash
  PROVE  ReleaseInv'
<1>1. ReviewInv'
  BY DEF Crash, ReleaseInv, ReviewInv, ReviewTypeOK, TablesInv, DraftsBounded, PresentDraft,
     OneDraftPerVersion, EditsOnRecord, AuthorsOnRecord, ApprovalsDrafted,
     EditorNeverApproves, RequestsCurrent, Busy
<1> QED
  BY <1>1, ReviewMoves DEF Crash
\* The bookkeeper's edit moves the token with the value.
LEMMA BookkeeperInv ==
  ASSUME ReleaseInv, NEW o \in Objects, NEW x \in Payloads, BookkeeperEdits(o, x)
  PROVE  ReleaseInv'
<1>0. ReleaseTypeOK
  BY DEF ReleaseInv
<1>1. /\ book' = [book EXCEPT ![o] = [value |-> x, token |-> book[o].token + 1]]
      /\ UNCHANGED reviewVars /\ UNCHANGED <<executions, worker, wire, writes>>
  BY DEF BookkeeperEdits
<1>2. /\ book' \in [Objects -> [value : Payloads, token : Nat]]
      /\ \A q \in Objects : \/ book'[q] = book[q]
                            \/ book'[q].token > book[q].token /\ book'[q].token # 0
  BY <1>0, <1>1 DEF ReleaseTypeOK
<1>3. Grows
  BY <1>1, <1>2 DEF Grows, reviewVars
<1>4. ReleaseTypeOK'
  BY <1>0, <1>1, <1>2 DEF ReleaseTypeOK
<1>5. BookHonest'
  <2> SUFFICES ASSUME NEW q \in Proposals, IsUpdate(q), book'[TargetOf[q]].token = 0
               PROVE  book'[TargetOf[q]].value = Current[q]
    BY DEF BookHonest, IsUpdate
  <2>1. book'[TargetOf[q]] = book[TargetOf[q]]
    BY <1>2, TargetExists
  <2> QED
    BY <2>1 DEF BookHonest, ReleaseInv, ProviderInv
<1>6. WireOK' /\ WritesOK'
  BY <1>0, <1>1, <1>3, <1>4, MessageStays, WriteStays
     DEF WireOK, WritesOK, ReleaseInv, ProviderInv, ReleaseTypeOK
<1>7. KeysOnce'
  BY <1>1 DEF KeysOnce, ReleaseInv, ProviderInv
<1>8. ReleasesOK'
  <2> SUFFICES ASSUME NEW v \in Workers, Working(v)
               PROVE  ReleaseOK(worker[v])' /\ OnRecord(worker[v])'
    BY <1>1 DEF ReleasesOK, Working
  <2>1. PICK r \in Release : r = worker[v] /\ ReleaseOK(r) /\ OnRecord(r)
    BY WorkingFacts
  <2>2. ReleaseOK(r)' /\ OnRecord(r)' /\ worker'[v] = r
    BY <1>0, <1>1, <1>3, <1>4, <2>1, ReleaseStays
  <2> QED
    BY <2>2 DEF ReleaseOK, OnRecord, TokenHonest, HasDraft, Cleared, Written, Underway, KeyOf
<1>9. ReviewInv' /\ VerifiedWasWritten'
  BY <1>1, ReviewStepInv DEF ReleaseInv, VerifiedWasWritten, PriorStatus, reviewVars
<1> QED
  BY <1>4, <1>5, <1>6, <1>7, <1>8, <1>9 DEF ReleaseInv, ProviderInv

-----------------------------------------------------------------------------
LEMMA WorkInv ==
  ASSUME ReleaseInv, NEW w \in Workers, Work(w)
  PROVE  ReleaseInv'
<1>1. CASE ReadRow(w)
  BY <1>1, ReadRowInv
<1>2. CASE ReadPrior(w)
  BY <1>2, ReadPriorInv
<1>3. CASE ReplayOrRefuse(w) \/ RefuseRelease(w) \/ LoseOutcome(w)
  BY <1>3, LeaveInv DEF ReplayOrRefuse, RefuseRelease, LoseOutcome
<1>4. CASE StartExecution(w)
  BY <1>4, StartExecutionInv
<1>5. CASE PostAnswered(w)
  BY <1>5, PostAnsweredInv
<1>6. CASE PostUnanswered(w)
  BY <1>6, PostUnansweredInv
<1>7. CASE RecoverStale(w)
  BY <1>7, RecoverStaleInv
<1>8. CASE AbandonStale(w) \/ VerifyFails(w)
  BY <1>8, MoveInv DEF AbandonStale, VerifyFails, Underway
<1>9. CASE VerifyMatches(w)
  BY <1>9, MoveInv DEF VerifyMatches, Underway
<1>10. CASE RecordFailure(w)
  BY <1>10, RecordFailureInv
<1>11. CASE RecordVerified(w)
  BY <1>11, RecordVerifiedInv
<1> QED
  BY <1>1, <1>2, <1>3, <1>4, <1>5, <1>6, <1>7, <1>8, <1>9, <1>10, <1>11 DEF Work

LEMMA ReleaseStepInv == ReleaseInv /\ [Next]_vars => ReleaseInv'
<1> SUFFICES ASSUME ReleaseInv, [Next]_vars PROVE ReleaseInv'
  OBVIOUS
<1>1. CASE ReviewNext /\ UNCHANGED releaseVars
  BY <1>1, ReviewInterleaves
<1>2. ASSUME NEW w \in Workers, NEW u \in Releasers, NEW p \in Proposals, OpenRelease(w, u, p)
      PROVE  ReleaseInv'
  BY <1>2, OpenReleaseInv
<1>3. ASSUME NEW w \in Workers, Work(w) PROVE ReleaseInv'
  BY <1>3, WorkInv
<1>4. ASSUME NEW m \in wire, LateArrival(m) PROVE ReleaseInv'
  BY <1>4, LateArrivalInv
<1>5. ASSUME NEW o \in Objects, NEW x \in Payloads, BookkeeperEdits(o, x) PROVE ReleaseInv'
  BY <1>5, BookkeeperInv
<1>6. CASE Crash
  BY <1>6, CrashInv
<1>7. CASE UNCHANGED vars
  BY <1>7, ReviewStepInv, ReviewMoves DEF vars, releaseVars, reviewVars, ReleaseInv
<1> QED
  BY <1>1, <1>2, <1>3, <1>4, <1>5, <1>6, <1>7 DEF Next

\* The state of review and release together, for any number of proposals, people,
\* threads and retries, with or without crashes: what every request on its way to
\* the provider, and every write it applied, rests on.
THEOREM ReleaseInvariant == Spec => []ReleaseInv
  BY ReleaseInitInv, ReleaseStepInv, PTL DEF Spec

\* Rows, releases, messages and writes have the types the code gives them.
THEOREM TypeCorrect == Spec => []TypeOK
<1>1. ReleaseInv => TypeOK
  BY DEF ReleaseInv, ReviewInv, TypeOK
<1> QED
  BY <1>1, ReleaseInvariant, PTL

\* The approval gate (execute_saved): everything QuickBooks applied was approved by
\* someone who did not write it, and released by someone else or a sole operator.
THEOREM EveryWriteApprovedHolds == Spec => []EveryWriteApproved
<1>1. ReleaseInv => EveryWriteApproved
  <2> SUFFICES ASSUME ReleaseInv, NEW e \in writes
               PROVE  \E a \in Users :
                        /\ ApprovedBy(e.proposal, e.version, a)
                        /\ a # e.releaser \/ SingleOperator
                        /\ \E d \in drafts : /\ d.proposal = e.proposal
                                             /\ d.version = e.version
                                             /\ d.payload = e.payload
                                             /\ d.author # a
    BY DEF EveryWriteApproved
  <2>1. HasDraft(e) /\ Cleared(e, e.releaser)
    BY DEF ReleaseInv, ProviderInv, WritesOK, WriteOK
  <2>2. PICK a \in Users : /\ ApprovedBy(e.proposal, e.version, a)
                           /\ a # e.releaser \/ SingleOperator
    BY <2>1 DEF Cleared
  <2>3. PICK d \in drafts : d.proposal = e.proposal /\ d.version = e.version /\ d.payload = e.payload
    BY <2>1 DEF HasDraft
  <2>4. d.author # a
    BY <2>2, <2>3
       DEF ReleaseInv, ReviewInv, TablesInv, EditorNeverApproves, ApprovedBy, Decision
  <2> QED
    BY <2>2, <2>3, <2>4
<1> QED
  BY <1>1, ReleaseInvariant, PTL

\* One requestid per approved version (idempotency_key), and so one write.
THEOREM OneWritePerApprovalHolds == Spec => []OneWritePerApproval
<1>1. ReleaseInv => OneWritePerApproval
  BY DEF ReleaseInv, ProviderInv, KeysOnce, WritesOK, WriteOK, KeyOf, OneWritePerApproval
<1> QED
  BY <1>1, ReleaseInvariant, PTL

\* A retry takes a fresh SyncToken only with the reviewed value (execute).
THEOREM NoLostUpdateHolds == Spec => []NoLostUpdate
<1>1. ReleaseInv => NoLostUpdate
  BY DEF ReleaseInv, ProviderInv, WritesOK, WriteOK, NoLostUpdate
<1> QED
  BY <1>1, ReleaseInvariant, PTL

\* "verified" is recorded only after a write of that proposal was applied.
THEOREM VerifiedWasWrittenHolds == Spec => []VerifiedWasWritten
<1>1. ReleaseInv => VerifiedWasWritten
  BY DEF ReleaseInv
<1> QED
  BY <1>1, ReleaseInvariant, PTL

-----------------------------------------------------------------------------
(* ProposalRelease implements ApprovedWrites: edits, approvals and the     *)
(* provider's writes are the promise's Edit, Approve and Write, and every  *)
(* other step of requests, releases, retries and crashes is a stutter.     *)


Approvals ==
  {[proposal |-> a.proposal, version |-> a.version, actor |-> a.actor] :
     a \in {b \in approvals : b.decision = "approve"}}

Ledger ==
  {[proposal |-> e.proposal, version |-> e.version,
    payload |-> e.payload, releaser |-> e.releaser] : e \in writes}

-----------------------------------------------------------------------------
LEMMA InitialPromise == ReleaseInit => Promise!Init
  BY DEF ReleaseInit, ReviewInit, Promise!Init, Draft

LEMMA PromiseStutters ==
  ASSUME UNCHANGED <<drafts, approvals, writes>>
  PROVE  UNCHANGED Promise!promiseVars
  BY DEF Promise!promiseVars

\* An edit that commits follows the latest draft of its proposal.
LEMMA EditKeepsPromise ==
  ASSUME ReviewInv, NEW t \in Threads, CommitDecision(t),
         request[t].decision = "edit", UNCHANGED writes
  PROVE  Promise!Next
<1> DEFINE r == request[t]
           p == r.proposal
<1>1. /\ r \in Request /\ p \in Proposals /\ r.version = version[p]
      /\ r.user \in Users /\ r.payload \in Payloads
  BY CommitFacts, EditIsCurrent DEF AnswersVersion, Request
<1>2. PICK d \in drafts : d.proposal = p /\ d.version = version[p]
  BY <1>1 DEF ReviewInv, TablesInv, PresentDraft
<1>3. \A e \in drafts : e.proposal = d.proposal => e.version <= d.version
  BY <1>2 DEF ReviewInv, TablesInv, DraftsBounded
<1>4. drafts' = drafts \cup {[proposal |-> d.proposal, version |-> d.version + 1,
                              payload |-> r.payload, author |-> r.user]}
  BY <1>1, <1>2 DEF CommitDecision, WriteDecision, Draft
<1>5. Approvals' = Approvals
  <2>1. approvals' = approvals \cup {Decision(p, r.version + 1, "edit", r.user)}
    BY DEF CommitDecision, WriteDecision, DecidedVersion
  <2>2. {b \in approvals' : b.decision = "approve"} = {b \in approvals : b.decision = "approve"}
    BY <2>1 DEF Decision
  <2> QED
    BY <2>2 DEF Approvals
<1>6. Ledger' = Ledger
  BY DEF Ledger
<1>7. Promise!Edit(d, r.payload, r.user)
  BY <1>3, <1>4, <1>5, <1>6 DEF Promise!Edit, Approvals, Ledger
<1> QED
  BY <1>1, <1>7 DEF Promise!Next

\* An approval that commits is the first of its version, and not by the author.
LEMMA VerdictKeepsPromise ==
  ASSUME ReviewInv, NEW t \in Threads, CommitDecision(t),
         request[t].decision # "edit", UNCHANGED writes
  PROVE  Promise!Next \/ UNCHANGED Promise!promiseVars
<1> DEFINE r == request[t]
           row == Decision(r.proposal, r.version, r.decision, r.user)
<1>1. r \in Request /\ r.user \in Users /\ AnswersVersion(r) /\ ApproverDiffers(r)
  BY CommitFacts DEF Request
<1>2. /\ approvals' = approvals \cup {row}
      /\ drafts' = drafts
  BY DEF CommitDecision, WriteDecision, DecidedVersion
<1>3. Ledger' = Ledger
  BY DEF Ledger
<1>4. row.proposal = r.proposal /\ row.version = r.version
      /\ row.decision = r.decision /\ row.actor = r.user
  BY DEF Decision
<1>5. CASE r.decision = "approve"
  <2>1. PICK d \in drafts : d.proposal = r.proposal /\ d.version = r.version
    BY <1>1 DEF AnswersVersion, CommitDecision
  <2>2. d.author # r.user
    BY <1>1, <1>5, <2>1 DEF ApproverDiffers, CommitDecision
  <2>3. \A a \in Approvals : ~(a.proposal = d.proposal /\ a.version = d.version)
    BY <1>5, <2>1 DEF CommitDecision, Collides, DecidedVersion, Approvals
  <2>4. {b \in approvals' : b.decision = "approve"}
          = {b \in approvals : b.decision = "approve"} \cup {row}
    BY <1>2, <1>4, <1>5
  <2>5. Approvals' = Approvals \cup
          {[proposal |-> d.proposal, version |-> d.version, actor |-> r.user]}
    BY <1>4, <2>1, <2>4 DEF Approvals
  <2>6. PICK u \in Users : u = r.user
    BY <1>1
  <2>7. Promise!Approve(d, u)
    BY <1>2, <1>3, <2>2, <2>3, <2>5, <2>6 DEF Promise!Approve, Approvals, Ledger
  <2> QED
    BY <2>1, <2>7 DEF Promise!Next
<1>6. CASE r.decision # "approve"
  <2>1. {b \in approvals' : b.decision = "approve"} = {b \in approvals : b.decision = "approve"}
    BY <1>2, <1>4, <1>6
  <2> QED
    BY <1>2, <1>3, <2>1 DEF Promise!promiseVars, Approvals, Ledger
<1> QED
  BY <1>5, <1>6

LEMMA ReviewKeepsPromise ==
  ASSUME ReviewInv, ReviewNext, UNCHANGED writes
  PROVE  Promise!Next \/ UNCHANGED Promise!promiseVars
<1>1. PICK t \in Threads : Submit(t) \/ Serve(t)
  BY DEF ReviewNext
<1>2. CASE CommitDecision(t)
  BY <1>2, EditKeepsPromise, VerdictKeepsPromise
<1>3. CASE Submit(t)
  BY <1>3, PromiseStutters DEF Submit, OpenBatch, OpenVerdict, OpenEdit
<1>4. CASE Serve(t) /\ ~CommitDecision(t)
  BY <1>4, PromiseStutters
     DEF Serve, CheckFingerprint, RefuseBatch, ReadProposal, RefuseDecision, LoseDecision
<1> QED
  BY <1>1, <1>2, <1>3, <1>4

-----------------------------------------------------------------------------
\* What the provider applies is a draft that was approved and not yet written.
LEMMA ProviderKeepsPromise ==
  ASSUME ReleaseInv, NEW m \in Message, MessageOK(m), ProviderHandles(m),
         UNCHANGED <<drafts, approvals>>
  PROVE  Promise!Next \/ UNCHANGED Promise!promiseVars
<1>1. CASE ~Applies(m)
  BY <1>1, PromiseStutters DEF ProviderHandles
<1>2. CASE Applies(m)
  <2>1. writes' = writes \cup {WriteRecord(m)} /\ ~Applied(m)
    BY <1>2 DEF ProviderHandles, Applies
  <2>2. PICK d \in drafts : /\ d.proposal = m.proposal
                            /\ d.version = m.version
                            /\ d.payload = m.payload
    BY DEF MessageOK, HasDraft
  <2>3. PICK a \in Users : /\ Decision(m.proposal, m.version, "approve", a) \in approvals
                           /\ a # m.user \/ SingleOperator
    BY DEF MessageOK, Cleared, ApprovedBy
  <2>4. \E b \in Approvals : /\ b.proposal = d.proposal
                             /\ b.version = d.version
                             /\ b.actor # m.user \/ SingleOperator
    <3>1. [proposal |-> m.proposal, version |-> m.version, actor |-> a] \in Approvals
      BY <2>3 DEF Approvals, Decision
    <3> QED
      BY <2>2, <2>3, <3>1
  <2>5. \A e \in Ledger : ~(e.proposal = d.proposal /\ e.version = d.version)
    <3> SUFFICES ASSUME NEW e \in writes, e.proposal = m.proposal, e.version = m.version
                 PROVE  FALSE
      BY <2>2 DEF Ledger
    <3>1. e.key = m.key
      BY DEF ReleaseInv, ProviderInv, WritesOK, WriteOK, MessageOK, KeyOf
    <3> QED
      BY <2>1, <3>1 DEF Applied
  <2>6. Ledger' = Ledger \cup
          {[proposal |-> d.proposal, version |-> d.version,
            payload |-> d.payload, releaser |-> m.user]}
    <3> DEFINE row == WriteRecord(m)
    <3>1. /\ row.proposal = d.proposal /\ row.version = d.version
          /\ row.payload = d.payload /\ row.releaser = m.user
      BY <2>2 DEF WriteRecord
    <3>2. writes' = writes \cup {row}
      BY <2>1
    <3> HIDE DEF row
    <3> QED
      BY <3>1, <3>2 DEF Ledger
  <2>7. Approvals' = Approvals
    BY DEF Approvals
  <2>8. Promise!Write(d, m.user)
    BY <2>4, <2>5, <2>6, <2>7 DEF Promise!Write, Approvals, Ledger
  <2> QED
    BY <2>2, <2>8 DEF Promise!Next, Message
<1> QED
  BY <1>1, <1>2

LEMMA WorkKeepsPromise ==
  ASSUME ReleaseInv, NEW w \in Workers, Work(w)
  PROVE  Promise!Next \/ UNCHANGED Promise!promiseVars
<1> DEFINE m == WriteRequest(worker[w])
<1>1. CASE PostAnswered(w)
  BY <1>1, RequestOK, ProviderKeepsPromise DEF PostAnswered, reviewVars
<1>2. CASE PostUnanswered(w)
  <2>1. m \in Message /\ MessageOK(m)
    BY <1>2, RequestOK DEF PostUnanswered
  <2>2. UNCHANGED <<drafts, approvals>>
    BY <1>2 DEF PostUnanswered, reviewVars
  <2>3. ProviderHandles(m) \/ UNCHANGED writes
    BY <1>2 DEF PostUnanswered
  <2> QED
    BY <2>1, <2>2, <2>3, ProviderKeepsPromise, PromiseStutters
<1>3. CASE ~PostAnswered(w) /\ ~PostUnanswered(w)
  BY <1>3, PromiseStutters
     DEF Work, reviewVars, ReadRow, ReadPrior, ReplayOrRefuse, StartExecution, RefuseRelease,
         RecoverStale, AbandonStale, VerifyMatches, VerifyFails, RecordFailure,
         RecordVerified, LoseOutcome
<1> QED
  BY <1>1, <1>2, <1>3

LEMMA StepKeepsPromise == ReleaseInv /\ [Next]_vars => [Promise!Next]_(Promise!promiseVars)
<1> SUFFICES ASSUME ReleaseInv, [Next]_vars
             PROVE  Promise!Next \/ UNCHANGED Promise!promiseVars
  OBVIOUS
<1>1. CASE ReviewNext /\ UNCHANGED releaseVars
  BY <1>1, ReviewKeepsPromise DEF releaseVars, ReleaseInv
<1>2. ASSUME NEW w \in Workers, NEW u \in Releasers, NEW p \in Proposals, OpenRelease(w, u, p)
      PROVE  UNCHANGED Promise!promiseVars
  BY <1>2, PromiseStutters DEF OpenRelease, reviewVars
<1>3. ASSUME NEW w \in Workers, Work(w)
      PROVE  Promise!Next \/ UNCHANGED Promise!promiseVars
  BY <1>3, WorkKeepsPromise
<1>4. ASSUME NEW m \in wire, LateArrival(m)
      PROVE  Promise!Next \/ UNCHANGED Promise!promiseVars
  <2>1. m \in Message /\ MessageOK(m)
    BY DEF ReleaseInv, ReleaseTypeOK, ProviderInv, WireOK
  <2> QED
    BY <1>4, <2>1, ProviderKeepsPromise DEF LateArrival, reviewVars
<1>5. ASSUME NEW o \in Objects, NEW x \in Payloads, BookkeeperEdits(o, x)
      PROVE  UNCHANGED Promise!promiseVars
  BY <1>5, PromiseStutters DEF BookkeeperEdits, reviewVars
<1>6. CASE Crash
  BY <1>6, PromiseStutters DEF Crash
<1>7. CASE UNCHANGED vars
  BY <1>7, PromiseStutters DEF vars, reviewVars, releaseVars
<1> QED
  BY <1>1, <1>2, <1>3, <1>4, <1>5, <1>6, <1>7 DEF Next

\* The review and release of proposals (record_decision, execute_saved) implement
\* the approval gate's promise: draft, approval by another, one write by a third.
THEOREM ReleaseKeepsThePromise == Spec => KeepsThePromise
  BY InitialPromise, StepKeepsPromise, ReleaseInvariant, PTL
     DEF Spec, KeepsThePromise, Promise!Spec
=============================================================================

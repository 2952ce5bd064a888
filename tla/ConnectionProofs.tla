--------------------------- MODULE ConnectionProofs ---------------------------
(***************************************************************************)
(* Proofs about QboConnection: its types, and that an active connection    *)
(* nobody is refreshing holds a token Intuit accepts.                      *)
(***************************************************************************)
EXTENDS QboConnection, TLAPS

\* A worker is between its reading of a row and its writing.
Between == {"asking", "storing", "clearing", "flagging"}

Tasks == {AtRest} \cup Asking \cup Claiming \cup Walking \cup Revoking

States == [org : Organizations, open : BOOLEAN] \cup {NoGrant}
Approvals == [realm : Realms, spent : BOOLEAN] \cup {NoGrant}

\* Only what was started is approved.
ApprovedWasStarted == \A s \in Authorizations : approval[s] # NoGrant => state[s] # NoGrant

\* The rows and approvals a task is about exist, and its tokens have been issued.
Refers(t) ==
  /\ t.pc = "claiming" => state[t.auth] # NoGrant /\ approval[t.auth] # NoGrant
  /\ t.pc \in Between =>
       /\ IF t.auth = NoGrant THEN connection[t.realm] # NoGrant
                              ELSE /\ approval[t.auth] # NoGrant /\ t.token = 0
                                   /\ t.pc \in {"asking", "storing"}
       /\ t.token <= issued /\ t.new <= issued
  /\ t.pc \in {"revoking", "dropping"} => connection[t.realm] # NoGrant

AllRefer == \A w \in Workers : Refers(task[w])

RowsKnown == \A r \in Realms : connection[r] # NoGrant => connection[r].token <= issued

\* A token on its way to the row is usable, and nobody else has seen it.
SafeNew(w) ==
  /\ task[w].new # 0
  /\ task[w].new \in live[task[w].realm] \cup excused
  /\ \A u \in Workers : /\ task[u].pc = "storing" /\ u # w => task[u].new # task[w].new
                        /\ task[u].pc = "asking" => task[u].token # task[w].new
  /\ \A r \in Realms : connection[r] # NoGrant => connection[r].token # task[w].new

NewIsSafe == \A w \in Workers : task[w].pc = "storing" => SafeNew(w)

\* The token of an active row is usable, or a refresh that read it is under way.
ActiveCovered ==
  \A r \in Realms : connection[r] # NoGrant /\ connection[r].status = "active" =>
    \/ connection[r].token \in live[r] \cup excused
    \/ \E w \in Workers : /\ task[w].pc \in Between /\ task[w].auth = NoGrant
                          /\ task[w].realm = r /\ task[w].token = connection[r].token

ConnInv == ConnTypeOK /\ ApprovedWasStarted /\ AllRefer /\ RowsKnown /\ NewIsSafe /\ ActiveCovered

-----------------------------------------------------------------------------
LEMMA TaskFields ==
  ASSUME NEW t \in Tasks
  PROVE  /\ t.pc \in Between => t \in Asking
         /\ t.pc = "claiming" => t \in Claiming
         /\ t.pc = "walking" => t \in Walking
         /\ t.pc \in {"revoking", "dropping"} => t \in Revoking
  BY DEF Tasks, AtRest, Asking, Claiming, Walking, Revoking, Between

\* What is typed in every state of the invariant.
LEMMA Typed ==
  ASSUME ConnInv
  PROVE  /\ connection \in [Realms -> Connection \cup {NoGrant}]
         /\ \A r \in Realms : connection[r] # NoGrant => connection[r] \in Connection
         /\ state \in [Authorizations -> States]
         /\ approval \in [Authorizations -> Approvals]
         /\ \A s \in Authorizations : state[s] # NoGrant => state[s] \in [org : Organizations, open : BOOLEAN]
         /\ \A s \in Authorizations : approval[s] # NoGrant => approval[s] \in [realm : Realms, spent : BOOLEAN]
         /\ issued \in 0 .. MaxGrants /\ MaxGrants \in Nat
         /\ live \in [Realms -> SUBSET Grants]
         /\ task \in [Workers -> Tasks]
         /\ excused \subseteq 0 .. MaxGrants
  BY ConnectionAssumption DEF ConnInv, ConnTypeOK, Tasks, States, Approvals

LEMMA InitConn == ConnInit => ConnInv
<1> SUFFICES ASSUME ConnInit
             PROVE  ConnInv
  OBVIOUS
<1>1. ConnTypeOK
  BY ConnectionAssumption DEF ConnInit, ConnTypeOK
<1>2. AllRefer
  BY DEF ConnInit, AllRefer, Refers, AtRest, Between
<1>4. ApprovedWasStarted
  BY DEF ConnInit, ApprovedWasStarted
<1>3. RowsKnown /\ NewIsSafe /\ ActiveCovered
  BY DEF ConnInit, RowsKnown, NewIsSafe, SafeNew, ActiveCovered, AtRest
<1> QED
  BY <1>1, <1>2, <1>3, <1>4 DEF ConnInv

-----------------------------------------------------------------------------
\* A worker that is not between a row and Intuit takes up or ends a task of that kind.
LEMMA OutsideInv ==
  ASSUME ConnInv, UNCHANGED <<connection, state, approval, issued>>, NEW w \in Workers, NEW d \in Tasks,
         task[w].pc \notin Between, d.pc \notin Between, task' = [task EXCEPT ![w] = d],
         live' \in [Realms -> SUBSET Grants], excused' \subseteq 0 .. MaxGrants,
         \A r \in Realms : live[r] \cup excused \subseteq live'[r] \cup excused',
         d.pc = "claiming" => state[d.auth] # NoGrant /\ approval[d.auth] # NoGrant,
         d.pc \in {"revoking", "dropping"} => connection[d.realm] # NoGrant
  PROVE  ConnInv'
<1>1. task' \in [Workers -> Tasks] /\ \A u \in Workers : u # w => task'[u] = task[u]
  BY Typed
<1>2. task'[w] = d
  BY Typed
<1>3. ConnTypeOK'
  BY <1>1, Typed DEF ConnTypeOK, Tasks, States, Approvals
<1>4. AllRefer'
  <2>1. Refers(d)'
    <3>1. d.pc = "claiming" => d.auth \in Authorizations
      BY TaskFields DEF Claiming
    <3> QED
      BY <3>1 DEF Refers
  <2>2. ASSUME NEW u \in Workers, u # w
        PROVE  Refers(task[u])'
    <3>1. task[u] \in Tasks
      BY Typed
    <3>2. /\ task[u].pc = "claiming" => task[u].auth \in Authorizations
          /\ task[u].pc \in Between /\ task[u].auth # NoGrant => task[u].auth \in Authorizations
      BY <3>1, TaskFields DEF Claiming, Asking
    <3>3. Refers(task[u])
      BY DEF ConnInv, AllRefer
    <3> QED
      BY <1>1, <2>2, <3>2, <3>3 DEF Refers
  <2> QED
    BY <1>1, <1>2, <2>1, <2>2 DEF AllRefer, Refers
<1>5. RowsKnown' /\ ApprovedWasStarted'
  BY DEF ConnInv, RowsKnown, ApprovedWasStarted
<1>6. NewIsSafe'
  <2>1. ASSUME NEW v \in Workers, task'[v].pc = "storing"
        PROVE  v # w /\ task[v] = task'[v] /\ task[v].realm \in Realms
    BY <1>1, <1>2, <2>1, Typed, TaskFields DEF Between, Asking
  <2>2. \A u \in Workers : task'[u].pc \in {"asking", "storing"} => task'[u] = task[u]
    BY <1>1, <1>2 DEF Between
  <2> QED
    BY <2>1, <2>2 DEF ConnInv, NewIsSafe, SafeNew
<1>7. ActiveCovered'
  BY <1>1 DEF ConnInv, ActiveCovered
<1> QED
  BY <1>3, <1>4, <1>5, <1>6, <1>7 DEF ConnInv

\* Authorizations that were started or approved remain so, in that order.
AuthorizationsGrow ==
  /\ state' \in [Authorizations -> States] /\ approval' \in [Authorizations -> Approvals]
  /\ \A z \in Authorizations : /\ state[z] # NoGrant => state'[z] # NoGrant
                               /\ approval[z] # NoGrant => approval'[z] # NoGrant
                               /\ approval'[z] # NoGrant => state'[z] # NoGrant

LEMMA AuthorizingInv ==
  ASSUME ConnInv, NEW s \in Authorizations,
         \/ \E o \in Organizations : StartAuthorization(s, o)
         \/ StateExpires(s)
         \/ \E r \in Realms : Approve(s, r)
  PROVE  ConnInv'
<1>1. UNCHANGED <<connection, issued, live, task, excused>>
  BY DEF StartAuthorization, StateExpires, Approve
<1>2. AuthorizationsGrow
  <2>1. ASSUME NEW o \in Organizations, StartAuthorization(s, o)
        PROVE  AuthorizationsGrow
    <3>1. [org |-> o, open |-> TRUE] \in States
      BY DEF States
    <3>2. state' = [state EXCEPT ![s] = [org |-> o, open |-> TRUE]] /\ approval' = approval
      BY <2>1 DEF StartAuthorization, NewState
    <3>3. [org |-> o, open |-> TRUE] # NoGrant
      <4>1. [org |-> o, open |-> TRUE] \in [org : Organizations, open : BOOLEAN]
        OBVIOUS
      <4> QED
        BY <4>1, NoGrantAssumption
    <3>4. \A z \in Authorizations : state[z] # NoGrant => state'[z] # NoGrant
      BY <3>2, <3>3, Typed
    <3>5. state' \in [Authorizations -> States] /\ approval' \in [Authorizations -> Approvals]
      BY <3>1, <3>2, Typed
    <3> QED
      BY <3>2, <3>4, <3>5 DEF ConnInv, ApprovedWasStarted, AuthorizationsGrow
  <2>2. ASSUME StateExpires(s)
        PROVE  AuthorizationsGrow
    <3>1. state[s] \in [org : Organizations, open : BOOLEAN]
      BY <2>2, Typed DEF StateExpires
    <3>2. state' = [state EXCEPT ![s] = [state[s] EXCEPT !.open = FALSE]] /\ approval' = approval
      BY <2>2, Typed DEF StateExpires
    <3>3. [state[s] EXCEPT !.open = FALSE] \in [org : Organizations, open : BOOLEAN]
      BY <3>1
    <3>4. [state[s] EXCEPT !.open = FALSE] # NoGrant /\ [state[s] EXCEPT !.open = FALSE] \in States
      BY <3>3, NoGrantAssumption DEF States
    <3> QED
      BY <3>2, <3>4, Typed DEF ConnInv, ApprovedWasStarted, AuthorizationsGrow
  <2>3. ASSUME NEW r \in Realms, Approve(s, r)
        PROVE  AuthorizationsGrow
    <3>1. [realm |-> r, spent |-> FALSE] \in Approvals
      BY DEF Approvals
    <3>2. /\ approval' = [approval EXCEPT ![s] = [realm |-> r, spent |-> FALSE]]
          /\ state' = state /\ state[s] # NoGrant
      BY <2>3 DEF Approve
    <3>3. [realm |-> r, spent |-> FALSE] # NoGrant
      <4>1. [realm |-> r, spent |-> FALSE] \in [realm : Realms, spent : BOOLEAN]
        OBVIOUS
      <4> QED
        BY <4>1, NoGrantAssumption
    <3>4. \A z \in Authorizations : /\ approval[z] # NoGrant => approval'[z] # NoGrant
                                    /\ approval'[z] # NoGrant => approval[z] # NoGrant \/ z = s
      BY <3>2, <3>3, Typed
    <3>5. state' \in [Authorizations -> States] /\ approval' \in [Authorizations -> Approvals]
      BY <3>1, <3>2, Typed
    <3> QED
      BY <3>2, <3>4, <3>5 DEF ConnInv, ApprovedWasStarted, AuthorizationsGrow
  <2> QED
    BY <2>1, <2>2, <2>3
<1>4. ConnTypeOK'
  BY <1>1, <1>2, Typed DEF ConnTypeOK, Tasks, States, Approvals, AuthorizationsGrow
<1>5. AllRefer'
  <2>1. ASSUME NEW u \in Workers
        PROVE  Refers(task[u])'
    <3>1. task[u] \in Tasks
      BY Typed
    <3>2. /\ task[u].pc = "claiming" => task[u].auth \in Authorizations
          /\ task[u].pc \in Between /\ task[u].auth # NoGrant => task[u].auth \in Authorizations
      BY <3>1, TaskFields DEF Claiming, Asking
    <3>3. Refers(task[u])
      BY DEF ConnInv, AllRefer
    <3> QED
      BY <1>1, <1>2, <3>2, <3>3 DEF Refers, AuthorizationsGrow
  <2> QED
    BY <1>1, <2>1 DEF AllRefer, Refers
<1>6. ApprovedWasStarted' /\ RowsKnown' /\ NewIsSafe' /\ ActiveCovered'
  BY <1>1, <1>2 DEF ConnInv, ApprovedWasStarted, RowsKnown, NewIsSafe, SafeNew, ActiveCovered,
     AuthorizationsGrow
<1> QED
  BY <1>4, <1>5, <1>6 DEF ConnInv

LEMMA TakingUpInv ==
  ASSUME ConnInv, NEW w \in Workers, NEW r \in Realms,
         \/ \E s \in Authorizations : ReadState(w, s)
         \/ StartRevoke(w, r) \/ TellIntuit(w)
         \/ StartKeepalive /\ w = Keepalive
         \/ SkipKeepalive(r) /\ w = Keepalive
  PROVE  ConnInv'
<1>1. ASSUME NEW s \in Authorizations, ReadState(w, s)
      PROVE  ConnInv'
  <2> DEFINE d == [pc |-> "claiming", auth |-> s, org |-> state[s].org]
  <2>1. state[s] # NoGrant /\ approval[s] # NoGrant
    BY <1>1 DEF ReadState, ConnInv, ApprovedWasStarted
  <2>2. d \in Tasks
    BY <2>1, Typed DEF Tasks, Claiming
  <2>3. task' = [task EXCEPT ![w] = d] /\ task[w].pc \notin Between
        /\ UNCHANGED <<connection, state, approval, issued, live, excused>>
    BY <1>1 DEF ReadState, AtRest, Between
  <2>4. d.pc \notin Between /\ d.pc \notin {"revoking", "dropping"} /\ d.auth = s
    BY DEF Between
  <2> HIDE DEF d
  <2> QED
    BY <2>1, <2>2, <2>3, <2>4, Typed, OutsideInv
<1>2. ASSUME StartRevoke(w, r)
      PROVE  ConnInv'
  <2>1. PICK p \in {"dropping", "revoking"} :
          task' = [task EXCEPT ![w] = [pc |-> p, realm |-> r, token |-> connection[r].token]]
    BY <1>2 DEF StartRevoke
  <2> DEFINE d == [pc |-> p, realm |-> r, token |-> connection[r].token]
  <2>2. connection[r] # NoGrant /\ task[w].pc \notin Between
        /\ UNCHANGED <<connection, state, approval, issued, live, excused>>
    BY <1>2 DEF StartRevoke, AtRest, Between
  <2>3. d \in Tasks
    BY <2>2, Typed DEF Tasks, Revoking, Connection
  <2>4. d.pc \notin Between /\ d.pc # "claiming" /\ d.realm = r
    BY DEF Between
  <2>5. task' = [task EXCEPT ![w] = d]
    BY <2>1
  <2> HIDE DEF d
  <2> QED
    BY <2>2, <2>3, <2>4, <2>5, Typed, OutsideInv
<1>3. ASSUME TellIntuit(w)
      PROVE  ConnInv'
  <2>1. task[w] \in Revoking /\ task[w].pc = "revoking"
    BY <1>3, Typed, TaskFields DEF TellIntuit
  <2> DEFINE d == [task[w] EXCEPT !.pc = "dropping"]
  <2>2. d \in Revoking /\ d.pc = "dropping" /\ d.realm = task[w].realm
    BY <2>1 DEF Revoking
  <2>3. task' = [task EXCEPT ![w] = d] /\ UNCHANGED <<connection, state, approval, issued>>
    BY <1>3, Typed DEF TellIntuit
  <2>4. /\ live' \in [Realms -> SUBSET Grants] /\ excused' \subseteq 0 .. MaxGrants
        /\ \A z \in Realms : live[z] \cup excused \subseteq live'[z] \cup excused'
    <3>1. task[w].realm \in Realms /\ task[w].token \in 0 .. MaxGrants
      BY <2>1 DEF Revoking
    <3> QED
      BY <1>3, <3>1, Typed DEF TellIntuit
  <2>5. connection[task[w].realm] # NoGrant
    BY <2>1 DEF ConnInv, AllRefer, Refers
  <2>6. d \in Tasks /\ d.pc \notin Between /\ task[w].pc \notin Between
    BY <2>1, <2>2 DEF Tasks, Between
  <2> HIDE DEF d
  <2> QED
    BY <2>2, <2>3, <2>4, <2>5, <2>6, OutsideInv
<1>4. ASSUME StartKeepalive \/ SkipKeepalive(r), w = Keepalive
      PROVE  ConnInv'
  <2>1. PICK d \in {AtRest} \cup Walking : task' = [task EXCEPT ![w] = d]
    <3>1. CASE StartKeepalive
      BY <1>4, <3>1 DEF StartKeepalive, Walking, DueForRefresh
    <3>2. CASE SkipKeepalive(r)
      <4>1. task[w] \in Walking
        BY <1>4, <3>2, Typed, TaskFields DEF SkipKeepalive
      <4>2. [pc |-> "walking", todo |-> task[w].todo \ {r}] \in Walking
        BY <4>1 DEF Walking
      <4> QED
        BY <1>4, <3>2, <4>2 DEF SkipKeepalive
    <3> QED
      BY <1>4, <3>1, <3>2
  <2>2. task[w].pc \notin Between /\ UNCHANGED <<connection, state, approval, issued, live, excused>>
    BY <1>4 DEF StartKeepalive, SkipKeepalive, AtRest, Between
  <2>3. d \in Tasks /\ d.pc \notin Between /\ d.pc \notin {"claiming", "revoking", "dropping"}
    BY <2>1 DEF Tasks, AtRest, Walking, Between
  <2> QED
    BY <2>1, <2>2, <2>3, Typed, OutsideInv
<1> QED
  BY <1>1, <1>2, <1>3, <1>4

-----------------------------------------------------------------------------
\* A refresh reads a row; a callback turns to Intuit.
LEMMA AskingInv ==
  ASSUME ConnInv, NEW w \in Workers,
         \/ \E r \in Realms : NeedAccess(w, r) \/ (KeepAlive(r) /\ w = Keepalive)
         \/ SpendState(w)
  PROVE  ConnInv'
<1>1. ASSUME NEW d \in Asking, d.pc = "asking", task[w].pc \notin Between,
             task' = [task EXCEPT ![w] = d], UNCHANGED <<connection, approval, issued, live, excused>>,
             state' \in [Authorizations -> States],
             \A z \in Authorizations : state[z] # NoGrant => state'[z] # NoGrant,
             d.new = 0, d.token = 0 \/ d.token = connection[d.realm].token,
             d.auth = NoGrant \/ d.token # 0 => connection[d.realm] # NoGrant,
             d.auth # NoGrant => approval[d.auth] # NoGrant /\ d.token = 0
      PROVE  ConnInv'
  <2>1. task' \in [Workers -> Tasks] /\ task'[w] = d /\ \A u \in Workers : u # w => task'[u] = task[u]
    BY <1>1, Typed DEF Tasks
  <2>2. ConnTypeOK'
    BY <1>1, <2>1, Typed DEF ConnTypeOK, Tasks, States, Approvals
  <2>3. AllRefer'
    <3>1. d.token <= issued /\ d.new <= issued
      <4>1. d.realm \in Realms
        BY <1>1 DEF Asking
      <4> QED
        BY <1>1, <4>1, Typed DEF ConnInv, RowsKnown, Connection
    <3>2. Refers(d)'
      BY <1>1, <3>1 DEF Refers
    <3>3. ASSUME NEW u \in Workers, u # w
          PROVE  Refers(task[u])'
      <4>1. task[u] \in Tasks
        BY Typed
      <4>2. task[u].pc = "claiming" => task[u].auth \in Authorizations
        BY <4>1, TaskFields DEF Claiming
      <4>3. Refers(task[u])
        BY DEF ConnInv, AllRefer
      <4> QED
        BY <1>1, <2>1, <3>3, <4>2, <4>3 DEF Refers
    <3> QED
      BY <2>1, <3>2, <3>3 DEF AllRefer, Refers
  <2>4. NewIsSafe'
    <3>1. ASSUME NEW v \in Workers, task'[v].pc = "storing"
          PROVE  /\ v # w /\ task'[v] = task[v] /\ d.token # task[v].new
      <4>1. v # w /\ task'[v] = task[v] /\ task[v].pc = "storing"
        BY <1>1, <2>1, <3>1
      <4>2. d.token # 0 => d.token # task[v].new
        BY <1>1, <4>1 DEF ConnInv, NewIsSafe, SafeNew, Asking
      <4>3. 0 # task[v].new
        <5>1. task[v] \in Asking
          BY <4>1, Typed, TaskFields DEF Between
        <5>2. task[v].new # 0
          BY <4>1 DEF ConnInv, NewIsSafe, SafeNew
        <5> QED
          BY <5>2
      <4> QED
        BY <4>1, <4>2, <4>3
    <3> QED
      BY <1>1, <2>1, <3>1 DEF ConnInv, NewIsSafe, SafeNew
  <2>5. ActiveCovered'
    BY <1>1, <2>1 DEF ConnInv, ActiveCovered
  <2>6. ApprovedWasStarted' /\ RowsKnown'
    BY <1>1 DEF ConnInv, ApprovedWasStarted, RowsKnown
  <2> QED
    BY <2>2, <2>3, <2>4, <2>5, <2>6 DEF ConnInv
<1>2. ASSUME NEW r \in Realms, NEW todo \in SUBSET Realms, ReadGrant(w, r, todo), task[w].pc \notin Between
      PROVE  ConnInv'
  <2> DEFINE d == [pc |-> "asking", realm |-> r, org |-> connection[r].org, auth |-> NoGrant,
                   token |-> connection[r].token, new |-> 0, tries |-> 0, todo |-> todo]
  <2>1. connection[r] \in Connection
    BY <1>2, Typed DEF ReadGrant
  <2>2. d \in Asking
    BY <2>1, Typed, ConnectionAssumption DEF Asking, Connection
  <2>3. /\ task' = [task EXCEPT ![w] = d] /\ connection[r] # NoGrant
        /\ UNCHANGED <<connection, state, approval, issued, live, excused>>
    BY <1>2 DEF ReadGrant
  <2>4. d.pc = "asking" /\ d.new = 0 /\ d.token = connection[d.realm].token /\ d.auth = NoGrant /\ d.realm = r
    OBVIOUS
  <2> HIDE DEF d
  <2> QED
    BY <1>1, <1>2, <2>2, <2>3, <2>4, Typed
<1>3. ASSUME NEW r \in Realms, NeedAccess(w, r) \/ (KeepAlive(r) /\ w = Keepalive)
      PROVE  ConnInv'
  <2>1. CASE NeedAccess(w, r)
    BY <1>2, <2>1 DEF NeedAccess, AtRest, Between
  <2>2. CASE KeepAlive(r) /\ w = Keepalive
    <3>1. task[w].pc = "walking" /\ ReadGrant(w, r, task[w].todo \ {r})
      BY <2>2 DEF KeepAlive
    <3>2. task[w].todo \ {r} \in SUBSET Realms /\ task[w].pc \notin Between
      BY <3>1, Typed, TaskFields DEF Walking, Between
    <3> QED
      BY <1>2, <3>1, <3>2
  <2> QED
    BY <1>3, <2>1, <2>2
<1>4. ASSUME SpendState(w)
      PROVE  ConnInv'
  <2> DEFINE s == task[w].auth
             d == [pc |-> "asking", realm |-> approval[s].realm, org |-> task[w].org, auth |-> s,
                   token |-> 0, new |-> 0, tries |-> 0, todo |-> {}]
  <2>1. task[w] \in Claiming /\ task[w].pc = "claiming" /\ task[w].pc \notin Between
    BY <1>4, Typed, TaskFields DEF SpendState, Between
  <2>2. s \in Authorizations /\ state[s] # NoGrant /\ approval[s] # NoGrant /\ s # NoGrant
    BY <2>1, NoGrantAssumption DEF ConnInv, AllRefer, Refers, Claiming
  <2>3. d \in Asking
    BY <2>1, <2>2, Typed, ConnectionAssumption DEF Asking, Claiming
  <2>4. task' = [task EXCEPT ![w] = d] /\ UNCHANGED <<connection, approval, issued, live, excused>>
    BY <1>4 DEF SpendState
  <2>5. /\ state' \in [Authorizations -> States]
        /\ \A z \in Authorizations : state[z] # NoGrant => state'[z] # NoGrant
    <3>1. state[s] \in [org : Organizations, open : BOOLEAN]
      BY <2>2, Typed
    <3>2. [state[s] EXCEPT !.open = FALSE] \in [org : Organizations, open : BOOLEAN]
      BY <3>1
    <3>3. state' = [state EXCEPT ![s] = [state[s] EXCEPT !.open = FALSE]]
      BY <1>4, <2>2, Typed DEF SpendState
    <3>4. [state[s] EXCEPT !.open = FALSE] # NoGrant /\ [state[s] EXCEPT !.open = FALSE] \in States
      BY <3>2, NoGrantAssumption DEF States
    <3> QED
      BY <2>2, <3>3, <3>4, Typed
  <2>6. d.pc = "asking" /\ d.new = 0 /\ d.token = 0 /\ d.auth = s
    OBVIOUS
  <2> HIDE DEF s, d
  <2> QED
    BY <1>1, <2>1, <2>2, <2>3, <2>4, <2>5, <2>6
<1> QED
  BY <1>3, <1>4

-----------------------------------------------------------------------------
\* What Intuit's issuing of a token changes.
LEMMA Issued ==
  ASSUME ConnInv, NEW w \in Workers, task[w].pc = "asking", Issue(task[w])
  PROVE  /\ issued' = issued + 1 /\ issued' \in 1 .. MaxGrants
         /\ live' \in [Realms -> SUBSET Grants]
         /\ issued' \in live'[task[w].realm]
         /\ \A r \in Realms : \A x \in live[r] :
              x \in live'[r] \/ (r = task[w].realm /\ x = task[w].token)
         /\ approval' \in [Authorizations -> Approvals]
         /\ \A s \in Authorizations : approval'[s] # NoGrant <=> approval[s] # NoGrant
<1>1. task[w] \in Asking
  BY Typed, TaskFields DEF Between
<1>2. task[w].realm \in Realms /\ task[w].token \in 0 .. MaxGrants
  BY <1>1 DEF Asking
<1>3. issued' = issued + 1 /\ issued' \in 1 .. MaxGrants
  BY Typed DEF Issue
<1>4. live' = [live EXCEPT ![task[w].realm] = (live[task[w].realm] \ {task[w].token}) \cup {issued + 1}]
  BY DEF Issue
<1>5. /\ live' \in [Realms -> SUBSET Grants]
      /\ issued' \in live'[task[w].realm]
      /\ \A r \in Realms : \A x \in live[r] :
           x \in live'[r] \/ (r = task[w].realm /\ x = task[w].token)
  BY <1>2, <1>3, <1>4, Typed DEF Grants
<1>7. /\ approval' \in [Authorizations -> Approvals]
      /\ \A s \in Authorizations : approval'[s] # NoGrant <=> approval[s] # NoGrant
  <2>1. CASE task[w].auth = NoGrant
    BY <2>1, Typed DEF Issue, IsRefresh
  <2>2. CASE task[w].auth # NoGrant
    <3> DEFINE s == task[w].auth
    <3>1. s \in Authorizations /\ approval[s] \in [realm : Realms, spent : BOOLEAN]
      BY <1>1, <2>2, Typed DEF ConnInv, AllRefer, Refers, Between, Asking
    <3>2. approval' = [approval EXCEPT ![s] = [approval[s] EXCEPT !.spent = TRUE]]
      BY <2>2, <3>1, Typed DEF Issue, IsRefresh
    <3>3. [approval[s] EXCEPT !.spent = TRUE] \in [realm : Realms, spent : BOOLEAN]
      BY <3>1
    <3>4. [approval[s] EXCEPT !.spent = TRUE] # NoGrant /\ approval[s] # NoGrant
      BY <3>1, <3>3, NoGrantAssumption
    <3>5. [approval[s] EXCEPT !.spent = TRUE] \in Approvals
      BY <3>3 DEF Approvals
    <3> QED
      BY <3>1, <3>2, <3>4, <3>5, Typed
  <2> QED
    BY <2>1, <2>2
<1> QED
  BY <1>3, <1>5, <1>7

\* What a token request may become when an attempt of it ends.
GoesOn(w, d) ==
  /\ task' = [task EXCEPT ![w] = d]
  /\ \/ /\ d \in Asking /\ d.realm = task[w].realm /\ d.auth = task[w].auth /\ d.token = task[w].token
        /\ \/ d.pc = "storing" /\ d.new = issued' /\ Issue(task[w])
           \/ d.pc = "asking" /\ d.new = task[w].new
           \/ d.pc \in {"clearing", "flagging"} /\ d.new = task[w].new /\ d.auth = NoGrant
     \/ d = AtRest /\ task[w].auth # NoGrant

\* A token request goes on, with what Intuit issued to it or to nobody, or for a callback
\* ends.
LEMMA PostInv ==
  ASSUME ConnInv, NEW w \in Workers, PostAnswered(w) \/ PostRejected(w) \/ PostUnanswered(w)
  PROVE  ConnInv'
<1>1. task[w] \in Asking /\ task[w].pc = "asking" /\ UNCHANGED <<connection, state, excused>>
  BY Typed, TaskFields DEF PostAnswered, PostRejected, PostUnanswered, Between
<1>2. PICK d \in Tasks : GoesOn(w, d)
  <2>1. CASE PostAnswered(w)
    <3> DEFINE e == [task[w] EXCEPT !.pc = "storing", !.new = issued + 1]
    <3>1. Issue(task[w]) /\ task' = [task EXCEPT ![w] = e]
      BY <2>1, Typed DEF PostAnswered
    <3>2. issued' = issued + 1 /\ issued' \in 0 .. MaxGrants
      BY <1>1, <3>1, Issued, Typed DEF Issue
    <3>3. e \in Asking /\ e.realm = task[w].realm /\ e.auth = task[w].auth /\ e.token = task[w].token
          /\ e.pc = "storing" /\ e.new = issued'
      BY <1>1, <3>2 DEF Asking
    <3> HIDE DEF e
    <3> QED
      BY <3>1, <3>3 DEF Tasks, GoesOn
  <2>2. ASSUME NEW p \in {"clearing", "flagging"},
               task' = [task EXCEPT ![w] =
                 IF task[w].auth = NoGrant THEN [task[w] EXCEPT !.pc = p] ELSE AtRest]
        PROVE  \E d \in Tasks : GoesOn(w, d)
    <3> DEFINE e == [task[w] EXCEPT !.pc = p]
    <3>1. e \in Asking /\ e.realm = task[w].realm /\ e.auth = task[w].auth /\ e.token = task[w].token
          /\ e.pc = p /\ e.new = task[w].new
      BY <1>1 DEF Asking
    <3>2. CASE task[w].auth = NoGrant
      <4>1. task' = [task EXCEPT ![w] = e]
        BY <2>2, <3>2
      <4> HIDE DEF e
      <4> QED
        BY <3>1, <3>2, <4>1 DEF Tasks, GoesOn
    <3>3. CASE task[w].auth # NoGrant
      BY <2>2, <3>3 DEF Tasks, GoesOn
    <3> QED
      BY <3>2, <3>3
  <2>3. CASE PostRejected(w)
    BY <2>2, <2>3 DEF PostRejected, IsRefresh
  <2>4. CASE PostUnanswered(w)
    <3>1. CASE /\ task[w].tries + 1 < TOKEN_ATTEMPTS
               /\ task' = [task EXCEPT ![w].tries = @ + 1]
      <4> DEFINE e == [task[w] EXCEPT !.tries = task[w].tries + 1]
      <4>1. e \in Asking /\ e.realm = task[w].realm /\ e.auth = task[w].auth /\ e.token = task[w].token
            /\ e.pc = "asking" /\ e.new = task[w].new
        BY <1>1, <3>1, ConnectionAssumption DEF Asking
      <4>2. task' = [task EXCEPT ![w] = e]
        BY <3>1, Typed
      <4> HIDE DEF e
      <4> QED
        BY <4>1, <4>2 DEF Tasks, GoesOn
    <3>2. CASE task' = [task EXCEPT ![w] = IF IsRefresh(@) THEN [@ EXCEPT !.pc = "flagging"] ELSE AtRest]
      BY <2>2, <3>2 DEF IsRefresh
    <3> QED
      BY <2>4, <3>1, <3>2 DEF PostUnanswered
  <2> QED
    BY <2>1, <2>3, <2>4
<1>3. UNCHANGED <<approval, issued, live>> \/ Issue(task[w])
  BY DEF PostAnswered, PostRejected, PostUnanswered
<1>4. /\ task' \in [Workers -> Tasks] /\ task'[w] = d
      /\ \A u \in Workers : u # w => task'[u] = task[u]
  BY <1>2, Typed DEF GoesOn
<1>5. /\ approval' \in [Authorizations -> Approvals] /\ live' \in [Realms -> SUBSET Grants]
      /\ issued <= issued' /\ issued' \in 0 .. MaxGrants
      /\ \A s \in Authorizations : approval'[s] # NoGrant <=> approval[s] # NoGrant
      /\ \A r \in Realms : \A x \in live[r] :
           x \in live'[r] \/ (r = task[w].realm /\ x = task[w].token)
  BY <1>1, <1>3, Issued, Typed
<1>6. ConnTypeOK'
  BY <1>1, <1>4, <1>5, Typed DEF ConnTypeOK, Tasks, Approvals, States
<1>7. ApprovedWasStarted' /\ RowsKnown'
  <2>1. RowsKnown'
    BY <1>1, <1>5, Typed DEF ConnInv, RowsKnown, Connection
  <2> QED
    BY <1>1, <1>5, <2>1 DEF ConnInv, ApprovedWasStarted
<1>8. AllRefer'
  <2>1. ASSUME NEW u \in Workers, u # w
        PROVE  Refers(task[u])'
    <3>1. task[u] \in Tasks
      BY Typed
    <3>2. /\ task[u].pc = "claiming" => task[u].auth \in Authorizations
          /\ task[u].pc \in Between /\ task[u].auth # NoGrant => task[u].auth \in Authorizations
          /\ task[u].pc \in Between => task[u].token \in 0 .. MaxGrants /\ task[u].new \in 0 .. MaxGrants
      BY <3>1, TaskFields DEF Claiming, Asking
    <3>3. Refers(task[u])
      BY DEF ConnInv, AllRefer
    <3> QED
      BY <1>1, <1>4, <1>5, <2>1, <3>2, <3>3, Typed DEF Refers
  <2>2. Refers(d)'
    <3>1. Refers(task[w])
      BY DEF ConnInv, AllRefer
    <3>2. CASE d = AtRest
      BY <3>2 DEF Refers, AtRest, Between
    <3>3. CASE d # AtRest
      <4>1. task[w].token <= issued' /\ task[w].new <= issued'
        BY <1>1, <1>5, <3>1, Typed DEF Refers, Between, Asking
      <4>2. d.token <= issued' /\ d.new <= issued'
        BY <1>2, <1>5, <3>3, <4>1, Typed DEF GoesOn
      <4>3. task[w].auth # NoGrant => task[w].auth \in Authorizations
        BY <1>1 DEF Asking
      <4> QED
        BY <1>1, <1>2, <1>5, <3>1, <3>3, <4>2, <4>3 DEF Refers, Between, GoesOn
    <3> QED
      BY <3>2, <3>3
  <2> QED
    BY <1>4, <2>1, <2>2 DEF AllRefer, Refers
<1>9. NewIsSafe'
  <2>1. ASSUME NEW v \in Workers, v # w, task'[v].pc = "storing"
        PROVE  /\ task[v].new # task[w].token
               /\ task[v].new \in live'[task[v].realm] \cup excused
               /\ task[v].new <= issued /\ task[v].new # 0
    <3>1. task'[v] = task[v] /\ task[v] \in Asking
      BY <1>4, <2>1, Typed, TaskFields DEF Between
    <3>2. /\ task[v].new # task[w].token /\ task[v].new # 0
          /\ task[v].new \in live[task[v].realm] \cup excused
      BY <1>1, <2>1, <3>1 DEF ConnInv, NewIsSafe, SafeNew
    <3>3. task[v].new <= issued
      BY <2>1, <3>1 DEF ConnInv, AllRefer, Refers, Between
    <3> QED
      BY <1>5, <3>1, <3>2, <3>3 DEF Asking
  <2>2. ASSUME d.pc = "storing"
        PROVE  /\ d.new = issued + 1 /\ d.new \in live'[d.realm] /\ d.new # 0
    BY <1>1, <1>2, <2>2, Issued, Typed DEF AtRest, GoesOn
  <2>3. \A u \in Workers : task[u].pc \in Between =>
          task[u].token \in 0 .. issued /\ task[u].new \in 0 .. issued
    BY Typed, TaskFields DEF ConnInv, AllRefer, Refers, Asking
  <2>4. \A u \in Workers : task'[u].pc = "asking" =>
          task[u].pc = "asking" /\ task'[u].token = task[u].token
    BY <1>1, <1>2, <1>4 DEF AtRest, GoesOn
  <2>5. \A r \in Realms : connection[r] # NoGrant => connection[r].token \in 0 .. issued
    BY Typed DEF ConnInv, RowsKnown, Connection
  <2>7. ASSUME NEW v \in Workers, task'[v].pc = "storing"
        PROVE  SafeNew(v)'
    <3>1. CASE v = w
      BY <1>1, <1>4, <2>1, <2>2, <2>3, <2>4, <2>5, <2>7, <3>1, Typed DEF Between, SafeNew
    <3>2. CASE v # w
      BY <1>1, <1>4, <2>1, <2>2, <2>4, <2>7, <3>2, Typed DEF ConnInv, NewIsSafe, SafeNew
    <3> QED
      BY <3>1, <3>2
  <2> QED
    BY <2>7 DEF NewIsSafe
<1>10. ActiveCovered'
  <2>1. ASSUME NEW r \in Realms, connection[r] # NoGrant, connection[r].status = "active"
        PROVE  \/ connection[r].token \in live'[r] \cup excused
               \/ \E u \in Workers : /\ task'[u].pc \in Between /\ task'[u].auth = NoGrant
                                       /\ task'[u].realm = r /\ task'[u].token = connection[r].token
    <3>1. CASE connection[r].token \in excused
      BY <3>1
    <3>2. CASE connection[r].token \in live[r]
      <4>1. CASE connection[r].token \in live'[r]
        BY <4>1
      <4>2. CASE r = task[w].realm /\ connection[r].token = task[w].token
        <5>1. task[w].token # 0
          BY <3>2, <4>2, Typed DEF Grants
        <5>2. task[w].auth = NoGrant
          BY <1>1, <5>1 DEF ConnInv, AllRefer, Refers, Between
        <5>3. d.pc \in Between /\ d.auth = NoGrant /\ d.realm = r /\ d.token = connection[r].token
          BY <1>2, <4>2, <5>2 DEF Between, GoesOn, AtRest
        <5> QED
          BY <1>4, <5>3
      <4> QED
        BY <1>5, <3>2, <4>1, <4>2
    <3>3. CASE \E u \in Workers : /\ task[u].pc \in Between /\ task[u].auth = NoGrant
                                  /\ task[u].realm = r /\ task[u].token = connection[r].token
      BY <1>2, <1>4, <3>3 DEF Between, GoesOn, AtRest
    <3> QED
      BY <2>1, <3>1, <3>2, <3>3 DEF ConnInv, ActiveCovered
  <2> QED
    BY <1>1, <2>1 DEF ActiveCovered
<1> QED
  BY <1>6, <1>7, <1>8, <1>9, <1>10 DEF ConnInv

-----------------------------------------------------------------------------
\* Nothing is asked or issued: workers end what they did, rows change.
LEMMA WriteInv ==
  ASSUME ConnInv, UNCHANGED <<state, approval, issued>>,
         connection' \in [Realms -> Connection \cup {NoGrant}],
         live' \in [Realms -> SUBSET Grants], excused' \subseteq 0 .. MaxGrants,
         task' \in [Workers -> Tasks],
         \A r \in Realms : live[r] \cup excused \subseteq live'[r] \cup excused',
         \A r \in Realms : connection[r] # NoGrant => connection'[r] # NoGrant,
         \A u \in Workers : task'[u] = task[u] \/ task'[u].pc \in {"rest", "walking"},
         \A r \in Realms : connection'[r] # NoGrant =>
            \/ /\ connection[r] # NoGrant /\ connection'[r].token = connection[r].token
               /\ connection'[r].status = "active" => connection[r].status = "active"
            \/ connection'[r].token = 0 /\ connection'[r].status # "active"
            \/ \E w \in Workers : /\ task[w].pc = "storing" /\ task[w].realm = r
                                  /\ connection'[r].token = task[w].new
                                  /\ task'[w].pc # "storing",
         \A u \in Workers : \/ task'[u] = task[u]
                            \/ task[u].pc \in Between =>
                                 LET r == task[u].realm
                                 IN  \/ connection'[r].status # "active"
                                     \/ \E w \in Workers : /\ task[w].pc = "storing" /\ task[w].realm = r
                                                           /\ connection'[r].token = task[w].new
                                     \/ task[u].token \in excused'
  PROVE  ConnInv'
<1>1. ConnTypeOK' /\ ApprovedWasStarted'
  BY Typed DEF ConnTypeOK, Tasks, States, Approvals, ConnInv, ApprovedWasStarted
<1>2. AllRefer'
  <2>1. ASSUME NEW u \in Workers
        PROVE  Refers(task[u])'
    <3>1. task[u] \in Tasks /\ Refers(task[u])
      BY Typed DEF ConnInv, AllRefer
    <3>2. /\ task[u].pc \in Between => task[u].realm \in Realms
          /\ task[u].pc \in {"revoking", "dropping"} => task[u].realm \in Realms
      BY <3>1, TaskFields DEF Asking, Revoking
    <3>3. CASE task'[u] = task[u]
      BY <3>1, <3>2, <3>3 DEF Refers
    <3>4. CASE task'[u].pc \in {"rest", "walking"}
      BY <3>4 DEF Refers, Between
    <3> QED
      BY <3>3, <3>4
  <2> QED
    BY <2>1 DEF AllRefer, Refers
<1>3. RowsKnown'
  <2>1. \A w \in Workers : task[w].pc = "storing" => task[w].new <= issued
    BY DEF ConnInv, AllRefer, Refers, Between
  <2> QED
    BY <2>1, Typed DEF ConnInv, RowsKnown
<1>4. NewIsSafe'
  <2>1. ASSUME NEW v \in Workers, task'[v].pc = "storing"
        PROVE  SafeNew(v)'
    <3>1. task'[v] = task[v] /\ task[v] \in Asking /\ SafeNew(v)
      BY <2>1, Typed, TaskFields DEF ConnInv, NewIsSafe, Between
    <3>2. task'[v].new # 0 /\ task'[v].new \in live'[task'[v].realm] \cup excused'
      <4>1. /\ task[v].realm \in Realms /\ task[v].new # 0
            /\ task[v].new \in live[task[v].realm] \cup excused
        BY <3>1 DEF SafeNew, Asking
      <4>2. task[v].new \in live'[task[v].realm] \cup excused'
        BY <4>1
      <4> QED
        BY <3>1, <4>1, <4>2
    <3>3. \A u \in Workers :
            /\ task'[u].pc = "storing" /\ u # v => task'[u].new # task'[v].new
            /\ task'[u].pc = "asking" => task'[u].token # task'[v].new
      BY <3>1 DEF SafeNew
    <3>4. ASSUME NEW r \in Realms, connection'[r] # NoGrant
          PROVE  connection'[r].token # task'[v].new
      BY <2>1, <3>1, <3>4 DEF SafeNew
    <3> QED
      BY <3>2, <3>3, <3>4 DEF SafeNew
  <2> QED
    BY <2>1 DEF NewIsSafe
<1>5. ActiveCovered'
  <2>1. ASSUME NEW r \in Realms, connection'[r] # NoGrant, connection'[r].status = "active",
               connection'[r].token \notin live'[r] \cup excused'
        PROVE  \E u \in Workers : /\ task'[u].pc \in Between /\ task'[u].auth = NoGrant
                                   /\ task'[u].realm = r /\ task'[u].token = connection'[r].token
    <3>1. \A w \in Workers : task[w].pc = "storing" /\ task[w].realm = r =>
            connection'[r].token # task[w].new
      BY <2>1 DEF ConnInv, NewIsSafe, SafeNew
    <3>2. /\ connection[r] # NoGrant /\ connection'[r].token = connection[r].token
          /\ connection[r].status = "active"
      BY <2>1, <3>1
    <3>3. PICK u \in Workers : /\ task[u].pc \in Between /\ task[u].auth = NoGrant
                              /\ task[u].realm = r /\ task[u].token = connection[r].token
      BY <2>1, <3>2 DEF ConnInv, ActiveCovered
    <3>4. task'[u] = task[u]
      BY <2>1, <3>1, <3>2, <3>3
    <3> QED
      BY <3>2, <3>3, <3>4
  <2> QED
    BY <2>1 DEF ActiveCovered
<1> QED
  BY <1>1, <1>2, <1>3, <1>4, <1>5 DEF ConnInv

\* Where a worker goes on to.
LEMMA ResumeTask ==
  ASSUME ConnInv, NEW w \in Workers, task[w].pc \in Between
  PROVE  Resume(w) \in Tasks /\ Resume(w).pc \in {"rest", "walking"}
<1>1. task[w].todo \in SUBSET Realms
  BY Typed, TaskFields DEF Asking
<1> QED
  BY <1>1 DEF Resume, AtRest, Tasks, Walking

\* A row after Disconnected.
LEMMA DisconnectedRow ==
  ASSUME ConnInv, NEW r \in Realms, connection[r] # NoGrant, Disconnected(r)
  PROVE  /\ connection' \in [Realms -> Connection \cup {NoGrant}]
         /\ connection'[r] # NoGrant /\ connection'[r].token = 0 /\ connection'[r].status = "revoked"
         /\ \A q \in Realms : q # r => connection'[q] = connection[q]
<1> DEFINE c == [connection[r] EXCEPT !.status = "revoked", !.token = 0]
<1>1. connection[r] \in Connection
  BY Typed
<1>2. c \in Connection /\ c.token = 0 /\ c.status = "revoked"
  <2>1. \A d \in Connection : LET e == [d EXCEPT !.token = 0]
                            IN  e \in Connection /\ e.token = 0 /\ e.status = d.status
    BY ConnectionAssumption DEF Connection
  <2> DEFINE b == [connection[r] EXCEPT !.status = "revoked"]
  <2>2. b \in Connection /\ b.status = "revoked"
    BY <1>1 DEF Connection
  <2>3. c = [b EXCEPT !.token = 0]
    OBVIOUS
  <2> HIDE DEF b, c
  <2> QED
    BY <2>1, <2>2, <2>3
<1>3. connection' = [connection EXCEPT ![r] = c]
  <2>1. DOMAIN connection = Realms
    BY Typed
  <2>2. connection' = [connection EXCEPT ![r].status = "revoked", ![r].token = 0]
    BY DEF Disconnected
  <2> QED
    BY <2>1, <2>2
<1>4. c # NoGrant
  BY <1>2, NoGrantAssumption
<1> HIDE DEF c
<1> QED
  BY <1>2, <1>3, <1>4, Typed

LEMMA EndingInv ==
  ASSUME ConnInv, NEW w \in Workers,
         \/ StoreTokens(w) \/ ClearGrant(w) \/ FlagError(w) \/ DropConnection(w) \/ Dies(w)
  PROVE  ConnInv'
<1>0. UNCHANGED <<state, approval, issued, live>>
  BY DEF StoreTokens, ClearGrant, FlagError, DropConnection, Dies
<1>1. CASE StoreTokens(w)
  <2>1. task[w].pc = "storing" /\ task[w] \in Asking
    BY <1>1, Typed, TaskFields DEF StoreTokens, Between
  <2> DEFINE r == task[w].realm
             c == [org |-> task[w].org, token |-> task[w].new, status |-> "active", idle |-> FALSE]
  <2>2. r \in Realms /\ c \in Connection /\ c.token = task[w].new
    BY <2>1 DEF Asking, Connection
  <2>3. c # NoGrant
    BY <2>2, NoGrantAssumption
  <2>4. connection' = [connection EXCEPT ![r] = c] /\ UNCHANGED excused
    BY <1>1 DEF StoreTokens
  <2>5. task' = [task EXCEPT ![w] = Resume(w)]
    BY <1>1 DEF StoreTokens
  <2>6. /\ task' \in [Workers -> Tasks] /\ task'[w].pc \in {"rest", "walking"}
        /\ \A u \in Workers : u # w => task'[u] = task[u]
    BY <2>1, <2>5, ResumeTask, Typed DEF Between
  <2>7. task[w].realm = r /\ task[w].new = c.token
    BY <2>2
  <2> HIDE DEF r, c
  <2>8. /\ connection' \in [Realms -> Connection \cup {NoGrant}] /\ connection'[r] = c
        /\ \A q \in Realms : q # r => connection'[q] = connection[q]
    BY <2>2, <2>4, Typed
  <2> QED
    BY <1>0, <2>1, <2>2, <2>3, <2>4, <2>6, <2>7, <2>8, Typed, WriteInv
<1>2. CASE ClearGrant(w) \/ DropConnection(w)
  <2> DEFINE r == task[w].realm
  <2>1. /\ r \in Realms /\ connection[r] # NoGrant
        /\ task[w].pc \in Between => task[w].realm = r
    <3>1. task[w] \in Tasks /\ Refers(task[w])
      BY Typed DEF ConnInv, AllRefer
    <3> QED
      BY <1>2, <3>1, TaskFields DEF ClearGrant, DropConnection, Refers, Between, Asking, Revoking
  <2>2. Disconnected(r) /\ UNCHANGED excused
    BY <1>2 DEF ClearGrant, DropConnection
  <2>3. PICK d \in Tasks : d.pc \in {"rest", "walking"} /\ task' = [task EXCEPT ![w] = d]
    BY <1>2, ResumeTask DEF ClearGrant, DropConnection, Between, AtRest, Tasks
  <2>4. /\ task' \in [Workers -> Tasks] /\ task'[w].pc \in {"rest", "walking"}
        /\ \A u \in Workers : u # w => task'[u] = task[u]
    BY <2>3, Typed
  <2> HIDE DEF r
  <2> QED
    BY <1>0, <2>1, <2>2, <2>4, DisconnectedRow, Typed, WriteInv
<1>3. CASE FlagError(w)
  <2> DEFINE r == task[w].realm
             c == [connection[r] EXCEPT !.status = "error"]
  <2>1. r \in Realms /\ connection[r] # NoGrant /\ task[w].realm = r /\ task[w].pc \in Between
    <3>1. task[w] \in Tasks /\ Refers(task[w])
      BY Typed DEF ConnInv, AllRefer
    <3> QED
      BY <1>3, <3>1, TaskFields DEF FlagError, Refers, Between, Asking
  <2>2. c \in Connection /\ c.status = "error" /\ c.token = connection[r].token
    BY <2>1, Typed DEF Connection
  <2>3. c # NoGrant
    BY <2>2, NoGrantAssumption
  <2>4. connection' = [connection EXCEPT ![r] = c] /\ UNCHANGED excused
    BY <1>3, <2>1, Typed DEF FlagError
  <2>5. /\ task' \in [Workers -> Tasks] /\ task'[w].pc \in {"rest", "walking"}
        /\ \A u \in Workers : u # w => task'[u] = task[u]
    BY <1>3, <2>1, ResumeTask, Typed DEF FlagError
  <2> HIDE DEF r, c
  <2>6. /\ connection' \in [Realms -> Connection \cup {NoGrant}] /\ connection'[r] = c
        /\ \A q \in Realms : q # r => connection'[q] = connection[q]
    BY <2>1, <2>2, <2>4, Typed
  <2> QED
    BY <1>0, <2>1, <2>2, <2>3, <2>4, <2>5, <2>6, Typed, WriteInv
<1>4. CASE Dies(w)
  <2>1. UNCHANGED connection /\ task' = [task EXCEPT ![w] = AtRest]
    BY <1>4 DEF Dies
  <2>2. /\ task' \in [Workers -> Tasks] /\ task'[w].pc \in {"rest", "walking"}
        /\ \A u \in Workers : u # w => task'[u] = task[u]
    BY <2>1, Typed DEF Tasks, AtRest
  <2>3. /\ excused \subseteq excused' /\ excused' \subseteq 0 .. MaxGrants
        /\ task[w].pc \in Between => task[w].token \in excused'
    <3>1. task[w].pc \in Between => task[w].token \in 0 .. MaxGrants
      BY Typed, TaskFields DEF Asking
    <3> QED
      BY <1>4, <3>1, Typed DEF Dies, Between
  <2> QED
    BY <1>0, <2>1, <2>2, <2>3, Typed, WriteInv
<1> QED
  BY <1>1, <1>2, <1>3, <1>4

LEMMA RowInv ==
  ASSUME ConnInv, NEW r \in Realms, CustomerDisconnects(r) \/ DisconnectHint(r) \/ Idles(r)
  PROVE  ConnInv'
<1>0. UNCHANGED <<state, approval, issued, task>>
  BY DEF CustomerDisconnects, DisconnectHint, Idles
<1>1. CASE CustomerDisconnects(r)
  <2>1. UNCHANGED connection /\ excused' = excused \cup live[r] /\ live' = [live EXCEPT ![r] = {}]
    BY <1>1 DEF CustomerDisconnects
  <2>2. /\ live' \in [Realms -> SUBSET Grants] /\ excused' \subseteq 0 .. MaxGrants
        /\ \A q \in Realms : live[q] \cup excused \subseteq live'[q] \cup excused'
    BY <2>1, Typed DEF Grants
  <2> QED
    BY <1>0, <2>1, <2>2, Typed, WriteInv
<1>2. CASE DisconnectHint(r)
  <2>1. connection[r] # NoGrant /\ Disconnected(r) /\ UNCHANGED <<live, excused>>
    BY <1>2 DEF DisconnectHint
  <2> QED
    BY <1>0, <2>1, DisconnectedRow, Typed, WriteInv
<1>3. CASE Idles(r)
  <2> DEFINE c == [connection[r] EXCEPT !.idle = TRUE]
  <2>1. connection[r] # NoGrant /\ UNCHANGED <<live, excused>>
    BY <1>3 DEF Idles
  <2>2. c \in Connection /\ c.status = connection[r].status /\ c.token = connection[r].token
    BY <2>1, Typed DEF Connection
  <2>3. c # NoGrant
    BY <2>2, NoGrantAssumption
  <2>4. connection' = [connection EXCEPT ![r] = c]
    BY <1>3, Typed DEF Idles
  <2> HIDE DEF c
  <2>5. /\ connection' \in [Realms -> Connection \cup {NoGrant}] /\ connection'[r] = c
        /\ \A q \in Realms : q # r => connection'[q] = connection[q]
    BY <2>2, <2>4, Typed
  <2> QED
    BY <1>0, <2>1, <2>2, <2>3, <2>5, Typed, WriteInv
<1> QED
  BY <1>1, <1>2, <1>3

LEMMA StepConn == ConnInv /\ [ConnNext]_connVars => ConnInv'
<1> SUFFICES ASSUME ConnInv, [ConnNext]_connVars
             PROVE  ConnInv'
  OBVIOUS
<1>1. CASE UNCHANGED connVars
  BY <1>1 DEF connVars, ConnInv, ConnTypeOK, ApprovedWasStarted, AllRefer, Refers, RowsKnown,
     NewIsSafe, SafeNew, ActiveCovered
<1>2. ASSUME NEW s \in Authorizations,
             \/ \E o \in Organizations : StartAuthorization(s, o)
             \/ StateExpires(s)
             \/ \E r \in Realms : Approve(s, r)
      PROVE  ConnInv'
  BY <1>2, AuthorizingInv
<1>3. ASSUME NEW s \in Authorizations, NEW w \in Workers, ReadState(w, s)
      PROVE  ConnInv'
  <2>1. PICK r \in Realms : TRUE
    <3>1. approval[s] \in [realm : Realms, spent : BOOLEAN]
      BY <1>3, Typed DEF ReadState
    <3> QED
      BY <3>1
  <2> QED
    BY <1>3, <2>1, TakingUpInv
<1>4. ASSUME NEW w \in Workers, Continue(w) \/ Dies(w)
      PROVE  ConnInv'
  <2>1. CASE TellIntuit(w)
    <3>1. task[w].realm \in Realms
      BY <2>1, Typed, TaskFields DEF TellIntuit, Revoking
    <3> QED
      BY <2>1, <3>1, TakingUpInv
  <2> QED
    BY <1>4, <2>1, AskingInv, PostInv, EndingInv DEF Continue
<1>5. ASSUME NEW w \in Workers, NEW r \in Realms, NeedAccess(w, r) \/ StartRevoke(w, r)
      PROVE  ConnInv'
  BY <1>5, AskingInv, TakingUpInv
<1>6. ASSUME StartKeepalive
      PROVE  ConnInv'
  <2>1. PICK r \in Realms : r \in DueForRefresh
    BY <1>6 DEF StartKeepalive, DueForRefresh
  <2> QED
    BY <1>6, <2>1, TakingUpInv, ConnectionAssumption
<1>7. ASSUME NEW r \in Realms, KeepAlive(r) \/ SkipKeepalive(r)
      PROVE  ConnInv'
  BY <1>7, AskingInv, TakingUpInv, ConnectionAssumption
<1>8. ASSUME NEW r \in Realms, CustomerDisconnects(r) \/ DisconnectHint(r) \/ Idles(r)
      PROVE  ConnInv'
  BY <1>8, RowInv
<1> QED
  BY <1>1, <1>2, <1>3, <1>4, <1>5, <1>6, <1>7, <1>8 DEF ConnNext

-----------------------------------------------------------------------------
\* The rows of connections and authorizations, and what workers hold of them, are of their
\* types.
THEOREM ConnectionTypeCorrect == ConnSpec => []ConnTypeOK
<1>1. ConnInv => ConnTypeOK
  BY DEF ConnInv
<1> QED
  BY <1>1, InitConn, StepConn, PTL DEF ConnSpec

\* However refreshes, callbacks, disconnects and the keepalive interleave, and however
\* often requests are repeated, a row that says active and that nobody is refreshing holds
\* a token Intuit accepts, unless it was revoked or its holder died.
THEOREM ActiveConnectionsUsable == ConnSpec => []ActiveMeansUsable
<1>1. ConnInv => ActiveMeansUsable
  BY DEF ConnInv, ActiveCovered, ActiveMeansUsable, Refreshing, Between
<1> QED
  BY <1>1, InitConn, StepConn, PTL DEF ConnSpec
=============================================================================

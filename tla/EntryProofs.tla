----------------------------- MODULE EntryProofs -----------------------------
(***************************************************************************)
(* Proofs about who gets in: OperatorAccounts, whose active secret is in   *)
(* the operator's authenticator unless it was stored while another was     *)
(* being confirmed, and ClientAccess, whose newest link is never revoked.  *)
(***************************************************************************)
EXTENDS OperatorAccounts, ClientAccess, TLAPS

\* A page shows codes that were issued.
ShownWereIssued == \A t \in Tabs : tab[t].pc = "showing" => tab[t].batch <= batches

\* What a browser is about to confirm is in the authenticator, unless it was disabled or
\* overtaken since the code was checked.
ConfirmingIsHeld ==
  \A t \in Tabs : tab[t].pc = "confirming" => secret = 0 \/ secret \in app \/ overtaken

AccountsInv == AccountsTypeOK /\ ShownWereIssued /\ ConfirmingIsHeld /\ ActiveSecretIsHeld

Doing ==
  [pc : {"out", "in", "accepted", "beginning", "confirming", "regenerating", "disabling"}]
  \cup [pc : {"challenged"}, attempts : 0 .. MFA_MAX_ATTEMPTS]
  \cup [pc : {"answered"}, code : {"totp"} \cup RecoveryCodes, for : {"session", "disabling"}]
  \cup [pc : {"showing"}, batch : 1 .. MaxBatches]

-----------------------------------------------------------------------------
\* The fields of what a browser is doing.
LEMMA Fields ==
  ASSUME AccountsTypeOK, NEW t \in Tabs
  PROVE  /\ tab \in [Tabs -> Doing]
         /\ tab[t].pc = "challenged" => tab[t].attempts \in 0 .. MFA_MAX_ATTEMPTS
         /\ tab[t].pc = "answered" => tab[t].code \in {"totp"} \cup RecoveryCodes
         /\ tab[t].pc = "showing" => tab[t].batch \in 1 .. MaxBatches
<1>1. tab \in [Tabs -> Doing]
  BY DEF AccountsTypeOK, Doing
<1>2. tab[t] \in Doing
  BY <1>1
<1> QED
  BY <1>1, <1>2 DEF Doing

\* The states of a browser that carry nothing, or what a request has just found.
LEMMA TabStates ==
  /\ Out \in Doing /\ In \in Doing /\ Challenged \in Doing
  /\ \A p \in {"accepted", "beginning", "confirming", "regenerating", "disabling"} :
       [pc |-> p] \in Doing
  /\ \A c \in {"totp"} \cup RecoveryCodes, f \in {"session", "disabling"} :
       [pc |-> "answered", code |-> c, for |-> f] \in Doing
  /\ \A n \in 1 .. MaxBatches : [pc |-> "showing", batch |-> n] \in Doing
  BY AccountsAssumption DEF Doing, Out, In, Challenged

LEMMA InitAccounts == AccountsInit => AccountsInv
<1> SUFFICES ASSUME AccountsInit
             PROVE  AccountsInv
  OBVIOUS
<1>1. tab \in [Tabs -> Doing]
  BY TabStates DEF AccountsInit
<1>2. AccountsTypeOK
  <2>1. tab \in [Tabs -> Doing] /\ confirmed \in BOOLEAN /\ overtaken \in BOOLEAN
    BY <1>1 DEF AccountsInit
  <2>2. /\ secret \in 0 .. generated /\ generated \in 0 .. MaxSecrets
        /\ batch \in 0 .. batches /\ batches \in 0 .. MaxBatches
        /\ failures \in 0 .. MAX_FAILED_ATTEMPTS
    BY AccountsAssumption DEF AccountsInit
  <2>3. unused \subseteq RecoveryCodes /\ app \subseteq 1 .. generated
    BY DEF AccountsInit
  <2>4. received \cup lost \subseteq 1 .. batches
    BY DEF AccountsInit
  <2> QED
    BY <2>1, <2>2, <2>3, <2>4 DEF AccountsTypeOK, Doing
<1>3. ShownWereIssued
  BY DEF AccountsInit, ShownWereIssued, Out
<1>4. ConfirmingIsHeld /\ ActiveSecretIsHeld
  BY DEF AccountsInit, ConfirmingIsHeld, ActiveSecretIsHeld, Enabled
<1> QED
  BY <1>2, <1>3, <1>4 DEF AccountsInv

\* A step of a browser that leaves both factors alone and does not end in a shown page, nor
\* about to confirm a secret the authenticator has not.
LEMMA TabInv ==
  ASSUME AccountsInv, UNCHANGED factorVars, failures' \in 0 .. MAX_FAILED_ATTEMPTS,
         NEW t \in Tabs, NEW d \in Doing, d.pc # "showing", tab[t].pc # "showing",
         d.pc = "confirming" => secret \in app,
         tab' = [tab EXCEPT ![t] = d]
  PROVE  AccountsInv'
<1>1. tab' \in [Tabs -> Doing]
  BY Fields DEF AccountsInv
<1>2. AccountsTypeOK'
  BY <1>1 DEF AccountsInv, AccountsTypeOK, factorVars, Doing
<1>3. \A u \in Tabs : tab'[u] = tab[u] \/ (u = t /\ tab'[u].pc # "showing")
  BY Fields DEF AccountsInv
<1>4. ConfirmingIsHeld'
  <2>1. \A u \in Tabs : tab'[u].pc = "confirming" => tab[u].pc = "confirming" \/ secret \in app
    BY Fields DEF AccountsInv
  <2> QED
    BY <2>1 DEF AccountsInv, ConfirmingIsHeld, factorVars
<1>5. ShownWereIssued'
  BY <1>3 DEF AccountsInv, ShownWereIssued, factorVars
<1>6. ActiveSecretIsHeld'
  BY DEF AccountsInv, ActiveSecretIsHeld, Enabled, factorVars
<1> QED
  BY <1>2, <1>4, <1>5, <1>6 DEF AccountsInv

\* The codes issued by a browser that shows them.
LEMMA IssueInv ==
  ASSUME AccountsInv, NEW t \in Tabs, IssueCodes(t), confirmed' \in BOOLEAN,
         confirmed' => confirmed \/ tab[t].pc = "confirming",
         UNCHANGED <<secret, generated, app, received, lost, overtaken, failures>>
  PROVE  AccountsInv'
<1>1. batches \in Nat /\ batches + 1 \in 1 .. MaxBatches
  BY AccountsAssumption DEF AccountsInv, AccountsTypeOK, IssueCodes
<1>2. tab' \in [Tabs -> Doing] /\ tab'[t] = [pc |-> "showing", batch |-> batches + 1]
  BY <1>1, Fields, TabStates DEF AccountsInv, IssueCodes
<1>3. AccountsTypeOK'
  BY <1>1, <1>2 DEF AccountsInv, AccountsTypeOK, IssueCodes, Doing
<1>4. ShownWereIssued'
  <2>1. \A u \in Tabs : u # t => tab'[u] = tab[u]
    BY Fields DEF AccountsInv, IssueCodes
  <2>2. \A u \in Tabs : tab[u].pc = "showing" => tab[u].batch \in Nat
    BY Fields DEF AccountsInv
  <2> QED
    BY <1>1, <1>2, <2>1, <2>2 DEF AccountsInv, ShownWereIssued, IssueCodes
<1>5. ConfirmingIsHeld'
  <2>1. \A u \in Tabs : tab'[u].pc = "confirming" => tab[u].pc = "confirming"
    BY <1>2, Fields DEF AccountsInv, IssueCodes
  <2> QED
    BY <2>1 DEF AccountsInv, ConfirmingIsHeld
<1>6. ActiveSecretIsHeld'
  BY DEF AccountsInv, ActiveSecretIsHeld, ConfirmingIsHeld, Enabled
<1> QED
  BY <1>3, <1>4, <1>5, <1>6 DEF AccountsInv

-----------------------------------------------------------------------------
LEMMA SigningInInv ==
  ASSUME AccountsInv, NEW t \in Tabs,
         \/ GivePassword(t) \/ MistypePassword(t) \/ SignIn(t) \/ SignOut(t)
         \/ \E c \in {"totp"} \cup RecoveryCodes : Answer(t, c) \/ AskToDisable(t, c)
         \/ Misanswer(t) \/ SpendAnswer(t)
  PROVE  AccountsInv'
<1>0. failures \in 0 .. MAX_FAILED_ATTEMPTS /\ tab \in [Tabs -> Doing]
  BY Fields DEF AccountsInv, AccountsTypeOK
<1>1. CASE GivePassword(t)
  <2>1. [pc |-> "accepted"] \in Doing
    BY TabStates
  <2>2. tab' = [tab EXCEPT ![t] = [pc |-> "accepted"]] /\ tab[t].pc # "showing"
    BY <1>1 DEF GivePassword, Out
  <2>3. UNCHANGED <<factorVars, failures>>
    BY <1>1 DEF GivePassword
  <2> QED
    BY <1>0, <2>1, <2>2, <2>3, TabInv
<1>2. CASE MistypePassword(t)
  <2>1. failures' \in 0 .. MAX_FAILED_ATTEMPTS
    BY <1>0, <1>2, AccountsAssumption DEF MistypePassword
  <2> QED
    BY <1>2, <2>1 DEF MistypePassword, AccountsInv, AccountsTypeOK, ShownWereIssued,
       ConfirmingIsHeld, ActiveSecretIsHeld, Enabled, factorVars
<1>3. CASE SignIn(t)
  <2>1. PICK d \in {In, Challenged} : tab' = [tab EXCEPT ![t] = d]
    BY <1>3 DEF SignIn
  <2>2. d \in Doing /\ d.pc \notin {"showing", "confirming"}
    BY TabStates DEF In, Challenged
  <2> QED
    BY <1>0, <1>3, <2>1, <2>2, TabInv DEF SignIn
<1>4. CASE SignOut(t)
  BY <1>0, <1>4, TabInv, TabStates DEF SignOut, Out
<1>5. ASSUME NEW c \in {"totp"} \cup RecoveryCodes, Answer(t, c) \/ AskToDisable(t, c)
      PROVE  AccountsInv'
  <2>1. PICK f \in {"session", "disabling"} :
          tab' = [tab EXCEPT ![t] = [pc |-> "answered", code |-> c, for |-> f]]
    BY <1>5 DEF Answer, AskToDisable
  <2>2. tab[t].pc # "showing" /\ UNCHANGED <<factorVars, failures>>
    BY <1>5 DEF Answer, AskToDisable, In
  <2>3. [pc |-> "answered", code |-> c, for |-> f] \in Doing
    BY TabStates
  <2> QED
    BY <1>0, <2>1, <2>2, <2>3, TabInv
<1>6. CASE Misanswer(t)
  <2>1. tab[t] \in [pc : {"challenged"}, attempts : 0 .. MFA_MAX_ATTEMPTS]
    BY <1>0, <1>6 DEF Misanswer, Doing
  <2>2. PICK d \in Doing : d.pc \notin {"showing", "confirming"} /\ tab' = [tab EXCEPT ![t] = d]
    <3>1. CASE tab[t].attempts + 1 < MFA_MAX_ATTEMPTS
      <4>1. [pc |-> "challenged", attempts |-> tab[t].attempts + 1] \in Doing
        BY <2>1, <3>1, AccountsAssumption DEF Doing
      <4> QED
        BY <1>6, <3>1, <4>1 DEF Misanswer
    <3>2. CASE ~(tab[t].attempts + 1 < MFA_MAX_ATTEMPTS)
      BY <1>6, <3>2, TabStates DEF Misanswer, Out
    <3> QED
      BY <3>1, <3>2
  <2> QED
    BY <1>0, <1>6, <2>2, TabInv DEF Misanswer
<1>7. CASE SpendAnswer(t)
  <2>1. PICK d \in Doing : d.pc \notin {"showing", "confirming"} /\ tab' = [tab EXCEPT ![t] = d]
    BY <1>7, TabStates DEF SpendAnswer, In
  <2>2. tab' \in [Tabs -> Doing] /\ \A u \in Tabs : u # t => tab'[u] = tab[u]
    BY <1>0, <2>1
  <2>3. AccountsTypeOK'
    BY <1>7, <2>2 DEF SpendAnswer, AccountsInv, AccountsTypeOK, Doing
  <2>4. \A u \in Tabs : tab[u].pc = "showing" <=> tab'[u].pc = "showing"
    BY <1>0, <1>7, <2>1, <2>2 DEF SpendAnswer
  <2>5. \A u \in Tabs : tab[u].pc = "showing" => tab'[u] = tab[u]
    BY <1>7, <2>2 DEF SpendAnswer
  <2>6. \A u \in Tabs : tab'[u].pc = "confirming" => tab[u].pc = "confirming"
    BY <1>0, <2>1, <2>2
  <2>7. ShownWereIssued'
    BY <1>7, <2>4, <2>5 DEF SpendAnswer, AccountsInv, ShownWereIssued
  <2>8. ConfirmingIsHeld'
    BY <1>7, <2>6 DEF SpendAnswer, AccountsInv, ConfirmingIsHeld
  <2>9. ActiveSecretIsHeld'
    BY <1>7 DEF SpendAnswer, AccountsInv, ActiveSecretIsHeld, Enabled
  <2> QED
    BY <2>3, <2>7, <2>8, <2>9 DEF AccountsInv
<1> QED
  BY <1>1, <1>2, <1>3, <1>4, <1>5, <1>6, <1>7

LEMMA EnrolmentInv ==
  ASSUME AccountsInv, NEW t \in Tabs,
         \/ CheckNotEnabled(t) \/ BeginEnrolment(t) \/ ShowSecret(t)
         \/ VerifyPending(t) \/ ConfirmEnrolment(t)
         \/ CheckEnabled(t) \/ RegenerateCodes(t) \/ ReceiveCodes(t) \/ LoseCodes(t)
         \/ Disable(t) \/ LoseRequest(t)
  PROVE  AccountsInv'
<1>0. failures \in 0 .. MAX_FAILED_ATTEMPTS /\ tab \in [Tabs -> Doing]
  BY Fields DEF AccountsInv, AccountsTypeOK
<1>1. CASE CheckNotEnabled(t) \/ VerifyPending(t) \/ CheckEnabled(t)
  <2>1. PICK p \in {"beginning", "confirming", "regenerating"} : tab' = [tab EXCEPT ![t] = [pc |-> p]]
    BY <1>1 DEF CheckNotEnabled, VerifyPending, CheckEnabled
  <2>2. [pc |-> p] \in Doing
    BY TabStates
  <2>3. tab[t].pc # "showing" /\ UNCHANGED <<factorVars, failures>>
    BY <1>1 DEF CheckNotEnabled, VerifyPending, CheckEnabled, In
  <2>4. p = "confirming" => secret \in app
    <3>1. tab'[t].pc = p
      BY <1>0, <2>1
    <3> QED
      BY <1>0, <1>1, <3>1 DEF CheckNotEnabled, VerifyPending, CheckEnabled
  <2> QED
    BY <1>0, <2>1, <2>2, <2>3, <2>4, TabInv
<1>4. CASE BeginEnrolment(t) \/ Disable(t)
  <2>1. tab' = [tab EXCEPT ![t] = In] /\ tab[t].pc # "showing"
    BY <1>4 DEF BeginEnrolment, Disable
  <2>2. tab' \in [Tabs -> Doing] /\ \A u \in Tabs : tab'[u] = tab[u] \/ tab'[u] = In
    BY <1>0, <2>1, TabStates
  <2>3. AccountsTypeOK'
    <3>1. CASE BeginEnrolment(t)
      <4>1. secret' \in 0 .. generated' /\ generated' \in 0 .. MaxSecrets
        BY <3>1, AccountsAssumption DEF BeginEnrolment, AccountsInv, AccountsTypeOK
      <4>2. app' \subseteq 1 .. generated'
        BY <3>1, AccountsAssumption DEF BeginEnrolment, AccountsInv, AccountsTypeOK
      <4>3. tab' \in [Tabs -> Doing] /\ confirmed' \in BOOLEAN /\ overtaken' \in BOOLEAN
        BY <2>2, <3>1 DEF BeginEnrolment
      <4>4. UNCHANGED <<batch, batches, unused, received, lost, failures>>
        BY <3>1 DEF BeginEnrolment
      <4> QED
        BY <4>1, <4>2, <4>3, <4>4 DEF AccountsInv, AccountsTypeOK, Doing
    <3>2. CASE Disable(t)
      <4>1. secret' \in 0 .. generated' /\ batch' \in 0 .. batches'
        BY <3>2, AccountsAssumption DEF Disable, AccountsInv, AccountsTypeOK
      <4>2. tab' \in [Tabs -> Doing] /\ confirmed' \in BOOLEAN /\ unused' \subseteq RecoveryCodes
        BY <2>2, <3>2 DEF Disable
      <4>3. UNCHANGED <<generated, batches, app, received, lost, overtaken, failures>>
        BY <3>2 DEF Disable
      <4> QED
        BY <4>1, <4>2, <4>3 DEF AccountsInv, AccountsTypeOK, Doing
    <3> QED
      BY <1>4, <3>1, <3>2
  <2>4. ShownWereIssued'
    <3>1. UNCHANGED batches
      BY <1>4 DEF BeginEnrolment, Disable
    <3>2. \A u \in Tabs : tab'[u].pc = "showing" => tab'[u] = tab[u]
      BY <2>2 DEF In
    <3> QED
      BY <3>1, <3>2 DEF AccountsInv, ShownWereIssued
  <2>5. ActiveSecretIsHeld'
    BY <1>4 DEF BeginEnrolment, Disable, ActiveSecretIsHeld, Enabled
  <2>6. \A u \in Tabs : tab'[u].pc = "confirming" => tab[u].pc = "confirming"
    BY <2>2 DEF In
  <2>7. ConfirmingIsHeld'
    BY <1>4, <2>6 DEF BeginEnrolment, Disable, ConfirmingIsHeld
  <2> QED
    BY <2>3, <2>4, <2>5, <2>7 DEF AccountsInv
<1>5. CASE ShowSecret(t)
  <2>0. secret \in 1 .. generated
    BY <1>5, AccountsAssumption DEF ShowSecret, SecretPending, AccountsInv, AccountsTypeOK
  <2>1. AccountsTypeOK'
    BY <1>0, <1>5, <2>0 DEF ShowSecret, AccountsInv, AccountsTypeOK, Doing
  <2> QED
    BY <1>5, <2>1 DEF ShowSecret, AccountsInv, ShownWereIssued, ConfirmingIsHeld,
       ActiveSecretIsHeld, Enabled
<1>6. CASE ConfirmEnrolment(t) \/ RegenerateCodes(t)
  <2>1. IssueCodes(t) /\ UNCHANGED <<secret, generated, app, received, lost, overtaken, failures>>
    BY <1>6 DEF ConfirmEnrolment, RegenerateCodes
  <2>2. confirmed' \in BOOLEAN /\ (confirmed' => confirmed \/ tab[t].pc = "confirming")
    <3>1. (confirmed' = TRUE /\ tab[t].pc = "confirming") \/ confirmed' = confirmed
      BY <1>6 DEF ConfirmEnrolment, RegenerateCodes
    <3>2. confirmed \in BOOLEAN
      BY DEF AccountsInv, AccountsTypeOK
    <3>3. CASE confirmed' = TRUE /\ tab[t].pc = "confirming"
      BY <3>3
    <3>4. CASE confirmed' = confirmed
      BY <3>2, <3>4
    <3> QED
      BY <3>1, <3>3, <3>4
  <2> QED
    BY <2>1, <2>2, IssueInv
<1>7. CASE ReceiveCodes(t) \/ LoseCodes(t)
  <2>1. tab[t].batch \in 1 .. batches
    BY <1>7, Fields DEF ReceiveCodes, LoseCodes, AccountsInv, ShownWereIssued, AccountsTypeOK
  <2>2. tab' \in [Tabs -> Doing] /\ tab'[t] = In /\ \A u \in Tabs : u # t => tab'[u] = tab[u]
    BY <1>0, <1>7, TabStates DEF ReceiveCodes, LoseCodes
  <2>3. AccountsTypeOK'
    BY <1>7, <2>1, <2>2 DEF ReceiveCodes, LoseCodes, AccountsInv, AccountsTypeOK, Doing
  <2>4. ShownWereIssued'
    <3>1. UNCHANGED batches
      BY <1>7 DEF ReceiveCodes, LoseCodes
    <3>2. \A u \in Tabs : tab'[u].pc = "showing" => tab'[u] = tab[u]
      BY <2>2 DEF In
    <3> QED
      BY <3>1, <3>2 DEF AccountsInv, ShownWereIssued
  <2>5. ActiveSecretIsHeld'
    <3>1. UNCHANGED <<secret, confirmed, app, overtaken>>
      BY <1>7 DEF ReceiveCodes, LoseCodes
    <3> QED
      BY <3>1 DEF AccountsInv, ActiveSecretIsHeld, Enabled
  <2>6. ConfirmingIsHeld'
    BY <1>7, <2>2 DEF ReceiveCodes, LoseCodes, AccountsInv, ConfirmingIsHeld, In
  <2> QED
    BY <2>3, <2>4, <2>5, <2>6 DEF AccountsInv
<1>8. CASE LoseRequest(t)
  <2>1. PICK d \in {In, Out} : tab' = [tab EXCEPT ![t] = d]
    BY <1>8 DEF LoseRequest
  <2>2. d \in Doing /\ d.pc \notin {"showing", "confirming"}
    BY TabStates DEF In, Out
  <2> QED
    BY <1>0, <1>8, <2>1, <2>2, TabInv DEF LoseRequest
<1> QED
  BY <1>1, <1>4, <1>5, <1>6, <1>7, <1>8

LEMMA StepAccounts == AccountsInv /\ [AccountsNext]_accountVars => AccountsInv'
<1> SUFFICES ASSUME AccountsInv, [AccountsNext]_accountVars
             PROVE  AccountsInv'
  OBVIOUS
<1>1. CASE WindowPasses
  BY <1>1, AccountsAssumption DEF WindowPasses, AccountsInv, AccountsTypeOK, ShownWereIssued,
     ConfirmingIsHeld, ActiveSecretIsHeld, Enabled, factorVars
<1>2. CASE UNCHANGED accountVars
  BY <1>2 DEF accountVars, AccountsInv, AccountsTypeOK, ShownWereIssued,
     ConfirmingIsHeld, ActiveSecretIsHeld, Enabled
<1> QED
  BY <1>1, <1>2, SigningInInv, EnrolmentInv DEF AccountsNext

-----------------------------------------------------------------------------
\* The account's rows and its operator's browsers are of their types.
THEOREM AccountsTypeCorrect == AccountsSpec => []AccountsTypeOK
<1>1. AccountsInv => AccountsTypeOK
  BY DEF AccountsInv
<1> QED
  BY <1>1, InitAccounts, StepAccounts, PTL DEF AccountsSpec

\* Whatever browsers begin, confirm, regenerate and disable at once, an active secret is in
\* the operator's authenticator, except where it was stored between another browser's check
\* of a code and its commit.
THEOREM ActiveSecretIsHeldHolds == AccountsSpec => []ActiveSecretIsHeld
<1>1. AccountsInv => ActiveSecretIsHeld
  BY DEF AccountsInv
<1> QED
  BY <1>1, InitAccounts, StepAccounts, PTL DEF AccountsSpec

-----------------------------------------------------------------------------
(* Access links.                                                           *)

\* The newest link is not revoked, and the sending that minted it has it on its way, has
\* delivered it, has failed or is about to mint another.
NewestGetsThrough ==
  linked > 0 =>
    /\ link[linked] \in {"unused", "used", "expired"}
    /\ \E m \in Mails : /\ mail[m].carries = linked
                        /\ \/ mail[m].pc \in {"queued", "sending", "failed"}
                           \/ mail[m].pc = "done" /\ linked \in inbox

AccessInv ==
  /\ AccessTypeOK
  /\ \A l \in Links : link[l] = "none" <=> l > linked
  /\ \A m \in Mails : /\ mail[m].pc \in {"sending", "done"} => mail[m].carries \in 1 .. linked
                      /\ mail[m].pc = "unsent" => mail[m].carries = 0
  /\ inbox \subseteq 1 .. linked
  /\ \A b \in Browsers : entering[b] \in 0 .. linked
  /\ NewestGetsThrough

LEMMA InitAccess == AccessInit => AccessInv
<1> SUFFICES ASSUME AccessInit
             PROVE  AccessInv
  OBVIOUS
<1>1. AccessTypeOK
  <2>1. Unsent \in Sending
    BY AccessAssumption DEF Unsent, Sending
  <2> QED
    BY <2>1, AccessAssumption DEF AccessInit, AccessTypeOK, Links
<1>2. \A l \in Links : link[l] = "none" /\ l > linked
  BY AccessAssumption DEF AccessInit, Links
<1>3. \A m \in Mails : mail[m].pc = "unsent" /\ mail[m].carries = 0
  BY DEF AccessInit, Unsent
<1>4. linked = 0 /\ inbox = {} /\ \A b \in Browsers : entering[b] = 0
  BY DEF AccessInit
<1>5. NewestGetsThrough
  BY <1>4 DEF NewestGetsThrough
<1> QED
  BY <1>1, <1>2, <1>3, <1>4, <1>5 DEF AccessInv

\* What a step writes on a sending leaves the rest of it.
LEMMA SendingTo ==
  ASSUME NEW m \in Sending, NEW p \in {"queued", "sending", "done", "failed"},
         NEW d, d = [m EXCEPT !.pc = p]
  PROVE  d \in Sending /\ d.pc = p /\ d.carries = m.carries
BY DEF Sending

LEMMA SendingAskedFor ==
  ASSUME NEW m \in Sending, NEW k \in {"queue", "inline", "reply"},
         NEW d, d = [m EXCEPT !.pc = "queued", !.kind = k]
  PROVE  d \in Sending /\ d.pc = "queued" /\ d.carries = m.carries
BY DEF Sending

\* What a retry leaves of a sending.
LEMMA RetriedSending ==
  ASSUME NEW m \in Sending
  PROVE  /\ Retried(m) \in Sending /\ Retried(m).pc \in {"queued", "failed"}
         /\ Retried(m).carries = m.carries
<1>1. CASE m.kind = "queue" /\ m.tries < MAIL_RETRIES
  <2>1. m.tries + 1 \in 0 .. MAIL_RETRIES
    BY <1>1, AccessAssumption DEF Sending
  <2>2. Retried(m) = [pc |-> "queued", kind |-> m.kind, tries |-> m.tries + 1, carries |-> m.carries]
    BY <1>1 DEF Retried, Sending
  <2> QED
    BY <2>1, <2>2 DEF Sending
<1>2. CASE ~(m.kind = "queue" /\ m.tries < MAIL_RETRIES)
  <2>1. Retried(m) = [pc |-> "failed", kind |-> m.kind, tries |-> m.tries, carries |-> m.carries]
    BY <1>2 DEF Retried, Sending
  <2> QED
    BY <2>1 DEF Sending
<1> QED
  BY <1>1, <1>2

\* A sending goes on without a new link, and may reach the client.
LEMMA SendingInv ==
  ASSUME AccessInv, NEW m \in Mails, NEW d \in Sending, mail' = [mail EXCEPT ![m] = d],
         d.carries = mail[m].carries, mail[m].pc # "done",
         UNCHANGED <<link, linked, entering, signedIn>>,
         inbox' = inbox \/ (inbox' = inbox \cup {mail[m].carries} /\ mail[m].pc = "sending"),
         d.pc \in {"queued", "failed"} \/ (d.pc = "done" /\ d.carries \in inbox' /\ mail[m].pc = "sending")
  PROVE  AccessInv'
<1>1. mail' \in [Mails -> Sending] /\ mail'[m] = d /\ \A n \in Mails : n # m => mail'[n] = mail[n]
  BY DEF AccessInv, AccessTypeOK
<1>2. linked \in 0 .. MaxLinks /\ inbox' \subseteq 1 .. linked
  BY DEF AccessInv, AccessTypeOK
<1>3. AccessTypeOK'
  BY <1>1, <1>2, AccessAssumption DEF AccessInv, AccessTypeOK, Links
<1>4. NewestGetsThrough'
  <2> SUFFICES ASSUME linked > 0
               PROVE  /\ link[linked] \in {"unused", "used", "expired"}
                      /\ \E n \in Mails : /\ mail'[n].carries = linked
                                          /\ \/ mail'[n].pc \in {"queued", "sending", "failed"}
                                             \/ mail'[n].pc = "done" /\ linked \in inbox'
    BY DEF NewestGetsThrough
  <2>1. PICK n \in Mails : /\ mail[n].carries = linked
                           /\ \/ mail[n].pc \in {"queued", "sending", "failed"}
                              \/ mail[n].pc = "done" /\ linked \in inbox
    BY DEF AccessInv, NewestGetsThrough
  <2>2. link[linked] \in {"unused", "used", "expired"} /\ inbox \subseteq inbox'
    BY DEF AccessInv, NewestGetsThrough
  <2>3. CASE n = m
    BY <1>1, <2>1, <2>2, <2>3
  <2>4. CASE n # m
    BY <1>1, <2>1, <2>2, <2>4
  <2> QED
    BY <2>3, <2>4
<1>5. \A n \in Mails : /\ mail'[n].pc \in {"sending", "done"} => mail'[n].carries \in 1 .. linked
                      /\ mail'[n].pc = "unsent" => mail'[n].carries = 0
  BY <1>1 DEF AccessInv
<1> QED
  BY <1>2, <1>3, <1>4, <1>5 DEF AccessInv

LEMMA IssueLinkInv ==
  ASSUME AccessInv, NEW m \in Mails, IssueLink(m)
  PROVE  AccessInv'
<1>1. linked \in Nat /\ linked + 1 \in Links /\ linked' = linked + 1
  BY AccessAssumption DEF IssueLink, AccessInv, AccessTypeOK, Links
<1>2. mail[m] \in Sending /\ mail \in [Mails -> Sending]
  BY DEF AccessInv, AccessTypeOK
<1>3. PICK c \in 0 .. MaxLinks : c = linked + 1
  BY <1>1, AccessAssumption DEF Links
<1> DEFINE d == [mail[m] EXCEPT !.pc = "sending", !.carries = c]
<1>4. d \in Sending /\ d.pc = "sending" /\ d.carries = c
  BY <1>2, AccessAssumption DEF Sending
<1>5. mail' = [mail EXCEPT ![m] = d]
  BY <1>1, <1>2, <1>3 DEF IssueLink
<1> HIDE DEF d
<1>6. mail' \in [Mails -> Sending] /\ mail'[m] = d /\ \A n \in Mails : n # m => mail'[n] = mail[n]
  BY <1>4, <1>5 DEF AccessInv, AccessTypeOK
<1>7. /\ link' \in [Links -> {"none", "unused", "used", "revoked", "expired"}]
      /\ link'[linked + 1] = "unused"
      /\ \A l \in Links : link'[l] = "none" <=> l > linked + 1
  <2>1. link' = [l \in Links |-> IF l = linked + 1 THEN "unused"
                                 ELSE IF link[l] = "unused" THEN "revoked" ELSE link[l]]
    BY DEF IssueLink
  <2>2. link \in [Links -> {"none", "unused", "used", "revoked", "expired"}]
    BY DEF AccessInv, AccessTypeOK
  <2>3. link' \in [Links -> {"none", "unused", "used", "revoked", "expired"}]
    BY <2>1, <2>2
  <2>4. ASSUME NEW l \in Links
        PROVE  link'[l] = "none" <=> l > linked + 1
    <3>1. l \in Nat /\ (link[l] = "none" <=> l > linked)
      BY AccessAssumption DEF AccessInv, Links
    <3> QED
      BY <1>1, <2>1, <3>1
  <2> QED
    BY <1>1, <2>1, <2>3, <2>4
<1>8. AccessTypeOK'
  BY <1>1, <1>6, <1>7, AccessAssumption DEF IssueLink, AccessInv, AccessTypeOK, Links
<1>9. NewestGetsThrough'
  BY <1>1, <1>3, <1>4, <1>6, <1>7 DEF NewestGetsThrough
<1>10. ASSUME NEW n \in Mails
       PROVE  /\ mail'[n].pc \in {"sending", "done"} => mail'[n].carries \in 1 .. linked'
              /\ mail'[n].pc = "unsent" => mail'[n].carries = 0
  <2>1. CASE n = m
    BY <1>1, <1>3, <1>4, <1>6, <2>1
  <2>2. CASE n # m
    BY <1>1, <1>6, <2>2 DEF AccessInv
  <2> QED
    BY <2>1, <2>2
<1>11. inbox' \subseteq 1 .. linked' /\ \A b \in Browsers : entering'[b] \in 0 .. linked'
  BY <1>1 DEF IssueLink, AccessInv
<1> QED
  BY <1>1, <1>7, <1>8, <1>9, <1>10, <1>11 DEF AccessInv

LEMMA MailInv ==
  ASSUME AccessInv, NEW m \in Mails,
         \/ \E k \in {"queue", "inline", "reply"} : AskForLink(m, k)
         \/ IssueLink(m) \/ IssueFails(m)
         \/ DeliverMail(m) \/ DeliverFails(m) \/ SenderDies(m)
  PROVE  AccessInv'
<1>1. mail[m] \in Sending /\ mail \in [Mails -> Sending]
  BY DEF AccessInv, AccessTypeOK
<1>2. ASSUME NEW k \in {"queue", "inline", "reply"}, AskForLink(m, k)
      PROVE  AccessInv'
  <2> DEFINE d == [mail[m] EXCEPT !.pc = "queued", !.kind = k]
  <2>1. d \in Sending /\ d.pc = "queued" /\ d.carries = mail[m].carries
    BY <1>1, SendingAskedFor
  <2>2. mail' = [mail EXCEPT ![m] = d]
    BY <1>1, <1>2 DEF AskForLink
  <2> HIDE DEF d
  <2> QED
    BY <1>2, <2>1, <2>2, SendingInv DEF AskForLink
<1>3. ASSUME IssueFails(m) \/ DeliverFails(m)
      PROVE  AccessInv'
  <2>1. /\ Retried(mail[m]) \in Sending /\ Retried(mail[m]).pc \in {"queued", "failed"}
        /\ Retried(mail[m]).carries = mail[m].carries
    BY <1>1, RetriedSending
  <2>2. /\ mail' = [mail EXCEPT ![m] = Retried(mail[m])] /\ mail[m].pc \in {"queued", "sending"}
        /\ UNCHANGED <<link, linked, entering, signedIn>>
        /\ inbox' = inbox \/ (inbox' = inbox \cup {mail[m].carries} /\ mail[m].pc = "sending")
    BY <1>3 DEF IssueFails, DeliverFails
  <2> QED
    BY <2>1, <2>2, SendingInv
<1>4. ASSUME NEW p \in {"done", "failed"}, mail[m].pc = "sending", mail' = [mail EXCEPT ![m].pc = p],
             UNCHANGED <<link, linked, entering, signedIn>>,
             inbox' = IF p = "done" THEN inbox \cup {mail[m].carries} ELSE inbox
      PROVE  AccessInv'
  <2> DEFINE d == [mail[m] EXCEPT !.pc = p]
  <2>1. d \in Sending /\ d.pc = p /\ d.carries = mail[m].carries
    BY <1>1, SendingTo
  <2>2. mail' = [mail EXCEPT ![m] = d]
    BY <1>1, <1>4
  <2> HIDE DEF d
  <2> QED
    BY <1>4, <2>1, <2>2, SendingInv
<1>5. CASE DeliverMail(m)
  BY <1>4, <1>5 DEF DeliverMail
<1>6. CASE SenderDies(m)
  BY <1>4, <1>6 DEF SenderDies
<1> QED
  BY <1>2, <1>3, <1>5, <1>6, IssueLinkInv

\* No link is revoked or made unused again where a link is spent or runs out of hours.
LEMMA SpendingInv ==
  ASSUME AccessInv, UNCHANGED <<linked, mail, inbox>>,
         link' \in [Links -> {"none", "unused", "used", "revoked", "expired"}],
         \A k \in Links : link'[k] = link[k] \/ (/\ link[k] \in {"unused", "expired"}
                                               /\ link'[k] \in {"used", "expired"}),
         entering' \in [Browsers -> 0 .. linked], signedIn' \subseteq Browsers
  PROVE  AccessInv'
<1>1. linked \in 0 .. MaxLinks
  BY DEF AccessInv, AccessTypeOK
<1>2. entering' \in [Browsers -> 0 .. MaxLinks]
  BY <1>1, AccessAssumption
<1>3. AccessTypeOK'
  BY <1>2 DEF AccessInv, AccessTypeOK, Links
<1>4. NewestGetsThrough'
  <2>1. linked > 0 => linked \in Links
    BY DEF AccessInv, AccessTypeOK, Links
  <2> QED
    BY <2>1 DEF AccessInv, NewestGetsThrough
<1> QED
  BY <1>3, <1>4 DEF AccessInv

LEMMA EnteringInv ==
  ASSUME AccessInv,
         \/ \E l \in Links : LinkExpires(l)
         \/ \E b \in Browsers : (\E l \in Links : LookUp(b, l)) \/ Enter(b) \/ Leave(b)
  PROVE  AccessInv'
<1>1. link \in [Links -> {"none", "unused", "used", "revoked", "expired"}] /\ linked \in 0 .. MaxLinks
  BY DEF AccessInv, AccessTypeOK
<1>2. entering \in [Browsers -> 0 .. linked] /\ inbox \subseteq 1 .. linked /\ signedIn \subseteq Browsers
  BY DEF AccessInv, AccessTypeOK
<1>3. ASSUME NEW l \in Links, LinkExpires(l)
      PROVE  AccessInv'
  BY <1>1, <1>2, <1>3, SpendingInv DEF LinkExpires
<1>4. ASSUME NEW b \in Browsers, NEW l \in Links, LookUp(b, l)
      PROVE  AccessInv'
  <2>1. entering' \in [Browsers -> 0 .. linked]
    BY <1>1, <1>2, <1>4 DEF LookUp
  <2> QED
    BY <1>1, <1>2, <1>4, <2>1, SpendingInv DEF LookUp
<1>5. ASSUME NEW b \in Browsers, Enter(b)
      PROVE  AccessInv'
  <2>1. entering' \in [Browsers -> 0 .. linked] /\ signedIn' \subseteq Browsers
    BY <1>1, <1>2, <1>5 DEF Enter, NewSession
  <2>2. UNCHANGED <<linked, mail, inbox>>
    BY <1>5 DEF Enter
  <2>3. entering[b] \in Links
    <3>1. linked \in Nat /\ linked <= MaxLinks /\ entering[b] \in 0 .. linked /\ entering[b] # 0
      BY <1>1, <1>2, <1>5, AccessAssumption DEF Enter
    <3> QED
      BY <3>1, AccessAssumption DEF Links
  <2>4. /\ link' \in [Links -> {"none", "unused", "used", "revoked", "expired"}]
        /\ \A k \in Links : link'[k] = link[k] \/ (/\ link[k] \in {"unused", "expired"}
                                                  /\ link'[k] \in {"used", "expired"})
    BY <1>1, <1>5, <2>3 DEF Enter
  <2> QED
    BY <2>1, <2>2, <2>4, SpendingInv
<1>6. ASSUME NEW b \in Browsers, Leave(b)
      PROVE  AccessInv'
  BY <1>1, <1>2, <1>6, SpendingInv DEF Leave
<1> QED
  BY <1>3, <1>4, <1>5, <1>6

LEMMA StepAccess == AccessInv /\ [AccessNext]_accessVars => AccessInv'
<1> SUFFICES ASSUME AccessInv, [AccessNext]_accessVars
             PROVE  AccessInv'
  OBVIOUS
<1>1. CASE UNCHANGED accessVars
  BY <1>1 DEF accessVars, AccessInv, AccessTypeOK, NewestGetsThrough
<1>2. CASE AccessNext
  <2>1. CASE \E m \in Mails : \/ \E k \in {"queue", "inline", "reply"} : AskForLink(m, k)
                             \/ IssueLink(m) \/ IssueFails(m)
                             \/ DeliverMail(m) \/ DeliverFails(m) \/ SenderDies(m)
    BY <2>1, MailInv
  <2>2. CASE \/ \E l \in Links : LinkExpires(l)
             \/ \E b \in Browsers : (\E l \in Links : LookUp(b, l)) \/ Enter(b) \/ Leave(b)
    BY <2>2, EnteringInv
  <2> QED
    BY <1>2, <2>1, <2>2 DEF AccessNext
<1> QED
  BY <1>1, <1>2

-----------------------------------------------------------------------------
\* The rows of links, mails and sessions are of their types.
THEOREM AccessTypeCorrect == AccessSpec => []AccessTypeOK
<1>1. AccessInv => AccessTypeOK
  BY DEF AccessInv
<1> QED
  BY <1>1, InitAccess, StepAccess, PTL DEF AccessSpec

\* However sendings overlap, fail after their mail has left and are repeated, each revoking
\* the links before it: when all is quiet and nothing failed, the client holds a link that
\* was not revoked.
THEOREM MailedClientsEnter == AccessSpec => []MailedClientsCanEnter
<1>1. ASSUME AccessInv
      PROVE  MailedClientsCanEnter
  <2> SUFFICES ASSUME Quiet, NEW m \in Mails, mail[m].pc = "done",
                      ~\E n \in Mails : mail[n].pc = "failed"
               PROVE  \E l \in inbox : link[l] \in {"unused", "used", "expired"}
    BY DEF MailedClientsCanEnter
  <2>1. linked \in Nat /\ mail[m].carries \in 1 .. linked
    BY <1>1, AccessAssumption DEF AccessInv, AccessTypeOK
  <2>2. linked > 0
    BY <2>1
  <2>3. PICK n \in Mails : /\ mail[n].carries = linked
                           /\ \/ mail[n].pc \in {"queued", "sending", "failed"}
                              \/ mail[n].pc = "done" /\ linked \in inbox
    BY <1>1, <2>2 DEF AccessInv, NewestGetsThrough
  <2>4. mail[n].pc \in {"unsent", "done", "failed"} /\ mail[n].pc # "failed"
    BY DEF Quiet
  <2>5. linked \in inbox
    BY <2>3, <2>4
  <2> QED
    BY <1>1, <2>2, <2>5 DEF AccessInv, NewestGetsThrough
<1>2. AccessInv => MailedClientsCanEnter
  BY <1>1
<1> QED
  BY <1>2, InitAccess, StepAccess, PTL DEF AccessSpec
=============================================================================

--------------------------- MODULE OperatorAccounts ---------------------------
(***************************************************************************)
(* How an operator signs in: a password, and a second factor once it is    *)
(* enabled.  The authenticator's secret is stored when enrolment begins    *)
(* and becomes active when a code of it has been shown; recovery codes are *)
(* issued with that, and shown once.                                       *)
(*                                                                         *)
(* Accounts share nothing, so the model is of one, on several browsers.    *)
(* Every request reads what it checks in one statement and writes in a     *)
(* later transaction, by the user's id.  The operator knows the password   *)
(* and every secret and code that reached a browser; the steps of the      *)
(* TOTP clock are left out.                                                *)
(***************************************************************************)
EXTENDS Naturals

CONSTANTS
  Tabs,                 \* browsers the operator has open
  MAX_FAILED_ATTEMPTS,
  MFA_MAX_ATTEMPTS,
  RecoveryCodes,        \* the codes of a batch
  MaxSecrets,           \* bound: secrets generated
  MaxBatches            \* bound: batches of recovery codes issued

ASSUME AccountsAssumption ==
  /\ MAX_FAILED_ATTEMPTS \in Nat /\ MFA_MAX_ATTEMPTS \in Nat
  /\ MaxSecrets \in Nat /\ MaxBatches \in Nat

VARIABLES
  secret,      \* totp_secret_enc; 0 is NULL
  confirmed,   \* whether totp_confirmed_at is set
  generated,   \* secrets generated so far
  batch,       \* the batch of the user's recovery_codes rows; 0 if there are none
  batches,     \* batches issued so far
  unused,      \* codes of the batch that are not used
  app,         \* the secrets in the operator's authenticator
  received,    \* the batches whose page has arrived
  lost,        \* the batches whose page has not
  overtaken,   \* history: the secret was stored while a code of another was being confirmed
  failures,    \* failed login_attempts of the window
  tab          \* what each browser is doing

accountVars ==
  <<secret, confirmed, generated, batch, batches, unused, app, received, lost, overtaken,
    failures, tab>>

factorVars ==
  <<secret, confirmed, generated, batch, batches, unused, app, received, lost, overtaken>>

-----------------------------------------------------------------------------
Out == [pc |-> "out"]
\* create_session, create_mfa_challenge
In == [pc |-> "in"]
Challenged == [pc |-> "challenged", attempts |-> 0]

\* mfa_status
Enabled == secret # 0 /\ confirmed
SecretPending == secret # 0 /\ ~confirmed

\* What a right answer to a challenge can be: a code of the stored secret, which need not
\* be confirmed, or an unused recovery code.
Answers ==
  (IF secret \in app THEN {"totp"} ELSE {}) \cup (IF batch \in received THEN unused ELSE {})

AccountsInit ==
  /\ secret = 0 /\ confirmed = FALSE /\ generated = 0
  /\ batch = 0 /\ batches = 0 /\ unused = {}
  /\ app = {} /\ received = {} /\ lost = {} /\ overtaken = FALSE
  /\ failures = 0
  /\ tab = [t \in Tabs |-> Out]

-----------------------------------------------------------------------------
(* Signing in.                                                             *)

\* authenticate, which refuses everybody once the window holds too many failures.
GivePassword(t) ==
  /\ tab[t] = Out /\ failures < MAX_FAILED_ATTEMPTS
  /\ tab' = [tab EXCEPT ![t] = [pc |-> "accepted"]]
  /\ UNCHANGED <<factorVars, failures>>

MistypePassword(t) ==
  /\ tab[t] = Out /\ failures < MAX_FAILED_ATTEMPTS
  /\ failures' = failures + 1
  /\ UNCHANGED <<factorVars, tab>>

\* ATTEMPT_WINDOW_MINUTES pass.
WindowPasses ==
  /\ failures > 0
  /\ failures' = 0
  /\ UNCHANGED <<factorVars, tab>>

\* login reads mfa_status: a session, or a challenge.
SignIn(t) ==
  /\ tab[t].pc = "accepted"
  /\ tab' = [tab EXCEPT ![t] = IF Enabled THEN Challenged ELSE In]
  /\ UNCHANGED <<factorVars, failures>>

\* complete_mfa_challenge finds the code it was given to be right, or counts an attempt.
Answer(t, code) ==
  /\ tab[t].pc = "challenged" /\ code \in Answers
  /\ tab' = [tab EXCEPT ![t] = [pc |-> "answered", code |-> code, for |-> "session"]]
  /\ UNCHANGED <<factorVars, failures>>

Misanswer(t) ==
  /\ tab[t].pc = "challenged"
  /\ tab' = [tab EXCEPT ![t] = IF @.attempts + 1 < MFA_MAX_ATTEMPTS
                               THEN [pc |-> "challenged", attempts |-> @.attempts + 1] ELSE Out]
  /\ UNCHANGED <<factorVars, failures>>

\* The code is used up, the challenge deleted, and what it was for goes on.
SpendAnswer(t) ==
  /\ tab[t].pc = "answered"
  /\ unused' = unused \ {tab[t].code}
  /\ tab' = [tab EXCEPT ![t] = IF @.for = "session" THEN In ELSE [pc |-> "disabling"]]
  /\ UNCHANGED <<secret, confirmed, generated, batch, batches, app, received, lost, overtaken, failures>>

\* The operator signs out, or a session or a challenge has outlived its hours.
SignOut(t) ==
  /\ tab[t].pc \in {"in", "challenged"}
  /\ tab' = [tab EXCEPT ![t] = Out]
  /\ UNCHANGED <<factorVars, failures>>

-----------------------------------------------------------------------------
(* The security page.                                                      *)

\* start_mfa reads that the second factor is not enabled, then stores a new secret.
CheckNotEnabled(t) ==
  /\ tab[t] = In /\ ~Enabled
  /\ tab' = [tab EXCEPT ![t] = [pc |-> "beginning"]]
  /\ UNCHANGED <<factorVars, failures>>

\* Fault: the time of confirmation is left as it is.
BeginStillConfirmed(t) ==
  /\ tab[t].pc = "beginning" /\ generated < MaxSecrets
  /\ generated' = generated + 1
  /\ secret' = generated + 1
  /\ overtaken' = \E u \in Tabs : tab[u].pc = "confirming"
  /\ tab' = [tab EXCEPT ![t] = In]
  /\ UNCHANGED <<confirmed, batch, batches, unused, app, received, lost, failures>>

\* begin_totp_enrolment.  The second factor may have been enabled since it was checked: what
\* it stores counts as unconfirmed all the same.
BeginEnrolment(t) ==
  /\ tab[t].pc = "beginning" /\ generated < MaxSecrets
  /\ generated' = generated + 1
  /\ secret' = generated + 1 /\ confirmed' = FALSE
  /\ overtaken' = \E u \in Tabs : tab[u].pc = "confirming"
  /\ tab' = [tab EXCEPT ![t] = In]
  /\ UNCHANGED <<batch, batches, unused, app, received, lost, failures>>

\* The page shows a secret as long as it is pending.
ShowSecret(t) ==
  /\ tab[t] = In /\ SecretPending
  /\ app' = app \cup {secret}
  /\ UNCHANGED <<secret, confirmed, generated, batch, batches, unused, received, lost, overtaken, failures, tab>>

\* confirm_totp_enrolment verifies a code against the pending secret it reads.
VerifyPending(t) ==
  /\ tab[t] = In /\ SecretPending /\ secret \in app
  /\ tab' = [tab EXCEPT ![t] = [pc |-> "confirming"]]
  /\ UNCHANGED <<factorVars, failures>>

\* _issue_recovery_codes: they replace all codes there are, and go onto the page.
IssueCodes(t) ==
  /\ batches < MaxBatches
  /\ batches' = batches + 1
  /\ batch' = batches + 1
  /\ unused' = RecoveryCodes
  /\ tab' = [tab EXCEPT ![t] = [pc |-> "showing", batch |-> batches + 1]]

\* It confirms whatever secret the row then has.
ConfirmEnrolment(t) ==
  /\ tab[t].pc = "confirming"
  /\ confirmed' = TRUE
  /\ IssueCodes(t)
  /\ UNCHANGED <<secret, generated, app, received, lost, overtaken, failures>>

\* new_recovery_codes
CheckEnabled(t) ==
  /\ tab[t] = In /\ Enabled
  /\ tab' = [tab EXCEPT ![t] = [pc |-> "regenerating"]]
  /\ UNCHANGED <<factorVars, failures>>

RegenerateCodes(t) ==
  /\ tab[t].pc = "regenerating"
  /\ IssueCodes(t)
  /\ UNCHANGED <<secret, confirmed, generated, app, received, lost, overtaken, failures>>

\* The page of the codes arrives, once, or does not.
ReceiveCodes(t) ==
  /\ tab[t].pc = "showing"
  /\ received' = received \cup {tab[t].batch}
  /\ tab' = [tab EXCEPT ![t] = In]
  /\ UNCHANGED <<secret, confirmed, generated, batch, batches, unused, app, lost, overtaken, failures>>

LoseCodes(t) ==
  /\ tab[t].pc = "showing"
  /\ lost' = lost \cup {tab[t].batch}
  /\ tab' = [tab EXCEPT ![t] = In]
  /\ UNCHANGED <<secret, confirmed, generated, batch, batches, unused, app, received, overtaken, failures>>

\* disable_mfa: the password again, and a code for a challenge made on the spot.
AskToDisable(t, code) ==
  /\ tab[t] = In /\ failures < MAX_FAILED_ATTEMPTS /\ code \in Answers
  /\ tab' = [tab EXCEPT ![t] = [pc |-> "answered", code |-> code, for |-> "disabling"]]
  /\ UNCHANGED <<factorVars, failures>>

\* disable_totp
Disable(t) ==
  /\ tab[t].pc = "disabling"
  /\ secret' = 0 /\ confirmed' = FALSE
  /\ batch' = 0 /\ unused' = {}
  /\ tab' = [tab EXCEPT ![t] = In]
  /\ UNCHANGED <<generated, batches, app, received, lost, overtaken, failures>>

\* The process dies, or the database is locked past busy_timeout, before a write.
LoseRequest(t) ==
  /\ tab[t].pc \in {"accepted", "answered", "beginning", "confirming", "regenerating", "disabling"}
  /\ tab' = [tab EXCEPT ![t] = IF \/ @.pc = "accepted"
                                  \/ @.pc = "answered" /\ @.for = "session"
                               THEN Out ELSE In]
  /\ UNCHANGED <<factorVars, failures>>

AccountsNext ==
  \/ WindowPasses
  \/ \E t \in Tabs :
       \/ GivePassword(t) \/ MistypePassword(t) \/ SignIn(t) \/ SignOut(t)
       \/ \E c \in {"totp"} \cup RecoveryCodes : Answer(t, c) \/ AskToDisable(t, c)
       \/ Misanswer(t) \/ SpendAnswer(t)
       \/ CheckNotEnabled(t) \/ BeginEnrolment(t) \/ ShowSecret(t)
       \/ VerifyPending(t) \/ ConfirmEnrolment(t)
       \/ CheckEnabled(t) \/ RegenerateCodes(t) \/ ReceiveCodes(t) \/ LoseCodes(t)
       \/ Disable(t) \/ LoseRequest(t)

AccountsSpec == AccountsInit /\ [][AccountsNext]_accountVars

-----------------------------------------------------------------------------
AccountsTypeOK ==
  /\ secret \in 0 .. generated /\ generated \in 0 .. MaxSecrets /\ confirmed \in BOOLEAN
  /\ batch \in 0 .. batches /\ batches \in 0 .. MaxBatches
  /\ unused \subseteq RecoveryCodes
  /\ app \subseteq 1 .. generated
  /\ received \cup lost \subseteq 1 .. batches
  /\ overtaken \in BOOLEAN
  /\ failures \in 0 .. MAX_FAILED_ATTEMPTS
  /\ tab \in [Tabs ->
       [pc : {"out", "in", "accepted", "beginning", "confirming", "regenerating", "disabling"}]
       \cup [pc : {"challenged"}, attempts : 0 .. MFA_MAX_ATTEMPTS]
       \cup [pc : {"answered"}, code : {"totp"} \cup RecoveryCodes, for : {"session", "disabling"}]
       \cup [pc : {"showing"}, batch : 1 .. MaxBatches]]

\* What the operator can still sign in with does not hang on recovery codes, which may be lost
\* or used up: the authenticator holds the active secret, through any number of enrolments
\* begun, confirmed and disabled in several browsers on stale readings, except where the
\* secret was stored between another browser's check of a code and its commit.
ActiveSecretIsHeld == Enabled => secret \in app \/ overtaken

-----------------------------------------------------------------------------
\* What the repository says of the second factor and the code does not do.

\* "a secret nobody has proved they can generate codes from must never be able to lock an
\* operator out" (auth.py 202-203): no operator whose browsers are all signed out is without
\* an answer to the challenge.
LockedOut ==
  /\ Enabled /\ Answers = {}
  /\ \A t \in Tabs : tab[t].pc \in {"out", "accepted", "challenged"}

NeverLockedOut == ~LockedOut
=============================================================================

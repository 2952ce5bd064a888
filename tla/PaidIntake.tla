------------------------------ MODULE PaidIntake ------------------------------
(***************************************************************************)
(* Paid intake and retention: the rows of payments and submissions, the    *)
(* folders of uploaded documents, and what works on them at once, namely   *)
(* the order and verify routes, the provider's webhook, the upload route,  *)
(* the engagement's status form and the purge that a daily timer runs in a *)
(* process of its own.                                                     *)
(*                                                                         *)
(* A transaction is one step, but not the purge's: it removes folders from *)
(* disk while its deletions of rows are still uncommitted, and holds the   *)
(* database's write lock from the first of them.                           *)
(***************************************************************************)
EXTENDS Naturals

CONSTANTS
  Orders,        \* the provider's order ids
  Uploads,       \* submission ids, one for every upload request
  Deliveries,    \* event loops that serve the provider's webhook, one a server process
  Nil,           \* no row, no upload
  Crashes,       \* whether the server process may die
  LockFaults,    \* whether a writer may find the database locked past busy_timeout
  DiskFaults,    \* whether removing a folder, or a purge, may fail
  MaxTokens      \* bound: upload tokens minted in all

ASSUME IntakeAssumption ==
  /\ {Crashes, LockFaults, DiskFaults} \subseteq BOOLEAN
  /\ MaxTokens \in Nat

VARIABLES
  payment,     \* the payments row of each order
  captured,    \* the orders whose money the provider has taken
  minted,      \* upload tokens minted so far; 0 is a null upload_token_hash
  held,        \* the upload tokens that reached a customer
  delivery,    \* the webhook call each event loop serves
  intake,      \* the upload request behind each submission id
  submission,  \* the submissions row of each id
  folders,     \* the folders on disk
  purge,       \* the purge run in progress
  uploads      \* history: which order each committed upload was paid by

payVars == <<payment, captured, minted, held, delivery>>
docVars == <<intake, submission, folders, purge, uploads>>
vars == <<payVars, docVars>>

-----------------------------------------------------------------------------
Free == [pc |-> "idle"]
Ended == [pc |-> "ended"]

Payment ==
  [ status : {"created", "paid"},
    token  : Nat,                    \* upload_token_hash
    fresh  : BOOLEAN,                \* paid_at is within UPLOAD_TOKEN_HOURS
    used   : BOOLEAN,                \* token_used_at
    submission : Uploads \cup {Nil} ]

Submission ==
  [ closed : BOOLEAN,                \* closed_at
    due    : BOOLEAN ]               \* past its retention window (_due_at)

UploadRequest == [pc : {"arrived", "saving", "refused"}, token : Nat \ {0}]

Marking == [pc : {"marking"}, order : Orders]

Purge == [pc : {"sweeping"}, left : SUBSET Uploads, gone : SUBSET Uploads]

ASSUME NoRowAssumption == Nil \notin Uploads \cup Payment \cup Submission

\* Nobody else is between its first write and its commit.
Unlocked == purge # Free => purge.gone = {}

Init ==
  /\ payment = [o \in Orders |-> Nil]
  /\ captured = {}
  /\ minted = 0
  /\ held = {}
  /\ delivery = [d \in Deliveries |-> Free]
  /\ intake = [s \in Uploads |-> Free]
  /\ submission = [s \in Uploads |-> Nil]
  /\ folders = {}
  /\ purge = Free
  /\ uploads = {}

-----------------------------------------------------------------------------
\* create_order: the order exists at the provider and gets its row.
CreateOrder(o) ==
  /\ payment[o] = Nil
  /\ Unlocked
  /\ payment' = [payment EXCEPT ![o] =
       [status |-> "created", token |-> 0, fresh |-> FALSE, used |-> FALSE,
        submission |-> Nil]]
  /\ UNCHANGED <<captured, minted, held, delivery, docVars>>

\* The customer pays in the provider's checkout.
Capture(o) ==
  /\ payment[o] # Nil
  /\ o \notin captured
  /\ captured' = captured \cup {o}
  /\ UNCHANGED <<payment, minted, held, delivery, docVars>>

\* _mark_paid: a new token for the order, whatever it had before, and the start of
\* another UPLOAD_TOKEN_HOURS.  token_used_at stays as it is.
\* Fault: the order may upload again.
MarkPaidAfresh(o) ==
  /\ minted < MaxTokens
  /\ minted' = minted + 1
  /\ payment' = [payment EXCEPT ![o].status = "paid", ![o].token = minted + 1,
                                ![o].fresh = TRUE, ![o].used = FALSE]

MarkPaid(o) ==
  /\ minted < MaxTokens
  /\ minted' = minted + 1
  /\ payment' = [payment EXCEPT ![o].status = "paid", ![o].token = minted + 1,
                                ![o].fresh = TRUE]

\* verify_payment: the provider's signature shows the capture; the token goes back to
\* the browser, which may be gone by then.  It may be called again at any time.
\* Fault: the token read before the update is handed out.
VerifyStale(o) ==
  /\ o \in captured
  /\ Unlocked
  /\ MarkPaid(o)
  /\ held' \in {held, held \cup {payment[o].token}}
  /\ UNCHANGED <<captured, delivery, docVars>>

VerifyPayment(o) ==
  /\ o \in captured
  /\ Unlocked
  /\ MarkPaid(o)
  /\ held' \in {held, held \cup {minted'}}
  /\ UNCHANGED <<captured, delivery, docVars>>

\* razorpay_webhook: the status is read on a connection of its own, then the order is
\* marked on another.  The provider repeats an event until it is answered; one for an
\* order that is paid already changes nothing.
ReceiveEvent(d, o) ==
  /\ delivery[d] = Free
  /\ o \in captured
  /\ payment[o].status # "paid"
  /\ delivery' = [delivery EXCEPT ![d] = [pc |-> "marking", order |-> o]]
  /\ UNCHANGED <<payment, captured, minted, held, docVars>>

\* Fault: the event is answered without marking the order.
AnswerOnly(d) ==
  /\ delivery[d] # Free
  /\ Unlocked
  /\ delivery' = [delivery EXCEPT ![d] = Free]
  /\ UNCHANGED <<payment, captured, minted, held, docVars>>

\* The token minted here reaches nobody.
MarkFromEvent(d) ==
  /\ delivery[d] # Free
  /\ Unlocked
  /\ MarkPaid(delivery[d].order)
  /\ delivery' = [delivery EXCEPT ![d] = Free]
  /\ UNCHANGED <<captured, held, docVars>>

LoseEvent(d) ==
  /\ LockFaults
  /\ delivery[d] # Free
  /\ delivery' = [delivery EXCEPT ![d] = Free]
  /\ UNCHANGED <<payment, captured, minted, held, docVars>>

\* UPLOAD_TOKEN_HOURS have passed since paid_at.
TokenExpires(o) ==
  /\ payment[o] # Nil
  /\ payment[o].fresh
  /\ payment' = [payment EXCEPT ![o].fresh = FALSE]
  /\ UNCHANGED <<captured, minted, held, delivery, docVars>>

-----------------------------------------------------------------------------
\* The row a token opens: paid, unused and not expired.
Opens(o, k) ==
  /\ payment[o] # Nil
  /\ payment[o].status = "paid"
  /\ payment[o].token = k
  /\ payment[o].fresh
  /\ ~payment[o].used

\* intake, _valid_upload_token: the early check, on a connection of its own.
StartIntake(s, k) ==
  /\ intake[s] = Free
  /\ \E o \in Orders : Opens(o, k)
  /\ intake' = [intake EXCEPT ![s] = [pc |-> "arrived", token |-> k]]
  /\ UNCHANGED <<payVars, submission, folders, purge, uploads>>

MakeFolder(s) ==
  /\ intake[s].pc = "arrived"
  /\ folders' = folders \cup {s}
  /\ intake' = [intake EXCEPT ![s].pc = "saving"]
  /\ UNCHANGED <<payVars, submission, purge, uploads>>

\* rmtree, which may fail.
RemoveFolder(s) ==
  \/ folders' = folders \ {s}
  \/ DiskFaults /\ UNCHANGED folders

\* A document is too large or cannot be written: what was saved is removed.
AbortSaving(s) ==
  /\ intake[s].pc = "saving"
  /\ RemoveFolder(s)
  /\ intake' = [intake EXCEPT ![s] = Ended]
  /\ UNCHANGED <<payVars, submission, purge, uploads>>

\* BEGIN IMMEDIATE, _claim_upload_token, the submission's row, COMMIT.
Claim(s) ==
  /\ intake[s].pc = "saving"
  /\ Unlocked
  /\ \E o \in Orders :
       /\ Opens(o, intake[s].token)
       /\ payment' = [payment EXCEPT ![o].used = TRUE, ![o].submission = s]
       /\ uploads' = uploads \cup {[order |-> o, upload |-> s]}
  /\ submission' = [submission EXCEPT ![s] = [closed |-> FALSE, due |-> FALSE]]
  /\ intake' = [intake EXCEPT ![s] = Ended]
  /\ UNCHANGED <<captured, minted, held, delivery, folders, purge>>

\* The token has been spent, replaced or has expired since the early check, or the
\* database was locked: rollback.
RefuseClaim(s) ==
  /\ intake[s].pc = "saving"
  /\ \/ Unlocked /\ \A o \in Orders : ~Opens(o, intake[s].token)
     \/ LockFaults
  /\ intake' = [intake EXCEPT ![s].pc = "refused"]
  /\ UNCHANGED <<payVars, submission, folders, purge, uploads>>

\* The folder of a refused request, an error of rmtree ignored.
DiscardFolder(s) ==
  /\ intake[s].pc = "refused"
  /\ RemoveFolder(s)
  /\ intake' = [intake EXCEPT ![s] = Ended]
  /\ UNCHANGED <<payVars, submission, purge, uploads>>

-----------------------------------------------------------------------------
\* update_engagement_status: closing starts the deletion clock, reopening clears it;
\* the other clock, from the day the documents arrived, has run on meanwhile.
CloseEngagement(s) ==
  /\ submission[s] # Nil
  /\ ~submission[s].closed
  /\ Unlocked
  /\ submission' = [submission EXCEPT ![s] = [closed |-> TRUE, due |-> FALSE]]
  /\ UNCHANGED <<payVars, intake, folders, purge, uploads>>

ReopenEngagement(s) ==
  /\ submission[s] # Nil
  /\ submission[s].closed
  /\ Unlocked
  /\ \E b \in BOOLEAN :
       submission' = [submission EXCEPT ![s] = [closed |-> FALSE, due |-> b]]
  /\ UNCHANGED <<payVars, intake, folders, purge, uploads>>

RetentionEnds(s) ==
  /\ submission[s] # Nil
  /\ ~submission[s].due
  /\ submission' = [submission EXCEPT ![s].due = TRUE]
  /\ UNCHANGED <<payVars, intake, folders, purge, uploads>>

\* purge_expired: the candidates are read first.
\* Fault: only closed submissions are candidates.
DueAndClosed == {s \in Uploads : submission[s] # Nil /\ submission[s].due
                                                   /\ submission[s].closed}
Due == {s \in Uploads : submission[s] # Nil /\ submission[s].due}

StartPurge ==
  /\ purge = Free
  /\ Due # {}
  /\ purge' = [pc |-> "sweeping", left |-> Due, gone |-> {}]
  /\ UNCHANGED <<payVars, intake, submission, folders, uploads>>

\* One candidate: its folder is removed at once, its row within the transaction.
\* Fault: an error of rmtree is ignored.
SweepAnyway(s) ==
  /\ purge # Free
  /\ s \in purge.left
  /\ folders' \in {folders, folders \ {s}}
  /\ purge' = [purge EXCEPT !.left = @ \ {s}, !.gone = @ \cup {s}]
  /\ UNCHANGED <<payVars, intake, submission, uploads>>

Sweep(s) ==
  /\ purge # Free
  /\ s \in purge.left
  /\ folders' = folders \ {s}
  /\ purge' = [purge EXCEPT !.left = @ \ {s}, !.gone = @ \cup {s}]
  /\ UNCHANGED <<payVars, intake, submission, uploads>>

\* rmtree or a statement fails, or the process dies: the transaction is rolled back,
\* the folders it has removed are gone.
FailPurge ==
  /\ DiskFaults
  /\ purge # Free
  /\ purge' = Free
  /\ UNCHANGED <<payVars, intake, submission, folders, uploads>>

CommitPurge ==
  /\ purge # Free
  /\ purge.left = {}
  /\ submission' = [s \in Uploads |-> IF s \in purge.gone THEN Nil ELSE submission[s]]
  /\ purge' = Free
  /\ UNCHANGED <<payVars, intake, folders, uploads>>

-----------------------------------------------------------------------------
\* The server dies and comes back.  The purge is another process.
Crash ==
  /\ Crashes
  /\ delivery' = [d \in Deliveries |-> Free]
  /\ intake' = [s \in Uploads |-> IF intake[s] = Free THEN Free ELSE Ended]
  /\ UNCHANGED <<payment, captured, minted, held, submission, folders, purge, uploads>>

Pay(o) == CreateOrder(o) \/ Capture(o) \/ VerifyPayment(o) \/ TokenExpires(o)

Deliver(d) == MarkFromEvent(d) \/ LoseEvent(d) \/ \E o \in Orders : ReceiveEvent(d, o)

Upload(s) ==
  \/ \E k \in held : StartIntake(s, k)
  \/ MakeFolder(s)
  \/ AbortSaving(s)
  \/ Claim(s)
  \/ RefuseClaim(s)
  \/ DiscardFolder(s)

Engage(s) == CloseEngagement(s) \/ ReopenEngagement(s) \/ RetentionEnds(s)

RunPurge == StartPurge \/ CommitPurge \/ \E s \in Uploads : Sweep(s)

Next ==
  \/ \E o \in Orders : Pay(o)
  \/ \E d \in Deliveries : Deliver(d)
  \/ \E s \in Uploads : Upload(s) \/ Engage(s)
  \/ RunPurge
  \/ FailPurge
  \/ Crash

\* The provider repeats its event until it is answered, and the timer runs the purge
\* every day.  Customers and operators owe nothing.
Fairness ==
  /\ \A o \in Orders : WF_vars(\E d \in Deliveries : ReceiveEvent(d, o))
  /\ \A d \in Deliveries : WF_vars(MarkFromEvent(d))
  /\ WF_vars(RunPurge)

Spec == Init /\ [][Next]_vars /\ Fairness

-----------------------------------------------------------------------------
TypeOK ==
  /\ payment \in [Orders -> {Nil} \cup Payment]
  /\ captured \subseteq Orders
  /\ minted \in Nat
  /\ held \subseteq Nat \ {0}
  /\ delivery \in [Deliveries -> {Free} \cup Marking]
  /\ intake \in [Uploads -> {Free, Ended} \cup UploadRequest]
  /\ submission \in [Uploads -> {Nil} \cup Submission]
  /\ folders \subseteq Uploads
  /\ purge \in {Free} \cup Purge
  /\ uploads \subseteq [order : Orders, upload : Uploads]

\* A payment buys one upload and an upload needs a payment: however often an order is
\* confirmed, by browser and webhook, before or after its upload, and however many
\* requests carry its tokens at once, at most one of them is ever committed
\* (_claim_upload_token), and its order has been captured.
OneUploadPerPayment ==
  /\ \A u \in uploads : u.order \in captured
  /\ \A u, v \in uploads : u.order = v.order \/ u.upload = v.upload => u = v

\* The purge never deletes the evidence that a file exists (app.py:466): when the row
\* of a committed upload is gone, its folder is gone.
PurgedFilesAreGone ==
  \A u \in uploads : submission[u.upload] = Nil => u.upload \notin folders

\* "This is what actually guarantees we know about a payment" (app.py:976): a captured
\* order is marked paid, with or without the customer's browser.
CapturedBecomesPaid ==
  \A o \in Orders : o \in captured ~> (payment[o] # Nil /\ payment[o].status = "paid")

\* "so abandoned enquiries don't sit on disk forever" (app.py:68): a submission past
\* its window, closed or not, loses row and folder, unless it is given a new window.
DueIsPurged ==
  \A s \in Uploads :
    submission[s] # Nil /\ submission[s].due
      ~> IF submission[s] = Nil THEN s \notin folders ELSE ~submission[s].due
=============================================================================

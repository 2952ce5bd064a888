----------------------------- MODULE IntakeProofs -----------------------------
(***************************************************************************)
(* Proofs about PaidIntake: the types, one upload per payment, and no      *)
(* folder left behind by a purge.                                          *)
(***************************************************************************)
EXTENDS PaidIntake, TLAPS

\* An order is marked paid only after its capture, by either confirmation.
ConfirmationsHonest ==
  /\ \A o \in captured : payment[o] # Nil
  /\ \A o \in Orders : payment[o] # Nil /\ payment[o].status = "paid" => o \in captured
  /\ \A d \in Deliveries : delivery[d] # Free => delivery[d].order \in captured

\* A committed upload has used up its order, and its request is over.
UploadsSpent ==
  \A u \in uploads : /\ u.order \in captured
                     /\ payment[u.order].used
                     /\ intake[u.upload] = Ended

\* Rows, and what a purge works on, are of requests that are over.
RowsEnded ==
  /\ \A s \in Uploads : submission[s] # Nil => intake[s] = Ended
  /\ purge # Free => \A s \in purge.left \cup purge.gone : intake[s] = Ended

\* What a purge has swept is off the disk.
SweptAreGone == purge # Free => \A s \in purge.gone : s \notin folders

IntakeInv ==
  /\ TypeOK
  /\ ConfirmationsHonest
  /\ UploadsSpent
  /\ RowsEnded
  /\ SweptAreGone
  /\ OneUploadPerPayment
  /\ PurgedFilesAreGone

-----------------------------------------------------------------------------
LEMMA InitInv == Init => IntakeInv
  BY IntakeAssumption DEF Init, IntakeInv, TypeOK, ConfirmationsHonest, UploadsSpent, RowsEnded,
     SweptAreGone, OneUploadPerPayment, PurgedFilesAreGone

\* The fields of rows and requests.
LEMMA PaidRows ==
  ASSUME TypeOK
  PROVE  /\ \A o \in Orders : payment[o] # Nil => payment[o] \in Payment
         /\ \A s \in Uploads : submission[s] # Nil => submission[s] \in Submission
         /\ \A d \in Deliveries : delivery[d] # Free => delivery[d] \in Marking
         /\ \A s \in Uploads : intake[s].pc \in {"arrived", "saving", "refused"}
                                 => intake[s] \in UploadRequest /\ intake[s] # Ended
         /\ purge # Free => purge \in Purge
  BY DEF TypeOK, Free, Ended

LEMMA NoRow == /\ Nil \notin Payment
               /\ Nil \notin Submission
               /\ Nil \notin Uploads
  BY NoRowAssumption

\* Marking an order paid touches neither its use nor anybody's upload.
LEMMA MarkPaidInv ==
  ASSUME IntakeInv, NEW o \in Orders, o \in captured, MarkPaid(o), UNCHANGED docVars,
         UNCHANGED captured,
         held' \subseteq held \cup {minted'},
         \A d \in Deliveries : delivery'[d] = delivery[d] \/ delivery'[d] = Free,
         delivery' \in [Deliveries -> {Free} \cup Marking]
  PROVE  IntakeInv'
<1>1. /\ payment'[o] \in Payment /\ payment'[o] # Nil
      /\ payment'[o].used = payment[o].used
  <2>1. payment[o] \in Payment
    BY PaidRows DEF IntakeInv, ConfirmationsHonest
  <2>2. payment'[o] = [payment[o] EXCEPT !.status = "paid", !.token = minted + 1, !.fresh = TRUE]
    BY <2>1 DEF IntakeInv, TypeOK, MarkPaid, Payment
  <2>3. minted + 1 \in Nat
    BY DEF IntakeInv, TypeOK
  <2>4. payment'[o] \in Payment /\ payment'[o].used = payment[o].used
    BY <2>1, <2>2, <2>3 DEF Payment
  <2> QED
    BY <2>4, NoRow
<1>2. \A q \in Orders : q # o => payment'[q] = payment[q]
  BY DEF IntakeInv, TypeOK, MarkPaid
<1>3. TypeOK'
  BY <1>1 DEF IntakeInv, TypeOK, MarkPaid, docVars
<1>4. ConfirmationsHonest'
  BY <1>1, <1>2 DEF IntakeInv, ConfirmationsHonest, TypeOK
<1>5. UploadsSpent'
  BY <1>1, <1>2 DEF IntakeInv, UploadsSpent, docVars, TypeOK
<1>6. RowsEnded' /\ SweptAreGone' /\ OneUploadPerPayment' /\ PurgedFilesAreGone'
  BY DEF IntakeInv, RowsEnded, SweptAreGone, OneUploadPerPayment, PurgedFilesAreGone, docVars
<1> QED
  BY <1>3, <1>4, <1>5, <1>6 DEF IntakeInv

LEMMA PayInv ==
  ASSUME IntakeInv, NEW o \in Orders, Pay(o)
  PROVE  IntakeInv'
<1> USE DEF IntakeInv
<1>1. CASE CreateOrder(o)
  <2>1. payment'[o] \in Payment /\ payment'[o] # Nil /\ payment'[o].status = "created"
    <3>1. payment'[o] \in Payment /\ payment'[o].status = "created"
      BY <1>1 DEF CreateOrder, TypeOK, Payment
    <3> QED
      BY <3>1, NoRow
  <2>2. \A q \in Orders : q # o => payment'[q] = payment[q]
    BY <1>1 DEF CreateOrder, TypeOK
  <2>3. TypeOK'
    BY <1>1, <2>1 DEF CreateOrder, TypeOK, docVars
  <2>4. ConfirmationsHonest'
    BY <1>1, <2>1, <2>2 DEF CreateOrder, ConfirmationsHonest, TypeOK
  <2>5. UploadsSpent'
    BY <1>1, <2>2 DEF CreateOrder, UploadsSpent, docVars, TypeOK, ConfirmationsHonest
  <2> QED
    BY <1>1, <2>3, <2>4, <2>5
       DEF CreateOrder, RowsEnded, SweptAreGone, OneUploadPerPayment, PurgedFilesAreGone, docVars
<1>2. CASE Capture(o)
  <2>1. TypeOK' /\ ConfirmationsHonest'
    BY <1>2 DEF Capture, TypeOK, ConfirmationsHonest, docVars
  <2> QED
    BY <1>2, <2>1
       DEF Capture, UploadsSpent, RowsEnded, SweptAreGone, OneUploadPerPayment,
           PurgedFilesAreGone, docVars
<1>3. CASE VerifyPayment(o)
  BY <1>3, MarkPaidInv DEF VerifyPayment, TypeOK
<1>4. CASE TokenExpires(o)
  <2>1. payment[o] \in Payment
    BY <1>4, PaidRows DEF TokenExpires
  <2>2. /\ payment'[o] \in Payment /\ payment'[o] # Nil
        /\ payment'[o].status = payment[o].status /\ payment'[o].used = payment[o].used
    <3>1. payment'[o] = [payment[o] EXCEPT !.fresh = FALSE]
      BY <1>4 DEF TokenExpires, TypeOK
    <3>2. /\ payment'[o] \in Payment
          /\ payment'[o].status = payment[o].status /\ payment'[o].used = payment[o].used
      BY <2>1, <3>1 DEF Payment
    <3> QED
      BY <3>2, NoRow
  <2>3. \A q \in Orders : q # o => payment'[q] = payment[q]
    BY <1>4 DEF TokenExpires, TypeOK
  <2>4. TypeOK'
    BY <1>4, <2>2 DEF TokenExpires, TypeOK, docVars
  <2>5. ConfirmationsHonest'
    BY <1>4, <2>2, <2>3 DEF TokenExpires, ConfirmationsHonest, TypeOK
  <2>6. UploadsSpent'
    BY <1>4, <2>2, <2>3 DEF TokenExpires, UploadsSpent, docVars, TypeOK
  <2> QED
    BY <1>4, <2>4, <2>5, <2>6
       DEF TokenExpires, RowsEnded, SweptAreGone, OneUploadPerPayment, PurgedFilesAreGone, docVars
<1> QED
  BY <1>1, <1>2, <1>3, <1>4 DEF Pay

LEMMA DeliverInv ==
  ASSUME IntakeInv, NEW d \in Deliveries, Deliver(d)
  PROVE  IntakeInv'
<1> USE DEF IntakeInv
<1>1. CASE MarkFromEvent(d)
  <2>1. delivery[d] \in Marking /\ delivery[d].order \in Orders /\ delivery[d].order \in captured
    BY <1>1, PaidRows DEF MarkFromEvent, ConfirmationsHonest, Marking
  <2> QED
    BY <1>1, <2>1, MarkPaidInv DEF MarkFromEvent, TypeOK
<1>2. CASE LoseEvent(d) \/ \E o \in Orders : ReceiveEvent(d, o)
  <2>1. /\ UNCHANGED <<payment, captured, minted, held, docVars>>
        /\ \A e \in Deliveries : e # d => delivery'[e] = delivery[e]
        /\ delivery' \in [Deliveries -> {Free} \cup Marking]
        /\ delivery'[d] # Free => delivery'[d].order \in captured
    <3>1. CASE LoseEvent(d)
      BY <3>1 DEF LoseEvent, TypeOK
    <3>2. CASE \E o \in Orders : ReceiveEvent(d, o)
      <4>1. PICK o \in Orders : ReceiveEvent(d, o)
        BY <3>2
      <4>2. [pc |-> "marking", order |-> o] \in Marking
        BY DEF Marking
      <4> QED
        BY <4>1, <4>2 DEF ReceiveEvent, TypeOK
    <3> QED
      BY <1>2, <3>1, <3>2
  <2>2. TypeOK'
    BY <2>1 DEF TypeOK, docVars
  <2>3. ConfirmationsHonest'
    BY <2>1 DEF ConfirmationsHonest
  <2> QED
    BY <2>1, <2>2, <2>3
       DEF UploadsSpent, RowsEnded, SweptAreGone, OneUploadPerPayment, PurgedFilesAreGone,
           docVars
<1> QED
  BY <1>1, <1>2 DEF Deliver
-----------------------------------------------------------------------------
LEMMA Pcs == /\ Free # Ended
             /\ \A r \in UploadRequest : r # Free /\ r # Ended
             /\ \A p \in Purge : p # Free
  BY DEF Free, Ended, UploadRequest, Purge

\* A request that is not over has no row, no upload and no place in a purge: its next
\* move, and a folder of its own, disturb nothing.
LEMMA UploadMoves ==
  ASSUME IntakeInv, NEW s \in Uploads, intake[s] # Ended,
         NEW r \in {Free, Ended} \cup UploadRequest, intake' = [intake EXCEPT ![s] = r],
         folders' \subseteq folders \cup {s},
         UNCHANGED <<payVars, submission, purge, uploads>>
  PROVE  IntakeInv'
<1> USE DEF IntakeInv
<1>1. /\ \A u \in uploads : u.upload # s
      /\ \A t \in Uploads : t # s => intake'[t] = intake[t]
      /\ \A t \in folders' : t # s => t \in folders
  BY DEF UploadsSpent, TypeOK
<1>2. TypeOK' /\ ConfirmationsHonest'
  BY DEF TypeOK, ConfirmationsHonest, payVars
<1>3. UploadsSpent'
  BY <1>1 DEF UploadsSpent, TypeOK, payVars
<1>4. RowsEnded'
  <2>1. submission[s] # Nil => FALSE
    BY DEF RowsEnded
  <2>2. purge # Free => s \notin purge.left \cup purge.gone
    BY DEF RowsEnded
  <2>3. purge # Free => purge.left \cup purge.gone \subseteq Uploads
    BY PaidRows DEF Purge
  <2> QED
    BY <1>1, <2>1, <2>2, <2>3 DEF RowsEnded
<1>5. SweptAreGone'
  BY <1>1 DEF SweptAreGone, RowsEnded
<1>6. OneUploadPerPayment' /\ PurgedFilesAreGone'
  BY <1>1 DEF OneUploadPerPayment, PurgedFilesAreGone, payVars
<1> QED
  BY <1>2, <1>3, <1>4, <1>5, <1>6

\* The token that a claim finds unused has paid for no upload, and the request that
\* claims it has none.
LEMMA ClaimInv ==
  ASSUME IntakeInv, NEW s \in Uploads, Claim(s)
  PROVE  IntakeInv'
<1> USE DEF IntakeInv
<1>1. PICK o \in Orders :
        /\ Opens(o, intake[s].token)
        /\ payment' = [payment EXCEPT ![o].used = TRUE, ![o].submission = s]
        /\ uploads' = uploads \cup {[order |-> o, upload |-> s]}
  BY DEF Claim
<1>2. intake[s] # Ended
  BY PaidRows DEF Claim
<1>3. payment[o] \in Payment /\ ~payment[o].used /\ o \in captured
  BY <1>1, PaidRows DEF Opens, ConfirmationsHonest
<1>4. /\ payment'[o] \in Payment /\ payment'[o] # Nil
      /\ payment'[o].status = payment[o].status /\ payment'[o].used
  <2>1. payment'[o] = [payment[o] EXCEPT !.used = TRUE, !.submission = s]
    BY <1>1, <1>3 DEF TypeOK, Payment
  <2>2. /\ payment'[o] \in Payment
        /\ payment'[o].status = payment[o].status /\ payment'[o].used
    BY <1>3, <2>1 DEF Payment
  <2> QED
    BY <2>2, NoRow
<1>5. \A q \in Orders : q # o => payment'[q] = payment[q]
  BY <1>1 DEF TypeOK
<1>6. /\ intake'[s] = Ended
      /\ \A t \in Uploads : t # s => intake'[t] = intake[t] /\ submission'[t] = submission[t]
  BY DEF Claim, TypeOK
<1>7. submission'[s] # Nil /\ submission' \in [Uploads -> {Nil} \cup Submission]
  <2>1. [closed |-> FALSE, due |-> FALSE] \in Submission
    BY DEF Submission
  <2> QED
    BY <2>1, NoRow DEF Claim, TypeOK
<1>8. \A u \in uploads : u.order # o /\ u.upload # s
  BY <1>2, <1>3 DEF UploadsSpent
<1>9. TypeOK'
  <2>1. payment' \in [Orders -> {Nil} \cup Payment]
    BY <1>1, <1>4 DEF TypeOK
  <2>2. intake' \in [Uploads -> {Free, Ended} \cup UploadRequest]
    BY DEF Claim, TypeOK
  <2>3. uploads' \subseteq [order : Orders, upload : Uploads]
    BY <1>1 DEF TypeOK
  <2>4. /\ captured' \subseteq Orders /\ minted' \in Nat /\ held' \subseteq Nat \ {0}
        /\ delivery' \in [Deliveries -> {Free} \cup Marking]
        /\ folders' \subseteq Uploads /\ purge' \in {Free} \cup Purge
    BY DEF Claim, TypeOK
  <2> QED
    BY <1>7, <2>1, <2>2, <2>3, <2>4 DEF TypeOK
<1>10. ConfirmationsHonest'
  BY <1>3, <1>4, <1>5 DEF Claim, ConfirmationsHonest, TypeOK
<1>11. UploadsSpent'
  BY <1>1, <1>3, <1>4, <1>5, <1>6 DEF Claim, UploadsSpent, TypeOK
<1>12. RowsEnded'
  <2>1. purge # Free => purge.left \cup purge.gone \subseteq Uploads
    BY PaidRows DEF Purge
  <2> QED
    BY <1>6, <2>1 DEF Claim, RowsEnded
<1>13. SweptAreGone'
  BY DEF Claim, SweptAreGone
<1>14. OneUploadPerPayment'
  BY <1>1, <1>3, <1>8 DEF Claim, OneUploadPerPayment
<1>15. PurgedFilesAreGone'
  BY <1>1, <1>6, <1>7, <1>8 DEF PurgedFilesAreGone, Claim, TypeOK
<1> QED
  BY <1>9, <1>10, <1>11, <1>12, <1>13, <1>14, <1>15

LEMMA UploadInv ==
  ASSUME IntakeInv, NEW s \in Uploads, Upload(s)
  PROVE  IntakeInv'
<1> USE DEF IntakeInv
<1>1. CASE \E k \in held : StartIntake(s, k)
  <2>1. PICK k \in held : StartIntake(s, k)
    BY <1>1
  <2>2. [pc |-> "arrived", token |-> k] \in UploadRequest
    BY DEF UploadRequest, TypeOK
  <2> QED
    BY <2>1, <2>2, Pcs, UploadMoves DEF StartIntake
<1>2. CASE MakeFolder(s)
  <2>1. intake[s] \in UploadRequest /\ intake[s] # Ended
    BY <1>2, PaidRows DEF MakeFolder
  <2>2. [intake[s] EXCEPT !.pc = "saving"] \in UploadRequest
    BY <2>1 DEF UploadRequest
  <2>3. intake' = [intake EXCEPT ![s] = [intake[s] EXCEPT !.pc = "saving"]]
    BY <1>2 DEF MakeFolder
  <2> QED
    BY <1>2, <2>1, <2>2, <2>3, UploadMoves DEF MakeFolder
<1>3. CASE AbortSaving(s)
  BY <1>3, PaidRows, UploadMoves DEF AbortSaving, RemoveFolder
<1>4. CASE Claim(s)
  BY <1>4, ClaimInv
<1>5. CASE RefuseClaim(s)
  <2>1. intake[s] \in UploadRequest /\ intake[s] # Ended
    BY <1>5, PaidRows DEF RefuseClaim
  <2>2. [intake[s] EXCEPT !.pc = "refused"] \in UploadRequest
    BY <2>1 DEF UploadRequest
  <2>3. intake' = [intake EXCEPT ![s] = [intake[s] EXCEPT !.pc = "refused"]]
    BY <1>5 DEF RefuseClaim
  <2> QED
    BY <1>5, <2>1, <2>2, <2>3, UploadMoves DEF RefuseClaim
<1>6. CASE DiscardFolder(s)
  BY <1>6, PaidRows, UploadMoves DEF DiscardFolder, RemoveFolder
<1> QED
  BY <1>1, <1>2, <1>3, <1>4, <1>5, <1>6 DEF Upload

-----------------------------------------------------------------------------
\* The clocks of a row move; it stays a row.
LEMMA EngageInv ==
  ASSUME IntakeInv, NEW s \in Uploads, Engage(s)
  PROVE  IntakeInv'
<1> USE DEF IntakeInv
<1>1. /\ submission[s] # Nil
      /\ \E r \in Submission : submission' = [submission EXCEPT ![s] = r]
      /\ UNCHANGED <<payVars, intake, folders, purge, uploads>>
  <2>1. \A c, b \in BOOLEAN : [closed |-> c, due |-> b] \in Submission
    BY DEF Submission
  <2>2. CASE CloseEngagement(s)
    BY <2>1, <2>2 DEF CloseEngagement
  <2>3. CASE ReopenEngagement(s)
    BY <2>1, <2>3 DEF ReopenEngagement
  <2>4. CASE RetentionEnds(s)
    <3>1. submission[s] \in Submission
      BY <2>4, PaidRows DEF RetentionEnds
    <3>2. [submission[s] EXCEPT !.due = TRUE] \in Submission
      BY <3>1 DEF Submission
    <3>3. submission' = [submission EXCEPT ![s] = [submission[s] EXCEPT !.due = TRUE]]
      BY <2>4 DEF RetentionEnds
    <3> QED
      BY <2>4, <3>2, <3>3 DEF RetentionEnds
  <2> QED
    BY <2>2, <2>3, <2>4 DEF Engage
<1>2. PICK r \in Submission : submission' = [submission EXCEPT ![s] = r]
  BY <1>1
<1>3. \A t \in Uploads : submission'[t] = Nil <=> submission[t] = Nil
  BY <1>1, <1>2, NoRow DEF TypeOK
<1>4. TypeOK' /\ ConfirmationsHonest' /\ UploadsSpent'
  BY <1>1, <1>2 DEF TypeOK, ConfirmationsHonest, UploadsSpent, payVars
<1>5. RowsEnded' /\ SweptAreGone'
  BY <1>1, <1>3 DEF RowsEnded, SweptAreGone
<1>6. OneUploadPerPayment' /\ PurgedFilesAreGone'
  BY <1>1, <1>3 DEF OneUploadPerPayment, PurgedFilesAreGone, payVars, TypeOK
<1> QED
  BY <1>4, <1>5, <1>6

\* A purge deletes rows of requests that are over, and only after their folders.
LEMMA PurgeInv ==
  ASSUME IntakeInv, RunPurge \/ FailPurge
  PROVE  IntakeInv'
<1> USE DEF IntakeInv
<1>1. CASE StartPurge
  <2>1. purge'.left = Due /\ purge'.gone = {} /\ purge' \in Purge
    BY <1>1 DEF StartPurge, Purge, Due
  <2>2. RowsEnded'
    BY <1>1, <2>1 DEF StartPurge, RowsEnded, Due
  <2>3. TypeOK' /\ SweptAreGone'
    BY <1>1, <2>1 DEF StartPurge, TypeOK, SweptAreGone, payVars
  <2> QED
    BY <1>1, <2>2, <2>3
       DEF StartPurge, ConfirmationsHonest, UploadsSpent, OneUploadPerPayment,
           PurgedFilesAreGone, payVars
<1>2. CASE \E s \in Uploads : Sweep(s)
  <2>1. PICK s \in Uploads : Sweep(s)
    BY <1>2
  <2>2. purge \in Purge
    BY <2>1, PaidRows DEF Sweep
  <2>3. /\ purge'.left \subseteq purge.left /\ purge'.gone = purge.gone \cup {s}
        /\ s \in purge.left /\ purge' \in Purge
    BY <2>1, <2>2 DEF Sweep, Purge
  <2>4. RowsEnded' /\ SweptAreGone'
    BY <2>1, <2>3 DEF Sweep, RowsEnded, SweptAreGone
  <2>5. TypeOK'
    BY <2>1, <2>3 DEF Sweep, TypeOK, payVars
  <2> QED
    BY <2>1, <2>4, <2>5
       DEF Sweep, ConfirmationsHonest, UploadsSpent, OneUploadPerPayment,
           PurgedFilesAreGone, payVars
<1>3. CASE CommitPurge
  <2>1. /\ submission' \in [Uploads -> {Nil} \cup Submission]
        /\ \A t \in Uploads : submission'[t] # Nil => submission[t] # Nil
        /\ \A t \in Uploads : submission'[t] = Nil => submission[t] = Nil \/ t \in purge.gone
    BY <1>3 DEF CommitPurge, TypeOK
  <2>2. TypeOK' /\ RowsEnded' /\ SweptAreGone'
    BY <1>3, <2>1 DEF CommitPurge, TypeOK, RowsEnded, SweptAreGone, payVars
  <2>3. PurgedFilesAreGone'
    BY <1>3, <2>1 DEF CommitPurge, PurgedFilesAreGone, SweptAreGone, TypeOK
  <2> QED
    BY <1>3, <2>2, <2>3
       DEF CommitPurge, ConfirmationsHonest, UploadsSpent, OneUploadPerPayment, payVars
<1>4. CASE FailPurge
  BY <1>4
     DEF FailPurge, TypeOK, ConfirmationsHonest, UploadsSpent, RowsEnded, SweptAreGone,
         OneUploadPerPayment, PurgedFilesAreGone, payVars
<1> QED
  BY <1>1, <1>2, <1>3, <1>4 DEF RunPurge

LEMMA CrashInv ==
  ASSUME IntakeInv, Crash
  PROVE  IntakeInv'
<1> USE DEF IntakeInv, Crash
<1>1. \A s \in Uploads : intake[s] = Ended => intake'[s] = Ended
  BY Pcs
<1>2. TypeOK' /\ ConfirmationsHonest'
  BY DEF TypeOK, ConfirmationsHonest
<1>3. UploadsSpent'
  BY <1>1 DEF UploadsSpent, TypeOK
<1>4. RowsEnded'
  <2>1. purge # Free => purge.left \cup purge.gone \subseteq Uploads
    BY PaidRows DEF Purge
  <2> QED
    BY <1>1, <2>1 DEF RowsEnded
<1> QED
  BY <1>2, <1>3, <1>4 DEF SweptAreGone, OneUploadPerPayment, PurgedFilesAreGone

LEMMA NextInv == IntakeInv /\ [Next]_vars => IntakeInv'
<1> SUFFICES ASSUME IntakeInv, [Next]_vars
             PROVE  IntakeInv'
  OBVIOUS
<1>1. CASE UNCHANGED vars
  BY <1>1 DEF vars, payVars, docVars, IntakeInv, TypeOK, ConfirmationsHonest, UploadsSpent,
     RowsEnded, SweptAreGone, OneUploadPerPayment, PurgedFilesAreGone
<1>2. CASE Next
  BY <1>2, PayInv, DeliverInv, UploadInv, EngageInv, PurgeInv, CrashInv DEF Next
<1> QED
  BY <1>1, <1>2

-----------------------------------------------------------------------------
\* The inductive invariant: confirmations follow captures, a committed upload has used
\* up its order's token, rows and purges are about requests that are over, and what a
\* purge has swept is off the disk.
THEOREM IntakeInvariant == Spec => []IntakeInv
<1>1. Init => IntakeInv
  BY InitInv
<1>2. IntakeInv /\ [Next]_vars => IntakeInv'
  BY NextInv
<1> QED
  BY <1>1, <1>2, PTL DEF Spec

\* Type correctness of the rows, the requests, the folders and the purge.
THEOREM IntakeTypeCorrect == Spec => []TypeOK
<1>1. IntakeInv => TypeOK
  BY DEF IntakeInv
<1> QED
  BY <1>1, IntakeInvariant, PTL

\* However many confirmations, tokens and concurrent requests there are, a payment buys
\* at most one upload and no upload is unpaid (_mark_paid, _claim_upload_token).
THEOREM OneUploadPerPaymentHolds == Spec => []OneUploadPerPayment
<1>1. IntakeInv => OneUploadPerPayment
  BY DEF IntakeInv
<1> QED
  BY <1>1, IntakeInvariant, PTL

\* Whatever fails or dies on the way, purge_expired loses no row of a committed upload
\* whose documents are still on disk.
THEOREM PurgedFilesAreGoneHolds == Spec => []PurgedFilesAreGone
<1>1. IntakeInv => PurgedFilesAreGone
  BY DEF IntakeInv
<1> QED
  BY <1>1, IntakeInvariant, PTL

=============================================================================

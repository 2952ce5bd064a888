----------------------------- MODULE MCProgress -----------------------------
(***************************************************************************)
(* What must eventually happen, on one instance: releases of approved      *)
(* proposals, paid intake and its purge, and the QuickBooks connection.    *)
(* One of the parts moves in a behaviour, the others rest.                 *)
(***************************************************************************)
EXTENDS ProposalRelease, TLC

CONSTANTS
  x0, x1,
  Orders, Uploads, Deliveries, DiskFaults, MaxTokens,
  Realms, Organizations, Authorizations, Keepers, Keepalive, NoGrant,
  TOKEN_ATTEMPTS, MaxGrants, TokenFaults

VARIABLES
  payment, captured, minted, held, delivery, intake, submission, folders, purge, uploads,
  connection, state, approval, issued, live, task, excused,
  focus   \* the part that moves

Intake == INSTANCE PaidIntake WITH Nil <- None, LockFaults <- LockTimeouts
Connecting == INSTANCE QboConnection WITH Workers <- Keepers

intakeVars ==
  <<payment, captured, minted, held, delivery, intake, submission, folders, purge, uploads>>
connectionVars == <<connection, state, approval, issued, live, task, excused>>
progressVars == <<vars, intakeVars, connectionVars, focus>>

-----------------------------------------------------------------------------
\* Every proposal replaces the value x0 by x1, in a record of its own that it creates.
DraftedX1 == [p \in Proposals |-> x1]
CurrentX0 == [p \in Proposals |-> x0]
AllCreate == [p \in Proposals |-> None]

ProgressInit ==
  /\ focus \in {"release", "intake", "connection"}
  /\ ReleaseInit /\ Intake!Init /\ Connecting!ConnInit

ReleaseMoves ==
  focus = "release" /\ Next /\ UNCHANGED <<intakeVars, connectionVars, focus>>

IntakeMoves ==
  focus = "intake" /\ Intake!Next /\ UNCHANGED <<vars, connectionVars, focus>>

ConnectionMoves ==
  focus = "connection" /\ Connecting!ConnNext /\ UNCHANGED <<vars, intakeVars, focus>>

ProgressNext == ReleaseMoves \/ IntakeMoves \/ ConnectionMoves

\* Each part's fairness.  Of a release and of the intake nothing is enabled that is fair
\* before they move; the keepalive timer is owed to the connection that moves.
ProgressSpec ==
  /\ ProgressInit /\ [][ProgressNext]_progressVars
  /\ Fairness /\ Intake!Fairness
  /\ focus = "connection" => Connecting!KeepaliveFairness

-----------------------------------------------------------------------------
\* A captured order is paid on record (PaidIntake.CapturedBecomesPaid).
CapturedBecomesPaid == Intake!CapturedBecomesPaid

\* What is due is purged (PaidIntake.DueIsPurged).
DueIsPurged == Intake!DueIsPurged

\* A grant that ended at Intuit does not stay on record as active
\* (QboConnection.DeadGrantsSurface).
DeadGrantsSurface == Connecting!DeadGrantsSurface
=============================================================================

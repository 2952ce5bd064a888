-------------------------- MODULE MCProposalRelease --------------------------
(* Instances of ProposalRelease for TLC.                                    *)
EXTENDS ProposalRelease, TLC

CONSTANTS p1, p2, o1, ann, bob, x0, x1, t1, t2, w1, w2

\* Every proposal replaces the value x0 by x1, or creates a record holding x1.
DraftedX1 == [p \in Proposals |-> x1]
CurrentX0 == [p \in Proposals |-> x0]

\* All proposals update o1, or all create a record of their own.
AllUpdate == [p \in Proposals |-> o1]
AllCreate == [p \in Proposals |-> None]

\* Threads are interchangeable.  So are users who hold the same roles.
ThreadSymmetry == Permutations(Threads) \cup Permutations(Workers)
Interchangeable == ThreadSymmetry \cup Permutations(Users)
=============================================================================

---------------------------- MODULE ApprovedWrites ----------------------------
(***************************************************************************)
(* What the approval gate promises, with no status, request, retry or      *)
(* crash in sight: a proposal gathers drafts under ascending versions, a   *)
(* person who did not write a draft may approve it once, and an approved   *)
(* draft may be written to the provider once, exactly as it was drafted,   *)
(* by someone other than its approver unless the company has but one       *)
(* operator.                                                               *)
(***************************************************************************)
EXTENDS Naturals

CONSTANTS Proposals, Users, Payloads, Drafted, None, SingleOperator

VARIABLES
  drafts,    \* the payload and author of every version
  approved,  \* who approved which version
  ledger     \* the writes the provider has applied

promiseVars == <<drafts, approved, ledger>>

Init ==
  /\ drafts = {[proposal |-> p, version |-> 1, payload |-> Drafted[p], author |-> None] :
                 p \in Proposals}
  /\ approved = {}
  /\ ledger = {}

\* d is the latest draft of its proposal; the new one comes after it.
Edit(d, x, u) ==
  /\ \A e \in drafts : e.proposal = d.proposal => e.version <= d.version
  /\ drafts' = drafts \cup
       {[proposal |-> d.proposal, version |-> d.version + 1, payload |-> x, author |-> u]}
  /\ UNCHANGED <<approved, ledger>>

Approve(d, u) ==
  /\ d.author # u
  /\ \A a \in approved : ~(a.proposal = d.proposal /\ a.version = d.version)
  /\ approved' = approved \cup {[proposal |-> d.proposal, version |-> d.version, actor |-> u]}
  /\ UNCHANGED <<drafts, ledger>>

Write(d, u) ==
  /\ \E a \in approved : /\ a.proposal = d.proposal
                         /\ a.version = d.version
                         /\ a.actor # u \/ SingleOperator
  /\ \A w \in ledger : ~(w.proposal = d.proposal /\ w.version = d.version)
  /\ ledger' = ledger \cup
       {[proposal |-> d.proposal, version |-> d.version, payload |-> d.payload, releaser |-> u]}
  /\ UNCHANGED <<drafts, approved>>

Next ==
  \E u \in Users, d \in drafts :
    \/ \E x \in Payloads : Edit(d, x, u)
    \/ Approve(d, u)
    \/ Write(d, u)

Spec == Init /\ [][Next]_promiseVars
=============================================================================

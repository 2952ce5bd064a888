------------------------------- MODULE MCOffice -------------------------------
(***************************************************************************)
(* The parts of the back office on one instance: paid intake, the          *)
(* QuickBooks connection, client access, operator accounts, the            *)
(* relationship records, retention, and the review of proposals.  No step  *)
(* of one reads or writes a variable of another, so that one of them       *)
(* moves, the others rest, and the parts are explored side by side and     *)
(* not in their product.                                                   *)
(***************************************************************************)
EXTENDS PaidIntake, QboConnection, ClientAccess, OperatorAccounts, CrmRecords,
        DataRetention, ReviewDecisions

CONSTANTS n1, n2, n3, l1, l2, x1

VARIABLE focus   \* the part that moves

officeVars == <<vars, connVars, accessVars, accountVars, crmVars, retentionVars, reviewVars,
                focus>>

-----------------------------------------------------------------------------
\* One name is a prefix of another.
AlikeNames == {<<n1, n2>>, <<n2, n1>>}

Row(stage, suppressed, storable) ==
  [stage |-> stage, suppressed |-> suppressed, storable |-> storable]

\* Two lists that meet in a name; a cell of the second cannot be stored.
LeadLists ==
  [l \in {l1, l2} |->
     IF l = l1 THEN [n \in {n1, n3} |-> Row("new", n = n3, TRUE)]
               ELSE [n \in {n1, n2} |-> Row(IF n = n2 THEN "won" ELSE "new", n = n1, n = n2)]]

DraftedX1 == [p \in Proposals |-> x1]

\* The members of a set of two stay, or change places.
Swapped(S, b) == CHOOSE p \in Permutations(S) : \A x \in S : (p[x] = x) <=> ~b

\* Only one part moves, so that one permutation serves them all.
Interchangeable ==
  { Swapped(Orders, b) @@ Swapped(Authorizations, b) @@ Swapped(Mails, b) @@ Swapped(Tabs, b)
      @@ Swapped(Uploads, c) @@ Swapped(Pulls, b) @@ Swapped(Browsers, c)
      @@ Swapped(Threads, b) @@ Swapped(Users, c)
    : b, c \in BOOLEAN }

-----------------------------------------------------------------------------
OfficeInit ==
  /\ focus \in {"intake", "connection", "access", "accounts", "records", "retention", "review"}
  /\ Init /\ ConnInit /\ AccessInit /\ AccountsInit /\ CrmInit /\ RetentionInit /\ ReviewInit

IntakeMoves ==
  /\ focus = "intake" /\ Next
  /\ UNCHANGED <<connVars, accessVars, accountVars, crmVars, retentionVars, reviewVars, focus>>

ConnectionMoves ==
  /\ focus = "connection" /\ ConnNext
  /\ UNCHANGED <<vars, accessVars, accountVars, crmVars, retentionVars, reviewVars, focus>>

AccessMoves ==
  /\ focus = "access" /\ AccessNext
  /\ UNCHANGED <<vars, connVars, accountVars, crmVars, retentionVars, reviewVars, focus>>

AccountsMove ==
  /\ focus = "accounts" /\ AccountsNext
  /\ UNCHANGED <<vars, connVars, accessVars, crmVars, retentionVars, reviewVars, focus>>

RecordsMove ==
  /\ focus = "records" /\ CrmNext
  /\ UNCHANGED <<vars, connVars, accessVars, accountVars, retentionVars, reviewVars, focus>>

RetentionMoves ==
  /\ focus = "retention" /\ RetentionNext
  /\ UNCHANGED <<vars, connVars, accessVars, accountVars, crmVars, reviewVars, focus>>

ReviewMoves ==
  /\ focus = "review" /\ ReviewNext
  /\ UNCHANGED <<vars, connVars, accessVars, accountVars, crmVars, retentionVars, focus>>

OfficeNext ==
  \/ IntakeMoves \/ ConnectionMoves \/ AccessMoves
  \/ AccountsMove \/ RecordsMove \/ RetentionMoves \/ ReviewMoves

OfficeSpec == OfficeInit /\ [][OfficeNext]_officeVars

-----------------------------------------------------------------------------
\* Every row of every part is of its type.
OfficeTypeOK == TypeOK /\ ConnTypeOK /\ AccessTypeOK /\ AccountsTypeOK /\ CrmTypeOK
                /\ RetentionTypeOK /\ ReviewTypeOK
=============================================================================

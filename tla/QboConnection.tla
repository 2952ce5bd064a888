---------------------------- MODULE QboConnection ----------------------------
(***************************************************************************)
(* The QuickBooks connection: authorizations that a browser carries to     *)
(* Intuit and back, the one row a company has in connections, and the      *)
(* refresh token in it, which Intuit rotates on every use.                 *)
(*                                                                         *)
(* Whoever needs an access token may find himself refreshing: a request, a *)
(* scan, the keepalive.  A refresh reads the row, spends seconds at Intuit *)
(* with nothing locked, and writes what came of it in a transaction of its *)
(* own, while others refresh, disconnect and authorize the same company.   *)
(***************************************************************************)
EXTENDS Naturals, FiniteSets

CONSTANTS
  Realms,            \* QuickBooks companies
  Organizations,     \* clients of the firm
  Authorizations,    \* OAuth states, one for every authorization started
  Workers,           \* server threads and other processes that hold a connection
  Keepalive,         \* the process of the keepalive timer, one of Workers
  NoGrant,           \* no row, no approval
  TOKEN_ATTEMPTS,    \* HTTP attempts of one token request
  MaxGrants,         \* bound: refresh tokens Intuit issues in all
  TokenFaults        \* whether a process may die and a writer be locked out

ASSUME ConnectionAssumption ==
  /\ Keepalive \in Workers
  /\ TOKEN_ATTEMPTS \in Nat \ {0}
  /\ MaxGrants \in Nat
  /\ TokenFaults \in BOOLEAN

VARIABLES
  connection,   \* the connections row of each realm
  state,        \* the oauth_states row of each authorization
  approval,     \* what the customer approved at Intuit: the company, and the code
  issued,       \* refresh tokens issued so far; 0 is a NULL refresh_token_enc
  live,         \* the refresh tokens Intuit would still accept, by company
  task,         \* what each worker is doing with a connection
  excused       \* history: tokens revoked, or whose successor died with its holder

connVars == <<connection, state, approval, issued, live, task, excused>>

-----------------------------------------------------------------------------
Grants == 1 .. MaxGrants

Connection ==
  [ org    : Organizations,
    token  : 0 .. MaxGrants,                    \* refresh_token_enc
    status : {"active", "error", "revoked"},
    idle   : BOOLEAN ]                          \* untouched for REFRESH_KEEPALIVE_DAYS

AtRest == [pc |-> "rest"]

\* A token request: of a callback (token 0) or of a refresh, for the row it read.
Asking ==
  [ pc : {"asking", "storing", "clearing", "flagging"}, realm : Realms,
    org : Organizations, auth : Authorizations \cup {NoGrant},
    token : 0 .. MaxGrants, new : 0 .. MaxGrants,
    tries : 0 .. TOKEN_ATTEMPTS - 1, todo : SUBSET Realms ]

Claiming == [pc : {"claiming"}, auth : Authorizations, org : Organizations]
Walking == [pc : {"walking"}, todo : SUBSET Realms]
Revoking == [pc : {"revoking", "dropping"}, realm : Realms, token : 0 .. MaxGrants]

ASSUME NoGrantAssumption ==
  NoGrant \notin Authorizations \cup Connection \cup [realm : Realms, spent : BOOLEAN]
                 \cup [org : Organizations, open : BOOLEAN]

\* Where a worker goes on: the keepalive has the rest of its list.
Resume(w) == IF w = Keepalive /\ task[w].todo # {}
             THEN [pc |-> "walking", todo |-> task[w].todo] ELSE AtRest

IsRefresh(t) == t.auth = NoGrant

ConnInit ==
  /\ connection = [r \in Realms |-> NoGrant]
  /\ state = [s \in Authorizations |-> NoGrant]
  /\ approval = [s \in Authorizations |-> NoGrant]
  /\ issued = 0
  /\ live = [r \in Realms |-> {}]
  /\ task = [w \in Workers |-> AtRest]
  /\ excused = {}

-----------------------------------------------------------------------------
(* Authorization.                                                          *)

\* create_state
NewState(o) == [org |-> o, open |-> TRUE]

\* start_authorization: an operator or the client is sent to Intuit.
StartAuthorization(s, o) ==
  /\ state[s] = NoGrant
  /\ state' = [state EXCEPT ![s] = NewState(o)]
  /\ UNCHANGED <<connection, approval, issued, live, task, excused>>

\* STATE_MINUTES pass; an expired row is deleted when it is next met.
StateExpires(s) ==
  /\ state[s] # NoGrant /\ state[s].open
  /\ state' = [state EXCEPT ![s].open = FALSE]
  /\ UNCHANGED <<connection, approval, issued, live, task, excused>>

\* The customer approves a company at Intuit, which hands the browser a code.
Approve(s, r) ==
  /\ state[s] # NoGrant /\ approval[s] = NoGrant
  /\ approval' = [approval EXCEPT ![s] = [realm |-> r, spent |-> FALSE]]
  /\ UNCHANGED <<connection, state, issued, live, task, excused>>

\* The callback arrives, perhaps not for the first time: consume_state reads the row.
ReadState(w, s) ==
  /\ w # Keepalive /\ task[w] = AtRest
  /\ approval[s] # NoGrant /\ state[s].open
  /\ task' = [task EXCEPT ![w] = [pc |-> "claiming", auth |-> s, org |-> state[s].org]]
  /\ UNCHANGED <<connection, state, approval, issued, live, excused>>

\* It marks the row used in a statement of its own and turns to Intuit.
SpendState(w) ==
  /\ task[w].pc = "claiming"
  /\ LET s == task[w].auth IN
     /\ state' = [state EXCEPT ![s].open = FALSE]
     /\ task' = [task EXCEPT ![w] =
          [pc |-> "asking", realm |-> approval[s].realm, org |-> task[w].org, auth |-> s,
           token |-> 0, new |-> 0, tries |-> 0, todo |-> {}]]
  /\ UNCHANGED <<connection, approval, issued, live, excused>>

-----------------------------------------------------------------------------
(* Refreshing.                                                             *)

\* refresh_connection reads the row, or refuses: nothing is stored in it.
ReadGrant(w, r, todo) ==
  /\ connection[r] # NoGrant /\ connection[r].token # 0
  /\ task' = [task EXCEPT ![w] =
       [pc |-> "asking", realm |-> r, org |-> connection[r].org, auth |-> NoGrant,
        token |-> connection[r].token, new |-> 0, tries |-> 0, todo |-> todo]]
  /\ UNCHANGED <<connection, state, approval, issued, live, excused>>

\* ensure_access_token finds the access token stale, or QuickBooks answered 401.
NeedAccess(w, r) == w # Keepalive /\ task[w] = AtRest /\ ReadGrant(w, r, {})

\* Fault: the keepalive looks after the connections that have failed.
ErrorsDue == {r \in Realms : IF connection[r] = NoGrant THEN FALSE
                             ELSE connection[r].status = "error" /\ connection[r].idle}

\* connections_due_for_refresh.
DueForRefresh ==
  {r \in Realms : /\ connection[r] # NoGrant
                  /\ connection[r].status \in {"active", "error"}
                  /\ connection[r].token # 0 /\ connection[r].idle}

\* run_keepalive: list the connections that are due, then take them in turn.
StartKeepalive ==
  /\ task[Keepalive] = AtRest /\ DueForRefresh # {}
  /\ task' = [task EXCEPT ![Keepalive] = [pc |-> "walking", todo |-> DueForRefresh]]
  /\ UNCHANGED <<connection, state, approval, issued, live, excused>>

KeepAlive(r) ==
  /\ task[Keepalive].pc = "walking" /\ r \in task[Keepalive].todo
  /\ ReadGrant(Keepalive, r, task[Keepalive].todo \ {r})

\* A row without a token counts as failed and is passed over.
SkipKeepalive(r) ==
  /\ task[Keepalive].pc = "walking" /\ r \in task[Keepalive].todo
  /\ connection[r].token = 0
  /\ task' = [task EXCEPT ![Keepalive] =
                IF @.todo = {r} THEN AtRest ELSE [pc |-> "walking", todo |-> @.todo \ {r}]]
  /\ UNCHANGED <<connection, state, approval, issued, live, excused>>

-----------------------------------------------------------------------------
(* _post_token_request, and Intuit, as the code relies on it: a code is    *)
(* exchanged once, a refresh token is rotated by its first use.            *)

Accepts(t) == IF IsRefresh(t) THEN t.token \in live[t.realm] ELSE ~approval[t.auth].spent

\* Intuit spends what it was shown and issues the next token.
Issue(t) ==
  /\ Accepts(t) /\ issued < MaxGrants
  /\ issued' = issued + 1
  /\ live' = [live EXCEPT ![t.realm] = (@ \ {t.token}) \cup {issued + 1}]
  /\ approval' = IF IsRefresh(t) THEN approval
                 ELSE [approval EXCEPT ![t.auth].spent = TRUE]

PostAnswered(w) ==
  /\ task[w].pc = "asking"
  /\ Issue(task[w])
  /\ task' = [task EXCEPT ![w].pc = "storing", ![w].new = issued + 1]
  /\ UNCHANGED <<connection, state, excused>>

\* invalid_grant: a refresh goes on to clear the row, a callback fails.
PostRejected(w) ==
  /\ task[w].pc = "asking" /\ ~Accepts(task[w])
  /\ task' = [task EXCEPT ![w] = IF IsRefresh(@) THEN [@ EXCEPT !.pc = "clearing"] ELSE AtRest]
  /\ UNCHANGED <<connection, state, approval, issued, live, excused>>

\* The attempt fails on the way there or on the way back, and is repeated or is the last:
\* of those allowed, or because its answer is none that a retry would mend.
PostUnanswered(w) ==
  /\ task[w].pc = "asking"
  /\ \/ Issue(task[w])
     \/ UNCHANGED <<approval, issued, live>>
  /\ \/ /\ task[w].tries + 1 < TOKEN_ATTEMPTS
        /\ task' = [task EXCEPT ![w].tries = @ + 1]
     \/ task' = [task EXCEPT ![w] = IF IsRefresh(@) THEN [@ EXCEPT !.pc = "flagging"] ELSE AtRest]
  /\ UNCHANGED <<connection, state, excused>>

-----------------------------------------------------------------------------
(* What a token request writes.                                            *)

\* Fault: the rotated refresh token is not written back.
StoreAccessOnly(w) ==
  /\ task[w].pc = "storing"
  /\ LET t == task[w] IN
     connection' = [connection EXCEPT ![t.realm] =
       [org |-> t.org, token |-> IF IsRefresh(t) THEN t.token ELSE t.new,
        status |-> "active", idle |-> FALSE]]
  /\ task' = [task EXCEPT ![w] = Resume(w)]
  /\ UNCHANGED <<state, approval, issued, live, excused>>

\* _store_tokens, for the organization that was read before the request.
StoreTokens(w) ==
  /\ task[w].pc = "storing"
  /\ LET t == task[w] IN
     connection' = [connection EXCEPT ![t.realm] =
       [org |-> t.org, token |-> t.new, status |-> "active", idle |-> FALSE]]
  /\ task' = [task EXCEPT ![w] = Resume(w)]
  /\ UNCHANGED <<state, approval, issued, live, excused>>

\* The status becomes 'revoked' and the tokens NULL.
Disconnected(r) == connection' = [connection EXCEPT ![r].status = "revoked", ![r].token = 0]

\* Permanent: the credentials are cleared, by the row's id.
ClearGrant(w) ==
  /\ task[w].pc = "clearing"
  /\ Disconnected(task[w].realm)
  /\ task' = [task EXCEPT ![w] = Resume(w)]
  /\ UNCHANGED <<state, approval, issued, live, excused>>

\* Transient: the credentials are kept and the row is flagged.
FlagError(w) ==
  /\ task[w].pc = "flagging"
  /\ connection' = [connection EXCEPT ![task[w].realm].status = "error"]
  /\ task' = [task EXCEPT ![w] = Resume(w)]
  /\ UNCHANGED <<state, approval, issued, live, excused>>

-----------------------------------------------------------------------------
(* Ending a connection.                                                    *)

\* revoke_connection, for the operator or the client: read the row.
StartRevoke(w, r) ==
  /\ w # Keepalive /\ task[w] = AtRest /\ connection[r] # NoGrant
  /\ task' = [task EXCEPT ![w] =
       [pc |-> IF connection[r].token = 0 THEN "dropping" ELSE "revoking",
        realm |-> r, token |-> connection[r].token]]
  /\ UNCHANGED <<connection, state, approval, issued, live, excused>>

\* Tell Intuit, which may not hear of it.
TellIntuit(w) ==
  /\ task[w].pc = "revoking"
  /\ LET t == task[w] IN
     \/ /\ live' = [live EXCEPT ![t.realm] = @ \ {t.token}]
        /\ excused' = excused \cup {t.token}
     \/ UNCHANGED <<live, excused>>
  /\ task' = [task EXCEPT ![w].pc = "dropping"]
  /\ UNCHANGED <<connection, state, approval, issued>>

DropConnection(w) ==
  /\ task[w].pc = "dropping"
  /\ Disconnected(task[w].realm)
  /\ task' = [task EXCEPT ![w] = AtRest]
  /\ UNCHANGED <<state, approval, issued, live, excused>>

\* The customer disconnects Shimline inside QuickBooks.
CustomerDisconnects(r) ==
  /\ live[r] # {}
  /\ live' = [live EXCEPT ![r] = {}]
  /\ excused' = excused \cup live[r]
  /\ UNCHANGED <<connection, state, approval, issued, task>>

\* Intuit's redirect to /qbo/disconnect.
DisconnectHint(r) ==
  /\ connection[r] # NoGrant
  /\ Disconnected(r)
  /\ UNCHANGED <<state, approval, issued, live, task, excused>>

-----------------------------------------------------------------------------
\* REFRESH_KEEPALIVE_DAYS pass without a refresh.
Idles(r) ==
  /\ connection[r] # NoGrant /\ ~connection[r].idle
  /\ connection' = [connection EXCEPT ![r].idle = TRUE]
  /\ UNCHANGED <<state, approval, issued, live, task, excused>>

\* The process dies, or its write is refused: the database is locked past busy_timeout, or
\* another callback has inserted the company's row first.
Dies(w) ==
  /\ TokenFaults /\ task[w] # AtRest
  /\ task' = [task EXCEPT ![w] = AtRest]
  /\ excused' = IF task[w].pc \in {"asking", "storing", "clearing", "flagging"}
                THEN excused \cup {task[w].token} ELSE excused
  /\ UNCHANGED <<connection, state, approval, issued, live>>

Continue(w) == \/ SpendState(w) \/ PostAnswered(w) \/ PostRejected(w) \/ PostUnanswered(w)
               \/ StoreTokens(w) \/ ClearGrant(w) \/ FlagError(w)
               \/ TellIntuit(w) \/ DropConnection(w)

ConnNext ==
  \/ \E s \in Authorizations : \/ \E o \in Organizations : StartAuthorization(s, o)
                               \/ StateExpires(s)
                               \/ \E r \in Realms : Approve(s, r)
                               \/ \E w \in Workers : ReadState(w, s)
  \/ \E w \in Workers : Continue(w) \/ Dies(w)
  \/ \E w \in Workers, r \in Realms : NeedAccess(w, r) \/ StartRevoke(w, r)
  \/ StartKeepalive
  \/ \E r \in Realms : \/ KeepAlive(r) \/ SkipKeepalive(r)
                       \/ CustomerDisconnects(r) \/ DisconnectHint(r) \/ Idles(r)

ConnSpec == ConnInit /\ [][ConnNext]_connVars

\* The timer goes off, and what it starts runs to its end.
KeepaliveFairness ==
  /\ WF_connVars(StartKeepalive)
  /\ WF_connVars(\E r \in Realms : KeepAlive(r) \/ SkipKeepalive(r))
  /\ \A w \in Workers : WF_connVars(Continue(w))
  /\ \A r \in Realms : WF_connVars(Idles(r))

FairConnSpec == ConnSpec /\ KeepaliveFairness

-----------------------------------------------------------------------------
ConnTypeOK ==
  /\ connection \in [Realms -> Connection \cup {NoGrant}]
  /\ state \in [Authorizations ->
                  [org : Organizations, open : BOOLEAN] \cup {NoGrant}]
  /\ approval \in [Authorizations -> [realm : Realms, spent : BOOLEAN] \cup {NoGrant}]
  /\ issued \in 0 .. MaxGrants
  /\ live \in [Realms -> SUBSET Grants]
  /\ task \in [Workers -> {AtRest} \cup Asking \cup Claiming \cup Walking \cup Revoking]
  /\ excused \subseteq 0 .. MaxGrants

\* Some worker holds, or may have used up, a token of this company.
Refreshing(r) ==
  \E w \in Workers : /\ task[w].pc \in {"asking", "storing", "clearing", "flagging"}
                     /\ task[w].realm = r

\* While nobody is between Intuit and the row, an active connection holds a token that
\* Intuit accepts, unless the grant was revoked there or the process that had rotated it
\* died: refresh_connection's "the response must be written back or the connection is
\* lost on the following refresh", under refreshes, callbacks and disconnects at once.
ActiveMeansUsable ==
  \A r \in Realms :
    (~Refreshing(r) /\ connection[r] # NoGrant /\ connection[r].status = "active")
      => connection[r].token \in live[r] \cup excused

\* The row says active, and Intuit would refuse its token.
Dead(r) == IF connection[r] = NoGrant THEN FALSE
           ELSE connection[r].status = "active" /\ connection[r].token \notin live[r]

\* A grant that ended at Intuit does not stay on record as active: "a client who connects
\* once and is read monthly would otherwise drop out silently" (connections_due_for_refresh),
\* though nobody reads these books and requests may fail.
DeadGrantsSurface == \A r \in Realms : Dead(r) ~> ~Dead(r)
=============================================================================

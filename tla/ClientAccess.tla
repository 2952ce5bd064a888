---------------------------- MODULE ClientAccess ----------------------------
(***************************************************************************)
(* How a client gets into the portal: access links minted for one account, *)
(* the mails that carry them, and the requests that spend them.            *)
(*                                                                         *)
(* Minting a link revokes the older unused ones, and is committed before   *)
(* its mail is handed to SMTP.  Every attempt to send mints a link of its  *)
(* own; attempts overlap, fail after the mail has left, and are repeated   *)
(* by the job queue.  Accounts share nothing but the clock, so the model   *)
(* is of one.                                                              *)
(***************************************************************************)
EXTENDS Naturals

CONSTANTS
  Mails,         \* sendings: one for each payment, and for each link an operator issues
  Browsers,      \* requests to /portal/enter
  MAIL_RETRIES,  \* retries of send_client_portal_link
  MaxLinks,      \* bound: links minted in all
  MailFaults     \* whether a job's process may die and a writer be locked out

ASSUME AccessAssumption ==
  /\ MAIL_RETRIES \in Nat /\ MaxLinks \in Nat
  /\ MailFaults \in BOOLEAN

VARIABLES
  link,      \* the client_access_tokens row of each link
  linked,    \* links minted so far
  mail,      \* what became of each sending
  inbox,     \* the links the client has received
  entering,  \* the link a browser has looked up
  signedIn   \* the browsers with a client_sessions row

accessVars == <<link, linked, mail, inbox, entering, signedIn>>

-----------------------------------------------------------------------------
Links == 1 .. MaxLinks

Unsent == [pc |-> "unsent", kind |-> "queue", tries |-> 0, carries |-> 0]

\* The queue retries; an inline sending and an operator's reply are made once.
Sending ==
  [ pc : {"unsent", "queued", "sending", "done", "failed"},
    kind : {"queue", "inline", "reply"},
    tries : 0 .. MAIL_RETRIES, carries : 0 .. MaxLinks ]

Retried(m) ==
  IF m.kind = "queue" /\ m.tries < MAIL_RETRIES
  THEN [m EXCEPT !.pc = "queued", !.tries = @ + 1]
  ELSE [m EXCEPT !.pc = "failed"]

AccessInit ==
  /\ link = [l \in Links |-> "none"]
  /\ linked = 0
  /\ mail = [m \in Mails |-> Unsent]
  /\ inbox = {}
  /\ entering = [b \in Browsers |-> 0]
  /\ signedIn = {}

\* _mark_paid asks for a mail, by the queue or without it; the client page asks for a link.
AskForLink(m, kind) ==
  /\ mail[m].pc = "unsent"
  /\ mail' = [mail EXCEPT ![m].pc = "queued", ![m].kind = kind]
  /\ UNCHANGED <<link, linked, inbox, entering, signedIn>>

\* Fault: a retry sends the link it has, and revokes the others all the same.
IssueLinkOnce(m) ==
  /\ mail[m].pc = "queued" /\ linked < MaxLinks
  /\ LET l == IF mail[m].carries = 0 THEN linked + 1 ELSE mail[m].carries IN
     /\ linked' = IF l > linked THEN l ELSE linked
     /\ link' = [k \in Links |-> IF k = l THEN (IF link[k] = "none" THEN "unused" ELSE link[k])
                                 ELSE IF link[k] = "unused" THEN "revoked" ELSE link[k]]
     /\ mail' = [mail EXCEPT ![m].pc = "sending", ![m].carries = l]
  /\ UNCHANGED <<inbox, entering, signedIn>>

\* issue_access_link: older unused links are deleted with the insert.
IssueLink(m) ==
  /\ mail[m].pc = "queued" /\ linked < MaxLinks
  /\ linked' = linked + 1
  /\ link' = [l \in Links |-> IF l = linked + 1 THEN "unused"
                              ELSE IF link[l] = "unused" THEN "revoked" ELSE link[l]]
  /\ mail' = [mail EXCEPT ![m].pc = "sending", ![m].carries = linked + 1]
  /\ UNCHANGED <<inbox, entering, signedIn>>

\* The database is locked: the job raises and is retried, an inline sending gives up.
IssueFails(m) ==
  /\ MailFaults /\ mail[m].pc = "queued"
  /\ mail' = [mail EXCEPT ![m] = Retried(@)]
  /\ UNCHANGED <<link, linked, inbox, entering, signedIn>>

\* SMTP takes the mail and says so.
DeliverMail(m) ==
  /\ mail[m].pc = "sending"
  /\ inbox' = inbox \cup {mail[m].carries}
  /\ mail' = [mail EXCEPT ![m].pc = "done"]
  /\ UNCHANGED <<link, linked, entering, signedIn>>

\* SMTP fails, before it has taken the mail or after.
DeliverFails(m) ==
  /\ mail[m].pc = "sending"
  /\ \/ inbox' = inbox \cup {mail[m].carries}
     \/ UNCHANGED inbox
  /\ mail' = [mail EXCEPT ![m] = Retried(@)]
  /\ UNCHANGED <<link, linked, entering, signedIn>>

\* The process dies with the job in hand: the queue has given it out and forgets it.
SenderDies(m) ==
  /\ MailFaults /\ mail[m].pc = "sending"
  /\ mail' = [mail EXCEPT ![m].pc = "failed"]
  /\ UNCHANGED <<link, linked, inbox, entering, signedIn>>

\* LINK_HOURS pass; the row is deleted when it is next met.
LinkExpires(l) ==
  /\ link[l] = "unused"
  /\ link' = [link EXCEPT ![l] = "expired"]
  /\ UNCHANGED <<linked, mail, inbox, entering, signedIn>>

\* redeem_access_link looks the link up.
LookUp(b, l) ==
  /\ entering[b] = 0 /\ l \in inbox /\ link[l] = "unused"
  /\ entering' = [entering EXCEPT ![b] = l]
  /\ UNCHANGED <<link, linked, mail, inbox, signedIn>>

NewSession(b) == signedIn' = signedIn \cup {b}

\* It marks whatever row is still there, and the session is created with it.
Enter(b) ==
  /\ entering[b] # 0
  /\ LET l == entering[b] IN
     link' = [link EXCEPT ![l] = IF @ \in {"unused", "expired"} THEN "used" ELSE @]
  /\ NewSession(b)
  /\ entering' = [entering EXCEPT ![b] = 0]
  /\ UNCHANGED <<linked, mail, inbox>>

\* destroy_session, or get_session finds the session past its hours.
Leave(b) ==
  /\ b \in signedIn
  /\ signedIn' = signedIn \ {b}
  /\ UNCHANGED <<link, linked, mail, inbox, entering>>

AccessNext ==
  \/ \E m \in Mails : \/ \E k \in {"queue", "inline", "reply"} : AskForLink(m, k)
                      \/ IssueLink(m) \/ IssueFails(m)
                      \/ DeliverMail(m) \/ DeliverFails(m) \/ SenderDies(m)
  \/ \E l \in Links : LinkExpires(l)
  \/ \E b \in Browsers : \/ \E l \in Links : LookUp(b, l)
                         \/ Enter(b) \/ Leave(b)

AccessSpec == AccessInit /\ [][AccessNext]_accessVars

-----------------------------------------------------------------------------
AccessTypeOK ==
  /\ link \in [Links -> {"none", "unused", "used", "revoked", "expired"}]
  /\ linked \in 0 .. MaxLinks
  /\ mail \in [Mails -> Sending]
  /\ inbox \subseteq Links
  /\ entering \in [Browsers -> 0 .. MaxLinks]
  /\ signedIn \subseteq Browsers

\* Nothing is on its way to the client.
Quiet == \A m \in Mails : mail[m].pc \in {"unsent", "done", "failed"}

\* Once nothing is on its way and no sending has failed, a client who was sent a link has
\* received one that was not revoked: it works, or was used, or ran out of hours.  Sendings
\* overlap and each revokes what the others issued, also what is still to be delivered.
MailedClientsCanEnter ==
  (Quiet /\ (\E m \in Mails : mail[m].pc = "done") /\ ~\E m \in Mails : mail[m].pc = "failed")
    => \E l \in inbox : link[l] \in {"unused", "used", "expired"}
=============================================================================

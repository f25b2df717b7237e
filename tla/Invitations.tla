----------------------------- MODULE Invitations -----------------------------
(***************************************************************************)
(* Team invitations of one organization to one e-mail address:             *)
(*   services/invitation_service.py, repositories/invitation.py            *)
(*   api/v1/invitations.py, api/v1/organizations.py                        *)
(*   services/organization_service.py (membership status)                  *)
(*                                                                         *)
(* invitations, member and account are the COMMITTED rows. Each request    *)
(* reads them in one step and writes in a later one; what it read is in    *)
(* session[r]. The ORM writes the attributes that differ from the loaded   *)
(* row, by primary key, whatever the row has become in between; only       *)
(* mark_accepted_if_pending looks at the row again.                        *)
(* Organizations and addresses share no invitation, so one of each stands  *)
(* for all. Roles, names and passwords are left out.                       *)
(***************************************************************************)
CONSTANTS
  Requests,   \* HTTP requests that may be in flight together
  Invites,    \* invitation ids
  Tokens,     \* raw tokens, each drawn at most once
  None        \* no invitation, no token

ASSUME NoneAssumption == None \notin Invites \cup Tokens

VARIABLES
  invitations,  \* the invitations table
  member,       \* status of the invitee's organization_memberships row
  account,      \* the invitee has a users row
  mails,        \* tokens handed to the mailer
  stored,       \* history: tokens that were once committed
  session       \* the session of each request

vars == <<invitations, member, account, mails, stored, session>>

InvitationStatus == {"pending", "accepted", "expired", "revoked"}
MemberStatus == {"none", "active", "suspended", "revoked"}

NoInvite == [status |-> "none"]
Invite == [status : InvitationStatus, token : Tokens, pastDue : BOOLEAN]

Phase == {"idle", "create", "resend", "mail", "revoke", "expire", "accept"}

Session == [phase   : Phase,
            invite  : Invites \cup {None},
            status  : InvitationStatus \cup {"none"},  \* as this session read it
            token   : Tokens \cup {None},              \* drawn, or presented
            newUser : BOOLEAN]                         \* accept creates the account

Idle == [phase |-> "idle", invite |-> None, status |-> "none", token |-> None, newUser |-> FALSE]

Drawn == stored \cup {session[r].token : r \in Requests}
FreshTokens == Tokens \ Drawn

Begin(r, phase, i, t, new) ==
  session' = [session EXCEPT ![r] =
                [phase |-> phase, invite |-> i, token |-> t, newUser |-> new,
                 status |-> IF i = None THEN "none" ELSE invitations[i].status]]

End(r) == session' = [session EXCEPT ![r] = Idle]

SetStatus(i, s) == invitations' = [invitations EXCEPT ![i].status = s]

Init ==
  /\ invitations = [i \in Invites |-> NoInvite]
  /\ member = "none"
  /\ account \in BOOLEAN
  /\ mails = {}
  /\ stored = {}
  /\ session = [r \in Requests |-> Idle]

(***************************************************************************)
(* create_invitation: no pending invitation, no active membership; commit, *)
(* then queue the e-mail.                                                  *)
(***************************************************************************)
CreateRead(r) ==
  /\ session[r].phase = "idle"
  /\ \A i \in Invites : invitations[i].status # "pending"
  /\ member # "active"
  /\ \E t \in FreshTokens : Begin(r, "create", None, t, FALSE)
  /\ UNCHANGED <<invitations, member, account, mails, stored>>

CreateCommit_QueuedFirst(r) ==
  /\ session[r].phase = "create"
  /\ mails' = mails \cup {session[r].token}
  /\ session' = [session EXCEPT ![r].phase = "mail"]
  /\ UNCHANGED <<invitations, member, account, stored>>

CreateCommit(r) ==
  /\ session[r].phase = "create"
  /\ \E i \in Invites :
       /\ invitations[i].status = "none"
       /\ invitations' = [invitations EXCEPT ![i] =
                            [status |-> "pending", token |-> session[r].token, pastDue |-> FALSE]]
  /\ stored' = stored \cup {session[r].token}
  /\ session' = [session EXCEPT ![r].phase = "mail"]
  /\ UNCHANGED <<member, account, mails>>

(***************************************************************************)
(* resend_invitation: a new token and expiry; the status is written only   *)
(* if the row was read as expired. Commit, then queue the e-mail.          *)
(***************************************************************************)
ResendRead(r) ==
  /\ session[r].phase = "idle"
  /\ \E i \in Invites, t \in FreshTokens :
       /\ invitations[i].status \in {"pending", "expired"}
       /\ Begin(r, "resend", i, t, FALSE)
  /\ UNCHANGED <<invitations, member, account, mails, stored>>

ResendCommit(r) ==
  /\ session[r].phase = "resend"
  /\ invitations' = [invitations EXCEPT ![session[r].invite] =
                       [status |-> IF session[r].status = "pending" THEN @.status ELSE "pending",
                        token |-> session[r].token,
                        pastDue |-> FALSE]]
  /\ stored' = stored \cup {session[r].token}
  /\ session' = [session EXCEPT ![r].phase = "mail"]
  /\ UNCHANGED <<member, account, mails>>

\* queue_invitation_email, after the commit.
QueueMail(r) ==
  /\ session[r].phase = "mail"
  /\ mails' = mails \cup {session[r].token}
  /\ End(r)
  /\ UNCHANGED <<invitations, member, account, stored>>

(***************************************************************************)
(* revoke_invitation: anything but a pending invitation is left alone (and *)
(* reported as revoked all the same).                                      *)
(***************************************************************************)
RevokeRead(r) ==
  /\ session[r].phase = "idle"
  /\ \E i \in Invites :
       /\ invitations[i].status = "pending"
       /\ Begin(r, "revoke", i, None, FALSE)
  /\ UNCHANGED <<invitations, member, account, mails, stored>>

RevokeCommit_MembershipStatus(r) ==
  /\ session[r].phase = "revoke"
  /\ SetStatus(session[r].invite, "suspended")
  /\ End(r)
  /\ UNCHANGED <<member, account, mails, stored>>

RevokeCommit(r) ==
  /\ session[r].phase = "revoke"
  /\ SetStatus(session[r].invite, "revoked")
  /\ End(r)
  /\ UNCHANGED <<member, account, mails, stored>>

(***************************************************************************)
(* validate_invitation from GET /validate/{token}: the route swallows the  *)
(* error, so the status "expired" is committed. Where accept calls it, the *)
(* error rolls the write back.                                             *)
(***************************************************************************)
ValidateRead(r) ==
  /\ session[r].phase = "idle"
  /\ \E i \in Invites :
       /\ invitations[i].status = "pending"
       /\ invitations[i].pastDue
       /\ invitations[i].token \in mails
       /\ Begin(r, "expire", i, None, FALSE)
  /\ UNCHANGED <<invitations, member, account, mails, stored>>

ValidateCommit(r) ==
  /\ session[r].phase = "expire"
  /\ SetStatus(session[r].invite, "expired")
  /\ End(r)
  /\ UNCHANGED <<member, account, mails, stored>>

(***************************************************************************)
(* accept_invitation (no account yet) and accept_invitation_signed_in.     *)
(***************************************************************************)
AcceptRead(r) ==
  /\ session[r].phase = "idle"
  /\ \E i \in Invites :
       /\ invitations[i].status \in {"pending", "expired"}
       /\ ~ invitations[i].pastDue
       /\ invitations[i].token \in mails
       /\ Begin(r, "accept", i, None, ~ account)
  /\ UNCHANGED <<invitations, member, account, mails, stored>>

\* users.email is unique, and so is (user, organization) of a membership,
\* whatever its status.
MayJoin(r) ==
  /\ member = "none"
  /\ session[r].newUser => ~ account

\* mark_accepted_if_pending: UPDATE ... WHERE id = ... AND status = 'pending'.
AcceptCommit_Unconditional(r) ==
  /\ session[r].phase = "accept"
  /\ MayJoin(r)
  /\ SetStatus(session[r].invite, "accepted")
  /\ member' = "active"
  /\ account' = TRUE
  /\ End(r)
  /\ UNCHANGED <<mails, stored>>

AcceptCommit_MembershipForgotten(r) ==
  /\ session[r].phase = "accept"
  /\ invitations[session[r].invite].status = "pending"
  /\ SetStatus(session[r].invite, "accepted")
  /\ account' = TRUE
  /\ End(r)
  /\ UNCHANGED <<member, mails, stored>>

AcceptCommit(r) ==
  /\ session[r].phase = "accept"
  /\ invitations[session[r].invite].status = "pending"
  /\ MayJoin(r)
  /\ SetStatus(session[r].invite, "accepted")
  /\ member' = "active"
  /\ account' = TRUE
  /\ End(r)
  /\ UNCHANGED <<mails, stored>>

AcceptRefused(r) ==
  /\ session[r].phase = "accept"
  /\ ~ MayJoin(r) \/ invitations[session[r].invite].status # "pending"
  /\ End(r)
  /\ UNCHANGED <<invitations, member, account, mails, stored>>

(***************************************************************************)
(* The rest of the world.                                                  *)
(***************************************************************************)
\* update_member_status by an administrator of the organization.
UpdateMember ==
  /\ member # "none"
  /\ member' \in {"active", "suspended", "revoked"}
  /\ UNCHANGED <<invitations, account, mails, stored, session>>

\* The invitee registers as a candidate without the invitation.
Register ==
  /\ ~ account
  /\ account' = TRUE
  /\ UNCHANGED <<invitations, member, mails, stored, session>>

\* expires_at goes by.
PassDue(i) ==
  /\ invitations[i].status # "none"
  /\ ~ invitations[i].pastDue
  /\ invitations' = [invitations EXCEPT ![i].pastDue = TRUE]
  /\ UNCHANGED <<member, account, mails, stored, session>>

\* The server dies, or the request fails: after its commit, the e-mail is lost.
Abort(r) ==
  /\ session[r].phase # "idle"
  /\ End(r)
  /\ UNCHANGED <<invitations, member, account, mails, stored>>

RequestStep(r) ==
  \/ CreateRead(r) \/ CreateCommit(r)
  \/ ResendRead(r) \/ ResendCommit(r) \/ QueueMail(r)
  \/ RevokeRead(r) \/ RevokeCommit(r)
  \/ ValidateRead(r) \/ ValidateCommit(r)
  \/ AcceptRead(r) \/ AcceptCommit(r) \/ AcceptRefused(r)
  \/ Abort(r)

Next ==
  \/ \E r \in Requests : RequestStep(r)
  \/ \E i \in Invites : PassDue(i)
  \/ UpdateMember
  \/ Register

Spec == Init /\ [][Next]_vars

(***************************************************************************)
(* Properties.                                                             *)
(***************************************************************************)
\* Every row and session has its type.
TypeOK ==
  /\ invitations \in [Invites -> {NoInvite} \cup Invite]
  /\ member \in MemberStatus
  /\ account \in BOOLEAN
  /\ mails \in SUBSET Tokens
  /\ stored \in SUBSET Tokens
  /\ session \in [Requests -> Session]

\* An invitation that reads "accepted" has a membership and an account behind
\* it (_consume_invitation writes them in one transaction).
AcceptedHasMember ==
  (\E i \in Invites : invitations[i].status = "accepted") => member # "none" /\ account

\* "An email is never dispatched for an uncommitted invitation": whatever the
\* requests and crashes, a mailed token was committed before it was mailed.
MailsAreStored == mails \subseteq stored

\* Joining consumes an invitation that is pending at that very moment, however
\* long ago the token was validated; and an invitation never brings a
\* suspended or revoked member back, only an administrator does.
Admission ==
  [][ /\ member = "none" /\ member' = "active" =>
           \E i \in Invites : /\ invitations[i].status = "pending"
                              /\ invitations'[i].status = "accepted"
      /\ member \in {"suspended", "revoked"} /\ member' = "active" =>
           UNCHANGED invitations
    ]_vars

\* "Status lifecycle: pending -> accepted | expired | revoked" (ADR-001), and
\* "Revoked: ... Cannot be accepted or resent" (ADR-003).
TerminalIsFinal ==
  [][ \A i \in Invites : invitations[i].status \in {"accepted", "revoked"} =>
        invitations'[i].status = invitations[i].status ]_vars
=============================================================================

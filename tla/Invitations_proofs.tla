------------------------- MODULE Invitations_proofs -------------------------
(***************************************************************************)
(* Theorems about Invitations, for every number of requests, invitations   *)
(* and tokens.                                                             *)
(***************************************************************************)
EXTENDS Invitations, TLAPS

\* What a session may rely on between its read and its write: it drew a real
\* token, the invitation it read still exists (invitations are never deleted),
\* and the token it is about to mail has been committed.
SessionShape ==
  \A r \in Requests :
    /\ session[r].phase \in {"create", "resend", "mail"} => session[r].token \in Tokens
    /\ session[r].phase \in {"resend", "revoke", "expire", "accept"} =>
         /\ session[r].invite \in Invites
         /\ invitations[session[r].invite] \in Invite
    /\ session[r].phase = "mail" => session[r].token \in stored

IInv == TypeOK /\ SessionShape /\ AcceptedHasMember /\ MailsAreStored

LEMMA NoInviteApart == NoInvite.status = "none" /\ \A i \in Invite : i.status # "none"
BY DEF NoInvite, Invite, InvitationStatus

LEMMA IdleType == Idle \in Session /\ Idle.phase = "idle"
BY DEF Idle, Session, Phase, InvitationStatus

LEMMA EndEffect ==
  ASSUME TypeOK, NEW r \in Requests, End(r)
  PROVE  /\ session' \in [Requests -> Session]
         /\ session'[r].phase = "idle"
         /\ \A q \in Requests \ {r} : session'[q] = session[q]
BY IdleType DEF TypeOK, End

LEMMA InvInit == Init => IInv
BY IdleType, NoInviteApart
   DEF Init, IInv, TypeOK, SessionShape, AcceptedHasMember, MailsAreStored, MemberStatus

(***************************************************************************)
(* The write of one invitation whose row exists.                           *)
(***************************************************************************)
LEMMA SetStatusEffect ==
  ASSUME TypeOK, NEW i \in Invites, NEW s \in InvitationStatus,
         invitations[i] \in Invite, SetStatus(i, s)
  PROVE  /\ invitations' \in [Invites -> {NoInvite} \cup Invite]
         /\ invitations'[i] \in Invite /\ invitations'[i].status = s
         /\ \A j \in Invites \ {i} : invitations'[j] = invitations[j]
<1>1. [invitations[i] EXCEPT !.status = s] \in Invite
  BY DEF Invite
<1>2. QED
  BY <1>1 DEF TypeOK, SetStatus, Invite

(***************************************************************************)
(* One lemma per step of a request.                                        *)
(***************************************************************************)
LEMMA BeginEffect ==
  ASSUME TypeOK, NEW r \in Requests, NEW ph \in Phase, NEW i \in Invites \cup {None},
         NEW t \in Tokens \cup {None}, NEW n \in BOOLEAN, Begin(r, ph, i, t, n)
  PROVE  /\ session' \in [Requests -> Session]
         /\ session'[r].phase = ph /\ session'[r].invite = i /\ session'[r].token = t
         /\ \A q \in Requests \ {r} : session'[q] = session[q]
<1>1. i # None => i \in Invites
  OBVIOUS
<1>2. (IF i = None THEN "none" ELSE invitations[i].status) \in InvitationStatus \cup {"none"}
  BY <1>1, NoInviteApart DEF TypeOK, Invite
<1>3. [phase |-> ph, invite |-> i, token |-> t, newUser |-> n,
       status |-> IF i = None THEN "none" ELSE invitations[i].status] \in Session
  BY <1>2 DEF Session
<1>4. QED
  BY <1>3 DEF TypeOK, Begin

\* A read changes nothing but the session that reads.
LEMMA ReadStep ==
  ASSUME IInv, NEW r \in Requests, NEW ph \in Phase \ {"mail"}, NEW i \in Invites \cup {None},
         NEW t \in Tokens \cup {None}, NEW n \in BOOLEAN, Begin(r, ph, i, t, n),
         ph \in {"create", "resend"} => t \in Tokens,
         ph \in {"resend", "revoke", "expire", "accept"} =>
           i \in Invites /\ invitations[i].status # "none",
         UNCHANGED <<invitations, member, account, mails, stored>>
  PROVE  IInv'
<1>1. TypeOK
  BY DEF IInv
<1>2. /\ session' \in [Requests -> Session]
      /\ session'[r].phase = ph /\ session'[r].invite = i /\ session'[r].token = t
      /\ \A q \in Requests \ {r} : session'[q] = session[q]
  BY <1>1, BeginEffect
<1>3. TypeOK'
  BY <1>1, <1>2 DEF TypeOK
<1>4. ph \in {"resend", "revoke", "expire", "accept"} => invitations[i] \in Invite
  BY <1>1, NoInviteApart DEF TypeOK
<1>5. SessionShape'
  BY <1>2, <1>4 DEF IInv, SessionShape
<1>6. QED
  BY <1>3, <1>5 DEF IInv, AcceptedHasMember, MailsAreStored

\* A step that ends a session and leaves the rows alone.
LEMMA EndStep ==
  ASSUME IInv, NEW r \in Requests, End(r),
         UNCHANGED <<invitations, member, account, stored>>,
         mails' \in SUBSET stored
  PROVE  IInv'
<1>1. TypeOK
  BY DEF IInv
<1>2. TypeOK'
  BY <1>1, EndEffect DEF TypeOK
<1>3. SessionShape'
  BY <1>1, EndEffect DEF IInv, SessionShape
<1>4. QED
  BY <1>2, <1>3 DEF IInv, AcceptedHasMember, MailsAreStored

\* A step that ends a session and sets the status of the invitation it read.
LEMMA StatusStep ==
  ASSUME IInv, NEW r \in Requests, NEW s \in InvitationStatus,
         session[r].phase \in {"revoke", "expire", "accept"},
         SetStatus(session[r].invite, s), End(r),
         UNCHANGED <<mails, stored>>,
         \/ s # "accepted" /\ UNCHANGED <<member, account>>
         \/ member' = "active" /\ account' = TRUE
  PROVE  IInv'
<1>1. TypeOK
  BY DEF IInv
<1> DEFINE i == session[r].invite
<1>2. i \in Invites /\ invitations[i] \in Invite
  BY DEF IInv, SessionShape
<1>3. /\ invitations' \in [Invites -> {NoInvite} \cup Invite]
      /\ invitations'[i] \in Invite /\ invitations'[i].status = s
      /\ \A j \in Invites \ {i} : invitations'[j] = invitations[j]
  BY <1>1, <1>2, SetStatusEffect
<1>4. TypeOK'
  BY <1>1, <1>3, EndEffect DEF TypeOK, MemberStatus
<1>5. SessionShape'
  BY <1>1, <1>3, EndEffect DEF IInv, SessionShape
<1>6. AcceptedHasMember'
  BY <1>3 DEF IInv, AcceptedHasMember
<1>7. QED
  BY <1>4, <1>5, <1>6 DEF IInv, MailsAreStored

LEMMA CreateStep ==
  ASSUME IInv, NEW r \in Requests, CreateCommit(r)
  PROVE  IInv'
<1>1. TypeOK /\ session[r].token \in Tokens
  BY DEF IInv, SessionShape, CreateCommit
<1>2. PICK i \in Invites :
        /\ invitations[i].status = "none"
        /\ invitations' = [invitations EXCEPT ![i] =
             [status |-> "pending", token |-> session[r].token, pastDue |-> FALSE]]
  BY DEF CreateCommit
<1>3. [status |-> "pending", token |-> session[r].token, pastDue |-> FALSE] \in Invite
  BY <1>1 DEF Invite, InvitationStatus
<1>4. /\ invitations' \in [Invites -> {NoInvite} \cup Invite]
      /\ invitations'[i] \in Invite /\ invitations'[i].status = "pending"
      /\ \A j \in Invites \ {i} : invitations'[j] = invitations[j]
  BY <1>1, <1>2, <1>3 DEF TypeOK
<1>5. /\ session' \in [Requests -> Session]
      /\ session'[r].phase = "mail" /\ session'[r].token = session[r].token
      /\ \A q \in Requests \ {r} : session'[q] = session[q]
  BY <1>1 DEF TypeOK, CreateCommit, Session, Phase
<1>6. TypeOK'
  BY <1>1, <1>4, <1>5 DEF TypeOK, CreateCommit
<1>7. SessionShape'
  BY <1>1, <1>4, <1>5 DEF IInv, SessionShape, CreateCommit
<1>8. AcceptedHasMember' /\ MailsAreStored'
  BY <1>4 DEF IInv, AcceptedHasMember, MailsAreStored, CreateCommit
<1>9. QED
  BY <1>6, <1>7, <1>8 DEF IInv

LEMMA ResendStep ==
  ASSUME IInv, NEW r \in Requests, ResendCommit(r)
  PROVE  IInv'
<1> DEFINE i == session[r].invite
<1> DEFINE row == [status |-> IF session[r].status = "pending"
                              THEN invitations[i].status ELSE "pending",
                   token |-> session[r].token, pastDue |-> FALSE]
<1>1. TypeOK /\ session[r].token \in Tokens /\ i \in Invites /\ invitations[i] \in Invite
  BY DEF IInv, SessionShape, ResendCommit
<1>2. row \in Invite
  BY <1>1 DEF Invite, InvitationStatus
<1>3. /\ invitations' \in [Invites -> {NoInvite} \cup Invite]
      /\ invitations'[i] = row
      /\ \A j \in Invites \ {i} : invitations'[j] = invitations[j]
  BY <1>1, <1>2 DEF TypeOK, ResendCommit
<1>4. /\ session' \in [Requests -> Session]
      /\ session'[r].phase = "mail" /\ session'[r].token = session[r].token
      /\ \A q \in Requests \ {r} : session'[q] = session[q]
  BY <1>1 DEF TypeOK, ResendCommit, Session, Phase
<1>5. TypeOK'
  BY <1>1, <1>3, <1>4 DEF TypeOK, ResendCommit
<1>6. SessionShape'
  BY <1>1, <1>2, <1>3, <1>4 DEF IInv, SessionShape, ResendCommit
<1>7. AcceptedHasMember' /\ MailsAreStored'
  BY <1>1, <1>3 DEF IInv, AcceptedHasMember, MailsAreStored, ResendCommit
<1>8. QED
  BY <1>5, <1>6, <1>7 DEF IInv

LEMMA PassDueStep ==
  ASSUME IInv, NEW i \in Invites, PassDue(i)
  PROVE  IInv'
<1>1. TypeOK /\ invitations[i] \in Invite
  BY NoInviteApart DEF IInv, TypeOK, PassDue
<1>2. [invitations[i] EXCEPT !.pastDue = TRUE] \in Invite
  BY <1>1 DEF Invite
<1>3. /\ invitations' \in [Invites -> {NoInvite} \cup Invite]
      /\ invitations'[i] \in Invite /\ invitations'[i].status = invitations[i].status
      /\ \A j \in Invites \ {i} : invitations'[j] = invitations[j]
  BY <1>1, <1>2 DEF TypeOK, PassDue, Invite
<1>4. TypeOK'
  BY <1>1, <1>3 DEF TypeOK, PassDue
<1>5. SessionShape'
  BY <1>3 DEF IInv, SessionShape, PassDue
<1>6. AcceptedHasMember' /\ MailsAreStored'
  BY <1>3 DEF IInv, AcceptedHasMember, MailsAreStored, PassDue
<1>7. QED
  BY <1>4, <1>5, <1>6 DEF IInv

LEMMA RequestKeeps ==
  ASSUME IInv, NEW r \in Requests, RequestStep(r)
  PROVE  IInv'
<1>1. CASE CreateRead(r)
  <2>1. PICK t \in Tokens : Begin(r, "create", None, t, FALSE)
    BY <1>1 DEF CreateRead, FreshTokens
  <2>2. QED
    BY <1>1, <2>1, ReadStep DEF CreateRead, Phase
<1>2. CASE ResendRead(r)
  <2>1. PICK i \in Invites, t \in Tokens :
          invitations[i].status \in {"pending", "expired"} /\ Begin(r, "resend", i, t, FALSE)
    BY <1>2 DEF ResendRead, FreshTokens
  <2>2. QED
    BY <1>2, <2>1, ReadStep DEF ResendRead, Phase
<1>3. CASE RevokeRead(r)
  <2>1. PICK i \in Invites :
          invitations[i].status = "pending" /\ Begin(r, "revoke", i, None, FALSE)
    BY <1>3 DEF RevokeRead
  <2>2. QED
    BY <1>3, <2>1, ReadStep DEF RevokeRead, Phase
<1>4. CASE ValidateRead(r)
  <2>1. PICK i \in Invites :
          invitations[i].status = "pending" /\ Begin(r, "expire", i, None, FALSE)
    BY <1>4 DEF ValidateRead
  <2>2. QED
    BY <1>4, <2>1, ReadStep DEF ValidateRead, Phase
<1>5. CASE AcceptRead(r)
  <2>1. PICK i \in Invites :
          invitations[i].status \in {"pending", "expired"} /\ Begin(r, "accept", i, None, ~ account)
    BY <1>5 DEF AcceptRead
  <2>2. (~ account) \in BOOLEAN
    BY DEF IInv, TypeOK
  <2>3. QED
    BY <1>5, <2>1, <2>2, ReadStep DEF AcceptRead, Phase
<1>6. CASE QueueMail(r)
  <2>1. mails' \in SUBSET stored
    BY <1>6 DEF QueueMail, IInv, SessionShape, MailsAreStored
  <2>2. QED
    BY <1>6, <2>1, EndStep DEF QueueMail
<1>7. CASE AcceptRefused(r) \/ Abort(r)
  BY <1>7, EndStep DEF AcceptRefused, Abort, IInv, MailsAreStored
<1>8. CASE RevokeCommit(r)
  BY <1>8, StatusStep DEF RevokeCommit, InvitationStatus
<1>9. CASE ValidateCommit(r)
  BY <1>9, StatusStep DEF ValidateCommit, InvitationStatus
<1>10. CASE AcceptCommit(r)
  BY <1>10, StatusStep DEF AcceptCommit, InvitationStatus
<1>11. QED
  BY <1>1, <1>2, <1>3, <1>4, <1>5, <1>6, <1>7, <1>8, <1>9, <1>10, CreateStep, ResendStep
  DEF RequestStep

LEMMA InvStep == IInv /\ [Next]_vars => IInv'
<1> SUFFICES ASSUME IInv, [Next]_vars PROVE IInv'
  OBVIOUS
<1>1. CASE \E r \in Requests : RequestStep(r)
  BY <1>1, RequestKeeps
<1>2. CASE \E i \in Invites : PassDue(i)
  BY <1>2, PassDueStep
<1>3. CASE UpdateMember
  BY <1>3 DEF UpdateMember, IInv, TypeOK, SessionShape, AcceptedHasMember, MailsAreStored, MemberStatus
<1>4. CASE Register
  BY <1>4 DEF Register, IInv, TypeOK, SessionShape, AcceptedHasMember, MailsAreStored
<1>5. CASE UNCHANGED vars
  BY <1>5 DEF vars, IInv, TypeOK, SessionShape, AcceptedHasMember, MailsAreStored
<1>6. QED
  BY <1>1, <1>2, <1>3, <1>4, <1>5 DEF Next

\* The inductive invariant holds in every reachable state.
THEOREM Invariance == Spec => []IInv
BY InvInit, InvStep, PTL DEF Spec

\* Every row and session keeps its type.
THEOREM TypeCorrect == Spec => []TypeOK
<1>1. IInv => TypeOK
  BY DEF IInv
<1>2. QED
  BY <1>1, Invariance, PTL

\* An accepted invitation has a membership and an account behind it, whatever
\* accepts, revokes, resends and expiries race with it.
THEOREM AcceptedHasMemberHolds == Spec => []AcceptedHasMember
<1>1. IInv => AcceptedHasMember
  BY DEF IInv
<1>2. QED
  BY <1>1, Invariance, PTL

\* No e-mail carries a token that was not committed before it was queued.
THEOREM MailsAreStoredHolds == Spec => []MailsAreStored
<1>1. IInv => MailsAreStored
  BY DEF IInv
<1>2. QED
  BY <1>1, Invariance, PTL

LEMMA AdmissionStep ==
  ASSUME IInv, [Next]_vars
  PROVE  /\ member = "none" /\ member' = "active" =>
              \E i \in Invites : invitations[i].status = "pending" /\ invitations'[i].status = "accepted"
         /\ member \in {"suspended", "revoked"} /\ member' = "active" => UNCHANGED invitations
<1>1. CASE \E r \in Requests : AcceptCommit(r)
  <2>1. PICK r \in Requests : AcceptCommit(r)
    BY <1>1
  <2> DEFINE i == session[r].invite
  <2>2. i \in Invites /\ invitations[i] \in Invite /\ TypeOK
    BY <2>1 DEF IInv, SessionShape, AcceptCommit
  <2>3. invitations'[i].status = "accepted"
    BY <2>1, <2>2, SetStatusEffect DEF AcceptCommit, InvitationStatus
  <2>4. QED
    BY <2>1, <2>2, <2>3 DEF AcceptCommit, MayJoin
<1>2. CASE UpdateMember
  BY <1>2 DEF UpdateMember
<1>3. CASE UNCHANGED member
  BY <1>3
<1>4. ASSUME NEW r \in Requests, RequestStep(r), ~ AcceptCommit(r) PROVE UNCHANGED member
  BY <1>4 DEF RequestStep, CreateRead, CreateCommit, ResendRead, ResendCommit, QueueMail,
     RevokeRead, RevokeCommit, ValidateRead, ValidateCommit, AcceptRead, AcceptRefused, Abort
<1>5. QED
  BY <1>1, <1>2, <1>3, <1>4 DEF Next, PassDue, Register, vars

\* Whoever joins consumes an invitation that is pending at that moment, and no
\* invitation brings a suspended or revoked member back.
THEOREM AdmissionHolds == Spec => Admission
<1>1. IInv /\ [Next]_vars =>
        [ /\ member = "none" /\ member' = "active" =>
               \E i \in Invites : /\ invitations[i].status = "pending"
                                  /\ invitations'[i].status = "accepted"
          /\ member \in {"suspended", "revoked"} /\ member' = "active" =>
               UNCHANGED invitations ]_vars
  BY AdmissionStep
<1>2. QED
  BY <1>1, Invariance, PTL DEF Spec, Admission
=============================================================================

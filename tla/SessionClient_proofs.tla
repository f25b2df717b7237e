-------------------------- MODULE SessionClient_proofs --------------------------
(***************************************************************************)
(* Theorems about SessionClient, for any number of tabs, calls and tokens. *)
(***************************************************************************)
EXTENDS SessionClient, TLAPS

\* What kinds of calls are in which phase, and which of them belong to a tab.
CallShape ==
  \A c \in Calls :
    /\ call[c].kind = "none" <=> call[c].phase = "idle"
    /\ call[c].tab = None <=> call[c].kind \in {"none", "orphan"}
    /\ call[c].kind = "orphan" => call[c].phase \in Waiting
    /\ call[c].body # None => call[c].kind \in {"logout", "orphan"}
    /\ call[c].kind \in {"login", "logout", "request"} /\ call[c].phase \in {"sent", "ok"}
         => call[c].old = None
    /\ call[c].kind = "mount" => call[c].phase \in {"exchange", "checked", "granted", "refused"}
    /\ call[c].phase = "idle" => call[c] = Idle

\* A token that was issued and is not stored yet is known from one answer only, and accepted.
NewIsPrivate ==
  \A c \in Calls :
    /\ call[c].phase = "granted" \/ (call[c].phase = "ok" /\ call[c].kind = "login")
         => call[c].new # None
    /\ call[c].new # None =>
         /\ call[c].new \in live
         /\ call[c].new # stored
         /\ \A d \in Calls : /\ call[d].body # call[c].new
                             /\ call[d].old # call[c].new
                             /\ d # c => call[d].new # call[c].new

\* The stored token is presented by a call without a page only if its page went away.
OrphansAreDoubted ==
  \A c \in Calls :
    call[c].kind = "orphan" /\ stored # None /\ stored \in {call[c].body, call[c].old} => doubt

SessionInv ==
  /\ TypeOK /\ CallShape
  /\ RefreshIsLed
  /\ NewIsPrivate /\ OrphansAreDoubted
  /\ StoredIsUsable

----------------------------------------------------------------------------
\* How calls change.

LEMMA IdleFields ==
  /\ Idle \in Call
  /\ Idle.tab = None /\ Idle.kind = "none" /\ Idle.phase = "idle"
  /\ Idle.body = None /\ Idle.old = None /\ Idle.new = None
BY DEF Idle, NewCall, Call, Kind, Phase

LEMMA CallTypes ==
  ASSUME SessionInv, NEW c \in Calls
  PROVE  /\ call[c] \in Call
         /\ call[c].tab \in Tabs \cup {None} /\ call[c].kind \in Kind /\ call[c].phase \in Phase
         /\ call[c].body \in Tokens \cup {None} /\ call[c].old \in Tokens \cup {None}
         /\ call[c].new \in Tokens \cup {None} /\ call[c].retry \in BOOLEAN
BY DEF SessionInv, TypeOK, Call

LEMMA SetCallEffect ==
  ASSUME SessionInv, NEW c \in Calls, NEW r \in Call, SetCall(c, r)
  PROVE  /\ call' \in [Calls -> Call]
         /\ call'[c] = r
         /\ \A d \in Calls \ {c} : call'[d] = call[d]
BY DEF SessionInv, TypeOK, SetCall

\* What an answer or a queue changes of a call: nothing of what it presents.
Same(c) ==
  /\ call'[c].tab = call[c].tab /\ call'[c].kind = call[c].kind
  /\ call'[c].body = call[c].body /\ call'[c].old = call[c].old

LEMMA AnswerEffect ==
  ASSUME SessionInv, NEW c \in Calls, NEW phase \in Answered, NEW t \in Tokens \cup {None},
         Answer(c, phase, t)
  PROVE  /\ call' \in [Calls -> Call]
         /\ \A d \in Calls \ {c} : call'[d] = call[d]
         /\ call[c].kind = "orphan" => call'[c] = Idle
         /\ call[c].kind # "orphan" => Same(c) /\ call'[c].phase = phase /\ call'[c].new = t
<1>1. CASE call[c].kind = "orphan"
  BY <1>1, IdleFields, SetCallEffect DEF Answer
<1>2. CASE call[c].kind # "orphan"
  <2> DEFINE r == [call[c] EXCEPT !.phase = phase, !.new = t]
  <2>1. /\ r \in Call /\ r.phase = phase /\ r.new = t
        /\ r.tab = call[c].tab /\ r.kind = call[c].kind
        /\ r.body = call[c].body /\ r.old = call[c].old
    BY CallTypes DEF Call, Phase
  <2>2. SetCall(c, r)
    BY <1>2 DEF Answer
  <2> HIDE DEF r
  <2> QED BY <1>2, <2>1, <2>2, SetCallEffect DEF Same
<1> QED BY <1>1, <1>2

LEMMA FreshEffect ==
  ASSUME SessionInv, NEW t \in FreshTokens
  PROVE  /\ t \in Tokens /\ t # None /\ t # stored
         /\ \A c \in Calls : t # call[c].body /\ t # call[c].old /\ t # call[c].new
<1>1. t \in Tokens \ Held
  BY DrawAssumption DEF FreshTokens
<1> QED BY <1>1, NoneAssumption DEF Held

\* A step that changes no leader, no waiter and no flag.
LEMMA LedUnchanged ==
  ASSUME SessionInv, isRefreshing' = isRefreshing,
         \A d \in Calls, p \in Tabs :
           /\ call'[d].tab = p /\ Leads(d)' <=> call[d].tab = p /\ Leads(d)
           /\ call'[d].tab = p /\ call'[d].phase = "queued" => call[d].tab = p /\ call[d].phase = "queued"
  PROVE  RefreshIsLed'
<1>1. ASSUME NEW p \in Tabs PROVE LeadersOf(p)' = LeadersOf(p)
  BY <1>1 DEF LeadersOf, CallsOf
<1> QED BY <1>1 DEF SessionInv, RefreshIsLed, CallsOf

LEMMA ServeAuthorizedStep == ASSUME SessionInv, NEW c \in Calls, ServeAuthorized(c) PROVE SessionInv'
<1>e. /\ call[c].phase = "sent" /\ call[c].kind # "login"
      /\ live' = live \ {call[c].body}
      /\ UNCHANGED <<expiries, stored, accessToken, isRefreshing, page, doubt>>
      /\ call' \in [Calls -> Call] /\ \A d \in Calls \ {c} : call'[d] = call[d]
      /\ call[c].kind = "orphan" => call'[c] = Idle
      /\ call[c].kind # "orphan" => Same(c) /\ call'[c].phase = "ok" /\ call'[c].new = None
  BY AnswerEffect DEF ServeAuthorized, Revoke, Answered
<1>1. TypeOK'
  BY <1>e, IdleFields, CallTypes, NoneAssumption, TabsAssumption
     DEF SessionInv, TypeOK, Same, Waiting
<1>2. CallShape'
  BY <1>e, IdleFields, CallTypes, NoneAssumption, TabsAssumption
     DEF SessionInv, CallShape, TypeOK, Same, Waiting
<1>3. RefreshIsLed'
  BY <1>e, LedUnchanged, IdleFields, TabsAssumption DEF Leads, Same, SessionInv, CallShape, Waiting
<1>4. NewIsPrivate'
  BY <1>e, IdleFields, CallTypes, NoneAssumption, TabsAssumption
     DEF SessionInv, TypeOK, CallShape, NewIsPrivate, Same, Waiting
<1>5. OrphansAreDoubted'
  BY <1>e, IdleFields, CallTypes, NoneAssumption, TabsAssumption
     DEF SessionInv, TypeOK, CallShape, NewIsPrivate, OrphansAreDoubted, Same, Waiting
<1>6. StoredIsUsable'
  BY <1>e, IdleFields, CallTypes, NoneAssumption, TabsAssumption
     DEF SessionInv, TypeOK, CallShape, NewIsPrivate, OrphansAreDoubted, StoredIsUsable,
         Supersedes, IsValid, Same, Waiting
<1> QED BY <1>1, <1>2, <1>3, <1>4, <1>5, <1>6 DEF SessionInv

LEMMA ServeLoginStep == ASSUME SessionInv, NEW c \in Calls, ServeLogin(c) PROVE SessionInv'
<1>e. /\ call[c].phase = "sent" /\ call[c].kind = "login"
      /\ UNCHANGED <<expiries, stored, accessToken, isRefreshing, page, doubt>>
      /\ call' \in [Calls -> Call] /\ \A d \in Calls \ {c} : call'[d] = call[d]
      /\ Same(c) /\ call'[c].phase = "ok" /\ call'[c].new \in FreshTokens
      /\ live' = (live \cap Held) \cup {call'[c].new}
  BY AnswerEffect, FreshEffect DEF ServeLogin, Issue, Answered
<1>f. \A d \in Calls : call[d].new # None => call[d].new \in Held
  BY DEF Held
<1>g. \A d \in Calls : call[d].old # None => call[d].old \in Held
  BY DEF Held
<1>h. stored \in Held
  BY DEF Held
<1>1. TypeOK'
  BY <1>e, <1>f, <1>g, <1>h, FreshEffect, IdleFields, CallTypes, NoneAssumption, TabsAssumption
     DEF SessionInv, TypeOK, Same, Waiting
<1>2. CallShape'
  BY <1>e, <1>f, <1>g, <1>h, FreshEffect, IdleFields, CallTypes, NoneAssumption, TabsAssumption
     DEF SessionInv, CallShape, TypeOK, Same, Waiting
<1>3. RefreshIsLed'
  BY <1>e, LedUnchanged, IdleFields, TabsAssumption DEF Leads, Same, SessionInv, CallShape, Waiting
<1>4. NewIsPrivate'
  BY <1>e, <1>f, <1>g, <1>h, FreshEffect, IdleFields, CallTypes, NoneAssumption, TabsAssumption
     DEF SessionInv, TypeOK, CallShape, NewIsPrivate, Same, Waiting
<1>5. OrphansAreDoubted'
  BY <1>e, <1>f, <1>g, <1>h, FreshEffect, IdleFields, CallTypes, NoneAssumption, TabsAssumption
     DEF SessionInv, TypeOK, CallShape, NewIsPrivate, OrphansAreDoubted, Same, Waiting
<1>6. StoredIsUsable'
  BY <1>e, <1>f, <1>g, <1>h, FreshEffect, IdleFields, CallTypes, NoneAssumption, TabsAssumption
     DEF SessionInv, TypeOK, CallShape, NewIsPrivate, OrphansAreDoubted, StoredIsUsable,
         Supersedes, IsValid, Same, Waiting
<1> QED BY <1>1, <1>2, <1>3, <1>4, <1>5, <1>6 DEF SessionInv

LEMMA ServeUnauthorizedStep == ASSUME SessionInv, NEW c \in Calls, ServeUnauthorized(c) PROVE SessionInv'
<1>e. /\ call[c].phase = "sent" /\ expiries' \in 0..MaxExpiries
      /\ UNCHANGED <<live, stored, accessToken, isRefreshing, page, doubt>>
      /\ call' \in [Calls -> Call] /\ \A d \in Calls \ {c} : call'[d] = call[d]
      /\ call[c].kind = "orphan" => call'[c] = Idle
      /\ call[c].kind # "orphan" => Same(c) /\ call'[c].phase = "unauthorized" /\ call'[c].new = None
  BY AnswerEffect, ExpiriesAssumption DEF ServeUnauthorized, Answered, SessionInv, TypeOK
<1>1. TypeOK'
  BY <1>e, IdleFields, CallTypes, NoneAssumption, TabsAssumption
     DEF SessionInv, TypeOK, Same, Waiting
<1>2. CallShape'
  BY <1>e, IdleFields, CallTypes, NoneAssumption, TabsAssumption
     DEF SessionInv, CallShape, TypeOK, Same, Waiting
<1>3. RefreshIsLed'
  BY <1>e, LedUnchanged, IdleFields, TabsAssumption DEF Leads, Same, SessionInv, CallShape, Waiting
<1>4. NewIsPrivate'
  BY <1>e, IdleFields, CallTypes, NoneAssumption, TabsAssumption
     DEF SessionInv, TypeOK, CallShape, NewIsPrivate, Same, Waiting
<1>5. OrphansAreDoubted'
  BY <1>e, IdleFields, CallTypes, NoneAssumption, TabsAssumption
     DEF SessionInv, TypeOK, CallShape, NewIsPrivate, OrphansAreDoubted, Same, Waiting
<1>6. StoredIsUsable'
  BY <1>e, IdleFields, CallTypes, NoneAssumption, TabsAssumption
     DEF SessionInv, TypeOK, CallShape, NewIsPrivate, OrphansAreDoubted, StoredIsUsable,
         Supersedes, IsValid, Same, Waiting
<1> QED BY <1>1, <1>2, <1>3, <1>4, <1>5, <1>6 DEF SessionInv

LEMMA RefreshLookupStep == ASSUME SessionInv, NEW c \in Calls, RefreshLookup(c) PROVE SessionInv'
<1>e. /\ call[c].phase = "exchange"
      /\ UNCHANGED <<live, expiries, stored, accessToken, isRefreshing, page, doubt>>
      /\ call' \in [Calls -> Call] /\ \A d \in Calls \ {c} : call'[d] = call[d]
      /\ \/ Same(c) /\ call'[c].phase = "checked" /\ call'[c].new = call[c].new
         \/ call[c].kind = "orphan" /\ call'[c] = Idle
         \/ call[c].kind # "orphan" /\ Same(c) /\ call'[c].phase = "refused" /\ call'[c].new = None
  <2>1. CASE IsValid(call[c].old)
    <3> DEFINE r == [call[c] EXCEPT !.phase = "checked"]
    <3>1. /\ r \in Call /\ r.phase = "checked" /\ r.new = call[c].new
          /\ r.tab = call[c].tab /\ r.kind = call[c].kind
          /\ r.body = call[c].body /\ r.old = call[c].old
      BY CallTypes DEF Call, Phase, Waiting
    <3>2. SetCall(c, r)
      BY <2>1 DEF RefreshLookup
    <3> HIDE DEF r
    <3> QED BY <3>1, <3>2, SetCallEffect DEF RefreshLookup, Same
  <2>2. CASE ~ IsValid(call[c].old)
    BY <2>2, AnswerEffect DEF RefreshLookup, Answered
  <2> QED BY <2>1, <2>2
<1>1. TypeOK'
  BY <1>e, IdleFields, CallTypes, NoneAssumption, TabsAssumption
     DEF SessionInv, TypeOK, Same, Waiting
<1>2. CallShape'
  BY <1>e, IdleFields, CallTypes, NoneAssumption, TabsAssumption
     DEF SessionInv, CallShape, TypeOK, Same, Waiting
<1>3. RefreshIsLed'
  BY <1>e, LedUnchanged, IdleFields, TabsAssumption DEF Leads, Same, SessionInv, CallShape, Waiting
<1>4. NewIsPrivate'
  BY <1>e, IdleFields, CallTypes, NoneAssumption, TabsAssumption
     DEF SessionInv, TypeOK, CallShape, NewIsPrivate, Same, Waiting
<1>5. OrphansAreDoubted'
  BY <1>e, IdleFields, CallTypes, NoneAssumption, TabsAssumption
     DEF SessionInv, TypeOK, CallShape, NewIsPrivate, OrphansAreDoubted, Same, Waiting
<1>6. StoredIsUsable'
  BY <1>e, IdleFields, CallTypes, NoneAssumption, TabsAssumption
     DEF SessionInv, TypeOK, CallShape, NewIsPrivate, OrphansAreDoubted, StoredIsUsable,
         Supersedes, IsValid, Same, Waiting
<1> QED BY <1>1, <1>2, <1>3, <1>4, <1>5, <1>6 DEF SessionInv

LEMMA RefreshCommitStep == ASSUME SessionInv, NEW c \in Calls, RefreshCommit(c) PROVE SessionInv'
<1>e. /\ call[c].phase = "checked"
      /\ UNCHANGED <<expiries, stored, accessToken, isRefreshing, page, doubt>>
      /\ call' \in [Calls -> Call] /\ \A d \in Calls \ {c} : call'[d] = call[d]
      /\ \E t \in FreshTokens :
           /\ live' = ((live \cap Held) \ {call[c].old}) \cup {t}
           /\ call[c].kind = "orphan" => call'[c] = Idle
           /\ call[c].kind # "orphan" => Same(c) /\ call'[c].phase = "granted" /\ call'[c].new = t
  BY AnswerEffect, FreshEffect DEF RefreshCommit, Rotate, Answered
<1>f. \A d \in Calls : call[d].new \in Held /\ call[d].old \in Held /\ call[d].body \in Held
  BY DEF Held
<1>h. stored \in Held
  BY DEF Held
<1>1. TypeOK'
  BY <1>e, <1>f, <1>h, FreshEffect, IdleFields, CallTypes, NoneAssumption, TabsAssumption
     DEF SessionInv, TypeOK, Same, Waiting
<1>2. CallShape'
  BY <1>e, <1>f, <1>h, FreshEffect, IdleFields, CallTypes, NoneAssumption, TabsAssumption
     DEF SessionInv, CallShape, TypeOK, Same, Waiting
<1>3. RefreshIsLed'
  BY <1>e, LedUnchanged, IdleFields, TabsAssumption DEF Leads, Same, SessionInv, CallShape, Waiting
<1>4. NewIsPrivate'
  BY <1>e, <1>f, <1>h, FreshEffect, IdleFields, CallTypes, NoneAssumption, TabsAssumption
     DEF SessionInv, TypeOK, CallShape, NewIsPrivate, Same, Waiting
<1>5. OrphansAreDoubted'
  BY <1>e, <1>f, <1>h, FreshEffect, IdleFields, CallTypes, NoneAssumption, TabsAssumption
     DEF SessionInv, TypeOK, CallShape, NewIsPrivate, OrphansAreDoubted, Same, Waiting
<1>6. StoredIsUsable'
  BY <1>e, <1>f, <1>h, FreshEffect, IdleFields, CallTypes, NoneAssumption, TabsAssumption
     DEF SessionInv, TypeOK, CallShape, NewIsPrivate, OrphansAreDoubted, StoredIsUsable,
         Supersedes, IsValid, Same, Waiting
<1> QED BY <1>1, <1>2, <1>3, <1>4, <1>5, <1>6 DEF SessionInv

LEMMA HandleOkStep == ASSUME SessionInv, NEW c \in Calls, HandleOk(c) PROVE SessionInv'
<1>e. /\ call[c].phase = "ok"
      /\ \/ call[c].kind = "login" /\ stored' = call[c].new /\ doubt' = FALSE
         \/ call[c].kind = "logout" /\ stored' = None /\ doubt' = FALSE
         \/ call[c].kind \notin {"login", "logout"} /\ UNCHANGED <<stored, doubt>>
      /\ accessToken' \in [Tabs -> BOOLEAN]
      /\ UNCHANGED <<live, expiries, isRefreshing, page>>
      /\ call' \in [Calls -> Call] /\ \A d \in Calls \ {c} : call'[d] = call[d]
      /\ call'[c] = Idle
  <2>1. SetCall(c, Idle)
    BY DEF HandleOk
  <2>2. CASE call[c].kind = "login"
    BY <2>1, <2>2, SetCallEffect, IdleFields DEF HandleOk, SetAccess, SetStored, SessionInv, TypeOK
  <2>3. CASE call[c].kind = "logout"
    BY <2>1, <2>3, SetCallEffect, IdleFields
       DEF HandleOk, ClearAuth, SetAccess, SetStored, SessionInv, TypeOK
  <2>4. CASE call[c].kind \notin {"login", "logout"}
    BY <2>1, <2>4, SetCallEffect, IdleFields DEF HandleOk, SessionInv, TypeOK
  <2> QED BY <2>2, <2>3, <2>4
<1>1. TypeOK'
  <2>1. stored' \in Tokens \cup {None} /\ doubt' \in BOOLEAN
    BY <1>e, CallTypes DEF SessionInv, TypeOK
  <2>2. \A d \in Calls : call'[d].phase \in {"exchange", "checked", "granted"} => call'[d].old # None
    BY <1>e, IdleFields DEF SessionInv, TypeOK
  <2> QED BY <1>e, <2>1, <2>2 DEF SessionInv, TypeOK
<1>2. CallShape'
  BY <1>e, IdleFields, CallTypes, NoneAssumption, TabsAssumption
     DEF SessionInv, CallShape, TypeOK, Same, Waiting
<1>3. RefreshIsLed'
  BY <1>e, LedUnchanged, IdleFields, TabsAssumption DEF Leads, Same, SessionInv, CallShape, Waiting
<1>4. NewIsPrivate'
  BY <1>e, IdleFields, CallTypes, NoneAssumption, TabsAssumption
     DEF SessionInv, TypeOK, CallShape, NewIsPrivate, Same, Waiting
<1>5. OrphansAreDoubted'
  BY <1>e, IdleFields, CallTypes, NoneAssumption, TabsAssumption
     DEF SessionInv, TypeOK, CallShape, NewIsPrivate, OrphansAreDoubted, Same, Waiting
<1>6. StoredIsUsable'
  BY <1>e, IdleFields, CallTypes, NoneAssumption, TabsAssumption
     DEF SessionInv, TypeOK, CallShape, NewIsPrivate, OrphansAreDoubted, StoredIsUsable,
         Supersedes, IsValid, Same, Waiting
<1> QED BY <1>1, <1>2, <1>3, <1>4, <1>5, <1>6 DEF SessionInv

LEMMA HandleFailedStep == ASSUME SessionInv, NEW c \in Calls, HandleFailed(c) PROVE SessionInv'
<1>e. /\ call[c].phase = "unauthorized"
      /\ \/ call[c].kind = "logout" /\ stored' = None /\ doubt' = FALSE
         \/ call[c].kind # "logout" /\ UNCHANGED <<stored, doubt>>
      /\ accessToken' \in [Tabs -> BOOLEAN]
      /\ UNCHANGED <<live, expiries, isRefreshing, page>>
      /\ call' \in [Calls -> Call] /\ \A d \in Calls \ {c} : call'[d] = call[d]
      /\ call'[c] = Idle
  BY SetCallEffect, IdleFields
     DEF HandleFailed, Rejected, ClearAuth, SetAccess, SetStored, SessionInv, TypeOK
<1>1. TypeOK'
  BY <1>e, IdleFields, CallTypes, NoneAssumption, TabsAssumption
     DEF SessionInv, TypeOK, Same, Waiting
<1>2. CallShape'
  BY <1>e, IdleFields, CallTypes, NoneAssumption, TabsAssumption
     DEF SessionInv, CallShape, TypeOK, Same, Waiting
<1>3. RefreshIsLed'
  BY <1>e, LedUnchanged, IdleFields, TabsAssumption DEF Leads, Same, SessionInv, CallShape, Waiting
<1>4. NewIsPrivate'
  BY <1>e, IdleFields, CallTypes, NoneAssumption, TabsAssumption
     DEF SessionInv, TypeOK, CallShape, NewIsPrivate, Same, Waiting
<1>5. OrphansAreDoubted'
  BY <1>e, IdleFields, CallTypes, NoneAssumption, TabsAssumption
     DEF SessionInv, TypeOK, CallShape, NewIsPrivate, OrphansAreDoubted, Same, Waiting
<1>6. StoredIsUsable'
  BY <1>e, IdleFields, CallTypes, NoneAssumption, TabsAssumption
     DEF SessionInv, TypeOK, CallShape, NewIsPrivate, OrphansAreDoubted, StoredIsUsable,
         Supersedes, IsValid, Same, Waiting
<1> QED BY <1>1, <1>2, <1>3, <1>4, <1>5, <1>6 DEF SessionInv

LEMMA HandleNoTokenStep == ASSUME SessionInv, NEW c \in Calls, HandleNoToken(c) PROVE SessionInv'
<1>e. /\ call[c].phase = "unauthorized"
      /\ \/ call[c].kind = "logout" /\ stored' = None /\ doubt' = FALSE
         \/ call[c].kind # "logout" /\ UNCHANGED <<stored, doubt>>
      /\ accessToken' \in [Tabs -> BOOLEAN]
      /\ UNCHANGED <<live, expiries, isRefreshing, page>>
      /\ call' \in [Calls -> Call] /\ \A d \in Calls \ {c} : call'[d] = call[d]
      /\ call'[c] = Idle
  BY SetCallEffect, IdleFields
     DEF HandleNoToken, Rejected, ClearAuth, SetAccess, SetStored, SessionInv, TypeOK
<1>1. TypeOK'
  BY <1>e, IdleFields, CallTypes, NoneAssumption, TabsAssumption
     DEF SessionInv, TypeOK, Same, Waiting
<1>2. CallShape'
  BY <1>e, IdleFields, CallTypes, NoneAssumption, TabsAssumption
     DEF SessionInv, CallShape, TypeOK, Same, Waiting
<1>3. RefreshIsLed'
  BY <1>e, LedUnchanged, IdleFields, TabsAssumption DEF Leads, Same, SessionInv, CallShape, Waiting
<1>4. NewIsPrivate'
  BY <1>e, IdleFields, CallTypes, NoneAssumption, TabsAssumption
     DEF SessionInv, TypeOK, CallShape, NewIsPrivate, Same, Waiting
<1>5. OrphansAreDoubted'
  BY <1>e, IdleFields, CallTypes, NoneAssumption, TabsAssumption
     DEF SessionInv, TypeOK, CallShape, NewIsPrivate, OrphansAreDoubted, Same, Waiting
<1>6. StoredIsUsable'
  BY <1>e, IdleFields, CallTypes, NoneAssumption, TabsAssumption
     DEF SessionInv, TypeOK, CallShape, NewIsPrivate, OrphansAreDoubted, StoredIsUsable,
         Supersedes, IsValid, Same, Waiting
<1> QED BY <1>1, <1>2, <1>3, <1>4, <1>5, <1>6 DEF SessionInv

LEMMA HandleQueueStep == ASSUME SessionInv, NEW c \in Calls, HandleQueue(c) PROVE SessionInv'
<1>e. /\ call[c].phase = "unauthorized" /\ isRefreshing[call[c].tab]
      /\ UNCHANGED <<live, expiries, stored, accessToken, isRefreshing, page, doubt>>
      /\ call' \in [Calls -> Call] /\ \A d \in Calls \ {c} : call'[d] = call[d]
      /\ Same(c) /\ call'[c].phase = "queued" /\ call'[c].new = call[c].new
  <2> DEFINE r == [call[c] EXCEPT !.phase = "queued"]
  <2>1. /\ r \in Call /\ r.phase = "queued" /\ r.new = call[c].new
        /\ r.tab = call[c].tab /\ r.kind = call[c].kind
        /\ r.body = call[c].body /\ r.old = call[c].old
    BY CallTypes DEF Call, Phase
  <2>2. SetCall(c, r)
    BY DEF HandleQueue
  <2> HIDE DEF r
  <2> QED BY <2>1, <2>2, SetCallEffect DEF HandleQueue, Same
<1>1. TypeOK'
  BY <1>e, IdleFields, CallTypes, NoneAssumption, TabsAssumption
     DEF SessionInv, TypeOK, Same, Waiting
<1>2. CallShape'
  BY <1>e, IdleFields, CallTypes, NoneAssumption, TabsAssumption
     DEF SessionInv, CallShape, TypeOK, Same, Waiting
<1>3. RefreshIsLed'
  <2>1. ASSUME NEW p \in Tabs PROVE LeadersOf(p)' = LeadersOf(p)
    BY <1>e, <2>1 DEF LeadersOf, CallsOf, Leads, Same
  <2> QED BY <1>e, <2>1 DEF SessionInv, RefreshIsLed, CallsOf, Same
<1>4. NewIsPrivate'
  BY <1>e, IdleFields, CallTypes, NoneAssumption, TabsAssumption
     DEF SessionInv, TypeOK, CallShape, NewIsPrivate, Same, Waiting
<1>5. OrphansAreDoubted'
  BY <1>e, IdleFields, CallTypes, NoneAssumption, TabsAssumption
     DEF SessionInv, TypeOK, CallShape, NewIsPrivate, OrphansAreDoubted, Same, Waiting
<1>6. StoredIsUsable'
  BY <1>e, IdleFields, CallTypes, NoneAssumption, TabsAssumption
     DEF SessionInv, TypeOK, CallShape, NewIsPrivate, OrphansAreDoubted, StoredIsUsable,
         Supersedes, IsValid, Same, Waiting
<1> QED BY <1>1, <1>2, <1>3, <1>4, <1>5, <1>6 DEF SessionInv

LEMMA HandleExchangeStep == ASSUME SessionInv, NEW c \in Calls, HandleExchange(c) PROVE SessionInv'
<1>e. /\ call[c].phase = "unauthorized" /\ stored # None
      /\ call[c].tab \in Tabs /\ ~ isRefreshing[call[c].tab]
      /\ UNCHANGED <<live, expiries, stored, accessToken, page, doubt>>
      /\ isRefreshing' \in [Tabs -> BOOLEAN] /\ isRefreshing'[call[c].tab]
      /\ \A p \in Tabs \ {call[c].tab} : isRefreshing'[p] = isRefreshing[p]
      /\ call' \in [Calls -> Call] /\ \A d \in Calls \ {c} : call'[d] = call[d]
      /\ call'[c].tab = call[c].tab /\ call'[c].kind = call[c].kind /\ call'[c].body = call[c].body
      /\ call'[c].phase = "exchange" /\ call'[c].old = stored /\ call'[c].new = call[c].new
  <2> DEFINE r == [call[c] EXCEPT !.phase = "exchange", !.retry = TRUE, !.old = stored]
  <2>1. /\ r \in Call /\ r.phase = "exchange" /\ r.new = call[c].new
        /\ r.tab = call[c].tab /\ r.kind = call[c].kind
        /\ r.body = call[c].body /\ r.old = stored
    BY CallTypes DEF Call, Phase, Waiting, SessionInv, TypeOK
  <2>2. SetCall(c, r)
    BY DEF HandleExchange
  <2>3. call[c].tab \in Tabs
    BY CallTypes DEF HandleExchange, SessionInv, CallShape, Waiting
  <2> HIDE DEF r
  <2>4. /\ isRefreshing' \in [Tabs -> BOOLEAN] /\ isRefreshing'[call[c].tab]
        /\ \A p \in Tabs \ {call[c].tab} : isRefreshing'[p] = isRefreshing[p]
    BY <2>3 DEF HandleExchange, SessionInv, TypeOK
  <2> QED BY <2>1, <2>2, <2>3, <2>4, SetCallEffect DEF HandleExchange
<1>1. TypeOK'
  BY <1>e, IdleFields, CallTypes, NoneAssumption, TabsAssumption
     DEF SessionInv, TypeOK, Same, Waiting
<1>2. CallShape'
  BY <1>e, IdleFields, CallTypes, NoneAssumption, TabsAssumption
     DEF SessionInv, CallShape, TypeOK, Same, Waiting
<1>3. RefreshIsLed'
  <2>1. ASSUME NEW p \in Tabs, p # call[c].tab PROVE LeadersOf(p)' = LeadersOf(p)
    BY <1>e, <2>1 DEF LeadersOf, CallsOf, Leads
  <2>2. LeadersOf(call[c].tab) = {}
    BY <1>e DEF SessionInv, RefreshIsLed
  <2>3. call[c].kind # "mount"
    BY <1>e DEF SessionInv, CallShape
  <2>4. LeadersOf(call[c].tab)' = {c}
    BY <1>e, <2>2, <2>3 DEF LeadersOf, CallsOf, Leads
  <2> QED BY <1>e, <2>1, <2>4 DEF SessionInv, RefreshIsLed, CallsOf
<1>4. NewIsPrivate'
  BY <1>e, IdleFields, CallTypes, NoneAssumption, TabsAssumption
     DEF SessionInv, TypeOK, CallShape, NewIsPrivate, Same, Waiting
<1>5. OrphansAreDoubted'
  BY <1>e, IdleFields, CallTypes, NoneAssumption, TabsAssumption
     DEF SessionInv, TypeOK, CallShape, NewIsPrivate, OrphansAreDoubted, Same, Waiting
<1>6. StoredIsUsable'
  BY <1>e, IdleFields, CallTypes, NoneAssumption, TabsAssumption
     DEF SessionInv, TypeOK, CallShape, NewIsPrivate, OrphansAreDoubted, StoredIsUsable,
         Supersedes, IsValid, Same, Waiting
<1> QED BY <1>1, <1>2, <1>3, <1>4, <1>5, <1>6 DEF SessionInv

\* What resending a call changes of it.
Resent(d) ==
  /\ call'[d].tab = call[d].tab /\ call'[d].kind = call[d].kind /\ call'[d].body = call[d].body
  /\ call'[d].phase = "sent" /\ call'[d].old = None /\ call'[d].new = None

LEMMA ResendEffect ==
  ASSUME SessionInv, NEW d \in Calls
  PROVE  /\ Resend(call[d]) \in Call
         /\ call'[d] = Resend(call[d]) => Resent(d)
<1> DEFINE r == Resend(call[d])
<1>1. /\ r \in Call /\ r.tab = call[d].tab /\ r.kind = call[d].kind /\ r.body = call[d].body
      /\ r.phase = "sent" /\ r.old = None /\ r.new = None
  BY CallTypes DEF Call, Phase, Waiting, Resend
<1> HIDE DEF r
<1> QED BY <1>1 DEF Resent, r

LEMMA WokenEffect ==
  ASSUME SessionInv, NEW c \in Calls, NEW error \in BOOLEAN, NEW r \in Call,
         call' = [Woken(c, error) EXCEPT ![c] = r]
  PROVE  /\ call' \in [Calls -> Call]
         /\ call'[c] = r
         /\ \A d \in Calls \ {c} :
              \/ call'[d] = call[d] /\ ~ (call[d].tab = call[c].tab /\ call[d].phase = "queued")
              \/ /\ call[d].tab = call[c].tab /\ call[d].phase = "queued"
                 /\ IF error THEN call'[d] = Idle ELSE Resent(d)
<1>1. \A d \in Calls : call[d] \in Call /\ Resend(call[d]) \in Call /\ Idle \in Call
  BY ResendEffect, CallTypes, IdleFields
<1>2. Woken(c, error) \in [Calls -> Call]
  BY <1>1 DEF Woken
<1>3. /\ call' \in [Calls -> Call] /\ call'[c] = r
      /\ \A d \in Calls \ {c} : call'[d] = Woken(c, error)[d]
  BY <1>2
<1>4. ASSUME NEW d \in Calls \ {c}
      PROVE \/ call'[d] = call[d] /\ ~ (call[d].tab = call[c].tab /\ call[d].phase = "queued")
            \/ /\ call[d].tab = call[c].tab /\ call[d].phase = "queued"
               /\ IF error THEN call'[d] = Idle ELSE call'[d] = Resend(call[d])
  BY <1>3, <1>4 DEF Woken, CallsOf
<1> QED BY <1>3, <1>4, ResendEffect

LEMMA HandleGrantedStep == ASSUME SessionInv, NEW c \in Calls, HandleGranted(c) PROVE SessionInv'
<1>e. /\ call[c].phase = "granted" /\ stored' = call[c].new /\ doubt' = FALSE
      /\ UNCHANGED <<live, expiries, page>> /\ accessToken' \in [Tabs -> BOOLEAN]
      /\ call[c].tab \in Tabs
      /\ isRefreshing' \in [Tabs -> BOOLEAN]
      /\ call' \in [Calls -> Call]
      /\ \/ /\ call[c].kind = "mount" /\ isRefreshing' = isRefreshing
            /\ call'[c] = Idle /\ \A d \in Calls \ {c} : call'[d] = call[d]
         \/ /\ call[c].kind # "mount" /\ ~ isRefreshing'[call[c].tab]
            /\ \A p \in Tabs \ {call[c].tab} : isRefreshing'[p] = isRefreshing[p]
            /\ Resent(c)
            /\ \A d \in Calls \ {c} :
                 \/ call'[d] = call[d] /\ ~ (call[d].tab = call[c].tab /\ call[d].phase = "queued")
                 \/ /\ call[d].tab = call[c].tab /\ call[d].phase = "queued"
                    /\ Resent(d)
  <2>1. call[c].tab \in Tabs
    BY CallTypes DEF HandleGranted, SessionInv, CallShape, Waiting
  <2>2. accessToken' \in [Tabs -> BOOLEAN]
    BY <2>1 DEF HandleGranted, SetAccess, SetStored, SessionInv, TypeOK
  <2>3. CASE call[c].kind = "mount"
    BY <2>1, <2>2, <2>3, SetCallEffect, IdleFields
       DEF HandleGranted, SetAccess, SetStored, SessionInv, TypeOK
  <2>4. CASE call[c].kind # "mount"
    <3>1. /\ isRefreshing' \in [Tabs -> BOOLEAN] /\ ~ isRefreshing'[call[c].tab]
          /\ \A p \in Tabs \ {call[c].tab} : isRefreshing'[p] = isRefreshing[p]
      BY <2>1, <2>4 DEF HandleGranted, SessionInv, TypeOK
    <3>2. call' = [Woken(c, FALSE) EXCEPT ![c] = Resend(call[c])]
      BY <2>4 DEF HandleGranted
    <3>3. Resend(call[c]) \in Call
      BY ResendEffect, IdleFields
    <3>4. /\ call' \in [Calls -> Call]
          /\ call'[c] = Resend(call[c])
          /\ \A d \in Calls \ {c} :
               \/ call'[d] = call[d] /\ ~ (call[d].tab = call[c].tab /\ call[d].phase = "queued")
               \/ call[d].tab = call[c].tab /\ call[d].phase = "queued" /\ Resent(d)
      BY <3>2, <3>3, WokenEffect
    <3>5. Resent(c)
      BY <3>4, ResendEffect
    <3> QED BY <2>1, <2>2, <2>4, <3>1, <3>4, <3>5 DEF HandleGranted, SetAccess, SetStored
  <2> QED BY <2>3, <2>4
<1>1. TypeOK'
  <2>1. stored' \in Tokens \cup {None} /\ doubt' \in BOOLEAN
    BY <1>e, CallTypes DEF SessionInv, TypeOK
  <2>2. \A d \in Calls : call'[d].phase \in {"exchange", "checked", "granted"} => call'[d].old # None
    BY <1>e, IdleFields DEF SessionInv, TypeOK, Resent
  <2> QED BY <1>e, <2>1, <2>2 DEF SessionInv, TypeOK
<1>2. CallShape'
  BY <1>e, IdleFields, CallTypes, NoneAssumption, TabsAssumption
     DEF SessionInv, CallShape, TypeOK, Same, Resent, Waiting
<1>3. RefreshIsLed'
  <2>1. CASE call[c].kind = "mount"
    BY <1>e, <2>1, LedUnchanged, IdleFields, TabsAssumption DEF Leads
  <2>2. CASE call[c].kind # "mount"
    <3>1. PICK p \in Tabs : p = call[c].tab
      BY <1>e
    <3>2. ASSUME NEW q \in Tabs, q # p PROVE LeadersOf(q)' = LeadersOf(q)
      BY <1>e, <2>2, <3>1, <3>2, IdleFields, TabsAssumption DEF LeadersOf, CallsOf, Leads, Resent
    <3>3. c \in LeadersOf(p)
      BY <1>e, <2>2, <3>1 DEF LeadersOf, CallsOf, Leads
    <3>4. \A d \in Calls \ {c} : ~ (call[d].tab = p /\ Leads(d))
      BY <1>e, <3>1, <3>3 DEF SessionInv, RefreshIsLed, LeadersOf, CallsOf
    <3>5. \A d \in Calls : ~ (call'[d].tab = p /\ Leads(d)')
      BY <1>e, <2>2, <3>1, <3>4, IdleFields, TabsAssumption DEF Leads, Resent
    <3>6. \A d \in Calls : ~ (call'[d].tab = p /\ call'[d].phase = "queued")
      BY <1>e, <2>2, <3>1, IdleFields, TabsAssumption DEF Resent
    <3>7. \A d \in Calls, q \in Tabs \ {p} :
            call'[d].tab = q /\ call'[d].phase = "queued" => call[d].tab = q /\ call[d].phase = "queued"
      BY <1>e, <2>2, <3>1, IdleFields, TabsAssumption DEF Resent
    <3>8. ~ isRefreshing'[p] /\ \A q \in Tabs \ {p} : isRefreshing'[q] = isRefreshing[q]
      BY <1>e, <2>2, <3>1
    <3>9. LeadersOf(p)' = {}
      BY <3>5 DEF LeadersOf, CallsOf
    <3> QED BY <3>2, <3>6, <3>7, <3>8, <3>9 DEF SessionInv, RefreshIsLed, CallsOf
  <2> QED BY <2>1, <2>2
<1>4. NewIsPrivate'
  BY <1>e, IdleFields, CallTypes, NoneAssumption, TabsAssumption
     DEF SessionInv, TypeOK, CallShape, NewIsPrivate, Same, Resent, Waiting
<1>5. OrphansAreDoubted'
  BY <1>e, IdleFields, CallTypes, NoneAssumption, TabsAssumption
     DEF SessionInv, TypeOK, CallShape, NewIsPrivate, OrphansAreDoubted, Same, Resent, Waiting
<1>6. StoredIsUsable'
  BY <1>e, IdleFields, CallTypes, NoneAssumption, TabsAssumption
     DEF SessionInv, TypeOK, CallShape, NewIsPrivate, OrphansAreDoubted, StoredIsUsable,
         Supersedes, IsValid, Same, Resent, Waiting
<1> QED BY <1>1, <1>2, <1>3, <1>4, <1>5, <1>6 DEF SessionInv

LEMMA HandleRefusedStep == ASSUME SessionInv, NEW c \in Calls, HandleRefused(c) PROVE SessionInv'
<1>e. /\ call[c].phase = "refused" /\ stored' = None /\ doubt' = FALSE
      /\ UNCHANGED <<live, expiries, page>> /\ accessToken' \in [Tabs -> BOOLEAN]
      /\ call[c].tab \in Tabs
      /\ isRefreshing' \in [Tabs -> BOOLEAN]
      /\ call' \in [Calls -> Call]
      /\ \/ /\ call[c].kind = "mount" /\ isRefreshing' = isRefreshing
            /\ call'[c] = Idle /\ \A d \in Calls \ {c} : call'[d] = call[d]
         \/ /\ call[c].kind # "mount" /\ ~ isRefreshing'[call[c].tab]
            /\ \A p \in Tabs \ {call[c].tab} : isRefreshing'[p] = isRefreshing[p]
            /\ call'[c] = Idle
            /\ \A d \in Calls \ {c} :
                 \/ call'[d] = call[d] /\ ~ (call[d].tab = call[c].tab /\ call[d].phase = "queued")
                 \/ /\ call[d].tab = call[c].tab /\ call[d].phase = "queued"
                    /\ call'[d] = Idle
  <2>1. call[c].tab \in Tabs
    BY CallTypes DEF HandleRefused, SessionInv, CallShape, Waiting
  <2>2. accessToken' \in [Tabs -> BOOLEAN]
    BY <2>1 DEF HandleRefused, ClearAuth, SetAccess, SetStored, SessionInv, TypeOK
  <2>3. CASE call[c].kind = "mount"
    BY <2>1, <2>2, <2>3, SetCallEffect, IdleFields
       DEF HandleRefused, ClearAuth, SetAccess, SetStored, SessionInv, TypeOK
  <2>4. CASE call[c].kind # "mount"
    <3>1. /\ isRefreshing' \in [Tabs -> BOOLEAN] /\ ~ isRefreshing'[call[c].tab]
          /\ \A p \in Tabs \ {call[c].tab} : isRefreshing'[p] = isRefreshing[p]
      BY <2>1, <2>4 DEF HandleRefused, SessionInv, TypeOK
    <3>2. call' = [Woken(c, TRUE) EXCEPT ![c] = Idle]
      BY <2>4 DEF HandleRefused
    <3>3. Idle \in Call
      BY ResendEffect, IdleFields
    <3>4. /\ call' \in [Calls -> Call]
          /\ call'[c] = Idle
          /\ \A d \in Calls \ {c} :
               \/ call'[d] = call[d] /\ ~ (call[d].tab = call[c].tab /\ call[d].phase = "queued")
               \/ call[d].tab = call[c].tab /\ call[d].phase = "queued" /\ call'[d] = Idle
      BY <3>2, <3>3, WokenEffect
    <3>5. call'[c] = Idle
      BY <3>4, ResendEffect
    <3> QED BY <2>1, <2>2, <2>4, <3>1, <3>4, <3>5 DEF HandleRefused, ClearAuth, SetAccess, SetStored
  <2> QED BY <2>3, <2>4
<1>1. TypeOK'
  <2>1. stored' \in Tokens \cup {None} /\ doubt' \in BOOLEAN
    BY <1>e, CallTypes DEF SessionInv, TypeOK
  <2>2. \A d \in Calls : call'[d].phase \in {"exchange", "checked", "granted"} => call'[d].old # None
    BY <1>e, IdleFields DEF SessionInv, TypeOK, Resent
  <2> QED BY <1>e, <2>1, <2>2 DEF SessionInv, TypeOK
<1>2. CallShape'
  BY <1>e, IdleFields, CallTypes, NoneAssumption, TabsAssumption
     DEF SessionInv, CallShape, TypeOK, Same, Resent, Waiting
<1>3. RefreshIsLed'
  <2>1. CASE call[c].kind = "mount"
    BY <1>e, <2>1, LedUnchanged, IdleFields, TabsAssumption DEF Leads
  <2>2. CASE call[c].kind # "mount"
    <3>1. PICK p \in Tabs : p = call[c].tab
      BY <1>e
    <3>2. ASSUME NEW q \in Tabs, q # p PROVE LeadersOf(q)' = LeadersOf(q)
      BY <1>e, <2>2, <3>1, <3>2, IdleFields, TabsAssumption DEF LeadersOf, CallsOf, Leads, Resent
    <3>3. c \in LeadersOf(p)
      BY <1>e, <2>2, <3>1 DEF LeadersOf, CallsOf, Leads
    <3>4. \A d \in Calls \ {c} : ~ (call[d].tab = p /\ Leads(d))
      BY <1>e, <3>1, <3>3 DEF SessionInv, RefreshIsLed, LeadersOf, CallsOf
    <3>5. \A d \in Calls : ~ (call'[d].tab = p /\ Leads(d)')
      BY <1>e, <2>2, <3>1, <3>4, IdleFields, TabsAssumption DEF Leads, Resent
    <3>6. \A d \in Calls : ~ (call'[d].tab = p /\ call'[d].phase = "queued")
      BY <1>e, <2>2, <3>1, IdleFields, TabsAssumption DEF Resent
    <3>7. \A d \in Calls, q \in Tabs \ {p} :
            call'[d].tab = q /\ call'[d].phase = "queued" => call[d].tab = q /\ call[d].phase = "queued"
      BY <1>e, <2>2, <3>1, IdleFields, TabsAssumption DEF Resent
    <3>8. ~ isRefreshing'[p] /\ \A q \in Tabs \ {p} : isRefreshing'[q] = isRefreshing[q]
      BY <1>e, <2>2, <3>1
    <3>9. LeadersOf(p)' = {}
      BY <3>5 DEF LeadersOf, CallsOf
    <3> QED BY <3>2, <3>6, <3>7, <3>8, <3>9 DEF SessionInv, RefreshIsLed, CallsOf
  <2> QED BY <2>1, <2>2
<1>4. NewIsPrivate'
  BY <1>e, IdleFields, CallTypes, NoneAssumption, TabsAssumption
     DEF SessionInv, TypeOK, CallShape, NewIsPrivate, Same, Resent, Waiting
<1>5. OrphansAreDoubted'
  BY <1>e, IdleFields, CallTypes, NoneAssumption, TabsAssumption
     DEF SessionInv, TypeOK, CallShape, NewIsPrivate, OrphansAreDoubted, Same, Resent, Waiting
<1>6. StoredIsUsable'
  BY <1>e, IdleFields, CallTypes, NoneAssumption, TabsAssumption
     DEF SessionInv, TypeOK, CallShape, NewIsPrivate, OrphansAreDoubted, StoredIsUsable,
         Supersedes, IsValid, Same, Resent, Waiting
<1> QED BY <1>1, <1>2, <1>3, <1>4, <1>5, <1>6 DEF SessionInv

LEMMA LoseStep == ASSUME SessionInv, NEW c \in Calls, Lose(c) PROVE SessionInv'
<1>e. /\ call[c].tab # None /\ UNCHANGED <<live, expiries, isRefreshing, page>>
      /\ accessToken' \in [Tabs -> BOOLEAN]
      /\ call' \in [Calls -> Call] /\ \A d \in Calls \ {c} : call'[d] = call[d]
      /\ \/ /\ call[c].phase \in {"sent", "ok"}
            /\ call'[c] = Idle
            /\ \/ call[c].kind = "logout" /\ stored' = None /\ doubt' = FALSE
               \/ call[c].kind # "logout" /\ UNCHANGED <<stored, doubt>>
         \/ /\ call[c].phase \in {"exchange", "granted"}
            /\ UNCHANGED <<stored, doubt>>
            /\ Same(c) /\ call'[c].phase = "refused" /\ call'[c].new = None
  <2>1. call[c].kind # "orphan"
    BY DEF Lose, SessionInv, CallShape
  <2>2. CASE call[c].phase \in {"sent", "ok"}
    BY <2>2, SetCallEffect, IdleFields
       DEF Lose, Rejected, ClearAuth, SetAccess, SetStored, SessionInv, TypeOK
  <2>3. CASE call[c].phase \in {"exchange", "granted"}
    BY <2>1, <2>3, AnswerEffect DEF Lose, Answered, SessionInv, TypeOK
  <2> QED BY <2>2, <2>3 DEF Lose
<1>1. TypeOK'
  <2>1. stored' \in Tokens \cup {None} /\ doubt' \in BOOLEAN
    BY <1>e, CallTypes DEF SessionInv, TypeOK
  <2>2. \A d \in Calls : call'[d].phase \in {"exchange", "checked", "granted"} => call'[d].old # None
    BY <1>e, IdleFields DEF SessionInv, TypeOK
  <2> QED BY <1>e, <2>1, <2>2 DEF SessionInv, TypeOK
<1>2. CallShape'
  BY <1>e, IdleFields, CallTypes, NoneAssumption, TabsAssumption
     DEF SessionInv, CallShape, TypeOK, Same, Waiting
<1>3. RefreshIsLed'
  BY <1>e, LedUnchanged, IdleFields, TabsAssumption DEF Leads, Same, SessionInv, CallShape, Waiting
<1>4. NewIsPrivate'
  BY <1>e, IdleFields, CallTypes, NoneAssumption, TabsAssumption
     DEF SessionInv, TypeOK, CallShape, NewIsPrivate, Same, Waiting
<1>5. OrphansAreDoubted'
  BY <1>e, IdleFields, CallTypes, NoneAssumption, TabsAssumption
     DEF SessionInv, TypeOK, CallShape, NewIsPrivate, OrphansAreDoubted, Same, Waiting
<1>6. StoredIsUsable'
  BY <1>e, IdleFields, CallTypes, NoneAssumption, TabsAssumption
     DEF SessionInv, TypeOK, CallShape, NewIsPrivate, OrphansAreDoubted, StoredIsUsable,
         Supersedes, IsValid, Same, Waiting
<1> QED BY <1>1, <1>2, <1>3, <1>4, <1>5, <1>6 DEF SessionInv

LEMMA MountStep == ASSUME SessionInv, NEW c \in Calls, NEW p \in Tabs, Mount(c, p) PROVE SessionInv'
<1>e. /\ call[c] = Idle
      /\ call' \in [Calls -> Call] /\ \A d \in Calls \ {c} : call'[d] = call[d]
      /\ page' \in [Tabs -> Page]
      /\ UNCHANGED <<live, expiries, stored, accessToken, isRefreshing, doubt>>
      /\ \/ call'[c] = Idle
         \/ /\ stored # None /\ call'[c].tab = p /\ call'[c].kind = "mount"
            /\ call'[c].phase = "exchange" /\ call'[c].body = None
            /\ call'[c].old = stored /\ call'[c].new = None
  <2> DEFINE r == [NewCall(p, "mount", "exchange") EXCEPT !.old = stored]
  <2>1. /\ r \in Call /\ r.tab = p /\ r.kind = "mount" /\ r.phase = "exchange"
        /\ r.body = None /\ r.old = stored /\ r.new = None
    BY DEF NewCall, Call, Kind, Phase, Waiting, SessionInv, TypeOK
  <2>2. page' \in [Tabs -> Page]
    BY DEF Mount, Page, SessionInv, TypeOK
  <2>3. stored # None => SetCall(c, r)
    BY DEF Mount
  <2> HIDE DEF r
  <2>4. CASE stored = None
    BY <2>2, <2>4 DEF Mount, SessionInv, TypeOK
  <2>5. CASE stored # None
    BY <2>1, <2>2, <2>3, <2>5, SetCallEffect DEF Mount
  <2> QED BY <2>4, <2>5
<1>1. TypeOK'
  BY <1>e, IdleFields, CallTypes, NoneAssumption, TabsAssumption DEF SessionInv, TypeOK, Waiting
<1>2. CallShape'
  BY <1>e, IdleFields, CallTypes, NoneAssumption, TabsAssumption
     DEF SessionInv, CallShape, TypeOK, Waiting
<1>3. RefreshIsLed'
  BY <1>e, LedUnchanged, IdleFields, TabsAssumption DEF Leads, Same, SessionInv, CallShape, Waiting
<1>4. NewIsPrivate'
  BY <1>e, IdleFields, CallTypes, NoneAssumption, TabsAssumption
     DEF SessionInv, TypeOK, CallShape, NewIsPrivate, Waiting
<1>5. OrphansAreDoubted'
  BY <1>e, IdleFields, CallTypes, NoneAssumption, TabsAssumption
     DEF SessionInv, TypeOK, CallShape, NewIsPrivate, OrphansAreDoubted, Waiting
<1>6. StoredIsUsable'
  BY <1>e, IdleFields, CallTypes, NoneAssumption, TabsAssumption
     DEF SessionInv, TypeOK, CallShape, NewIsPrivate, OrphansAreDoubted, StoredIsUsable,
         Supersedes, IsValid, Waiting
<1> QED BY <1>1, <1>2, <1>3, <1>4, <1>5, <1>6 DEF SessionInv

LEMMA StartStep == ASSUME SessionInv, NEW c \in Calls, NEW p \in Tabs, Start(c, p) PROVE SessionInv'
<1>e. /\ call[c] = Idle
      /\ call' \in [Calls -> Call] /\ \A d \in Calls \ {c} : call'[d] = call[d]
      /\ UNCHANGED <<live, expiries, stored, accessToken, isRefreshing, page, doubt>>
      /\ call'[c].tab = p /\ call'[c].phase = "sent"
      /\ call'[c].old = None /\ call'[c].new = None
      /\ \/ call'[c].kind \in {"request", "login"} /\ call'[c].body = None
         \/ call'[c].kind = "logout" /\ call'[c].body = stored
  <2>1. ASSUME NEW k \in {"request", "login", "logout"}
        PROVE /\ NewCall(p, k, "sent") \in Call
              /\ NewCall(p, k, "sent").tab = p /\ NewCall(p, k, "sent").phase = "sent"
              /\ NewCall(p, k, "sent").kind = k
              /\ NewCall(p, k, "sent").old = None /\ NewCall(p, k, "sent").new = None
              /\ NewCall(p, k, "sent").body = None
    BY DEF NewCall, Call, Kind, Phase, Waiting
  <2> DEFINE r == [NewCall(p, "logout", "sent") EXCEPT !.body = stored]
  <2>2. /\ r \in Call /\ r.tab = p /\ r.phase = "sent" /\ r.kind = "logout"
        /\ r.old = None /\ r.new = None /\ r.body = stored
    BY DEF NewCall, Call, Kind, Phase, Waiting, SessionInv, TypeOK
  <2>3. \/ SetCall(c, NewCall(p, "request", "sent"))
        \/ SetCall(c, r)
        \/ SetCall(c, NewCall(p, "login", "sent"))
    BY DEF Start
  <2> HIDE DEF r
  <2>4. CASE SetCall(c, NewCall(p, "request", "sent"))
    BY <2>1, <2>4, SetCallEffect DEF Start
  <2>5. CASE SetCall(c, r)
    BY <2>2, <2>5, SetCallEffect DEF Start
  <2>6. CASE SetCall(c, NewCall(p, "login", "sent"))
    BY <2>1, <2>6, SetCallEffect DEF Start
  <2> QED BY <2>3, <2>4, <2>5, <2>6
<1>1. TypeOK'
  BY <1>e, IdleFields, CallTypes, NoneAssumption, TabsAssumption DEF SessionInv, TypeOK, Waiting
<1>2. CallShape'
  BY <1>e, IdleFields, CallTypes, NoneAssumption, TabsAssumption
     DEF SessionInv, CallShape, TypeOK, Waiting
<1>3. RefreshIsLed'
  BY <1>e, LedUnchanged, IdleFields, TabsAssumption DEF Leads, Same, SessionInv, CallShape, Waiting
<1>4. NewIsPrivate'
  BY <1>e, IdleFields, CallTypes, NoneAssumption, TabsAssumption
     DEF SessionInv, TypeOK, CallShape, NewIsPrivate, Waiting
<1>5. OrphansAreDoubted'
  BY <1>e, IdleFields, CallTypes, NoneAssumption, TabsAssumption
     DEF SessionInv, TypeOK, CallShape, NewIsPrivate, OrphansAreDoubted, Waiting
<1>6. StoredIsUsable'
  BY <1>e, IdleFields, CallTypes, NoneAssumption, TabsAssumption
     DEF SessionInv, TypeOK, CallShape, NewIsPrivate, OrphansAreDoubted, StoredIsUsable,
         Supersedes, IsValid, Waiting
<1> QED BY <1>1, <1>2, <1>3, <1>4, <1>5, <1>6 DEF SessionInv

LEMMA ReloadStep == ASSUME SessionInv, NEW p \in Tabs, Reload(p) PROVE SessionInv'
<1>e. /\ UNCHANGED <<live, expiries, stored>>
      /\ page' \in [Tabs -> Page] /\ accessToken' \in [Tabs -> BOOLEAN]
      /\ isRefreshing' \in [Tabs -> BOOLEAN] /\ ~ isRefreshing'[p]
      /\ \A q \in Tabs \ {p} : isRefreshing'[q] = isRefreshing[q]
      /\ call' \in [Calls -> Call]
      /\ \A c \in Calls :
           \/ call[c].tab # p /\ call'[c] = call[c]
           \/ call[c].tab = p /\ call'[c] = Idle /\ call[c].phase \notin Waiting
           \/ /\ call[c].tab = p /\ call[c].phase \in Waiting
              /\ call'[c].tab = None /\ call'[c].kind = "orphan" /\ call'[c].phase = call[c].phase
              /\ call'[c].body \in {call[c].body, None} /\ call'[c].old = call[c].old /\ call'[c].new = None
      /\ doubt' \in BOOLEAN
      /\ doubt => doubt'
      /\ \A c \in Calls :
           call[c].tab = p /\ stored # None /\ stored \in {call[c].body, call[c].old} => doubt'
  <2>1. ASSUME NEW c \in Calls, call[c].phase \in Waiting
        PROVE /\ Orphaned(call[c]) \in Call
              /\ Orphaned(call[c]).tab = None /\ Orphaned(call[c]).kind = "orphan"
              /\ Orphaned(call[c]).phase = call[c].phase
              /\ Orphaned(call[c]).body \in {call[c].body, None}
              /\ Orphaned(call[c]).old = call[c].old /\ Orphaned(call[c]).new = None
    BY <2>1, CallTypes DEF Orphaned, NewCall, Call, Kind
  <2>2. \A c \in Calls : call[c].phase \notin Waiting => Orphaned(call[c]) = Idle
    BY DEF Orphaned
  <2>3. \A c \in Calls : call[c] \in Call /\ Orphaned(call[c]) \in Call
    BY <2>1, <2>2, CallTypes, IdleFields
  <2>4. call' \in [Calls -> Call]
        /\ \A c \in Calls : call'[c] = IF call[c].tab = p THEN Orphaned(call[c]) ELSE call[c]
    BY <2>3 DEF Reload, CallsOf
  <2>5. \A c \in Calls :
          \/ call[c].tab # p /\ call'[c] = call[c]
          \/ call[c].tab = p /\ call'[c] = Idle /\ call[c].phase \notin Waiting
          \/ /\ call[c].tab = p /\ call[c].phase \in Waiting
             /\ call'[c].tab = None /\ call'[c].kind = "orphan" /\ call'[c].phase = call[c].phase
             /\ call'[c].body \in {call[c].body, None} /\ call'[c].old = call[c].old /\ call'[c].new = None
    BY <2>1, <2>2, <2>4
  <2>6. /\ page' \in [Tabs -> Page] /\ accessToken' \in [Tabs -> BOOLEAN]
        /\ isRefreshing' \in [Tabs -> BOOLEAN] /\ ~ isRefreshing'[p]
        /\ \A q \in Tabs \ {p} : isRefreshing'[q] = isRefreshing[q]
    BY DEF Reload, Page, SessionInv, TypeOK
  <2>7. /\ doubt' \in BOOLEAN /\ (doubt => doubt')
        /\ \A c \in Calls :
             call[c].tab = p /\ stored # None /\ stored \in {call[c].body, call[c].old} => doubt'
    BY DEF Reload, CallsOf, SessionInv, TypeOK
  <2> QED BY <2>4, <2>5, <2>6, <2>7 DEF Reload
<1>1. TypeOK'
  BY <1>e, IdleFields, CallTypes, NoneAssumption, TabsAssumption DEF SessionInv, TypeOK, Waiting
<1>2. CallShape'
  BY <1>e, IdleFields, CallTypes, NoneAssumption, TabsAssumption
     DEF SessionInv, CallShape, TypeOK, Waiting
<1>3. RefreshIsLed'
  <2>1. ASSUME NEW q \in Tabs, q # p PROVE LeadersOf(q)' = LeadersOf(q)
    BY <1>e, <2>1, IdleFields, TabsAssumption DEF LeadersOf, CallsOf, Leads
  <2>2. LeadersOf(p)' = {}
    BY <1>e, IdleFields, TabsAssumption DEF LeadersOf, CallsOf, Leads
  <2>3. \A d \in Calls : call'[d].tab # p
    BY <1>e, IdleFields, TabsAssumption
  <2>4. \A d \in Calls, q \in Tabs : q # p /\ call'[d].tab = q => call'[d] = call[d] /\ call[d].tab = q
    BY <1>e, IdleFields, TabsAssumption
  <2> QED BY <1>e, <2>1, <2>2, <2>3, <2>4 DEF SessionInv, RefreshIsLed, CallsOf
<1>4. NewIsPrivate'
  BY <1>e, IdleFields, CallTypes, NoneAssumption, TabsAssumption
     DEF SessionInv, TypeOK, CallShape, NewIsPrivate, Waiting
<1>5. OrphansAreDoubted'
  BY <1>e, IdleFields, CallTypes, NoneAssumption, TabsAssumption
     DEF SessionInv, TypeOK, CallShape, NewIsPrivate, OrphansAreDoubted, Waiting
<1>6. StoredIsUsable'
  BY <1>e, IdleFields, CallTypes, NoneAssumption, TabsAssumption
     DEF SessionInv, TypeOK, CallShape, NewIsPrivate, OrphansAreDoubted, StoredIsUsable,
         Supersedes, IsValid, Waiting
<1> QED BY <1>1, <1>2, <1>3, <1>4, <1>5, <1>6 DEF SessionInv

LEMMA StoredExpiresStep == ASSUME SessionInv, StoredExpires PROVE SessionInv'
<1>e. /\ stored \in live /\ live' = live \ {stored} /\ doubt' = TRUE
      /\ UNCHANGED <<stored, accessToken, isRefreshing, page, call, expiries>>
  BY DEF StoredExpires, PassDue
<1>1. TypeOK'
  BY <1>e, IdleFields, CallTypes, NoneAssumption, TabsAssumption DEF SessionInv, TypeOK, Waiting
<1>2. CallShape'
  BY <1>e, IdleFields, CallTypes, NoneAssumption, TabsAssumption
     DEF SessionInv, CallShape, TypeOK, Waiting
<1>3. RefreshIsLed'
  BY <1>e, LedUnchanged, IdleFields, TabsAssumption DEF Leads, Same, SessionInv, CallShape, Waiting
<1>4. NewIsPrivate'
  BY <1>e, IdleFields, CallTypes, NoneAssumption, TabsAssumption
     DEF SessionInv, TypeOK, CallShape, NewIsPrivate, Waiting
<1>5. OrphansAreDoubted'
  BY <1>e, IdleFields, CallTypes, NoneAssumption, TabsAssumption
     DEF SessionInv, TypeOK, CallShape, NewIsPrivate, OrphansAreDoubted, Waiting
<1>6. StoredIsUsable'
  BY <1>e, IdleFields, CallTypes, NoneAssumption, TabsAssumption
     DEF SessionInv, TypeOK, CallShape, NewIsPrivate, OrphansAreDoubted, StoredIsUsable,
         Supersedes, IsValid, Waiting
<1> QED BY <1>1, <1>2, <1>3, <1>4, <1>5, <1>6 DEF SessionInv

LEMMA InitSession == Init => SessionInv
<1> SUFFICES ASSUME Init PROVE SessionInv
  OBVIOUS
<1>1. \A c \in Calls : call[c] = Idle
  BY DEF Init
<1>2. call \in [Calls -> Call]
  BY IdleFields DEF Init
<1>3. \A c \in Calls : call[c].phase \notin {"exchange", "checked", "granted"}
  BY <1>1, IdleFields
<1>4. expiries \in 0 .. MaxExpiries /\ page \in [Tabs -> Page]
  BY ExpiriesAssumption DEF Init, Page
<1>5. TypeOK
  BY <1>2, <1>3, <1>4 DEF Init, TypeOK
<1> QED BY <1>1, <1>5, IdleFields, NoneAssumption, TabsAssumption
        DEF Init, SessionInv, CallShape, RefreshIsLed, LeadersOf, CallsOf, Leads, NewIsPrivate,
            OrphansAreDoubted, StoredIsUsable

LEMMA NextSession == SessionInv /\ [Next]_vars => SessionInv'
<1> SUFFICES ASSUME SessionInv, [Next]_vars PROVE SessionInv'
  OBVIOUS
<1>1. ASSUME NEW c \in Calls, NEW p \in Tabs, Mount(c, p) \/ Start(c, p) PROVE SessionInv'
  BY <1>1, MountStep, StartStep
<1>2. ASSUME NEW c \in Calls, ServerStep(c) PROVE SessionInv'
  BY <1>2, ServeAuthorizedStep, ServeLoginStep, ServeUnauthorizedStep, RefreshLookupStep,
     RefreshCommitStep DEF ServerStep
<1>3. ASSUME NEW c \in Calls, HandleStep(c) PROVE SessionInv'
  BY <1>3, HandleOkStep, HandleFailedStep, HandleQueueStep, HandleNoTokenStep, HandleExchangeStep,
     HandleGrantedStep, HandleRefusedStep DEF HandleStep
<1>4. ASSUME NEW c \in Calls, Lose(c) PROVE SessionInv'
  BY <1>4, LoseStep
<1>5. ASSUME NEW p \in Tabs, Reload(p) PROVE SessionInv'
  BY <1>5, ReloadStep
<1>6. CASE StoredExpires
  BY <1>6, StoredExpiresStep
<1>7. CASE UNCHANGED vars
  BY <1>7
     DEF vars, clientVars, SessionInv, TypeOK, CallShape, RefreshIsLed, LeadersOf, CallsOf, Leads,
     NewIsPrivate, OrphansAreDoubted, StoredIsUsable, Supersedes, IsValid
<1> QED BY <1>1, <1>2, <1>3, <1>4, <1>5, <1>6, <1>7 DEF Next

LEMMA SessionInvariant == Spec => []SessionInv
<1>1. Init => SessionInv
  BY InitSession
<1>2. SessionInv /\ [Next]_vars => SessionInv'
  BY NextSession
<1> QED BY <1>1, <1>2, PTL DEF Spec

\* Calls, tabs and tokens keep their types, and an exchange always presents a token
\* (HandleExchange looks for one first).
THEOREM SessionTypes == Spec => []TypeOK
<1>1. SessionInv => TypeOK
  BY DEF SessionInv
<1> QED BY <1>1, SessionInvariant, PTL

\* isRefreshing of a tab and its failedQueue never get stuck: the flag is up exactly while
\* one call leads an exchange, and only then does a call wait.
THEOREM RefreshIsAlwaysLed == Spec => []RefreshIsLed
<1>1. SessionInv => RefreshIsLed
  BY DEF SessionInv
<1> QED BY <1>1, SessionInvariant, PTL

\* Tabs that share localStorage do not keep a token that the server has revoked, but for
\* an answer on its way or a page that went away.
THEOREM StoredIsAlwaysUsable == Spec => []StoredIsUsable
<1>1. SessionInv => StoredIsUsable
  BY DEF SessionInv
<1> QED BY <1>1, SessionInvariant, PTL
=============================================================================

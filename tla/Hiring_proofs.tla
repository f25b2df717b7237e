---------------------------- MODULE Hiring_proofs ----------------------------
(*************************************************************************)
(* Applications, interviews, the screening and ranking of candidates,    *)
(* and the demo data; each for any number of requests.                   *)
(*************************************************************************)
EXTENDS Applications, Interviews, Screenings, DemoData, FiniteSetTheorems, TLAPS

\* Applications.

Act ==
  [op : {"idle", "done", "apply"}]
  \cup [op : {"withdraw"},
        seen : [status : {"applied", "withdrawn"} \cup Settable, by : Nat]]
  \cup [op : {"status"}, status : Settable]

ApplicationTypes ==
  /\ posting \in Postings \cup {"none"}
  /\ application \in [status : {"none", "applied"} \cup Settable, by : Nat]
  /\ notices \subseteq [at : Acts, says : Settable]
  /\ acts \in [Acts -> Act]
  /\ late \in BOOLEAN

\* A request sends one notification, when it is over.
SentOnce ==
  /\ \A n \in notices : acts[n.at].op = "done"
  /\ \A n, m \in notices : n.at = m.at => n = m

\* Withdrawing passes its check only before a decision.
SeenUndecided == \A a \in Acts : acts[a].op = "withdraw" => acts[a].seen.status \notin Decisions

\* NewestNoticeIsTrue without the choice: some notification is the newest and tells the status.
ToldLast ==
  application.status \notin {"none", "applied", "withdrawn"} /\ ~ late =>
    \E n \in notices : n.says = application.status /\ \A m \in notices : m.at <= n.at

ApplicationInv == ApplicationTypes /\ SentOnce /\ SeenUndecided /\ ToldLast

LEMMA ActFields ==
  /\ [op |-> "done"] \in Act /\ [op |-> "done"].op = "done"
  /\ [op |-> "apply"] \in Act /\ [op |-> "apply"].op = "apply"
  /\ \A s \in Settable : /\ [op |-> "status", status |-> s] \in Act
                         /\ [op |-> "status", status |-> s].op = "status"
  /\ \A a \in Act : a.op = "status" => a.status \in Settable
BY DEF Act

\* What opening and ending a request changes of the others: nothing.
LEMMA OneActChanges ==
  ASSUME ApplicationTypes, NEW a \in Acts, NEW act \in Act, Open(a, act) \/ (Over(a) /\ act = [op |-> "done"])
  PROVE  /\ acts' \in [Acts -> Act]
         /\ acts'[a] = act
         /\ \A b \in Acts \ {a} : acts'[b] = acts[b]
BY DEF ApplicationTypes, Open, Over

\* A step that opens a request or ends it, and sends no notification.
LEMMA SilentStep ==
  ASSUME ApplicationInv, NEW a \in Acts, NEW act \in Act,
         Open(a, act) \/ (Over(a) /\ act = [op |-> "done"]),
         acts[a].op # "done",
         act.op = "withdraw" => act.seen.status \notin Decisions,
         posting' \in Postings \cup {"none"},
         UNCHANGED <<notices, late>>,
         application' = application
           \/ application' \in [status : {"none", "applied", "withdrawn"}, by : Nat]
  PROVE  ApplicationInv'
<1>1. /\ acts' \in [Acts -> Act] /\ acts'[a] = act
      /\ \A b \in Acts \ {a} : acts'[b] = acts[b]
  BY OneActChanges DEF ApplicationInv
<1>2. ApplicationTypes'
  BY <1>1 DEF ApplicationInv, ApplicationTypes, Settable
<1>3. SentOnce'
  BY <1>1 DEF ApplicationInv, ApplicationTypes, SentOnce
<1>4. SeenUndecided'
  BY <1>1 DEF ApplicationInv, SeenUndecided
<1>5. ToldLast'
  BY DEF ApplicationInv, ToldLast
<1> QED BY <1>2, <1>3, <1>4, <1>5 DEF ApplicationInv

LEMMA StatusStep == ASSUME ApplicationInv, NEW a \in Acts, StatusCommit(a) PROVE ApplicationInv'
<1>1. CASE application = NoApplication
  <2>1. Over(a) /\ UNCHANGED <<posting, application, notices, late>> /\ acts[a].op # "done"
    BY <1>1 DEF StatusCommit, Undone
  <2> QED BY <2>1, ActFields, SilentStep DEF ApplicationInv, ApplicationTypes
<1>2. CASE application # NoApplication
  <2> DEFINE n == [at |-> a, says |-> acts[a].status]
  <2>1. /\ acts[a].op = "status" /\ acts[a].status \in Settable
        /\ application' = [status |-> acts[a].status, by |-> a]
        /\ notices' = notices \cup {n}
        /\ late' = (late \/ \E m \in notices : m.at > a)
        /\ Over(a) /\ UNCHANGED posting
    BY <1>2, ActFields DEF StatusCommit, ApplicationInv, ApplicationTypes
  <2>2. /\ acts' \in [Acts -> Act] /\ acts'[a] = [op |-> "done"]
        /\ \A b \in Acts \ {a} : acts'[b] = acts[b]
    BY <2>1, ActFields, OneActChanges DEF ApplicationInv
  <2>3. n \in [at : Acts, says : Settable] /\ n.at = a /\ n.says = acts[a].status
    BY <2>1
  <2>4. application'.status = acts[a].status /\ application' \in [status : Settable, by : Nat]
    BY <2>1 DEF Acts
  <2> HIDE DEF n
  <2>5. ApplicationTypes'
    BY <2>1, <2>2, <2>3, <2>4 DEF ApplicationInv, ApplicationTypes
  <2>6. SentOnce'
    BY <2>1, <2>2, <2>3 DEF ApplicationInv, ApplicationTypes, SentOnce
  <2>7. SeenUndecided'
    BY <2>2 DEF ApplicationInv, SeenUndecided
  <2>8. ToldLast'
    <3>1. ~ late' => \A m \in notices : ~ (m.at > a)
      BY <2>1, Zenon
    <3>2. \A m \in notices : m.at \in Nat /\ a \in Nat
      BY DEF ApplicationInv, ApplicationTypes, Acts
    <3>3. ~ late' => \A m \in notices : m.at <= a
      BY <3>1, <3>2
    <3> QED BY <2>1, <2>3, <2>4, <3>3 DEF ToldLast, Acts
  <2> QED BY <2>5, <2>6, <2>7, <2>8 DEF ApplicationInv
<1> QED BY <1>1, <1>2

LEMMA NextApplication == ApplicationInv /\ [ApplicationNext]_applicationVars => ApplicationInv'
<1> SUFFICES ASSUME ApplicationInv, [ApplicationNext]_applicationVars PROVE ApplicationInv'
  OBVIOUS
<1> USE DEF ApplicationInv, ApplicationTypes
<1>1. ASSUME NEW a \in Acts, NEW status \in Postings, SetPosting(a, status) PROVE ApplicationInv'
  BY <1>1, ActFields, SilentStep DEF SetPosting, Begins
<1>2. ASSUME NEW a \in Acts, DeletePosting(a) PROVE ApplicationInv'
  BY <1>2, ActFields, SilentStep DEF DeletePosting, Begins, NoApplication
<1>3. ASSUME NEW a \in Acts, ApplyRead(a) PROVE ApplicationInv'
  BY <1>3, ActFields, SilentStep DEF ApplyRead, Begins
<1>4. ASSUME NEW a \in Acts, ApplyCommit(a) PROVE ApplicationInv'
  <2>1. Over(a) /\ UNCHANGED <<posting, notices, late>> /\ acts[a].op # "done"
    BY <1>4 DEF ApplyCommit, Undone
  <2>2. application' = application \/ application' \in [status : {"none", "applied", "withdrawn"}, by : Nat]
    BY <1>4 DEF ApplyCommit, Undone, Acts
  <2> QED BY <2>1, <2>2, ActFields, SilentStep
<1>5. ASSUME NEW a \in Acts, WithdrawRead(a) PROVE ApplicationInv'
  <2> DEFINE act == [op |-> "withdraw", seen |-> application]
  <2>1. act \in Act /\ act.op = "withdraw" /\ act.seen.status \notin Decisions
    BY <1>5 DEF WithdrawRead, Act
  <2>2. Open(a, act) /\ acts[a].op # "done" /\ UNCHANGED <<posting, application, notices, late>>
    BY <1>5 DEF WithdrawRead, Begins
  <2> HIDE DEF act
  <2> QED BY <2>1, <2>2, SilentStep
<1>6. ASSUME NEW a \in Acts, WithdrawCommit(a) PROVE ApplicationInv'
  <2>1. Over(a) /\ UNCHANGED <<posting, notices, late>> /\ acts[a].op # "done"
    BY <1>6 DEF WithdrawCommit, Undone
  <2>2. application' = application \/ application' \in [status : {"none", "applied", "withdrawn"}, by : Nat]
    BY <1>6 DEF WithdrawCommit, Undone, Acts
  <2> QED BY <2>1, <2>2, ActFields, SilentStep
<1>7. ASSUME NEW a \in Acts, NEW status \in Settable, StatusRead(a, status) PROVE ApplicationInv'
  BY <1>7, ActFields, SilentStep DEF StatusRead, Begins
<1>8. ASSUME NEW a \in Acts, StatusCommit(a) PROVE ApplicationInv'
  BY <1>8, StatusStep
<1>9. CASE UNCHANGED applicationVars
  BY <1>9 DEF applicationVars, SentOnce, SeenUndecided, ToldLast
<1> QED BY <1>1, <1>2, <1>3, <1>4, <1>5, <1>6, <1>7, <1>8, <1>9 DEF ApplicationNext

LEMMA ApplicationInvariant == ApplicationSpec => []ApplicationInv
<1>1. ApplicationInit => ApplicationInv
  <2> SUFFICES ASSUME ApplicationInit PROVE ApplicationInv
    OBVIOUS
  <2>1. \A a \in Acts : acts[a].op = "idle"
    BY DEF ApplicationInit
  <2>2. acts \in [Acts -> Act]
    BY DEF ApplicationInit, Act
  <2>3. ApplicationTypes
    BY <2>2 DEF ApplicationInit, NoApplication, ApplicationTypes, Postings
  <2> QED BY <2>1, <2>3 DEF ApplicationInit, NoApplication, ApplicationInv, SentOnce, SeenUndecided, ToldLast
<1> QED BY <1>1, NextApplication, PTL DEF ApplicationSpec

\* The newest notification of a candidate tells the status given last, unless a request that
\* began earlier wrote later (created_at is the time at which a transaction begins).
THEOREM NewestNoticeIsTrueHolds == ApplicationSpec => []NewestNoticeIsTrue
<1>1. ApplicationInv => NewestNoticeIsTrue
  <2> SUFFICES ASSUME ApplicationInv, application.status \notin {"none", "applied", "withdrawn"}, ~ late
               PROVE  notices # {} /\ NewestNotice.says = application.status
    BY DEF NewestNoticeIsTrue
  <2>1. PICK n \in notices : n.says = application.status /\ \A m \in notices : m.at <= n.at
    BY DEF ApplicationInv, ToldLast
  <2>2. NewestNotice \in notices /\ \A m \in notices : m.at <= NewestNotice.at
    BY <2>1 DEF NewestNotice
  <2>3. NewestNotice.at <= n.at /\ n.at <= NewestNotice.at
    BY <2>1, <2>2
  <2>4. NewestNotice.at \in Nat /\ n.at \in Nat
    BY <2>1, <2>2 DEF ApplicationInv, ApplicationTypes, Acts
  <2> HIDE DEF NewestNotice
  <2>5. NewestNotice.at = n.at
    BY <2>3, <2>4
  <2> QED BY <2>1, <2>2, <2>5 DEF ApplicationInv, SentOnce
<1> QED BY <1>1, ApplicationInvariant, PTL

\* A decision is withdrawn only by a candidate who had passed the check of
\* withdraw_application before it was written.
THEOREM DecisionsStandAlways == ApplicationSpec => DecisionsStand
<1>1. ApplicationInv =>
        (application.status \in Decisions /\ application'.status = "withdrawn" =>
           \A a \in Acts : acts[a].op = "withdraw" /\ acts'[a].op = "done" => acts[a].seen # application)
  BY DEF ApplicationInv, SeenUndecided
<1> QED BY <1>1, ApplicationInvariant, PTL DEF DecisionsStand

----------------------------------------------------------------------------
\* Interviews.

Card == [written : BOOLEAN, over : SUBSET Topics, notes : Nat]

Talk ==
  [op : {"idle", "done"}]
  \cup [op : {"answer"}, question : Topics, answered : Nat]
  \cup [op : {"score"}, over : SUBSET Topics, seen : Card, notes : Nat]
  \cup [op : {"notes"}, seen : Card, notes : Nat \ {0}]

InterviewTypes ==
  /\ interview \in [status : {"in_progress", "scheduled", "completed"}, answered : Nat]
  /\ replies \subseteq Topics
  /\ card \in Card
  /\ talks \in [Talks -> Talk]
  /\ past \in [ended : BOOLEAN, raced : BOOLEAN, crossed : BOOLEAN, noted : Nat,
               scored : SUBSET Topics]

\* A request that stores an answer has not read more than was stored.
ReadBehind ==
  \A t \in Talks : talks[t].op = "answer" => talks[t].answered <= Cardinality(replies)

\* A scorecard is computed from answers, and from all that the one it replaces was.
CardGrows ==
  /\ card.over \subseteq replies
  /\ \A t \in Talks :
       talks[t].op = "score" => talks[t].over \subseteq replies /\ talks[t].seen.over \subseteq talks[t].over

InterviewInv == InterviewTypes /\ ReadBehind /\ CountedOnce /\ CardGrows /\ CardKeepsNotes

LEMMA TalkFields ==
  /\ [op |-> "done"] \in Talk /\ [op |-> "done"].op = "done"
  /\ \A k \in Talk :
       /\ k.op = "answer" => k.question \in Topics /\ k.answered \in Nat
       /\ k.op = "score" => k.over \in SUBSET Topics /\ k.seen \in Card /\ k.notes \in Nat
       /\ k.op = "notes" => k.seen \in Card /\ k.notes \in Nat \ {0}
BY DEF Talk

LEMMA CardFields ==
  ASSUME NEW d \in Card
  PROVE  d.written \in BOOLEAN /\ d.over \in SUBSET Topics /\ d.notes \in Nat
BY DEF Card

LEMMA OneTalkChanges ==
  ASSUME InterviewTypes, NEW t \in Talks, NEW talk \in Talk, Await(t, talk) \/ (Ends(t) /\ talk = [op |-> "done"])
  PROVE  /\ talks' \in [Talks -> Talk]
         /\ talks'[t] = talk
         /\ \A u \in Talks \ {t} : talks'[u] = talks[u]
BY DEF InterviewTypes, Await, Ends

\* How many answers there are.
LEMMA Counting ==
  ASSUME InterviewTypes
  PROVE  /\ IsFiniteSet(replies) /\ Cardinality(replies) \in Nat /\ Cardinality(Topics) \in Nat
         /\ Cardinality(replies) <= Cardinality(Topics)
         /\ Cardinality(replies) = Cardinality(Topics) => replies = Topics
         /\ \A q \in Topics \ replies : Cardinality(replies \cup {q}) = Cardinality(replies) + 1
<1>1. IsFiniteSet(replies) /\ Cardinality(replies) <= Cardinality(Topics)
  BY TopicsAssumption, FS_Subset DEF InterviewTypes
<1>2. Cardinality(replies) = Cardinality(Topics) => replies = Topics
  BY TopicsAssumption, FS_Subset DEF InterviewTypes
<1>3. Cardinality(replies) \in Nat /\ Cardinality(Topics) \in Nat
  BY <1>1, TopicsAssumption, FS_CardinalityType
<1>4. \A q \in Topics \ replies : Cardinality(replies \cup {q}) = Cardinality(replies) + 1
  BY <1>1, FS_AddElement
<1> QED BY <1>1, <1>2, <1>3, <1>4

\* A step that reads for a request, or ends one, and changes no row.
LEMMA ReadingStep ==
  ASSUME InterviewInv, NEW t \in Talks, NEW talk \in Talk,
         Await(t, talk) \/ (Ends(t) /\ talk = [op |-> "done"]),
         talk.op = "answer" => talk.answered = interview.answered,
         talk.op = "score" => talk.over = replies /\ talk.seen = card,
         UNCHANGED <<interview, replies, card, past>>
  PROVE  InterviewInv'
<1>1. /\ talks' \in [Talks -> Talk] /\ talks'[t] = talk
      /\ \A u \in Talks \ {t} : talks'[u] = talks[u]
  BY OneTalkChanges DEF InterviewInv
<1>2. InterviewTypes'
  BY <1>1 DEF InterviewInv, InterviewTypes
<1>3. ReadBehind'
  BY <1>1 DEF InterviewInv, ReadBehind, CountedOnce
<1>4. CountedOnce' /\ CardKeepsNotes'
  BY DEF InterviewInv, CountedOnce, CardKeepsNotes
<1>5. CardGrows'
  BY <1>1 DEF InterviewInv, CardGrows
<1> QED BY <1>2, <1>3, <1>4, <1>5 DEF InterviewInv

LEMMA FailStep == ASSUME InterviewInv, NEW t \in Talks, Fail(t) PROVE InterviewInv'
BY TalkFields, ReadingStep DEF Fail

LEMMA ReplyStep == ASSUME InterviewInv, NEW t \in Talks, ReplyCommit(t) PROVE InterviewInv'
<1>1. CASE talks[t].question \in replies
  BY <1>1, FailStep DEF ReplyCommit
<1>2. CASE talks[t].question \notin replies
  <2> DEFINE q == talks[t].question
             a == talks[t].answered
  <2>1. q \in Topics \ replies /\ a \in Nat /\ a <= Cardinality(replies)
    BY <1>2, TalkFields DEF ReplyCommit, InterviewInv, InterviewTypes, ReadBehind
  <2>2. /\ Cardinality(Topics) \in Nat /\ Cardinality(replies) \in Nat
        /\ Cardinality(replies \cup {q}) = Cardinality(replies) + 1
        /\ interview.answered \in Nat /\ past.raced \in BOOLEAN
    BY <2>1, Counting DEF InterviewInv, InterviewTypes
  <2>3. /\ replies' = replies \cup {q}
        /\ interview' = [status   |-> IF a + 1 >= Cardinality(Topics) THEN "completed" ELSE interview.status,
                         answered |-> a + 1]
        /\ past' = [past EXCEPT !.raced = @ \/ a # interview.answered]
        /\ UNCHANGED card
    BY <1>2 DEF ReplyCommit, Counted
  <2>4. /\ talks' \in [Talks -> Talk] /\ talks'[t] = [op |-> "done"]
        /\ \A u \in Talks \ {t} : talks'[u] = talks[u]
    BY <1>2, TalkFields, OneTalkChanges DEF ReplyCommit, InterviewInv
  <2> HIDE DEF q, a
  <2>5. /\ a + 1 >= Cardinality(Topics) => interview'.status = "completed"
        /\ ~ (a + 1 >= Cardinality(Topics)) => interview'.status = interview.status
        /\ interview'.answered = a + 1
        /\ interview' \in [status : {"in_progress", "scheduled", "completed"}, answered : Nat]
    BY <2>1, <2>3 DEF InterviewInv, InterviewTypes
  <2>6. /\ past'.raced <=> past.raced \/ a # interview.answered
        /\ past'.ended = past.ended /\ past'.crossed = past.crossed
        /\ past'.noted = past.noted /\ past'.scored = past.scored
        /\ past' \in [ended : BOOLEAN, raced : BOOLEAN, crossed : BOOLEAN, noted : Nat,
                      scored : SUBSET Topics]
    BY <2>3 DEF InterviewInv, InterviewTypes
  <2>7. replies' \subseteq Topics /\ Cardinality(replies') = Cardinality(replies) + 1
    BY <2>1, <2>2, <2>3 DEF InterviewInv, InterviewTypes
  <2>8. InterviewTypes'
    BY <2>3, <2>4, <2>5, <2>6, <2>7 DEF InterviewInv, InterviewTypes
  <2>9. /\ Cardinality(replies') <= Cardinality(Topics)
        /\ Cardinality(replies') = Cardinality(Topics) => replies' = Topics
    BY <2>7, TopicsAssumption, FS_Subset
  <2>10. ReadBehind'
    <3> SUFFICES ASSUME NEW u \in Talks, talks'[u].op = "answer"
                 PROVE  talks'[u].answered <= Cardinality(replies')
      BY DEF ReadBehind
    <3>1. talks'[u] = talks[u]
      BY <2>4, TalkFields
    <3>2. talks[u].answered \in Nat /\ talks[u].answered <= Cardinality(replies)
      BY <3>1, TalkFields DEF InterviewInv, InterviewTypes, ReadBehind
    <3> QED BY <2>2, <2>7, <3>1, <3>2
  <2>11. CountedOnce'
    <3>1. interview'.answered <= Cardinality(replies')
      BY <2>1, <2>2, <2>5, <2>7
    <3>2. ASSUME interview'.status = "completed" PROVE past'.ended \/ replies' = Topics
      <4>1. CASE a + 1 >= Cardinality(Topics)
        BY <2>1, <2>2, <2>7, <2>9, <4>1
      <4>2. CASE ~ (a + 1 >= Cardinality(Topics))
        <5>1. replies # Topics /\ interview.status = "completed"
          BY <2>1, <2>5, <3>2, <4>2
        <5> QED BY <2>6, <5>1 DEF InterviewInv, CountedOnce
      <4> QED BY <4>1, <4>2
    <3>3. ASSUME ~ past'.raced
          PROVE /\ interview'.answered = Cardinality(replies')
                /\ replies' = Topics => interview'.status = "completed"
      <4>1. a = interview.answered /\ ~ past.raced
        BY <2>6, <3>3
      <4>2. a = Cardinality(replies)
        BY <4>1 DEF InterviewInv, CountedOnce
      <4> QED BY <2>1, <2>2, <2>5, <2>7, <4>2
    <3> QED BY <3>1, <3>2, <3>3 DEF CountedOnce
  <2>12. CardGrows'
    BY <2>3, <2>4 DEF InterviewInv, CardGrows
  <2>13. CardKeepsNotes'
    BY <2>3, <2>6 DEF InterviewInv, CardKeepsNotes
  <2> QED BY <2>8, <2>10, <2>11, <2>12, <2>13 DEF InterviewInv
<1> QED BY <1>1, <1>2

LEMMA CompleteStep == ASSUME InterviewInv, NEW t \in Talks, CompleteInterview(t) PROVE InterviewInv'
<1>1. /\ interview'.status = "completed" /\ interview'.answered = interview.answered
      /\ past'.ended /\ past'.raced = past.raced /\ past'.crossed = past.crossed
      /\ past'.noted = past.noted /\ past'.scored = past.scored
      /\ UNCHANGED <<replies, card>>
  BY DEF CompleteInterview, InterviewInv, InterviewTypes
<1>2. /\ talks' \in [Talks -> Talk] /\ talks'[t] = [op |-> "done"]
      /\ \A u \in Talks \ {t} : talks'[u] = talks[u]
  BY TalkFields, OneTalkChanges DEF CompleteInterview, InterviewInv
<1>3. InterviewTypes'
  BY <1>1, <1>2 DEF CompleteInterview, InterviewInv, InterviewTypes
<1>4. ReadBehind' /\ CardGrows'
  BY <1>1, <1>2 DEF InterviewInv, ReadBehind, CardGrows
<1>5. CountedOnce' /\ CardKeepsNotes'
  BY <1>1 DEF InterviewInv, CountedOnce, CardKeepsNotes
<1> QED BY <1>3, <1>4, <1>5 DEF InterviewInv

\* The scorecard, from answers that there are: over is more than the seen one had.
LEMMA WriteStep ==
  ASSUME InterviewInv, NEW t \in Talks, NEW over, NEW notes \in Nat, NEW noted \in Nat,
         talks[t].seen \in Card,
         over \subseteq replies,
         card = talks[t].seen => card.over \subseteq over,
         card = talks[t].seen /\ card.notes = past.noted => notes = noted,
         WriteCard(t, over, notes, noted)
  PROVE  InterviewInv'
<1>1. CASE card.written /\ ~ talks[t].seen.written
  BY <1>1, FailStep DEF WriteCard
<1>2. CASE ~ (card.written /\ ~ talks[t].seen.written)
  <2>1. /\ card' = [written |-> TRUE, over |-> over, notes |-> notes]
        /\ past' = [past EXCEPT !.crossed = @ \/ card # talks[t].seen,
                                !.noted = noted, !.scored = @ \cup over]
        /\ Ends(t) /\ UNCHANGED <<interview, replies>>
    BY <1>2 DEF WriteCard
  <2>2. /\ card'.over = over /\ card'.notes = notes /\ card' \in Card
    BY <2>1 DEF Card, InterviewInv, InterviewTypes
  <2>3. /\ past'.crossed <=> past.crossed \/ card # talks[t].seen
        /\ past'.ended = past.ended /\ past'.raced = past.raced
        /\ past'.noted = noted /\ past'.scored = past.scored \cup over
        /\ past' \in [ended : BOOLEAN, raced : BOOLEAN, crossed : BOOLEAN, noted : Nat,
                      scored : SUBSET Topics]
    BY <2>1 DEF InterviewInv, InterviewTypes
  <2>4. /\ talks' \in [Talks -> Talk] /\ talks'[t] = [op |-> "done"]
        /\ \A u \in Talks \ {t} : talks'[u] = talks[u]
    BY <2>1, TalkFields, OneTalkChanges DEF InterviewInv
  <2>5. InterviewTypes'
    BY <2>1, <2>2, <2>3, <2>4 DEF InterviewInv, InterviewTypes
  <2>6. ReadBehind' /\ CardGrows'
    BY <2>1, <2>2, <2>4 DEF InterviewInv, ReadBehind, CardGrows
  <2>7. CountedOnce'
    BY <2>1, <2>3 DEF InterviewInv, CountedOnce
  <2>8. CardKeepsNotes'
    <3> SUFFICES ASSUME ~ past'.crossed PROVE card'.notes = past'.noted /\ past'.scored \subseteq card'.over
      BY DEF CardKeepsNotes
    <3>1. card = talks[t].seen /\ card.notes = past.noted /\ past.scored \subseteq card.over
      BY <2>3 DEF InterviewInv, CardKeepsNotes
    <3> QED BY <2>2, <2>3, <3>1
  <2> QED BY <2>5, <2>6, <2>7, <2>8 DEF InterviewInv
<1> QED BY <1>1, <1>2

LEMMA ScoreStep == ASSUME InterviewInv, NEW t \in Talks, ScoreCommit(t) PROVE InterviewInv'
<1>1. /\ talks[t].op = "score" /\ talks[t].over \in SUBSET Topics
      /\ talks[t].seen \in Card /\ talks[t].notes \in Nat
  BY TalkFields DEF ScoreCommit, InterviewInv, InterviewTypes
<1>2. talks[t].over \subseteq replies /\ talks[t].seen.over \subseteq talks[t].over
  BY <1>1 DEF InterviewInv, CardGrows
<1>3. PICK notes \in Nat : notes = IF talks[t].notes # NoNotes THEN talks[t].notes ELSE talks[t].seen.notes
  BY <1>1, CardFields
<1>4. PICK noted \in Nat : noted = Noted(t)
  BY <1>1 DEF Noted, InterviewInv, InterviewTypes
<1>5. WriteCard(t, talks[t].over, notes, noted)
  BY <1>3, <1>4 DEF ScoreCommit
<1>6. card = talks[t].seen /\ card.notes = past.noted => notes = noted
  BY <1>3, <1>4 DEF Noted
<1> QED BY <1>1, <1>2, <1>5, <1>6, WriteStep

LEMMA NotesStep == ASSUME InterviewInv, NEW t \in Talks, NotesCommit(t) PROVE InterviewInv'
<1>1. talks[t].op = "notes" /\ talks[t].seen \in Card /\ talks[t].notes \in Nat \ {0}
  BY TalkFields DEF NotesCommit, InterviewInv, InterviewTypes
<1>2. Noted(t) = talks[t].notes
  BY <1>1 DEF Noted, NoNotes
<1>3. WriteCard(t, card.over, talks[t].notes, talks[t].notes)
  BY <1>2 DEF NotesCommit
<1>4. card.over \subseteq replies
  BY DEF InterviewInv, CardGrows
<1> QED BY <1>1, <1>3, <1>4, WriteStep

LEMMA NextInterview == InterviewInv /\ [InterviewNext]_interviewVars => InterviewInv'
<1> SUFFICES ASSUME InterviewInv, [InterviewNext]_interviewVars PROVE InterviewInv'
  OBVIOUS
<1>1. ASSUME NEW t \in Talks, NEW q \in Topics, ReplyRead(t, q) PROVE InterviewInv'
  <2> DEFINE talk == [op |-> "answer", question |-> q, answered |-> interview.answered]
  <2>1. talk \in Talk /\ talk.op = "answer" /\ talk.answered = interview.answered
    BY DEF Talk, InterviewInv, InterviewTypes
  <2>2. Await(t, talk) /\ UNCHANGED <<interview, replies, card, past>>
    BY <1>1 DEF ReplyRead
  <2> HIDE DEF talk
  <2> QED BY <2>1, <2>2, ReadingStep
<1>2. ASSUME NEW t \in Talks, NEW notes \in {NoNotes, t}, ScoreRead(t, notes) PROVE InterviewInv'
  <2> DEFINE talk == [op |-> "score", over |-> replies, seen |-> card, notes |-> notes]
  <2>1. notes \in Nat
    BY DEF NoNotes, Talks
  <2>2. talk \in Talk /\ talk.op = "score" /\ talk.over = replies /\ talk.seen = card
    BY <2>1 DEF Talk, InterviewInv, InterviewTypes
  <2>3. Await(t, talk) /\ UNCHANGED <<interview, replies, card, past>>
    BY <1>2 DEF ScoreRead
  <2> HIDE DEF talk
  <2> QED BY <2>2, <2>3, ReadingStep
<1>3. ASSUME NEW t \in Talks, NotesRead(t) PROVE InterviewInv'
  <2> DEFINE talk == [op |-> "notes", seen |-> card, notes |-> t]
  <2>1. talk \in Talk /\ talk.op = "notes"
    BY DEF Talk, InterviewInv, InterviewTypes, Talks
  <2>2. Await(t, talk) /\ UNCHANGED <<interview, replies, card, past>>
    BY <1>3 DEF NotesRead
  <2> HIDE DEF talk
  <2> QED BY <2>1, <2>2, ReadingStep
<1>4. CASE UNCHANGED interviewVars
  BY <1>4 DEF interviewVars, InterviewInv, InterviewTypes, ReadBehind, CountedOnce, CardGrows, CardKeepsNotes
<1> QED BY <1>1, <1>2, <1>3, <1>4, ReplyStep, CompleteStep, ScoreStep, NotesStep DEF InterviewNext

LEMMA InitInterview == InterviewInit => InterviewInv
<1> SUFFICES ASSUME InterviewInit PROVE InterviewInv
  OBVIOUS
<1>1. /\ replies = {} /\ Cardinality(replies) = 0 /\ replies # Topics
      /\ interview.answered = 0 /\ interview.status # "completed"
  BY TopicsAssumption, FS_EmptySet DEF InterviewInit
<1>2. talks \in [Talks -> Talk] /\ \A t \in Talks : talks[t].op = "idle"
  BY DEF InterviewInit, Talk
<1>3. card \in Card /\ card.over = {} /\ card.notes = 0
  BY DEF InterviewInit, NoCard, NoNotes, Card
<1>4. /\ past \in [ended : BOOLEAN, raced : BOOLEAN, crossed : BOOLEAN, noted : Nat, scored : SUBSET Topics]
      /\ past.noted = 0 /\ past.scored = {}
  BY DEF InterviewInit, NoNotes
<1>5. interview \in [status : {"in_progress", "scheduled", "completed"}, answered : Nat]
  BY DEF InterviewInit
<1>6. InterviewTypes
  BY <1>1, <1>2, <1>3, <1>4, <1>5 DEF InterviewTypes
<1> QED BY <1>1, <1>2, <1>3, <1>4, <1>6
        DEF InterviewInv, ReadBehind, CountedOnce, CardGrows, CardKeepsNotes

LEMMA InterviewInvariant == InterviewSpec => []InterviewInv
BY InitInterview, NextInterview, PTL DEF InterviewSpec

\* The counter of answered questions, written from a read, never runs ahead of the answers;
\* it ends an interview only when all are answered, and falls behind only when answers race.
THEOREM CountedOnceHolds == InterviewSpec => []CountedOnce
<1>1. InterviewInv => CountedOnce
  BY DEF InterviewInv
<1> QED BY <1>1, InterviewInvariant, PTL

\* Computing a scorecard again keeps the notes and the answers of the one it replaces,
\* unless it crossed another write of it.
THEOREM CardKeepsNotesHolds == InterviewSpec => []CardKeepsNotes
<1>1. InterviewInv => CardKeepsNotes
  BY DEF InterviewInv
<1> QED BY <1>1, InterviewInvariant, PTL

----------------------------------------------------------------------------
\* Screening and ranking.

\* Scores of finitely many candidates.
Scored(sc) == sc \in [DOMAIN sc -> MatchScores] /\ IsFiniteSet(DOMAIN sc)

\* Rankings that are those of the scores sc.
Ranks(rk, sc) ==
  /\ DOMAIN rk = DOMAIN sc
  /\ {rk[c].rank : c \in DOMAIN rk} = 1..Cardinality(DOMAIN rk)
  /\ \A c, d \in DOMAIN rk :
       /\ rk[c].score = sc[c]
       /\ sc[c] > sc[d] => rk[c].rank < rk[d].rank

\* What a request has read are the rankings of scores sc, and what it has computed are
\* those of the same scores with its own.
ComputedFrom(w, sc) == Scored(sc) /\ Ranks(w.old, sc) /\ Ranks(w.new, Overlaid(w.written, sc))

ScreeningInv ==
  /\ Scored(scores)
  /\ screening = [s \in Screenings |-> screening[s]]
  /\ \A s \in Screenings : screening[s].op \in {"look", "write", "rank"} => Scored(screening[s].written)
  /\ crossed \in BOOLEAN
  /\ ~ crossed => /\ Ranks(rankings, scores)
                  /\ \A s \in Screenings : screening[s].op = "rank" => \E sc : ComputedFrom(screening[s], sc)

LEMMA Merged ==
  ASSUME NEW f, NEW g, Scored(f), Scored(g)
  PROVE  /\ Scored(Overlaid(f, g)) /\ DOMAIN Overlaid(f, g) = DOMAIN f \cup DOMAIN g
<1>1. DOMAIN Overlaid(f, g) = DOMAIN f \cup DOMAIN g
  BY DEF Overlaid
<1>2. IsFiniteSet(DOMAIN f \cup DOMAIN g)
  BY FS_Union DEF Scored
<1>3. Overlaid(f, g) \in [DOMAIN f \cup DOMAIN g -> MatchScores]
  BY DEF Scored, Overlaid
<1> QED BY <1>1, <1>2, <1>3 DEF Scored

LEMMA ScoredOne ==
  ASSUME NEW c, NEW score \in MatchScores
  PROVE  Scored(Only(c, score))
<1>1. DOMAIN Only(c, score) = {c} /\ Only(c, score) \in [{c} -> MatchScores]
  BY DEF Only
<1> QED BY <1>1, FS_Singleton DEF Scored

LEMMA ScoredNothing == Scored(Nothing)
<1>1. DOMAIN Nothing = {} /\ Nothing \in [{} -> MatchScores]
  BY DEF Nothing
<1> QED BY <1>1, FS_EmptySet DEF Scored

\* The rankings that stand are of one table of scores only.
LEMMA OneSource ==
  ASSUME NEW rk, NEW sc, NEW sd, Scored(sc), Scored(sd), Ranks(rk, sc), Ranks(rk, sd)
  PROVE  sc = sd
<1>1. DOMAIN sc = DOMAIN sd /\ \A c \in DOMAIN sc : sc[c] = sd[c]
  BY DEF Ranks
<1> QED BY <1>1 DEF Scored

\* Candidates that are sorted by their scores are ranked in the order of their scores.
LEMMA Sorted ==
  ASSUME NEW all, Scored(all), NEW order \in SetToSeqs(DOMAIN all),
         \A i, j \in DOMAIN order : i < j => all[order[i]] >= all[order[j]],
         NEW rk, DOMAIN rk = DOMAIN all,
         \A c \in DOMAIN all : /\ rk[c].rank = CHOOSE i \in DOMAIN order : order[i] = c
                               /\ rk[c].score = all[c]
  PROVE  Ranks(rk, all)
<1> DEFINE D == DOMAIN all
           n == Cardinality(D)
<1>1. /\ n \in Nat /\ IsFiniteSet(D) /\ order \in [1..n -> D] /\ DOMAIN order = 1..n
      /\ \A i, j \in 1..n : order[i] = order[j] => i = j
  BY FS_CardinalityType DEF Scored, SetToSeqs
<1>2. order \in Injection(1..n, D)
  BY <1>1 DEF Injection, IsInjective
<1>3. Cardinality(1..n) = n
  BY <1>1, FS_Interval
<1>4. order \in Surjection(1..n, D)
  BY <1>1, <1>2, <1>3, FS_Injection
<1>5. \A c \in D : \E i \in 1..n : order[i] = c
  BY <1>4 DEF Surjection
<1>6. ASSUME NEW c \in D PROVE rk[c].rank \in 1..n /\ order[rk[c].rank] = c
  <2>1. rk[c].rank = CHOOSE i \in 1..n : order[i] = c
    BY <1>1
  <2>2. \E i \in 1..n : order[i] = c
    BY <1>5
  <2> QED BY <2>1, <2>2, Zenon
<1>7. {rk[c].rank : c \in D} = 1..n
  <2>1. \A i \in 1..n : order[i] \in D /\ rk[order[i]].rank = i
    BY <1>1, <1>6
  <2> QED BY <1>6, <2>1
<1>8. ASSUME NEW c \in D, NEW d \in D, all[c] > all[d] PROVE rk[c].rank < rk[d].rank
  <2>1. all[c] \in Nat /\ all[d] \in Nat
    BY ScreeningsAssumption DEF Scored
  <2>2. ~ (rk[d].rank < rk[c].rank) /\ rk[c].rank # rk[d].rank
    BY <1>1, <1>6, <1>8, <2>1
  <2> QED BY <1>6, <2>2
<1> QED BY <1>7, <1>8 DEF Ranks

LEMMA ScreeningInvInit == ScreeningInit => ScreeningInv
<1> SUFFICES ASSUME ScreeningInit PROVE ScreeningInv
  OBVIOUS
<1>1. scores = Nothing /\ rankings = Nothing /\ crossed = FALSE
  BY DEF ScreeningInit
<1>2. screening = [s \in Screenings |-> screening[s]] /\ \A s \in Screenings : screening[s].op = "idle"
  BY DEF ScreeningInit
<1>3. Ranks(rankings, scores)
  <2>1. DOMAIN Nothing = {}
    BY DEF Nothing
  <2>2. Cardinality({}) = 0
    BY FS_EmptySet
  <2> QED BY <1>1, <2>1, <2>2 DEF Ranks
<1> QED BY <1>1, <1>2, <1>3, ScoredNothing DEF ScreeningInv

LEMMA GoesTo ==
  ASSUME ScreeningInv, NEW s \in Screenings, NEW state, Goes(s, state)
  PROVE  /\ screening' = [t \in Screenings |-> screening'[t]]
         /\ screening'[s] = state
         /\ \A t \in Screenings \ {s} : screening'[t] = screening[t]
BY DEF ScreeningInv, Goes

\* The request goes on, and no row changes.
LEMMA QuietStep ==
  ASSUME ScreeningInv, NEW s \in Screenings, NEW state, Goes(s, state),
         UNCHANGED <<scores, rankings, crossed>>,
         state.op \in {"look", "write", "rank"} => Scored(state.written),
         ~ crossed /\ state.op = "rank" => \E sc : ComputedFrom(state, sc)
  PROVE  ScreeningInv'
<1>1. /\ screening' = [t \in Screenings |-> screening'[t]]
      /\ screening'[s] = state
      /\ \A t \in Screenings \ {s} : screening'[t] = screening[t]
  BY GoesTo
<1>2. \A t \in Screenings : screening'[t].op \in {"look", "write", "rank"} => Scored(screening'[t].written)
  BY <1>1 DEF ScreeningInv
<1>3. ASSUME ~ crossed, NEW t \in Screenings, screening'[t].op = "rank"
      PROVE  \E sc : ComputedFrom(screening'[t], sc)
  BY <1>1, <1>3 DEF ScreeningInv
<1> QED BY <1>1, <1>2, <1>3 DEF ScreeningInv

LEMMA ScreeningInvStep == ScreeningInv /\ [ScreeningNext]_screeningVars => ScreeningInv'
<1> SUFFICES ASSUME ScreeningInv, [ScreeningNext]_screeningVars PROVE ScreeningInv'
  OBVIOUS
<1>1. ASSUME NEW c \in Range(Applicants), CandidateApplies(c) PROVE ScreeningInv'
  BY <1>1 DEF CandidateApplies, ScreeningInv
<1>2. ASSUME NEW s \in Screenings, ScreenStart(s) PROVE ScreeningInv'
  <2> DEFINE state == [op |-> "look", todo |-> SelectSeq(Applicants, LAMBDA c : c \in applied),
                       written |-> Nothing]
  <2>1. Goes(s, state) /\ UNCHANGED <<scores, rankings, crossed>>
    BY <1>2 DEF ScreenStart, UnchangedRows
  <2>2. state.op = "look" /\ state.written = Nothing
    OBVIOUS
  <2> HIDE DEF state
  <2> QED BY <2>1, <2>2, ScoredNothing, QuietStep
<1>3. ASSUME NEW s \in Screenings, ScreenLook(s) PROVE ScreeningInv'
  <2> DEFINE done == [op |-> "done"]
             state == [op |-> "write", todo |-> screening[s].todo, written |-> screening[s].written,
                       exists |-> Head(screening[s].todo) \in DOMAIN scores]
  <2>1. /\ Goes(s, done) \/ Goes(s, state)
        /\ UNCHANGED <<scores, rankings, crossed>> /\ screening[s].op = "look"
    BY <1>3 DEF ScreenLook, UnchangedRows, At
  <2>2. state.op = "write" /\ state.written = screening[s].written /\ done.op = "done"
    OBVIOUS
  <2>3. Scored(screening[s].written)
    BY <2>1 DEF ScreeningInv
  <2> HIDE DEF state, done
  <2>4. CASE Goes(s, done)
    BY <2>1, <2>2, <2>4, QuietStep
  <2>5. CASE Goes(s, state)
    BY <2>1, <2>2, <2>3, <2>5, QuietStep
  <2> QED BY <2>1, <2>4, <2>5
<1>4. ASSUME NEW s \in Screenings, ScreenWrite(s) PROVE ScreeningInv'
  <2>1. UNCHANGED <<scores, rankings, crossed>> /\ screening[s].op = "write"
    BY <1>4 DEF ScreenWrite, UnchangedRows, At
  <2>2. CASE Goes(s, [op |-> "done"])
    <3> DEFINE state == [op |-> "done"]
    <3>1. state.op = "done" /\ Goes(s, state)
      BY <2>2
    <3> HIDE DEF state
    <3> QED BY <2>1, <3>1, QuietStep
  <2>3. ASSUME NEW score \in MatchScores,
               Goes(s, [op |-> "look", todo |-> Tail(screening[s].todo),
                        written |-> Overlaid(Only(Head(screening[s].todo), score), screening[s].written)])
        PROVE  ScreeningInv'
    <3> DEFINE written == Overlaid(Only(Head(screening[s].todo), score), screening[s].written)
               state == [op |-> "look", todo |-> Tail(screening[s].todo), written |-> written]
    <3>1. Scored(written)
      BY <2>1, Merged, ScoredOne DEF ScreeningInv
    <3> HIDE DEF written
    <3>2. state.op = "look" /\ state.written = written /\ Goes(s, state)
      BY <2>3 DEF written
    <3> HIDE DEF state
    <3> QED BY <2>1, <3>1, <3>2, QuietStep
  <2> QED BY <1>4, <2>2, <2>3 DEF ScreenWrite
<1>5. ASSUME NEW s \in Screenings, RankRead(s) PROVE ScreeningInv'
  <2> DEFINE all == Overlaid(screening[s].written, scores)
  <2>1. /\ screening[s].op = "look" /\ UNCHANGED <<scores, rankings, crossed>>
        /\ Scored(screening[s].written)
    BY <1>5 DEF RankRead, At, UnchangedRows, ScreeningInv
  <2>2. Scored(all)
    BY <2>1, Merged DEF ScreeningInv
  <2>3. PICK order \in SetToSeqs(DOMAIN all) :
          /\ \A i, j \in DOMAIN order : i < j => all[order[i]] >= all[order[j]]
          /\ Goes(s, [op |-> "rank", written |-> screening[s].written, old |-> rankings,
                      new |-> [c \in DOMAIN all |->
                                 [rank |-> CHOOSE i \in DOMAIN order : order[i] = c,
                                  previous |-> IF c \in DOMAIN rankings THEN rankings[c].rank ELSE 0,
                                  score |-> all[c]]]])
    BY <1>5 DEF RankRead
  <2> DEFINE new == [c \in DOMAIN all |->
                       [rank |-> CHOOSE i \in DOMAIN order : order[i] = c,
                        previous |-> IF c \in DOMAIN rankings THEN rankings[c].rank ELSE 0,
                        score |-> all[c]]]
             state == [op |-> "rank", written |-> screening[s].written, old |-> rankings, new |-> new]
  <2> HIDE DEF all
  <2>4. /\ DOMAIN new = DOMAIN all
        /\ \A c \in DOMAIN all : /\ new[c].rank = CHOOSE i \in DOMAIN order : order[i] = c
                                 /\ new[c].score = all[c]
    BY Zenon
  <2>5. Goes(s, state)
    BY <2>3
  <2> HIDE DEF new
  <2>6. Ranks(new, all)
    BY <2>2, <2>3, <2>4, Sorted
  <2>7. /\ state.op = "rank" /\ state.written = screening[s].written /\ state.old = rankings
        /\ state.new = new
    OBVIOUS
  <2> HIDE DEF state
  <2>8. ~ crossed => ComputedFrom(state, scores)
    BY <2>6, <2>7 DEF ComputedFrom, ScreeningInv, all
  <2> QED BY <2>1, <2>5, <2>7, <2>8, QuietStep
<1>6. ASSUME NEW s \in Screenings, RankCommit(s) PROVE ScreeningInv'
  <2> DEFINE replaced == rankings # screening[s].old
             state == [op |-> "done"]
  <2>1. Goes(s, state) /\ state.op = "done" /\ screening[s].op = "rank"
    BY <1>6 DEF RankCommit, At
  <2> HIDE DEF state
  <2>2. CASE UnchangedRows
    BY <2>1, <2>2, QuietStep DEF UnchangedRows
  <2>3. CASE /\ scores' = Overlaid(screening[s].written, scores)
             /\ rankings' = screening[s].new
             /\ crossed' = (crossed \/ replaced)
    <3>1. /\ screening' = [t \in Screenings |-> screening'[t]]
          /\ screening'[s] = state
          /\ \A t \in Screenings \ {s} : screening'[t] = screening[t]
      BY <2>1, GoesTo
    <3>2. Scored(scores')
      BY <2>1, <2>3, Merged DEF ScreeningInv
    <3>3. \A t \in Screenings : screening'[t].op \in {"look", "write", "rank"} => Scored(screening'[t].written)
      BY <2>1, <3>1 DEF ScreeningInv
    <3>4. ASSUME ~ crossed' PROVE Ranks(rankings, scores)'
      <4>1. ~ crossed /\ rankings = screening[s].old
        BY <2>3, <3>4
      <4>2. PICK sc : ComputedFrom(screening[s], sc)
        BY <2>1, <4>1 DEF ScreeningInv
      <4>3. sc = scores
        BY <4>1, <4>2, OneSource DEF ComputedFrom, ScreeningInv
      <4>4. Ranks(rankings', scores')
        BY <2>3, <4>2, <4>3 DEF ComputedFrom
      <4> QED BY <4>4 DEF Ranks
    <3>5. ASSUME ~ crossed', NEW t \in Screenings, screening'[t].op = "rank"
          PROVE  \E sc : ComputedFrom(screening'[t], sc)
      <4>1. ~ crossed /\ screening'[t] = screening[t]
        BY <2>1, <2>3, <3>1, <3>5
      <4> QED BY <3>5, <4>1 DEF ScreeningInv
    <3>6. crossed' \in BOOLEAN
      BY <2>3
    <3>7. Scored(scores)'
      BY <3>2 DEF Scored
    <3> QED BY <3>1, <3>3, <3>4, <3>5, <3>6, <3>7 DEF ScreeningInv
  <2> QED BY <1>6, <2>2, <2>3 DEF RankCommit
<1>7. CASE UNCHANGED screeningVars
  BY <1>7 DEF screeningVars, ScreeningInv
<1> QED BY <1>1, <1>2, <1>3, <1>4, <1>5, <1>6, <1>7 DEF ScreeningNext

\* The rankings of a job are those of its screenings, in the order of the scores that are
\* stored, whatever requests screen its applicants, unless one has replaced rankings that
\* another had computed meanwhile.
THEOREM RankingsInOrderHolds == ScreeningSpec => []RankingsInOrder
<1>1. ScreeningInv => RankingsInOrder
  BY DEF ScreeningInv, Ranks, RankingsInOrder
<1> QED BY ScreeningInvInit, ScreeningInvStep, <1>1, PTL DEF ScreeningSpec

----------------------------------------------------------------------------
\* Demo data.

RunStatus == {"queued", "running", "completed", "failed", "deleted"}
Run == {NoRun} \cup [status : RunStatus, tracked : BOOLEAN, scenario : Scenarios]

DemoTypes ==
  /\ runs \in [DemoRuns -> Run]
  /\ rows \subseteq DemoRuns \X Kind
  /\ task \in [DemoRuns -> 0..LastStage]
  /\ reset \in [phase : {"idle", "done"}]
            \cup [phase : {"read"}, runs : SUBSET DemoRuns, tracked : SUBSET DemoRuns,
                  found : SUBSET (DemoRuns \X Kind)]
  /\ reset.phase = "read" => \A r \in reset.runs : runs[r].status # "none"
  /\ disturbed \in BOOLEAN

\* A run that has documents has its ids, one that has jobs has their recruiters, one whose task
\* is past its recruiters has them, and one that is yet to come has nothing.
Generated ==
  \A r \in DemoRuns :
    /\ <<r, "documents">> \in rows => runs[r].tracked
    /\ <<r, "jobs">> \in rows => <<r, "recruiters">> \in rows
    /\ r \in Existing /\ task[r] > 2 => <<r, "recruiters">> \in rows
    /\ runs[r].status = "none" => \A k \in Kind : <<r, k>> \notin rows

\* What a reset finds.
Users == {x \in rows : x[2] \in {"recruiters", "candidates"}}
Found ==
  Users
  \cup {x \in rows : x[2] = "jobs" /\ (x[1] \in Tracked \/ <<x[1], "recruiters">> \in Users)}
  \cup {x \in rows : x[2] = "documents" /\ x[1] \in Tracked}

\* What a reset has found is still so, and runs created since then have done nothing.
ReadIsCurrent ==
  reset.phase = "read" =>
    /\ reset.tracked = Tracked
    /\ reset.found = Found
    /\ reset.runs \subseteq Existing
    /\ \A r \in Existing \ reset.runs : task[r] <= 1 /\ \A k \in Kind : <<r, k>> \notin rows

DemoInv == DemoTypes /\ (~ disturbed => Generated /\ NothingIsStranded /\ ReadIsCurrent)

LEMMA Stages ==
  /\ Kind = {"companies", "recruiters", "candidates", "jobs", "documents"}
  /\ LastStage = 5
  /\ Stage[1] = "companies" /\ Stage[2] = "recruiters" /\ Stage[3] = "candidates"
  /\ Stage[4] = "jobs" /\ Stage[5] = "documents"
<1>1. DOMAIN Stage = {1, 2, 3, 4, 5} /\ LastStage = 5
  BY DEF Stage, LastStage
<1>2. /\ Stage[1] = "companies" /\ Stage[2] = "recruiters" /\ Stage[3] = "candidates"
      /\ Stage[4] = "jobs" /\ Stage[5] = "documents"
  BY DEF Stage
<1>3. Kind = {Stage[1], Stage[2], Stage[3], Stage[4], Stage[5]}
  BY <1>1 DEF Kind
<1> QED BY <1>1, <1>2, <1>3

\* One run changes, and it is not new.
LEMMA RunMade ==
  ASSUME NEW run \in Run, run.status # "none"
  PROVE  /\ \A status \in RunStatus :
              /\ [run EXCEPT !.status = status] \in Run
              /\ [run EXCEPT !.status = status].status = status
              /\ [run EXCEPT !.status = status].tracked = run.tracked
         /\ [run EXCEPT !.status = "completed", !.tracked = TRUE] \in Run
         /\ [run EXCEPT !.status = "completed", !.tracked = TRUE].status = "completed"
         /\ [run EXCEPT !.status = "completed", !.tracked = TRUE].tracked = TRUE
<1>1. run \in [status : RunStatus, tracked : BOOLEAN, scenario : Scenarios]
  BY DEF Run, NoRun
<1>2. ASSUME NEW status \in RunStatus
      PROVE  /\ [run EXCEPT !.status = status] \in [status : RunStatus, tracked : BOOLEAN, scenario : Scenarios]
             /\ [run EXCEPT !.status = status].status = status
             /\ [run EXCEPT !.status = status].tracked = run.tracked
  BY <1>1
<1>3. /\ [run EXCEPT !.status = "completed", !.tracked = TRUE]
           \in [status : RunStatus, tracked : BOOLEAN, scenario : Scenarios]
      /\ [run EXCEPT !.status = "completed", !.tracked = TRUE].status = "completed"
      /\ [run EXCEPT !.status = "completed", !.tracked = TRUE].tracked = TRUE
  <2>1. "completed" \in RunStatus
    BY DEF RunStatus
  <2> QED BY <1>1, <2>1
<1> QED BY <1>2, <1>3 DEF Run

\* A task commits what its stage has generated.
LEMMA CommitStep ==
  ASSUME DemoInv, NEW r \in DemoRuns, NEW kinds \in SUBSET Kind, CommitRows(r, kinds),
         NEW run \in Run, SetRun(r, run), run.status \in {"running", "completed", "failed"},
         runs[r].tracked => run.tracked,
         NEW stage \in 0..LastStage, SetTask(r, stage),
         "documents" \in kinds => run.tracked,
         "jobs" \in kinds => task[r] > 2,
         stage > 2 => task[r] > 2 \/ "recruiters" \in kinds
  PROVE  DemoInv'
<1>1. /\ r \in Existing /\ rows' = rows \cup {<<r, k>> : k \in kinds}
      /\ disturbed' = (disturbed \/ reset.phase = "read")
      /\ reset' = reset
  BY DEF CommitRows
<1>2. /\ runs' \in [DemoRuns -> Run] /\ runs'[r] = run
      /\ \A q \in DemoRuns \ {r} : runs'[q] = runs[q]
      /\ task' \in [DemoRuns -> 0..LastStage] /\ task'[r] = stage
      /\ \A q \in DemoRuns \ {r} : task'[q] = task[q]
  BY DEF DemoInv, DemoTypes, SetRun, SetTask
<1>3. Existing' = Existing
  BY <1>1, <1>2 DEF Existing
<1>4. DemoTypes'
  <2>1. rows' \subseteq DemoRuns \X Kind
    BY <1>1 DEF DemoInv, DemoTypes
  <2>2. disturbed' \in BOOLEAN
    BY <1>1
  <2> QED BY <1>1, <1>2, <2>1, <2>2 DEF DemoInv, DemoTypes
<1>5. ASSUME ~ disturbed' PROVE (Generated /\ NothingIsStranded /\ ReadIsCurrent)'
  <2>1. Generated /\ NothingIsStranded /\ reset.phase # "read"
    BY <1>1, <1>5 DEF DemoInv
  <2>2. \A q \in DemoRuns, k \in Kind : <<q, k>> \in rows' <=> <<q, k>> \in rows \/ (q = r /\ k \in kinds)
    BY <1>1
  <2>3. "documents" \in Kind /\ "jobs" \in Kind /\ "recruiters" \in Kind
    BY Stages
  <2>4. Generated'
    BY <1>1, <1>2, <1>3, <2>1, <2>2, <2>3 DEF Generated
  <2>5. NothingIsStranded'
    <3> SUFFICES ASSUME NEW x \in rows'
                 PROVE  x[1] \in Existing \/ (x[2] = "companies" /\ ~ runs'[x[1]].tracked)
      BY <1>3 DEF NothingIsStranded
    <3>1. CASE x \in rows
      <4>1. x[1] \in DemoRuns
        BY <3>1 DEF DemoInv, DemoTypes
      <4> QED BY <1>1, <1>2, <1>5, <2>1, <3>1, <4>1 DEF NothingIsStranded
    <3>2. CASE x \notin rows
      BY <1>1, <3>2
    <3> QED BY <3>1, <3>2
  <2> QED BY <1>1, <2>1, <2>4, <2>5 DEF ReadIsCurrent
<1> QED BY <1>4, <1>5 DEF DemoInv

LEMMA StageCommitStep == ASSUME DemoInv, NEW r \in DemoRuns, StageCommit(r) PROVE DemoInv'
<1> DEFINE run == [runs[r] EXCEPT !.status = "running"]
           kinds == {Stage[task[r]]}
<1>1. /\ task[r] \in 1..4 /\ CommitRows(r, kinds) /\ SetRun(r, run)
      /\ SetTask(r, task[r] + 1) /\ r \in Existing
  BY Stages DEF StageCommit, CommitRows
<1>2. runs[r] \in Run /\ runs[r].status # "none"
  BY <1>1 DEF DemoInv, DemoTypes, Existing
<1>3. run \in Run /\ run.status = "running" /\ run.tracked = runs[r].tracked
  BY <1>2, RunMade DEF RunStatus
<1>4. /\ kinds \in SUBSET Kind /\ "documents" \notin kinds
      /\ "jobs" \in kinds => task[r] > 2
      /\ task[r] + 1 > 2 => task[r] > 2 \/ "recruiters" \in kinds
  BY <1>1, Stages
<1>5. task[r] + 1 \in 0..LastStage
  BY <1>1, Stages
<1> HIDE DEF run, kinds
<1> QED BY <1>1, <1>3, <1>4, <1>5, CommitStep

LEMMA RunCompletesStep == ASSUME DemoInv, NEW r \in DemoRuns, Complete(r) PROVE DemoInv'
<1> DEFINE run == [runs[r] EXCEPT !.status = "completed", !.tracked = TRUE]
<1>1. CommitRows(r, {"documents"}) /\ SetRun(r, run) /\ SetTask(r, 0) /\ r \in Existing
  BY DEF Complete, CommitRows
<1>2. runs[r] \in Run /\ runs[r].status # "none"
  BY <1>1 DEF DemoInv, DemoTypes, Existing
<1>3. run \in Run /\ run.status = "completed" /\ run.tracked
  BY <1>2, RunMade
<1>4. {"documents"} \in SUBSET Kind /\ 0 \in 0..LastStage /\ ~ (0 > 2)
  BY Stages
<1> HIDE DEF run
<1> QED BY <1>1, <1>3, <1>4, CommitStep

LEMMA FailsStep == ASSUME DemoInv, NEW r \in DemoRuns, Fails(r) PROVE DemoInv'
<1> DEFINE run == [runs[r] EXCEPT !.status = "failed"]
<1>1. PICK kinds \in SUBSET {Stage[task[r]]} : CommitRows(r, kinds)
  BY DEF Fails
<1>2. task[r] \in 1..4 /\ SetRun(r, run) /\ SetTask(r, 0) /\ r \in Existing
  BY <1>1, Stages DEF Fails, CommitRows
<1>3. runs[r] \in Run /\ runs[r].status # "none"
  BY <1>2 DEF DemoInv, DemoTypes, Existing
<1>4. run \in Run /\ run.status = "failed" /\ run.tracked = runs[r].tracked
  BY <1>3, RunMade DEF RunStatus
<1>5. /\ kinds \in SUBSET Kind /\ "documents" \notin kinds
      /\ "jobs" \in kinds => task[r] > 2
  BY <1>2, Stages
<1>6. 0 \in 0..LastStage /\ ~ (0 > 2)
  BY Stages
<1> HIDE DEF run
<1> QED BY <1>1, <1>2, <1>4, <1>5, <1>6, CommitStep

LEMMA GenerateStep ==
  ASSUME DemoInv, NEW r \in DemoRuns, NEW s \in Scenarios, Generate(r, s)
  PROVE  DemoInv'
<1> DEFINE run == [status |-> "queued", tracked |-> FALSE, scenario |-> s]
<1>1. runs[r] = NoRun /\ SetRun(r, run) /\ SetTask(r, 1) /\ UNCHANGED <<rows, reset, disturbed>>
  BY DEF Generate
<1>2. run \in Run /\ run.status = "queued" /\ run.tracked = FALSE
  BY DEF Run, RunStatus
<1> HIDE DEF run
<1>3. /\ runs' \in [DemoRuns -> Run] /\ runs'[r] = run
      /\ \A q \in DemoRuns \ {r} : runs'[q] = runs[q]
      /\ task' \in [DemoRuns -> 0..LastStage] /\ task'[r] = 1
      /\ \A q \in DemoRuns \ {r} : task'[q] = task[q]
  <2>1. 1 \in 0..LastStage
    BY Stages
  <2> QED BY <1>1, <1>2, <2>1 DEF DemoInv, DemoTypes, SetRun, SetTask
<1>4. runs[r].status = "none" /\ runs[r].tracked = FALSE
  BY <1>1 DEF NoRun
<1>5. Existing' = Existing \cup {r} /\ r \notin Existing /\ Tracked' = Tracked
  BY <1>2, <1>3, <1>4 DEF Existing, Tracked
<1>6. DemoTypes'
  BY <1>1, <1>2, <1>3 DEF DemoInv, DemoTypes
<1>7. ASSUME ~ disturbed' PROVE (Generated /\ NothingIsStranded /\ ReadIsCurrent)'
  <2>1. Generated /\ NothingIsStranded /\ ReadIsCurrent
    BY <1>1, <1>7 DEF DemoInv
  <2>2. Generated'
    <3>1. \A k \in Kind : <<r, k>> \notin rows
      BY <1>4, <2>1 DEF Generated
    <3>2. run.status # "none"
      BY <1>2
    <3>3. "documents" \in Kind /\ "jobs" \in Kind
      BY Stages
    <3>4. ASSUME NEW q \in DemoRuns
          PROVE  /\ <<q, "documents">> \in rows => runs'[q].tracked
                 /\ <<q, "jobs">> \in rows => <<q, "recruiters">> \in rows
                 /\ q \in Existing' /\ task'[q] > 2 => <<q, "recruiters">> \in rows
                 /\ runs'[q].status = "none" => \A k \in Kind : <<q, k>> \notin rows
      <4>1. CASE q = r
        BY <1>3, <3>1, <3>2, <3>3, <4>1
      <4>2. CASE q # r
        <5>1. runs'[q] = runs[q] /\ task'[q] = task[q] /\ (q \in Existing' <=> q \in Existing)
          BY <1>3, <1>5, <4>2
        <5> QED BY <2>1, <5>1 DEF Generated
      <4> QED BY <4>1, <4>2
    <3> QED BY <1>1, <3>4 DEF Generated
  <2>3. NothingIsStranded'
    <3>1. \A x \in rows : x[1] \in DemoRuns
      BY DEF DemoInv, DemoTypes
    <3> QED BY <1>1, <1>3, <1>5, <1>7, <2>1, <3>1 DEF NothingIsStranded
  <2>4. ReadIsCurrent'
    <3> SUFFICES ASSUME reset.phase = "read" PROVE ReadIsCurrent'
      BY <1>1 DEF ReadIsCurrent
    <3>1. Found' = Found
      BY <1>1, <1>5 DEF Found, Users
    <3>2. /\ reset.tracked = Tracked /\ reset.found = Found /\ reset.runs \subseteq Existing
          /\ \A q \in Existing \ reset.runs : task[q] <= 1 /\ \A k \in Kind : <<q, k>> \notin rows
      BY <2>1 DEF ReadIsCurrent
    <3>3. \A k \in Kind : <<r, k>> \notin rows
      BY <1>4, <2>1 DEF Generated
    <3>4. ASSUME NEW q \in Existing' \ reset.runs
          PROVE  task'[q] <= 1 /\ \A k \in Kind : <<q, k>> \notin rows
      <4>1. CASE q = r
        BY <1>3, <3>3, <4>1
      <4>2. CASE q # r
        <5>1. q \in Existing \ reset.runs /\ q \in DemoRuns
          BY <1>5, <4>2 DEF Existing
        <5>2. task'[q] = task[q]
          BY <1>3, <4>2, <5>1
        <5> QED BY <3>2, <5>1, <5>2
      <4> QED BY <4>1, <4>2
    <3>5. reset' = reset /\ rows' = rows /\ Existing \subseteq Existing'
      BY <1>1, <1>5
    <3> QED BY <1>5, <3>1, <3>2, <3>4, <3>5 DEF ReadIsCurrent
  <2> QED BY <2>2, <2>3, <2>4
<1> QED BY <1>6, <1>7 DEF DemoInv

LEMMA BreaksStep == ASSUME DemoInv, NEW r \in DemoRuns, Breaks(r) PROVE DemoInv'
<1>1. SetTask(r, 0) /\ UNCHANGED <<runs, rows, reset, disturbed>>
  BY DEF Breaks
<1>2. task' \in [DemoRuns -> 0..LastStage] /\ \A q \in DemoRuns : task'[q] = task[q] \/ task'[q] = 0
  BY <1>1, Stages DEF DemoInv, DemoTypes, SetTask
<1>3. DemoTypes'
  BY <1>1, <1>2 DEF DemoInv, DemoTypes
<1>4. UNCHANGED <<Existing, Tracked, Users, Found>>
  BY <1>1 DEF Existing, Tracked, Users, Found
<1>5. ASSUME ~ disturbed' PROVE (Generated /\ NothingIsStranded /\ ReadIsCurrent)'
  <2>1. Generated /\ NothingIsStranded /\ ReadIsCurrent
    BY <1>1, <1>5 DEF DemoInv
  <2>2. Generated'
    <3>1. \A q \in DemoRuns : task'[q] > 2 => task[q] > 2
      <4>1. ~ (0 > 2)
        OBVIOUS
      <4> QED BY <1>2, <4>1
    <3> QED BY <1>1, <1>4, <2>1, <3>1 DEF Generated
  <2>3. NothingIsStranded'
    BY <1>1, <1>4, <2>1 DEF NothingIsStranded
  <2>4. ReadIsCurrent'
    <3>1. \A q \in Existing : task[q] <= 1 => task'[q] <= 1
      BY <1>2 DEF Existing
    <3> QED BY <1>1, <1>4, <2>1, <3>1 DEF ReadIsCurrent
  <2> QED BY <2>2, <2>3, <2>4
<1> QED BY <1>3, <1>5 DEF DemoInv

LEMMA ResetReadStep == ASSUME DemoInv, ResetRead PROVE DemoInv'
<1>1. reset' = [phase |-> "read", runs |-> Existing, tracked |-> Tracked, found |-> Found]
  BY DEF ResetRead, Found, Users
<1>2. UNCHANGED <<runs, rows, task, disturbed>>
  BY DEF ResetRead
<1>3. UNCHANGED <<Existing, Tracked, Users, Found>>
  BY <1>2 DEF Existing, Tracked, Users, Found
<1>4. DemoTypes'
  <2>1. Existing \in SUBSET DemoRuns /\ Tracked \in SUBSET DemoRuns
    BY DEF Existing, Tracked
  <2>2. Found \in SUBSET (DemoRuns \X Kind)
    BY DEF Found, Users, DemoInv, DemoTypes
  <2>3. reset' \in [phase : {"read"}, runs : SUBSET DemoRuns, tracked : SUBSET DemoRuns,
                    found : SUBSET (DemoRuns \X Kind)]
    BY <1>1, <2>1, <2>2
  <2>4. \A r \in reset'.runs : runs[r].status # "none"
    BY <1>1 DEF Existing
  <2> QED BY <1>2, <2>3, <2>4 DEF DemoInv, DemoTypes
<1>5. ASSUME ~ disturbed' PROVE (Generated /\ NothingIsStranded /\ ReadIsCurrent)'
  <2>1. Generated /\ NothingIsStranded
    BY <1>2, <1>5 DEF DemoInv
  <2>2. Generated' /\ NothingIsStranded'
    BY <1>2, <1>3, <2>1 DEF Generated, NothingIsStranded
  <2>3. ReadIsCurrent'
    <3>1. reset'.tracked = Tracked' /\ reset'.found = Found' /\ reset'.runs = Existing'
      BY <1>1, <1>3
    <3> QED BY <3>1 DEF ReadIsCurrent
  <2> QED BY <2>2, <2>3
<1> QED BY <1>4, <1>5 DEF DemoInv

\* Of a run that was found, no more is left than its companies.
LEMMA ResetCommitStep == ASSUME DemoInv, ResetCommit PROVE DemoInv'
<1>1. /\ reset.phase = "read"
      /\ reset' = [phase |-> "done"]
      /\ UNCHANGED <<task, disturbed>>
      /\ \A x : x \in rows' <=> /\ x \in rows \ reset.found
                                /\ x[2] = "companies" => reset.tracked # {} /\ x[1] \notin reset.tracked
                                /\ x[2] = "jobs" => <<x[1], "recruiters">> \notin reset.found
  BY DEF ResetCommit
<1>2. reset.runs \in SUBSET DemoRuns
  BY <1>1 DEF DemoInv, DemoTypes
<1>3. ASSUME NEW r \in DemoRuns
      PROVE  /\ runs'[r] \in Run
             /\ runs'[r].tracked = runs[r].tracked
             /\ r \in reset.runs => runs'[r].status = "deleted"
             /\ r \notin reset.runs => runs'[r] = runs[r]
  <2>1. runs[r] \in Run
    BY DEF DemoInv, DemoTypes
  <2>2. CASE r \in reset.runs
    <3>1. runs[r].status # "none"
      BY <1>1, <2>2 DEF DemoInv, DemoTypes
    <3>2. runs'[r] = [runs[r] EXCEPT !.status = "deleted"]
      BY <2>2 DEF ResetCommit
    <3>3. "deleted" \in RunStatus
      BY DEF RunStatus
    <3>4. /\ [runs[r] EXCEPT !.status = "deleted"] \in Run
          /\ [runs[r] EXCEPT !.status = "deleted"].status = "deleted"
          /\ [runs[r] EXCEPT !.status = "deleted"].tracked = runs[r].tracked
      BY <2>1, <3>1, <3>3, RunMade, Zenon
    <3> QED BY <2>2, <3>2, <3>4, Zenon
  <2>3. CASE r \notin reset.runs
    <3>1. runs'[r] = runs[r]
      BY <2>3 DEF ResetCommit
    <3> QED BY <2>1, <2>3, <3>1
  <2> QED BY <2>2, <2>3
<1>4. DemoTypes'
  <2>1. runs' \in [DemoRuns -> Run]
    BY <1>3 DEF ResetCommit
  <2>2. rows' \subseteq DemoRuns \X Kind
    BY <1>1 DEF DemoInv, DemoTypes
  <2> QED BY <1>1, <2>1, <2>2 DEF DemoInv, DemoTypes
<1>5. Existing' = Existing \ reset.runs
  BY <1>3 DEF Existing
<1>6. ASSUME ~ disturbed' PROVE (Generated /\ NothingIsStranded /\ ReadIsCurrent)'
  <2>1. Generated /\ NothingIsStranded /\ ReadIsCurrent
    BY <1>1, <1>6 DEF DemoInv
  <2>2. /\ reset.tracked = Tracked /\ reset.found = Found /\ reset.runs \subseteq Existing
        /\ \A q \in Existing \ reset.runs : task[q] <= 1 /\ \A k \in Kind : <<q, k>> \notin rows
    BY <1>1, <2>1 DEF ReadIsCurrent
  <2>3. ASSUME NEW x \in rows' PROVE x[2] = "companies" /\ ~ runs[x[1]].tracked
    <3>1. /\ x \in rows /\ x = <<x[1], x[2]>> /\ x[1] \in DemoRuns /\ x[2] \in Kind /\ x \notin Found
      <4>1. x \in rows /\ x \notin Found
        BY <1>1, <2>2
      <4>2. x \in DemoRuns \X Kind
        BY <4>1 DEF DemoInv, DemoTypes
      <4> QED BY <4>1, <4>2
    <3>2. x[2] \notin {"recruiters", "candidates"}
      BY <3>1 DEF Found, Users
    <3>3. x[2] # "documents"
      <4> SUFFICES ASSUME x[2] = "documents" PROVE FALSE
        OBVIOUS
      <4>1. runs[x[1]].tracked
        BY <2>1, <3>1 DEF Generated
      <4>2. x[1] \in Existing
        BY <1>1, <1>6, <2>1, <3>1 DEF NothingIsStranded
      <4> QED BY <3>1, <4>1, <4>2 DEF Found, Tracked
    <3>4. x[2] # "jobs"
      <4> SUFFICES ASSUME x[2] = "jobs" PROVE FALSE
        OBVIOUS
      <4>1. <<x[1], "recruiters">> \in Users
        BY <2>1, <3>1 DEF Generated, Users
      <4> QED BY <3>1, <4>1 DEF Found
    <3>5. x[2] = "companies"
      BY <3>1, <3>2, <3>3, <3>4, Stages
    <3>6. x[1] \notin Tracked
      BY <1>1, <2>2, <3>5
    <3>7. runs[x[1]].tracked => x[1] \in Existing
      BY <1>1, <1>6, <2>1, <3>1 DEF NothingIsStranded
    <3> QED BY <3>5, <3>6, <3>7 DEF Tracked
  <2>4. NothingIsStranded'
    <3>1. \A x \in rows' : x[1] \in DemoRuns
      BY <1>4 DEF DemoTypes
    <3> QED BY <1>3, <2>3, <3>1 DEF NothingIsStranded
  <2>5. Generated'
    <3>1. \A r \in DemoRuns, k \in Kind : <<r, k>> \in rows' => <<r, k>> \in rows /\ k = "companies"
      BY <1>1, <2>3
    <3>2. "documents" \in Kind /\ "jobs" \in Kind
      BY Stages
    <3>3. \A r \in Existing' : ~ (task'[r] > 2)
      <4>1. \A r \in Existing' : task[r] \in Nat /\ task[r] <= 1
        <5>1. \A r \in DemoRuns : task[r] \in Nat
          BY Stages DEF DemoInv, DemoTypes
        <5>2. Existing \subseteq DemoRuns
          BY DEF Existing
        <5> QED BY <1>5, <2>2, <5>1, <5>2
      <4> QED BY <1>1, <4>1
    <3>4. \A r \in DemoRuns : runs'[r].status = "none" => runs[r].status = "none"
      BY <1>3
    <3>5. \A r \in DemoRuns, k \in Kind : runs[r].status = "none" => <<r, k>> \notin rows
      BY <2>1 DEF Generated
    <3> QED BY <3>1, <3>2, <3>3, <3>4, <3>5 DEF Generated
  <2>6. ReadIsCurrent'
    BY <1>1 DEF ReadIsCurrent
  <2> QED BY <2>4, <2>5, <2>6
<1> QED BY <1>4, <1>6 DEF DemoInv

LEMMA ResetFailsStep == ASSUME DemoInv, ResetFails PROVE DemoInv'
<1>1. reset' = [phase |-> "idle"] /\ UNCHANGED <<runs, rows, task, disturbed>>
  BY DEF ResetFails, NoReset
<1>2. UNCHANGED Existing
  BY <1>1 DEF Existing
<1> QED BY <1>1, <1>2 DEF DemoInv, DemoTypes, Generated, NothingIsStranded, ReadIsCurrent

LEMMA DemoInvInit == DemoInit => DemoInv
<1> SUFFICES ASSUME DemoInit PROVE DemoInv
  OBVIOUS
<1>1. rows = {} /\ reset.phase = "idle" /\ reset = [phase |-> "idle"] /\ disturbed = FALSE
  BY DEF DemoInit, NoReset
<1>2. \A r \in DemoRuns : runs[r].status = "none"
  BY DEF DemoInit, NoRun
<1>3. DemoTypes
  <2>1. runs \in [DemoRuns -> Run] /\ task \in [DemoRuns -> 0..LastStage]
    BY Stages DEF DemoInit, Run
  <2> QED BY <1>1, <2>1 DEF DemoTypes
<1>4. Existing = {}
  BY <1>2 DEF Existing
<1> QED BY <1>1, <1>3, <1>4 DEF DemoInv, Generated, NothingIsStranded, ReadIsCurrent

LEMMA DemoInvStep == DemoInv /\ [DemoNext]_demoVars => DemoInv'
<1> SUFFICES ASSUME DemoInv, [DemoNext]_demoVars PROVE DemoInv'
  OBVIOUS
<1>1. CASE DemoNext
  BY <1>1, GenerateStep, StageCommitStep, RunCompletesStep, FailsStep, BreaksStep, ResetReadStep,
     ResetCommitStep, ResetFailsStep DEF DemoNext
<1>2. CASE UNCHANGED demoVars
  BY <1>2 DEF demoVars, DemoInv, DemoTypes, Generated, NothingIsStranded, ReadIsCurrent, Existing,
              Tracked, Found, Users
<1> QED BY <1>1, <1>2

\* Runs that are gone leave nothing behind but companies that a later reset finds, however
\* they ended and whenever the reset came, unless a task committed something during it.
THEOREM NothingIsStrandedHolds == DemoSpec => []NothingIsStranded
<1>1. DemoInv => NothingIsStranded
  BY DEF DemoInv, NothingIsStranded
<1> QED BY DemoInvInit, DemoInvStep, <1>1, PTL DEF DemoSpec
===============================================================================

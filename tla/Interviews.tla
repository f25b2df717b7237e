------------------------------ MODULE Interviews ------------------------------
(***************************************************************************)
(* One interview: its answers, its counter and its scorecard.              *)
(*   services/interview/mock_interview.py, scorecard_engine.py,            *)
(*   interview_service.py, api/v1/interview.py                             *)
(*                                                                         *)
(* An answer is evaluated in the transaction that stores it, so evaluate   *)
(* finds nothing left to do and only writes the scorecard. A request reads *)
(* its rows and commits later; a flush names only the columns it assigns.  *)
(***************************************************************************)
EXTENDS Naturals, FiniteSets

CONSTANTS
  Topics,     \* the questions of the interview
  MaxTalks   \* bound: requests

ASSUME TopicsAssumption == IsFiniteSet(Topics) /\ Topics # {}
ASSUME TalksAssumption == MaxTalks \in Nat

Talks == 1..MaxTalks   \* requests, in the order of their arrival
NoNotes == 0           \* other notes are named by the request that brings them

VARIABLES
  interview,   \* its status and questions_answered
  replies,     \* the questions with an answer and its evaluation
  card,        \* the scorecard: the answers it was computed from, and recruiter_notes
  talks,       \* the requests
  past         \* history: what happened to it, for the properties

interviewVars == <<interview, replies, card, talks, past>>

NoCard == [written |-> FALSE, over |-> {}, notes |-> NoNotes]

\* A mock interview is started at once, a recruiter's is scheduled.
InterviewInit ==
  /\ interview \in [status : {"in_progress", "scheduled"}, answered : {0}]
  /\ replies = {}
  /\ card = NoCard
  /\ talks = [t \in Talks |-> [op |-> "idle"]]
  /\ past = [ended |-> FALSE, raced |-> FALSE, crossed |-> FALSE, noted |-> NoNotes, scored |-> {}]

Calls(t) == talks[t].op = "idle" /\ \A u \in Talks : u < t => talks[u].op # "idle"
Await(t, talk) == talks' = [talks EXCEPT ![t] = talk]
Ends(t) == talks' = [talks EXCEPT ![t] = [op |-> "done"]]
Fail(t) == Ends(t) /\ UNCHANGED <<interview, replies, card, past>>

----------------------------------------------------------------------------
\* POST /mock/answer

\* The answer must be the first to its question; the counter is read.
ReplyRead(t, q) ==
  /\ Calls(t)
  /\ q \notin replies
  /\ Await(t, [op |-> "answer", question |-> q, answered |-> interview.answered])
  /\ UNCHANGED <<interview, replies, card, past>>

\* A plausible bug: the counter is compared with the index of the last question.
Counted_LastIndex(answered) ==
  interview' = [status   |-> IF answered >= Cardinality(Topics) - 1 THEN "completed"
                                                                   ELSE interview.status,
                answered |-> answered]

Counted(answered) ==
  interview' = [status   |-> IF answered >= Cardinality(Topics) THEN "completed"
                                                               ELSE interview.status,
                answered |-> answered]

\* The insert of a second answer fails on question_id; the counter is written from the read.
ReplyCommit(t) ==
  /\ talks[t].op = "answer"
  /\ IF talks[t].question \in replies
     THEN Fail(t)
     ELSE /\ replies' = replies \cup {talks[t].question}
          /\ Counted(talks[t].answered + 1)
          /\ past' = [past EXCEPT !.raced = @ \/ talks[t].answered # interview.answered]
          /\ Ends(t) /\ UNCHANGED card

\* POST /mock/complete, whatever is answered.
CompleteInterview(t) ==
  /\ Calls(t)
  /\ interview' = [interview EXCEPT !.status = "completed"]
  /\ past' = [past EXCEPT !.ended = TRUE]
  /\ Ends(t) /\ UNCHANGED <<replies, card>>

----------------------------------------------------------------------------
\* The scorecard: evaluate and create_scorecard compute it, add_notes only adds notes.

\* It takes an evaluation to compute one.
ScoreRead(t, notes) ==
  /\ Calls(t)
  /\ replies # {}
  /\ Await(t, [op |-> "score", over |-> replies, seen |-> card, notes |-> notes])
  /\ UNCHANGED <<interview, replies, card, past>>

NotesRead(t) ==
  /\ Calls(t)
  /\ Await(t, [op |-> "notes", seen |-> card, notes |-> t])
  /\ UNCHANGED <<interview, replies, card, past>>

\* A second insert fails on interview_id.
WriteCard(t, over, notes, written) ==
  IF card.written /\ ~ talks[t].seen.written
  THEN Fail(t)
  ELSE /\ card' = [written |-> TRUE, over |-> over, notes |-> notes]
       /\ past' = [past EXCEPT !.crossed = @ \/ card # talks[t].seen,
                               !.noted = written, !.scored = @ \cup over]
       /\ Ends(t) /\ UNCHANGED <<interview, replies>>

Noted(t) == IF talks[t].notes # NoNotes THEN talks[t].notes ELSE past.noted

\* A plausible bug: notes that are not given are cleared.
ScoreCommit_Clears(t) ==
  /\ talks[t].op = "score"
  /\ WriteCard(t, talks[t].over, talks[t].notes, Noted(t))

\* recruiter_notes or existing.recruiter_notes, as read.
ScoreCommit(t) ==
  LET given == talks[t].notes
  IN /\ talks[t].op = "score"
     /\ WriteCard(t, talks[t].over, IF given # NoNotes THEN given ELSE talks[t].seen.notes, Noted(t))

NotesCommit(t) ==
  /\ talks[t].op = "notes"
  /\ WriteCard(t, card.over, talks[t].notes, Noted(t))

InterviewNext ==
  \E t \in Talks :
    \/ \E q \in Topics : ReplyRead(t, q)
    \/ ReplyCommit(t) \/ CompleteInterview(t)
    \/ \E notes \in {NoNotes, t} : ScoreRead(t, notes)
    \/ ScoreCommit(t) \/ NotesRead(t) \/ NotesCommit(t)

InterviewSpec == InterviewInit /\ [][InterviewNext]_interviewVars

----------------------------------------------------------------------------
\* The counter never runs ahead of the answers, so counting ends an interview only when all
\* questions are answered. It may fall behind when two answers race (and the interview then
\* never ends by itself), and only then.
CountedOnce ==
  /\ interview.answered <= Cardinality(replies)
  /\ interview.status = "completed" => past.ended \/ replies = Topics
  /\ ~ past.raced => /\ interview.answered = Cardinality(replies)
                     /\ replies = Topics => interview.status = "completed"

\* Computing a scorecard again keeps the recruiter's notes and every answer it took into
\* account before, unless it crossed another write of the scorecard.
CardKeepsNotes ==
  ~ past.crossed => card.notes = past.noted /\ past.scored \subseteq card.over
=============================================================================

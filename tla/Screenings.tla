------------------------------ MODULE Screenings ------------------------------
(***************************************************************************)
(* Screening the applicants of one job, and their ranking:                 *)
(*   services/screening/screening_service.py,                              *)
(*   repositories/screening/screening.py                                   *)
(*                                                                         *)
(* A screening is one transaction over many rows: it sees what others have *)
(* committed and what it has written itself, and waits for another one     *)
(* before it writes a row that one has written and not committed.          *)
(***************************************************************************)
EXTENDS Integers, FiniteSets, SequencesExt

CONSTANTS
  Applicants,      \* those who may apply, in the order in which they are screened
  MaxScreenings,   \* bound: screening requests
  MatchScores      \* bound: overall scores

ASSUME ScreeningsAssumption == MaxScreenings \in Nat /\ MatchScores \subseteq Nat

Screenings == 1..MaxScreenings

VARIABLES
  applied,    \* the candidates who have applied
  scores,     \* screening_results: the overall score by candidate
  rankings,   \* candidate_rankings: rank, previous rank and score by candidate
  screening,  \* the requests
  crossed     \* history: rankings were replaced while another request computed new ones

screeningVars == <<applied, scores, rankings, screening, crossed>>

Nothing == [c \in {} |-> 0]
Only(c, score) == [d \in {c} |-> score]

\* What a transaction sees: what it has written itself, and else what is committed.
Overlaid(own, stored) ==
  [c \in DOMAIN own \cup DOMAIN stored |-> IF c \in DOMAIN own THEN own[c] ELSE stored[c]]

ScreeningInit ==
  /\ applied = {}
  /\ scores = Nothing
  /\ rankings = Nothing
  /\ screening = [s \in Screenings |-> [op |-> "idle"]]
  /\ crossed = FALSE

At(s, op) == screening[s].op = op
Goes(s, state) == screening' = [screening EXCEPT ![s] = state]
UnchangedRows == UNCHANGED <<applied, scores, rankings, crossed>>

CandidateApplies(c) ==
  /\ c \notin applied
  /\ applied' = applied \cup {c}
  /\ UNCHANGED <<scores, rankings, screening, crossed>>

\* screen_job_applicants lists the applicants, those who withdrew included.
ScreenStart(s) ==
  /\ At(s, "idle")
  /\ Goes(s, [op |-> "look", todo |-> SelectSeq(Applicants, LAMBDA c : c \in applied),
              written |-> Nothing])
  /\ UnchangedRows

\* screen_candidate: does the candidate have a screening already? A candidate without a
\* profile (one may apply without) fails the request for all.
ScreenLook(s) ==
  /\ At(s, "look")
  /\ screening[s].todo # <<>>
  /\ \/ Goes(s, [op |-> "done"])
     \/ Goes(s, [op |-> "write", todo |-> screening[s].todo, written |-> screening[s].written,
                 exists |-> Head(screening[s].todo) \in DOMAIN scores])
  /\ UnchangedRows

Holds(s, c) == ~ At(s, "idle") /\ ~ At(s, "done") /\ c \in DOMAIN screening[s].written

\* A plausible bug: every screening is committed on its own.
ScreenWrite_Commits(s) ==
  /\ At(s, "write")
  /\ \E score \in MatchScores :
       /\ scores' = Overlaid(Only(Head(screening[s].todo), score), scores)
       /\ Goes(s, [op |-> "look", todo |-> Tail(screening[s].todo), written |-> Nothing])
  /\ UNCHANGED <<applied, rankings, crossed>>

\* An insert fails where another one has inserted meanwhile, and undoes the request.
ScreenWrite(s) ==
  LET c == Head(screening[s].todo)
  IN /\ At(s, "write")
     /\ \A t \in Screenings \ {s} : ~ Holds(t, c)
     /\ IF c \in DOMAIN scores /\ ~ screening[s].exists
        THEN Goes(s, [op |-> "done"])
        ELSE \E score \in MatchScores :
               Goes(s, [op |-> "look", todo |-> Tail(screening[s].todo),
                        written |-> Overlaid(Only(c, score), screening[s].written)])
     /\ UnchangedRows

\* update_rankings lists the screenings by score, and the rankings they replace.
RankRead(s) ==
  LET all == Overlaid(screening[s].written, scores)
  IN /\ At(s, "look")
     /\ screening[s].todo = <<>>
     /\ \E order \in SetToSeqs(DOMAIN all) :
          /\ \A i, j \in DOMAIN order : i < j => all[order[i]] >= all[order[j]]
          /\ Goes(s, [op |-> "rank", written |-> screening[s].written, old |-> rankings,
                      new |-> [c \in DOMAIN all |->
                                 [rank |-> CHOOSE i \in DOMAIN order : order[i] = c,
                                  previous |-> IF c \in DOMAIN rankings THEN rankings[c].rank ELSE 0,
                                  score |-> all[c]]]])
     /\ UnchangedRows

\* It deletes the rankings it finds by now and inserts its own, or fails when one that it
\* has not deleted is in the way.
RankCommit(s) ==
  LET replaced == rankings # screening[s].old
  IN /\ At(s, "rank")
     /\ Goes(s, [op |-> "done"])
     /\ \/ /\ replaced
           /\ DOMAIN screening[s].new \cap DOMAIN rankings # {}
           /\ UnchangedRows
        \/ /\ scores' = Overlaid(screening[s].written, scores)
           /\ rankings' = screening[s].new
           /\ crossed' = (crossed \/ replaced)
           /\ UNCHANGED applied

ScreeningNext ==
  \/ \E c \in Range(Applicants) : CandidateApplies(c)
  \/ \E s \in Screenings :
       ScreenStart(s) \/ ScreenLook(s) \/ ScreenWrite(s) \/ RankRead(s) \/ RankCommit(s)

ScreeningSpec == ScreeningInit /\ [][ScreeningNext]_screeningVars

----------------------------------------------------------------------------
\* The rankings of a job are those of its screenings: a rank for each of them, in the order
\* of the scores that are stored. Requests that overlap wait for one another at the first
\* applicant they share; only one that found no applicant at all can drop the rankings that
\* another has computed meanwhile.
RankingsInOrder ==
  ~ crossed =>
    /\ DOMAIN rankings = DOMAIN scores
    /\ {rankings[c].rank : c \in DOMAIN rankings} = 1..Cardinality(DOMAIN rankings)
    /\ \A c, d \in DOMAIN rankings :
         /\ rankings[c].score = scores[c]
         /\ scores[c] > scores[d] => rankings[c].rank < rankings[d].rank
=============================================================================

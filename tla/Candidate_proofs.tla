--------------------------- MODULE Candidate_proofs ---------------------------
(*************************************************************************)
(* The voice page, the career state, the resumes and the fits computed   *)
(* from them, each for any number of requests; and the learning plan of  *)
(* any candidate, from any catalogue.                                    *)
(*************************************************************************)
EXTENDS VoiceProfile, CareerState, FitCache, LearningPlan, FiniteSetTheorems,
        WellFoundedInduction, TLAPS

\* The voice page.

Stages == {"none", "asked", "started", "ended"}
Tally == [made : Nat, open : Nat]

VoiceTypeOK ==
  /\ page \in [view : Views, text : BOOLEAN, result : BOOLEAN]
  /\ recognisers \in [Recognisers -> Stages]
  /\ calls \in [analysis : Tally, update : Tally]

\* With its types NoDeadEnd is inductive: what ends a wait is what leaves its view.
VoiceInv == VoiceTypeOK /\ NoDeadEnd

LEMMA InitVoice == VoiceInit => VoiceInv
  BY DEF VoiceInit, VoiceInv, VoiceTypeOK, NoDeadEnd, Shows, Views, Stages, Tally

\* What the browser reports.
LEMMA BrowserStep ==
  ASSUME VoiceInv, NEW i \in Recognisers,
         OnStart(i) \/ OnResult(i) \/ OnError(i) \/ OnEnd(i)
  PROVE  VoiceInv'
<1> USE DEF VoiceInv, VoiceTypeOK, NoDeadEnd, Shows, Show, Becomes, Active, Views, Stages
<1>1. CASE OnStart(i)
  BY <1>1 DEF OnStart
<1>2. CASE OnResult(i)
  BY <1>2 DEF OnResult
<1>3. CASE OnError(i)
  BY <1>3 DEF OnError
<1>4. CASE OnEnd(i)
  BY <1>4 DEF OnEnd
<1> QED BY <1>1, <1>2, <1>3, <1>4

\* The buttons that ask nothing of the server.
LEMMA ButtonStep ==
  ASSUME VoiceInv, StartListening \/ CannotListen \/ StopListening \/ TypeText \/ Reset
  PROVE  VoiceInv'
<1> USE DEF VoiceInv, VoiceTypeOK, NoDeadEnd, Shows, Show, Becomes, Views, Stages
<1>1. CASE StartListening
  BY <1>1 DEF StartListening
<1>2. CASE CannotListen
  BY <1>2 DEF CannotListen
<1>3. CASE StopListening
  BY <1>3 DEF StopListening
<1>4. CASE TypeText
  BY <1>4 DEF TypeText
<1>5. CASE Reset
  BY <1>5 DEF Reset
<1> QED BY <1>1, <1>2, <1>3, <1>4, <1>5

\* Requests and their answers.
LEMMA RequestStep ==
  ASSUME VoiceInv, AnalyzeTranscript \/ AnalysisAnswered \/ ConfirmUpdate \/ UpdateAnswered
  PROVE  VoiceInv'
<1> USE DEF VoiceInv, VoiceTypeOK, NoDeadEnd, Shows, Show, Views, Stages, Tally
<1>1. CASE AnalyzeTranscript
  BY <1>1 DEF AnalyzeTranscript, Ask
<1>2. CASE AnalysisAnswered
  <2>1. calls' \in [analysis : Tally, update : Tally] /\ calls'.update = calls.update
    BY <1>2 DEF AnalysisAnswered, Replied
  <2>2. /\ page' \in [view : Views, text : BOOLEAN, result : BOOLEAN]
        /\ page'.view \in {"review", "error"}
        /\ page'.view = "review" => page'.result
    BY <1>2 DEF AnalysisAnswered
  <2>3. UNCHANGED recognisers
    BY <1>2 DEF AnalysisAnswered
  <2> QED BY <2>1, <2>2, <2>3
<1>3. CASE ConfirmUpdate
  BY <1>3 DEF ConfirmUpdate, Ask
<1>4. CASE UpdateAnswered
  BY <1>4 DEF UpdateAnswered, Replied
<1> QED BY <1>1, <1>2, <1>3, <1>4

\* However late recognisers and answers report, and however many there are, the page never
\* shows a wait that nothing will end or a review of nothing.
THEOREM NoDeadEndHolds == VoiceSpec => []NoDeadEnd
<1>1. VoiceInit => VoiceInv
  BY InitVoice
<1>2. VoiceInv /\ [VoiceNext]_voiceVars => VoiceInv'
  <2> SUFFICES ASSUME VoiceInv, [VoiceNext]_voiceVars PROVE VoiceInv'
    OBVIOUS
  <2>1. CASE VoiceNext
    BY <2>1, BrowserStep, ButtonStep, RequestStep DEF VoiceNext
  <2>2. CASE UNCHANGED voiceVars
    BY <2>2 DEF voiceVars, VoiceInv, VoiceTypeOK, NoDeadEnd, Shows
  <2> QED BY <2>1, <2>2
<1>3. VoiceInv => NoDeadEnd
  BY DEF VoiceInv
<1> QED BY <1>1, <1>2, <1>3, PTL DEF VoiceSpec

----------------------------------------------------------------------------
\* The career state.

\* The columns of the rows and the fields of a request that has read them.
IsProfile(p) == DOMAIN p = {"skills", "stored", "dossier", "corrections"}
IsLesson(l) == DOMAIN l = {"stored", "status", "evidence", "hours", "completed"}
IsRequest(o) == DOMAIN o = {"phase", "request", "profile", "lesson", "during"}

CareerTypes ==
  /\ careerOps = [r \in CareerRequests |-> careerOps[r]]
  /\ \A r \in CareerRequests :
       /\ careerOps[r].phase \in {"idle", "read", "done", "failed"}
       /\ careerOps[r].phase # "idle" => IsRequest(careerOps[r]) /\ IsLesson(careerOps[r].lesson)
  /\ IsProfile(profile)
  /\ IsLesson(lesson)

Answered == {r \in CareerRequests : careerOps[r].phase = "done"}
Reviews == Done("review")
Reports == {r \in Done("update") : careerOps[r].request.hours}

LostReviews == {r \in Reviews : OverwrittenBy(r, Reviews)}
LostReports == {r \in Reports : OverwrittenBy(r, Reports)}

\* What is recorded is there, or lost to another of its kind.
Recorded(corrections, hours, during) ==
  /\ Reviews \subseteq corrections \cup during \cup LostReviews
  /\ Reports \subseteq hours \cup during \cup LostReports
  /\ hours \subseteq Answered

\* A row of the module is complete only with its time, and that is never taken back.
Timed(l) ==
  /\ l.status = "completed" => l.completed # Never
  /\ l.completed # Never => lesson.completed # Never

\* A request beside which none has committed has read what is there.
ReadInv(o) ==
  /\ o.during = {} => o.profile = profile /\ o.lesson = lesson
  /\ Recorded(o.profile.corrections, o.lesson.hours, o.during)
  /\ Timed(o.lesson)

\* Why a request may fail.
Excused(r) == careerOps[r].during # {} \/ (database = "postgresql" /\ Completes(r))

CareerInv ==
  /\ CareerTypes
  /\ Recorded(profile.corrections, lesson.hours, {})
  /\ Timed(lesson)
  /\ \A r \in CareerRequests :
       /\ careerOps[r].phase = "read" => ReadInv(careerOps[r])
       /\ careerOps[r].phase = "failed" => Excused(r)

LEMMA FinishesTo ==
  ASSUME CareerInv, NEW r \in CareerRequests, careerOps[r].phase = "read",
         NEW phase \in {"done", "failed"}, Finishes(r, phase)
  PROVE  /\ careerOps' = [s \in CareerRequests |-> careerOps'[s]]
         /\ careerOps'[r].phase = phase
         /\ \A s \in CareerRequests \ {r} : careerOps'[s].phase = careerOps[s].phase
         /\ \A s \in CareerRequests :
              careerOps[s].phase # "idle" =>
                /\ IsRequest(careerOps'[s])
                /\ careerOps'[s].request = careerOps[s].request
                /\ careerOps'[s].profile = careerOps[s].profile
                /\ careerOps'[s].lesson = careerOps[s].lesson
                /\ careerOps'[s].during =
                     IF s # r /\ careerOps[s].phase = "read" /\ phase = "done"
                     THEN careerOps[s].during \cup {r} ELSE careerOps[s].during
<1> DEFINE beside == {s \in CareerRequests \ {r} : careerOps[s].phase = "read" /\ phase = "done"}
           New(s) == IF s = r THEN [careerOps[r] EXCEPT !.phase = phase]
                     ELSE IF s \in beside THEN [careerOps[s] EXCEPT !.during = @ \cup {r}]
                     ELSE careerOps[s]
<1>1. careerOps' = [s \in CareerRequests |-> New(s)]
  BY DEF Finishes
<1>2. ASSUME NEW s \in CareerRequests
      PROVE  /\ New(s).phase = IF s = r THEN phase ELSE careerOps[s].phase
             /\ careerOps[s].phase # "idle" =>
                /\ IsRequest(New(s))
                /\ New(s).request = careerOps[s].request
                /\ New(s).profile = careerOps[s].profile
                /\ New(s).lesson = careerOps[s].lesson
                /\ New(s).during =
                     IF s # r /\ careerOps[s].phase = "read" /\ phase = "done"
                     THEN careerOps[s].during \cup {r} ELSE careerOps[s].during
  <2>1. CASE s = r
    <3>1. New(s) = [careerOps[r] EXCEPT !.phase = phase] /\ IsRequest(careerOps[r])
      BY <2>1 DEF CareerInv, CareerTypes
    <3> HIDE DEF New
    <3> QED BY <2>1, <3>1 DEF IsRequest
  <2>2. CASE s # r /\ s \in beside
    <3>1. New(s) = [careerOps[s] EXCEPT !.during = @ \cup {r}] /\ IsRequest(careerOps[s])
      BY <2>2 DEF CareerInv, CareerTypes
    <3> HIDE DEF New
    <3> QED BY <2>2, <3>1 DEF IsRequest
  <2>3. CASE s # r /\ s \notin beside
    <3>1. New(s) = careerOps[s]
      BY <2>3
    <3>2. careerOps[s].phase # "idle" => IsRequest(careerOps[s])
      BY DEF CareerInv, CareerTypes
    <3> HIDE DEF New
    <3> QED BY <2>3, <3>1, <3>2
  <2> QED BY <2>1, <2>2, <2>3
<1> HIDE DEF New
<1>3. \A s \in CareerRequests : careerOps'[s] = New(s)
  BY <1>1
<1> QED BY <1>1, <1>2, <1>3

\* What is recorded stays so when r is done, beside the others and after it.
LEMMA DoneGrow ==
  ASSUME CareerInv, NEW r \in CareerRequests, careerOps[r].phase = "read", Finishes(r, "done")
  PROVE  /\ Answered' = Answered \cup {r}
         /\ Reviews' = IF careerOps[r].request.op = "review" THEN Reviews \cup {r} ELSE Reviews
         /\ Reports' = IF careerOps[r].request.op = "update" /\ careerOps[r].request.hours
                       THEN Reports \cup {r} ELSE Reports
         /\ LostReviews \subseteq LostReviews' /\ LostReports \subseteq LostReports'
         /\ careerOps[r].request.op = "review" => Reviews \cap careerOps[r].during \subseteq LostReviews'
         /\ careerOps[r].request.op = "update" /\ careerOps[r].request.hours =>
              Reports \cap careerOps[r].during \subseteq LostReports'
<1>1. /\ careerOps'[r].phase = "done" /\ careerOps'[r].request = careerOps[r].request
      /\ careerOps'[r].during = careerOps[r].during
      /\ \A s \in CareerRequests \ {r} : careerOps'[s].phase = careerOps[s].phase
      /\ \A s \in CareerRequests :
           careerOps[s].phase # "idle" => /\ careerOps'[s].request = careerOps[s].request
                                          /\ careerOps[s].during \subseteq careerOps'[s].during
  BY FinishesTo
<1>2. Answered' = Answered \cup {r}
  BY <1>1 DEF Answered
<1>3. Reviews' = IF careerOps[r].request.op = "review" THEN Reviews \cup {r} ELSE Reviews
  BY <1>1 DEF Reviews, Done
<1>4. Reports' = IF careerOps[r].request.op = "update" /\ careerOps[r].request.hours
                 THEN Reports \cup {r} ELSE Reports
  <2>1. \A s \in CareerRequests : s \in Reports <=> careerOps[s].phase = "done" /\ careerOps[s].request.op = "update" /\ careerOps[s].request.hours
    BY DEF Reports, Done
  <2>2. \A s \in CareerRequests : s \in Reports' <=> careerOps'[s].phase = "done" /\ careerOps'[s].request.op = "update" /\ careerOps'[s].request.hours
    BY DEF Reports, Done
  <2>3. \A s \in CareerRequests : s \in Reports' <=>
          s \in Reports \/ (s = r /\ careerOps[r].request.op = "update" /\ careerOps[r].request.hours)
    BY <1>1, <2>1, <2>2
  <2>4. Reports \subseteq CareerRequests /\ Reports' \subseteq CareerRequests
    BY DEF Reports, Done
  <2> QED BY <2>3, <2>4
<1>5. \A s \in Reviews \cup Reports : careerOps[s].during \subseteq careerOps'[s].during
  BY <1>1 DEF Reviews, Reports, Done
<1>6. LostReviews \subseteq LostReviews' /\ LostReports \subseteq LostReports'
  BY <1>3, <1>4, <1>5 DEF LostReviews, LostReports, OverwrittenBy
<1>7. /\ careerOps[r].request.op = "review" => Reviews \cap careerOps[r].during \subseteq LostReviews'
      /\ careerOps[r].request.op = "update" /\ careerOps[r].request.hours =>
           Reports \cap careerOps[r].during \subseteq LostReports'
  BY <1>1, <1>3, <1>4 DEF LostReviews, LostReports, OverwrittenBy
<1> QED BY <1>2, <1>3, <1>4, <1>6, <1>7

LEMMA CommitStep ==
  ASSUME CareerInv, NEW r \in CareerRequests, careerOps[r].phase = "read", Finishes(r, "done"),
         database' = database, IsProfile(profile'), IsLesson(lesson'),
         Recorded(profile.corrections, lesson.hours, {})',
         Timed(lesson)', lesson.completed # Never => lesson'.completed # Never
  PROVE  CareerInv'
<1>1. /\ careerOps' = [s \in CareerRequests |-> careerOps'[s]]
      /\ careerOps'[r].phase = "done"
      /\ \A s \in CareerRequests \ {r} : careerOps'[s].phase = careerOps[s].phase
      /\ \A s \in CareerRequests :
           careerOps[s].phase # "idle" =>
             /\ IsRequest(careerOps'[s])
             /\ careerOps'[s].request = careerOps[s].request
             /\ careerOps'[s].profile = careerOps[s].profile
             /\ careerOps'[s].lesson = careerOps[s].lesson
             /\ careerOps'[s].during =
                  IF s # r /\ careerOps[s].phase = "read"
                  THEN careerOps[s].during \cup {r} ELSE careerOps[s].during
  BY FinishesTo
<1>2. CareerTypes'
  <2>1. ASSUME NEW s \in CareerRequests
        PROVE  /\ careerOps'[s].phase \in {"idle", "read", "done", "failed"}
               /\ careerOps'[s].phase # "idle" => /\ IsRequest(careerOps'[s])
                                                  /\ IsLesson(careerOps'[s].lesson)
    BY <1>1 DEF CareerInv, CareerTypes
  <2> QED BY <1>1, <2>1 DEF CareerTypes, IsRequest, IsProfile, IsLesson
<1>3. ASSUME NEW s \in CareerRequests, careerOps'[s].phase = "read" PROVE ReadInv(careerOps[s])'
  <2>1. s # r /\ careerOps[s].phase = "read" /\ ReadInv(careerOps[s])
    BY <1>1, <1>3 DEF CareerInv
  <2> DEFINE new == careerOps'[s]
             old == careerOps[s]
  <2>2. /\ new.profile = old.profile /\ new.lesson = old.lesson
        /\ new.during = old.during \cup {r}
    BY <1>1, <2>1
  <2>3. Recorded(old.profile.corrections, old.lesson.hours, old.during)
    BY <2>1 DEF ReadInv
  <2>4. /\ Reviews' \subseteq Reviews \cup {r} /\ Reports' \subseteq Reports \cup {r}
        /\ Answered \subseteq Answered'
        /\ LostReviews \subseteq LostReviews' /\ LostReports \subseteq LostReports'
    BY DoneGrow
  <2>5. /\ Reviews' \subseteq new.profile.corrections \cup new.during \cup LostReviews'
        /\ Reports' \subseteq new.lesson.hours \cup new.during \cup LostReports'
        /\ new.lesson.hours \subseteq Answered'
    <3> HIDE DEF new, old
    <3> QED BY <2>2, <2>3, <2>4 DEF Recorded
  <2>7. new.during # {}
    BY <2>2
  <2>8. new.lesson.status = "completed" => new.lesson.completed # Never
    BY <2>1, <2>2 DEF ReadInv, Timed
  <2>9. new.lesson.completed # Never => lesson'.completed # Never
    BY <2>1, <2>2 DEF ReadInv, Timed
  <2> HIDE DEF new
  <2> QED BY <2>5, <2>7, <2>8, <2>9 DEF ReadInv, Recorded, Timed, new
<1>4. ASSUME NEW s \in CareerRequests, careerOps'[s].phase = "failed" PROVE Excused(s)'
  <2>1. careerOps[s].phase = "failed" /\ Excused(s)
    BY <1>1, <1>4 DEF CareerInv
  <2>2. careerOps'[s].request = careerOps[s].request /\ careerOps'[s].during = careerOps[s].during
    BY <1>1, <2>1
  <2> QED BY <2>1, <2>2 DEF Excused, Completes
<1> QED BY <1>2, <1>3, <1>4 DEF CareerInv

LEMMA RollsBackStep ==
  ASSUME CareerInv, NEW r \in CareerRequests, careerOps[r].phase = "read", RollsBack(r),
         database' = database,
         \/ careerOps[r].profile # profile \/ careerOps[r].lesson # lesson
         \/ database = "postgresql" /\ Completes(r)
  PROVE  CareerInv'
<1>1. /\ careerOps' = [s \in CareerRequests |-> careerOps'[s]]
      /\ careerOps'[r].phase = "failed"
      /\ \A s \in CareerRequests \ {r} : careerOps'[s].phase = careerOps[s].phase
      /\ \A s \in CareerRequests :
           careerOps[s].phase # "idle" =>
             /\ IsRequest(careerOps'[s])
             /\ careerOps'[s].request = careerOps[s].request
             /\ careerOps'[s].profile = careerOps[s].profile
             /\ careerOps'[s].lesson = careerOps[s].lesson
             /\ careerOps'[s].during = careerOps[s].during
  BY FinishesTo DEF RollsBack
<1>2. UNCHANGED <<profile, lesson>>
  BY DEF RollsBack
<1>3. CareerTypes'
  BY <1>1, <1>2 DEF CareerInv, CareerTypes, IsRequest, IsProfile, IsLesson
<1>4. Reviews' = Reviews /\ Reports' = Reports /\ Answered' = Answered
  BY <1>1 DEF Reviews, Reports, Answered, Done
<1>5. LostReviews' = LostReviews /\ LostReports' = LostReports
  <2>1. \A s \in Reviews \cup Reports : careerOps[s].during = careerOps'[s].during
    BY <1>1 DEF Reviews, Reports, Done
  <2> QED BY <1>4, <2>1 DEF LostReviews, LostReports, OverwrittenBy
<1>7. Recorded(profile.corrections, lesson.hours, {})'
  BY <1>2, <1>4, <1>5 DEF CareerInv, Recorded
<1>8. ASSUME NEW s \in CareerRequests, careerOps'[s].phase = "read" PROVE ReadInv(careerOps[s])'
  <2>1. careerOps[s].phase = "read" /\ ReadInv(careerOps[s])
    BY <1>1, <1>8 DEF CareerInv
  <2>2. /\ careerOps'[s].profile = careerOps[s].profile
        /\ careerOps'[s].lesson = careerOps[s].lesson
        /\ careerOps'[s].during = careerOps[s].during
    BY <1>1, <2>1
  <2> QED BY <1>2, <1>4, <1>5, <2>1, <2>2 DEF ReadInv, Recorded, Timed
<1>9. Excused(r)
  BY DEF CareerInv, ReadInv, Excused
<1>10. ASSUME NEW s \in CareerRequests, careerOps'[s].phase = "failed" PROVE Excused(s)'
  <2>1. careerOps[s].phase # "idle" /\ Excused(s)
    BY <1>1, <1>9, <1>10 DEF CareerInv
  <2>2. careerOps'[s].request = careerOps[s].request /\ careerOps'[s].during = careerOps[s].during
    BY <1>1, <2>1
  <2> QED BY <2>1, <2>2 DEF Excused, Completes
<1> QED BY <1>2, <1>3, <1>7, <1>8, <1>10 DEF CareerInv, Timed

LEMMA ReadsStep ==
  ASSUME CareerInv, NEW r \in CareerRequests, NEW request, Reads(r, request),
         database' = database
  PROVE  CareerInv'
<1> DEFINE read == [phase |-> "read", request |-> request, profile |-> profile, lesson |-> lesson,
                    during |-> {}]
<1>1. /\ careerOps[r].phase = "idle" /\ careerOps' = [careerOps EXCEPT ![r] = read]
      /\ UNCHANGED <<profile, lesson>>
  BY DEF Reads
<1>2. /\ read.phase = "read" /\ read.profile = profile /\ read.lesson = lesson /\ read.during = {}
      /\ IsRequest(read)
  BY DEF IsRequest
<1> HIDE DEF read
<1>3. /\ careerOps' = [s \in CareerRequests |-> careerOps'[s]]
      /\ careerOps'[r] = read
      /\ \A s \in CareerRequests \ {r} : careerOps'[s] = careerOps[s]
  BY <1>1 DEF CareerInv, CareerTypes
<1>4. CareerTypes'
  BY <1>1, <1>2, <1>3 DEF CareerInv, CareerTypes, IsRequest, IsProfile, IsLesson
<1>5. Reviews' = Reviews /\ Reports' = Reports /\ Answered' = Answered
  BY <1>1, <1>2, <1>3 DEF Reviews, Reports, Answered, Done
<1>6. LostReviews' = LostReviews /\ LostReports' = LostReports
  <2>1. \A s \in Reviews \cup Reports : careerOps[s] = careerOps'[s]
    BY <1>1, <1>3 DEF Reviews, Reports, Done
  <2> QED BY <1>5, <2>1 DEF LostReviews, LostReports, OverwrittenBy
<1>8. Recorded(profile.corrections, lesson.hours, {})'
  BY <1>1, <1>5, <1>6 DEF CareerInv, Recorded
<1>9. Timed(lesson)'
  BY <1>1 DEF CareerInv, Timed
<1>10. ASSUME NEW s \in CareerRequests, careerOps'[s].phase = "read" PROVE ReadInv(careerOps[s])'
  <2>1. CASE s = r
    BY <1>1, <1>2, <1>3, <1>8, <1>9, <2>1 DEF ReadInv, Recorded, Timed
  <2>2. CASE s # r
    <3>1. careerOps'[s] = careerOps[s] /\ ReadInv(careerOps[s])
      BY <1>3, <1>10, <2>2 DEF CareerInv
    <3> QED BY <1>1, <1>5, <1>6, <3>1 DEF ReadInv, Recorded, Timed
  <2> QED BY <2>1, <2>2
<1>11. ASSUME NEW s \in CareerRequests, careerOps'[s].phase = "failed" PROVE Excused(s)'
  <2>1. careerOps'[s] = careerOps[s] /\ Excused(s)
    BY <1>2, <1>3, <1>11 DEF CareerInv
  <2> QED BY <2>1 DEF Excused, Completes
<1> QED BY <1>4, <1>8, <1>9, <1>10, <1>11 DEF CareerInv

\* What the UPDATE of a module's row writes.
LEMMA Columns ==
  ASSUME CareerInv, NEW r \in CareerRequests, NEW seen, NEW result, IsLesson(seen), IsLesson(result),
         lesson' = [column \in DOMAIN lesson |->
                      IF result[column] # seen[column] THEN result[column] ELSE lesson[column]]
  PROVE  /\ IsLesson(lesson')
         /\ lesson'.status = IF result.status # seen.status THEN result.status ELSE lesson.status
         /\ lesson'.hours = IF result.hours # seen.hours THEN result.hours ELSE lesson.hours
         /\ lesson'.completed = IF result.completed # seen.completed THEN result.completed
                                ELSE lesson.completed
BY DEF CareerInv, CareerTypes, IsLesson

LEMMA ReviewCommitStep ==
  ASSUME CareerInv, NEW r \in CareerRequests, ReviewCommit(r), database' = database
  PROVE  CareerInv'
<1> DEFINE seen == careerOps[r].profile
           added == {careerOps[r].request.skill} \ seen.skills
<1>1. careerOps[r].phase = "read" /\ careerOps[r].request.op = "review" /\ ReadInv(careerOps[r])
  BY DEF ReviewCommit, Pending, CareerInv
<1>2. CASE added \cap profile.skills # {} \/ seen.stored # profile.stored
  <2>1. seen # profile
    BY <1>2
  <2> QED BY <1>1, <1>2, <2>1, RollsBackStep DEF ReviewCommit
<1>3. CASE ~ (added \cap profile.skills # {} \/ seen.stored # profile.stored)
  <2>1. /\ profile' = [profile EXCEPT !.skills = @ \cup added, !.stored = TRUE,
                                      !.corrections = seen.corrections \cup {r}]
        /\ Finishes(r, "done") /\ lesson' = lesson
    BY <1>3 DEF ReviewCommit
  <2>2. IsProfile(profile') /\ profile'.corrections = seen.corrections \cup {r}
    BY <2>1 DEF CareerInv, CareerTypes, IsProfile
  <2>3. Recorded(profile.corrections, lesson.hours, {})'
    <3>1. /\ Reviews' = Reviews \cup {r} /\ Reports' = Reports /\ Answered \subseteq Answered'
          /\ LostReviews \subseteq LostReviews' /\ LostReports \subseteq LostReports'
          /\ Reviews \cap careerOps[r].during \subseteq LostReviews'
      BY <1>1, <2>1, DoneGrow
    <3>2. /\ Reviews \subseteq seen.corrections \cup careerOps[r].during \cup LostReviews
          /\ Reports \subseteq lesson.hours \cup LostReports
          /\ lesson.hours \subseteq Answered
      BY <1>1 DEF ReadInv, Recorded, CareerInv
    <3>3. /\ Reviews' \subseteq profile'.corrections \cup LostReviews'
          /\ Reports' \subseteq lesson'.hours \cup LostReports'
          /\ lesson'.hours \subseteq Answered'
      BY <2>1, <2>2, <3>1, <3>2
    <3> QED BY <3>3 DEF Recorded
  <2>4. IsLesson(lesson') /\ Timed(lesson)' /\ (lesson.completed # Never => lesson'.completed # Never)
    BY <2>1 DEF CareerInv, CareerTypes, Timed
  <2> QED BY <1>1, <2>1, <2>2, <2>3, <2>4, CommitStep
<1> QED BY <1>2, <1>3

LEMMA DossierCommitStep ==
  ASSUME CareerInv, NEW r \in CareerRequests, DossierCommit(r), database' = database
  PROVE  CareerInv'
<1> DEFINE seen == careerOps[r].profile
<1>1. careerOps[r].phase = "read" /\ careerOps[r].request.op = "dossier"
  BY DEF DossierCommit, Pending
<1>2. CASE seen.stored # profile.stored
  <2>1. seen # profile
    BY <1>2
  <2> QED BY <1>1, <1>2, <2>1, RollsBackStep DEF DossierCommit
<1>3. CASE seen.stored = profile.stored
  <2>1. /\ profile' = [profile EXCEPT !.stored = TRUE, !.dossier = r]
        /\ Finishes(r, "done") /\ lesson' = lesson
    BY <1>3 DEF DossierCommit
  <2>2. IsProfile(profile') /\ profile'.corrections = profile.corrections
    BY <2>1 DEF CareerInv, CareerTypes, IsProfile
  <2>3. Recorded(profile.corrections, lesson.hours, {})'
    <3>1. /\ Reviews' = Reviews /\ Reports' = Reports /\ Answered \subseteq Answered'
          /\ LostReviews \subseteq LostReviews' /\ LostReports \subseteq LostReports'
      BY <1>1, <2>1, DoneGrow
    <3> QED BY <2>1, <2>2, <3>1 DEF CareerInv, Recorded
  <2>4. IsLesson(lesson') /\ Timed(lesson)' /\ (lesson.completed # Never => lesson'.completed # Never)
    BY <2>1 DEF CareerInv, CareerTypes, Timed
  <2> QED BY <1>1, <2>1, <2>2, <2>3, <2>4, CommitStep
<1> QED BY <1>2, <1>3

\* Progress at the module, from the row that was read: its hours are those that were read, and
\* those of this request if it reports some; and it is complete only with its time.
LEMMA ProgressStep ==
  ASSUME CareerInv, NEW r \in CareerRequests, careerOps[r].phase = "read",
         careerOps[r].request.op # "review", database' = database,
         NEW result, IsLesson(result),
         LET seen == careerOps[r].lesson
             reports == careerOps[r].request.op = "update" /\ careerOps[r].request.hours
         IN /\ result.hours = IF reports THEN seen.hours \cup {r} ELSE seen.hours
            /\ result.completed \in {r, seen.completed}
            /\ result.status = "completed" /\ seen.status # "completed" => result.completed # Never
            /\ result.completed # seen.completed => Completes(r)
            /\ IF seen.stored # lesson.stored \/ Refused(seen, result)
               THEN RollsBack(r)
               ELSE /\ lesson' = [column \in DOMAIN lesson |->
                                    IF result[column] # seen[column] THEN result[column]
                                    ELSE lesson[column]]
                    /\ Finishes(r, "done")
                    /\ UNCHANGED profile
  PROVE  CareerInv'
<1> DEFINE seen == careerOps[r].lesson
           reports == careerOps[r].request.op = "update" /\ careerOps[r].request.hours
<1>1. ReadInv(careerOps[r]) /\ IsLesson(seen)
  BY DEF CareerInv, CareerTypes
<1>2. CASE seen.stored # lesson.stored \/ Refused(seen, result)
  <2>1. seen # lesson \/ (database = "postgresql" /\ Completes(r))
    BY <1>2 DEF Refused
  <2> QED BY <1>2, <2>1, RollsBackStep
<1>3. CASE ~ (seen.stored # lesson.stored \/ Refused(seen, result))
  <2>1. /\ lesson' = [column \in DOMAIN lesson |->
                        IF result[column] # seen[column] THEN result[column] ELSE lesson[column]]
        /\ Finishes(r, "done") /\ profile' = profile
    BY <1>3
  <2>2. /\ IsLesson(lesson')
        /\ lesson'.status = IF result.status # seen.status THEN result.status ELSE lesson.status
        /\ lesson'.hours = IF result.hours # seen.hours THEN result.hours ELSE lesson.hours
        /\ lesson'.completed = IF result.completed # seen.completed THEN result.completed
                               ELSE lesson.completed
    BY <1>1, <2>1, Columns
  <2>3. Recorded(profile.corrections, lesson.hours, {})'
    <3>1. /\ Reviews' = Reviews /\ Answered' = Answered \cup {r}
          /\ Reports' = IF reports THEN Reports \cup {r} ELSE Reports
          /\ LostReviews \subseteq LostReviews' /\ LostReports \subseteq LostReports'
          /\ reports => Reports \cap careerOps[r].during \subseteq LostReports'
      BY <2>1, DoneGrow
    <3>2. /\ Reviews \subseteq profile.corrections \cup LostReviews
          /\ Reports \subseteq lesson.hours \cup LostReports
          /\ lesson.hours \subseteq Answered
      BY DEF Recorded, CareerInv
    <3>3. /\ Reports \subseteq seen.hours \cup careerOps[r].during \cup LostReports
          /\ seen.hours \subseteq Answered
      BY <1>1 DEF ReadInv, Recorded
    <3>4. r \notin Answered
      BY DEF Answered
    <3>5. lesson'.hours = IF reports THEN seen.hours \cup {r} ELSE lesson.hours
      BY <2>2, <3>3, <3>4
    <3>6. /\ Reports' \subseteq lesson'.hours \cup LostReports' /\ lesson'.hours \subseteq Answered'
      BY <3>1, <3>2, <3>3, <3>5
    <3>7. Reviews' \subseteq profile'.corrections \cup LostReviews'
      BY <2>1, <3>1, <3>2
    <3> QED BY <3>6, <3>7 DEF Recorded
  <2>4. r # Never /\ Timed(seen) /\ Timed(lesson)
    BY <1>1 DEF CareerInv, ReadInv, CareerRequests, Never
  <2>5. lesson.completed # Never => lesson'.completed # Never
    BY <2>2, <2>4
  <2>6. Timed(lesson)'
    BY <2>2, <2>4, <2>5 DEF Timed
  <2>7. IsProfile(profile')
    BY <2>1 DEF CareerInv, CareerTypes
  <2> QED BY <2>1, <2>2, <2>3, <2>5, <2>6, <2>7, CommitStep
<1> QED BY <1>2, <1>3

LEMMA CompleteCommitStep ==
  ASSUME CareerInv, NEW r \in CareerRequests, CompleteCommit(r), database' = database
  PROVE  CareerInv'
<1> DEFINE seen == careerOps[r].lesson
           result == Completed(r, seen)
<1>1. careerOps[r].phase = "read" /\ careerOps[r].request.op = "complete" /\ IsLesson(seen)
  BY DEF CompleteCommit, Pending, CareerInv, CareerTypes
<1>2. /\ IsLesson(result) /\ result.hours = seen.hours /\ result.completed \in {r, seen.completed}
      /\ result.status = "completed" /\ seen.status # "completed" => result.completed = r
      /\ result.completed # seen.completed => careerOps[r].request.status = "completed"
  BY <1>1 DEF Completed, IsLesson
<1>3. r # Never
  BY DEF CareerRequests, Never
<1>4. IF seen.stored # lesson.stored \/ Refused(seen, result)
      THEN RollsBack(r)
      ELSE /\ lesson' = [column \in DOMAIN lesson |->
                           IF result[column] # seen[column] THEN result[column] ELSE lesson[column]]
           /\ Finishes(r, "done")
           /\ UNCHANGED profile
  BY DEF CompleteCommit, Store
<1>5. result.completed # seen.completed => Completes(r)
  BY <1>1, <1>2 DEF Completes
<1> HIDE DEF result
<1> QED BY <1>1, <1>2, <1>3, <1>4, <1>5, ProgressStep

LEMMA UpdateCommitStep ==
  ASSUME CareerInv, NEW r \in CareerRequests, UpdateCommit(r), database' = database
  PROVE  CareerInv'
<1> DEFINE seen == careerOps[r].lesson
           result == Updated(r, seen)
           evidence == careerOps[r].request.evidence
<1>1. careerOps[r].phase = "read" /\ careerOps[r].request.op = "update"
  BY DEF UpdateCommit, Pending
<1>2. r # Never
  BY DEF CareerRequests, Never
<1>3. /\ IsLesson(result)
      /\ result.hours = IF careerOps[r].request.hours THEN seen.hours \cup {r} ELSE seen.hours
      /\ result.completed = IF evidence = "completed" /\ seen.completed = Never THEN r ELSE seen.completed
      /\ result.status \in {seen.status, evidence}
  BY DEF Updated, IsLesson
<1>4. result.status = "completed" /\ seen.status # "completed" => result.completed # Never
  BY <1>2, <1>3
<1>5. IF seen.stored # lesson.stored \/ Refused(seen, result)
      THEN RollsBack(r)
      ELSE /\ lesson' = [column \in DOMAIN lesson |->
                           IF result[column] # seen[column] THEN result[column] ELSE lesson[column]]
           /\ Finishes(r, "done")
           /\ UNCHANGED profile
  BY DEF UpdateCommit, Store
<1>6. result.completed # seen.completed => Completes(r)
  BY <1>1, <1>3 DEF Completes
<1> HIDE DEF result
<1> QED BY <1>1, <1>3, <1>4, <1>5, <1>6, ProgressStep

LEMMA CareerInvInit == CareerInit => CareerInv
<1> SUFFICES ASSUME CareerInit PROVE CareerInv
  OBVIOUS
<1>1. /\ careerOps = [r \in CareerRequests |-> careerOps[r]]
      /\ \A r \in CareerRequests : careerOps[r].phase = "idle"
  BY DEF CareerInit
<1>2. /\ profile.corrections = {} /\ lesson.hours = {} /\ lesson.status = "in_progress"
      /\ IsProfile(profile) /\ IsLesson(lesson)
  BY DEF CareerInit, IsProfile, IsLesson
<1>3. Reviews = {} /\ Reports = {}
  BY <1>1 DEF Reviews, Reports, Done
<1> QED BY <1>1, <1>2, <1>3 DEF CareerInv, CareerTypes, Recorded, Timed

LEMMA CareerInvStep == CareerInv /\ [CareerNext]_careerVars => CareerInv'
<1> SUFFICES ASSUME CareerInv, [CareerNext]_careerVars PROVE CareerInv'
  OBVIOUS
<1>1. CASE CareerNext
  <2> SUFFICES ASSUME NEW r \in CareerRequests,
                      \/ ReviewRead(r) \/ ReviewCommit(r)
                      \/ DossierRead(r) \/ DossierCommit(r)
                      \/ CompleteRead(r) \/ CompleteCommit(r)
                      \/ UpdateRead(r) \/ UpdateCommit(r)
               PROVE  CareerInv'
    BY <1>1 DEF CareerNext
  <2>2. database' = database
    BY <1>1 DEF CareerNext
  <2>1. CASE ReviewRead(r) \/ DossierRead(r) \/ CompleteRead(r) \/ UpdateRead(r)
    BY <2>1, <2>2, ReadsStep DEF ReviewRead, DossierRead, CompleteRead, UpdateRead
  <2> QED BY <2>1, <2>2, ReviewCommitStep, DossierCommitStep, CompleteCommitStep, UpdateCommitStep
<1>2. CASE UNCHANGED careerVars
  <2>1. UNCHANGED <<database, profile, lesson, careerOps>>
    BY <1>2 DEF careerVars
  <2>2. UNCHANGED <<Reviews, Reports, Answered, LostReviews, LostReports>>
    BY <2>1 DEF Reviews, Reports, Answered, LostReviews, LostReports, OverwrittenBy, Done
  <2> QED BY <2>1, <2>2 DEF CareerInv, CareerTypes, Recorded, Timed, ReadInv, IsProfile, IsLesson, IsRequest,
                          Excused, Completes
<1> QED BY <1>1, <1>2

\* What the candidate records is kept whatever runs beside it, but for what another request
\* of the same kind overwrites; a request fails only beside another, or on PostgreSQL to
\* complete a module; and a module is never complete without its time.
THEOREM NothingIsLostAloneHolds == CareerSpec => []NothingIsLostAlone
<1>1. ASSUME CareerInv PROVE NothingIsLostAlone
  <2>1. /\ Reviews \subseteq profile.corrections \cup LostReviews
        /\ Reports \subseteq lesson.hours \cup LostReports
        /\ lesson.status = "completed" => lesson.completed # Never
        /\ \A r \in CareerRequests : careerOps[r].phase = "failed" =>
             careerOps[r].during # {} \/ (database = "postgresql" /\ Completes(r))
    BY <1>1 DEF CareerInv, Recorded, Timed, Excused
  <2>2. \A r \in Reviews : r \in profile.corrections \/ OverwrittenBy(r, Reviews)
    BY <2>1 DEF LostReviews
  <2>3. \A r \in Reports : r \in lesson.hours \/ OverwrittenBy(r, Reports)
    BY <2>1 DEF LostReports
  <2> QED BY <2>1, <2>2, <2>3 DEF NothingIsLostAlone, Reviews, Reports
<1> QED BY CareerInvInit, CareerInvStep, <1>1, PTL DEF CareerSpec

----------------------------------------------------------------------------
\* Resumes.

Request ==
  [op : {"idle", "done"}]
  \cup [op : {"upload"}, began : Nat, content : Contents, failed : SUBSET Nat,
        version : Nat, first : BOOLEAN]
  \cup [op : {"process", "primary"}, began : Nat, target : Nat]
  \cup [op : {"delete"}, began : Nat, target : Nat, promote : SUBSET Nat]

\* Rows are numbered in the order of their commits, and versions are no greater.
ResumeTypes ==
  /\ resumes \in Seq(ResumeRow)
  /\ \A i \in DOMAIN resumes : resumes[i].version <= i /\ resumes[i].created <= clock
  /\ work \in [ResumeRequests -> Request]
  /\ clock \in Nat
  /\ overlapped \in BOOLEAN
  /\ replaced \in BOOLEAN

\* Times and versions that requests hold.
Drawn ==
  \A r \in ResumeRequests :
    /\ work[r].op \notin {"idle", "done"} => work[r].began <= clock
    /\ work[r].op = "upload" => work[r].version <= Len(resumes) + 1
    /\ work[r].op \in {"process", "delete", "primary"} => work[r].target \in DOMAIN resumes

\* One request at a time moves is_primary.
OneMover ==
  \A r, s \in ResumeRequests :
    work[r].op \in MovesPrimary /\ work[s].op \in MovesPrimary => r = s

\* What an upload read is still so: which resume it replaces, and what remains beside it.
UploadCurrent(u) ==
  /\ u.failed \subseteq Stored
  /\ \A i \in Stored : i \in u.failed <=> resumes[i].content = u.content
  /\ \A i \in Stored \ u.failed : resumes[i].version < u.version
  /\ u.first <=> Stored \subseteq u.failed

\* And so is what a deletion read: whether the others have a primary among them.
DeleteCurrent(d) ==
  LET remaining == Stored \ {d.target}
  IN \/ d.promote = {} /\ (remaining = {} \/ remaining \cap Primaries # {})
     \/ remaining \cap Primaries = {} /\ \E n \in remaining : d.promote = {n}

HeldIsCurrent ==
  \A r \in ResumeRequests :
    /\ work[r].op = "upload" => UploadCurrent(work[r])
    /\ work[r].op = "delete" => work[r].target \in Stored /\ DeleteCurrent(work[r])
    /\ work[r].op = "primary" => work[r].target \in Stored

Distinct ==
  \A i, j \in Stored :
    i # j => resumes[i].content # resumes[j].content /\ resumes[i].version # resumes[j].version

OnePrimary ==
  /\ \A i, j \in Primaries : i = j
  /\ ~ replaced /\ Stored # {} => Primaries # {}

InOrder == OneMover /\ HeldIsCurrent /\ Distinct /\ OnePrimary

ResumesInv == ResumeTypes /\ Drawn /\ (~ overlapped => InOrder)

\* What a step of the resumes never does: bring a deleted row back, or change what is parsed
\* of one but by processing it, at the time at which that began; and every request that
\* begins to process one begins later than all before it.
OnlyProcessingParses ==
  /\ clock' \in Nat /\ clock <= clock'
  /\ DOMAIN resumes \subseteq DOMAIN resumes'
  /\ \A i \in DOMAIN resumes :
       i \in Stored' => /\ i \in Stored
                        /\ \/ resumes'[i].parsed = resumes[i].parsed
                           \/ \E s \in ResumeRequests :
                                /\ Doing(s, "process") /\ work[s].target = i
                                /\ resumes'[i].updated = work[s].began
  /\ \A s \in ResumeRequests :
       work'[s].op = "process" => work'[s] = work[s] \/ work'[s].began = clock + 1

LEMMA LeastOf ==
  ASSUME NEW S \in SUBSET Nat, S # {}
  PROVE  \E m \in S : \A n \in S : m <= n
<1>1. \E m \in S : \A n \in S : ~ (<<n, m>> \in OpToRel(<, Nat))
  BY NatLessThanWellFounded, WFMin
<1>2. ASSUME NEW m \in Nat, NEW n \in Nat, n < m PROVE <<n, m>> \in OpToRel(<, Nat)
  BY <1>2, Zenon DEF OpToRel
<1>3. \E m \in S : \A n \in S : ~ (n < m)
  BY <1>1, <1>2, Zenon
<1> QED BY <1>3

LEMMA GreatestOf ==
  ASSUME NEW S \in SUBSET Nat, S # {}, NEW b \in Nat, \A n \in S : n <= b
  PROVE  \E m \in S : \A n \in S : n <= m
<1> DEFINE D == {d \in Nat : b - d \in S}
<1>1. D \in SUBSET Nat /\ D # {}
  <2>1. PICK n \in S : TRUE
    OBVIOUS
  <2>2. b - n \in Nat /\ b - (b - n) = n
    BY <2>1
  <2> QED BY <2>2
<1>2. PICK d \in D : \A e \in D : d <= e
  BY <1>1, LeastOf
<1>3. ASSUME NEW n \in S PROVE n <= b - d
  <2>1. b - n \in D
    BY <1>3
  <2> QED BY <1>2, <2>1
<1> QED BY <1>2, <1>3

\* Which of the fields a request has.
LEMMA RequestFields ==
  ASSUME NEW u \in Request
  PROVE  /\ u.op \in {"idle", "done", "upload", "process", "primary", "delete"}
         /\ u.op \notin {"idle", "done"} => u.began \in Nat
         /\ u.op = "upload" => /\ u.content \in Contents /\ u.failed \in SUBSET Nat
                               /\ u.version \in Nat /\ u.first \in BOOLEAN
         /\ u.op \in {"process", "primary", "delete"} => u.target \in Nat
         /\ u.op = "delete" => u.promote \in SUBSET Nat
BY DEF Request

LEMMA RequestMade ==
  /\ [op |-> "done"] \in Request
  /\ \A began \in Nat, content \in Contents, failed \in SUBSET Nat, version \in Nat, first \in BOOLEAN :
       [op |-> "upload", began |-> began, content |-> content, failed |-> failed,
        version |-> version, first |-> first] \in Request
  /\ \A op \in {"process", "primary"}, began \in Nat, target \in Nat :
       [op |-> op, began |-> began, target |-> target] \in Request
  /\ \A began \in Nat, target \in Nat, promote \in SUBSET Nat :
       [op |-> "delete", began |-> began, target |-> target, promote |-> promote] \in Request
BY DEF Request

LEMMA RowFields ==
  ASSUME ResumeTypes, NEW i \in DOMAIN resumes
  PROVE  /\ i \in 1..Len(resumes) /\ resumes[i] \in ResumeRow
         /\ resumes[i].status \in ResumeStatus /\ resumes[i].content \in Contents
         /\ resumes[i].version \in Nat /\ resumes[i].primary \in BOOLEAN
         /\ resumes[i].parsed \in BOOLEAN
         /\ resumes[i].created \in Nat /\ resumes[i].updated \in Nat
<1>1. i \in 1..Len(resumes) /\ resumes[i] \in ResumeRow
  BY DEF ResumeTypes
<1> QED BY <1>1 DEF ResumeRow

LEMMA WorkChanges ==
  ASSUME ResumeTypes, NEW r \in ResumeRequests, NEW w \in Request,
         work' = [work EXCEPT ![r] = w]
  PROVE  /\ work' \in [ResumeRequests -> Request]
         /\ work'[r] = w
         /\ \A s \in ResumeRequests \ {r} : work'[s] = work[s]
BY DEF ResumeTypes

\* A request ends and writes nothing.
LEMMA GiveUpStep == ASSUME ResumesInv, NEW r \in ResumeRequests, GiveUp(r) PROVE ResumesInv' /\ OnlyProcessingParses
<1>1. /\ work' \in [ResumeRequests -> Request] /\ work'[r] = [op |-> "done"]
      /\ \A s \in ResumeRequests \ {r} : work'[s] = work[s]
  BY WorkChanges, RequestMade DEF ResumesInv, GiveUp, Finish
<1>2. \A s \in ResumeRequests : work'[s].op # "done" => work'[s] = work[s]
  BY <1>1
<1>3. UNCHANGED <<resumes, clock, overlapped, replaced>>
  BY DEF GiveUp
<1>4. ResumeTypes'
  BY <1>1, <1>3 DEF ResumesInv, ResumeTypes
<1>5. Drawn'
  BY <1>2, <1>3 DEF ResumesInv, Drawn
<1>6. ASSUME ~ overlapped' PROVE InOrder'
  <2>1. UNCHANGED <<Stored, Primaries>>
    BY <1>3 DEF Stored, Primaries
  <2>2. OneMover'
    BY <1>2, <1>3, <1>6 DEF ResumesInv, InOrder, OneMover, MovesPrimary
  <2>3. HeldIsCurrent'
    BY <1>2, <1>3, <1>6, <2>1 DEF ResumesInv, InOrder, HeldIsCurrent, UploadCurrent, DeleteCurrent
  <2> QED BY <1>3, <1>6, <2>1, <2>2, <2>3 DEF ResumesInv, InOrder, Distinct, OnePrimary
<1>7. OnlyProcessingParses
  <2>1. UNCHANGED Stored
    BY <1>3 DEF Stored
  <2> QED BY <1>2, <1>3, <2>1 DEF OnlyProcessingParses, ResumesInv, ResumeTypes
<1> QED BY <1>4, <1>5, <1>6, <1>7 DEF ResumesInv

\* A request begins, and what it holds is what it has just read.
LEMMA HoldStep ==
  ASSUME ResumesInv, NEW r \in ResumeRequests, NEW held \in Request, Hold(r, held),
         held.op \notin {"idle", "done"}, held.began = clock + 1,
         held.op = "upload" => held.version <= Len(resumes) + 1,
         held.op \in {"process", "delete", "primary"} => held.target \in Stored,
         ~ overlapped => /\ held.op = "upload" => UploadCurrent(held)
                         /\ held.op = "delete" => DeleteCurrent(held)
  PROVE  ResumesInv' /\ OnlyProcessingParses
<1>1. /\ work' \in [ResumeRequests -> Request] /\ work'[r] = held
      /\ \A s \in ResumeRequests \ {r} : work'[s] = work[s]
  BY WorkChanges DEF ResumesInv, Hold
<1>2. UNCHANGED <<resumes, replaced>> /\ clock' = clock + 1
  BY DEF Hold
<1>3. ResumeTypes'
  <2>1. \A i \in DOMAIN resumes : resumes[i].created <= clock + 1
    BY RowFields DEF ResumesInv, ResumeTypes
  <2> QED BY <1>1, <1>2, <2>1 DEF ResumesInv, ResumeTypes, Hold
<1>4. Drawn'
  <2>1. UNCHANGED Stored /\ Stored \subseteq DOMAIN resumes /\ clock \in Nat
    BY <1>2 DEF Stored, ResumesInv, ResumeTypes
  <2>2. \A s \in ResumeRequests : work[s].op \notin {"idle", "done"} => work[s].began \in Nat
    BY RequestFields DEF ResumesInv, ResumeTypes
  <2> QED BY <1>1, <1>2, <2>1, <2>2 DEF ResumesInv, Drawn
<1>5. ASSUME ~ overlapped' PROVE InOrder'
  <2>1. UNCHANGED <<Stored, Primaries>>
    BY <1>2 DEF Stored, Primaries
  <2>2. ~ overlapped /\ (held.op \in MovesPrimary => \A s \in ResumeRequests : work[s].op \notin MovesPrimary)
    BY <1>5 DEF Hold, ResumesInv, ResumeTypes
  <2>3. OneMover'
    BY <1>1, <2>2 DEF ResumesInv, InOrder, OneMover
  <2>4. HeldIsCurrent'
    BY <1>1, <1>2, <2>1, <2>2 DEF ResumesInv, InOrder, HeldIsCurrent, UploadCurrent, DeleteCurrent
  <2> QED BY <1>2, <2>1, <2>2, <2>3, <2>4 DEF ResumesInv, InOrder, Distinct, OnePrimary
<1>6. OnlyProcessingParses
  <2>1. UNCHANGED Stored
    BY <1>2 DEF Stored
  <2> QED BY <1>1, <1>2, <2>1 DEF OnlyProcessingParses, ResumesInv, ResumeTypes
<1> QED BY <1>3, <1>4, <1>5, <1>6 DEF ResumesInv

LEMMA UploadReadStep ==
  ASSUME ResumesInv, NEW r \in ResumeRequests, NEW content \in Contents, UploadRead(r, content)
  PROVE  ResumesInv' /\ OnlyProcessingParses
<1> DEFINE same == {i \in Stored : resumes[i].content = content}
           kept == Stored \ same
           Versions == {resumes[i].version : i \in kept}
           version == IF kept = {} THEN 1
                      ELSE 1 + (CHOOSE v \in Versions : \A i \in kept : resumes[i].version <= v)
           held == [op |-> "upload", began |-> clock + 1, content |-> content, failed |-> same,
                    version |-> version, first |-> kept = {}]
<1>1. CASE GiveUp(r)
  BY <1>1, GiveUpStep
<1>2. CASE Hold(r, held)
  <2>1. /\ Len(resumes) \in Nat /\ clock \in Nat
        /\ \A i \in Stored : i \in 1..Len(resumes) /\ resumes[i].version \in Nat
                               /\ resumes[i].version <= i
    BY RowFields DEF ResumesInv, ResumeTypes, Stored
  <2>2. /\ version \in Nat /\ version <= Len(resumes) + 1
        /\ \A i \in kept : resumes[i].version < version
    <3>1. CASE kept = {}
      BY <2>1, <3>1
    <3>2. CASE kept # {}
      <4>1. Versions \in SUBSET Nat /\ Versions # {} /\ \A v \in Versions : v <= Len(resumes)
        BY <2>1, <3>2
      <4>2. \E v \in Versions : \A w \in Versions : w <= v
        BY <2>1, <4>1, GreatestOf
      <4>3. \E v \in Versions : \A i \in kept : resumes[i].version <= v
        BY <4>2
      <4> DEFINE most == CHOOSE v \in Versions : \A i \in kept : resumes[i].version <= v
      <4>4. most \in Versions /\ \A i \in kept : resumes[i].version <= most
        BY <4>3, Zenon
      <4>5. version = 1 + most
        BY <3>2
      <4> HIDE DEF most, version
      <4> QED BY <2>1, <4>1, <4>4, <4>5
    <3> QED BY <3>1, <3>2
  <2> HIDE DEF version
  <2>3. same \in SUBSET Nat /\ kept = Stored \ same
    BY <2>1
  <2>4. held \in Request
    <3>1. clock + 1 \in Nat /\ (kept = {}) \in BOOLEAN
      BY <2>1
    <3> QED BY <2>2, <2>3, <3>1, RequestMade, Zenon
  <2>5. UploadCurrent(held)
    BY <2>2 DEF UploadCurrent
  <2>6. held.op = "upload" /\ held.began = clock + 1 /\ held.version = version
    OBVIOUS
  <2> HIDE DEF held
  <2> QED BY <1>2, <2>2, <2>4, <2>5, <2>6, HoldStep
<1> QED BY <1>1, <1>2 DEF UploadRead

LEMMA DeleteReadStep ==
  ASSUME ResumesInv, NEW r \in ResumeRequests, NEW i \in Stored, DeleteRead(r, i)
  PROVE  ResumesInv' /\ OnlyProcessingParses
<1> DEFINE remaining == Stored \ {i}
           promote == IF remaining = {} \/ remaining \cap Primaries # {} THEN {}
                      ELSE {Newest(remaining)}
           held == [op |-> "delete", began |-> clock + 1, target |-> i, promote |-> promote]
<1>1. Hold(r, held)
  BY DEF DeleteRead
<1>2. /\ clock \in Nat /\ i \in Nat
      /\ \A j \in Stored : j \in Nat /\ resumes[j].created \in Nat /\ resumes[j].created <= clock
  BY RowFields DEF ResumesInv, ResumeTypes, Stored
<1>3. ASSUME remaining # {} PROVE Newest(remaining) \in remaining
  <2> DEFINE Times == {resumes[j].created : j \in remaining}
  <2>1. Times \in SUBSET Nat /\ Times # {} /\ \A t \in Times : t <= clock
    BY <1>2, <1>3
  <2>2. \E t \in Times : \A u \in Times : u <= t
    BY <1>2, <2>1, GreatestOf
  <2>3. \E n \in remaining : \A j \in remaining : resumes[j].created <= resumes[n].created
    BY <2>2
  <2> QED BY <2>3, Zenon DEF Newest
<1>4. promote \in SUBSET Nat
  BY <1>2, <1>3
<1>5. \/ promote = {} /\ (remaining = {} \/ remaining \cap Primaries # {})
      \/ remaining \cap Primaries = {} /\ \E n \in remaining : promote = {n}
  BY <1>3
<1> HIDE DEF promote
<1>6. held \in Request
  BY <1>2, <1>4, RequestMade
<1>7. held.op = "delete" /\ held.began = clock + 1 /\ held.target = i /\ held.promote = promote
  OBVIOUS
<1> HIDE DEF held
<1>8. DeleteCurrent(held)
  BY <1>5, <1>7 DEF DeleteCurrent
<1> QED BY <1>1, <1>6, <1>7, <1>8, HoldStep

\* A retry and a choice of the primary hold only which resume they are of.
LEMMA TargetReadStep ==
  ASSUME ResumesInv, NEW r \in ResumeRequests, NEW i \in Stored,
         RetryRead(r, i) \/ PrimaryRead(r, i)
  PROVE  ResumesInv' /\ OnlyProcessingParses
<1>1. CASE GiveUp(r)
  BY <1>1, GiveUpStep
<1>2. ASSUME NEW op \in {"process", "primary"},
             Hold(r, [op |-> op, began |-> clock + 1, target |-> i])
      PROVE  ResumesInv' /\ OnlyProcessingParses
  <2> DEFINE held == [op |-> op, began |-> clock + 1, target |-> i]
  <2>1. clock + 1 \in Nat /\ i \in Nat
    BY RowFields DEF ResumesInv, ResumeTypes, Stored
  <2>2. held \in Request
    BY <2>1, RequestMade
  <2>3. held.op = op /\ held.began = clock + 1 /\ held.target = i
    OBVIOUS
  <2>4. Hold(r, held)
    BY <1>2
  <2> HIDE DEF held
  <2> QED BY <2>2, <2>3, <2>4, HoldStep
<1> QED BY <1>1, <1>2 DEF RetryRead, PrimaryRead

LEMMA RowsKept ==
  ASSUME ResumeTypes, NEW rows \in [DOMAIN resumes -> ResumeRow]
  PROVE  rows \in Seq(ResumeRow) /\ DOMAIN rows = DOMAIN resumes /\ Len(rows) = Len(resumes)
BY DEF ResumeTypes

\* What a row keeps when it is deleted.
LEMMA RowDeleted ==
  ASSUME NEW row \in ResumeRow, NEW new, new = [row EXCEPT !.status = "deleted"]
  PROVE  /\ new \in ResumeRow /\ new.status = "deleted" /\ new.content = row.content
         /\ new.version = row.version /\ new.created = row.created
BY DEF ResumeRow, ResumeStatus

\* The two requests of an upload: the row is there, and to be processed.
LEMMA UploadCommitStep ==
  ASSUME ResumesInv, NEW r \in ResumeRequests, UploadCommit(r)
  PROVE  ResumesInv' /\ OnlyProcessingParses
<1> DEFINE u == work[r]
           n == Len(resumes) + 1
           row == [status |-> "uploaded", content |-> u.content, version |-> u.version,
                   primary |-> u.first, parsed |-> FALSE,
                   created |-> u.began, updated |-> u.began]
           marked == [i \in DOMAIN resumes |->
                        IF i \in u.failed THEN [resumes[i] EXCEPT !.status = "deleted"]
                        ELSE resumes[i]]
           next == [op |-> "process", began |-> clock + 1, target |-> n]
<1>1. /\ u.op = "upload" /\ resumes' = Append(marked, row) /\ clock' = clock + 1
      /\ work' = [work EXCEPT ![r] = next]
      /\ replaced' = (replaced \/ \E i \in u.failed : resumes[i].primary /\ ~ u.first)
      /\ overlapped' = overlapped
  BY DEF UploadCommit, Doing
<1>2. /\ u.began \in Nat /\ u.began <= clock /\ u.content \in Contents /\ u.failed \in SUBSET Nat
      /\ u.version \in Nat /\ u.version <= n /\ u.first \in BOOLEAN
      /\ clock \in Nat /\ n \in Nat /\ DOMAIN resumes = 1..n - 1
  <2>1. u \in Request /\ clock \in Nat /\ Len(resumes) \in Nat /\ DOMAIN resumes = 1..Len(resumes)
    BY DEF ResumesInv, ResumeTypes
  <2>2. u.began <= clock /\ u.version <= n
    BY <1>1 DEF ResumesInv, Drawn
  <2> QED BY <1>1, <2>1, <2>2, RequestFields
<1>3. row \in ResumeRow
  BY <1>2 DEF ResumeRow, ResumeStatus
<1>4. marked \in [DOMAIN resumes -> ResumeRow]
  BY RowFields, RowDeleted DEF ResumesInv
<1>5. marked \in Seq(ResumeRow) /\ Len(marked) = n - 1
  BY <1>2, <1>4, RowsKept DEF ResumesInv
<1>6. /\ resumes' \in Seq(ResumeRow) /\ Len(resumes') = n /\ DOMAIN resumes' = 1..n
      /\ resumes'[n] = row
      /\ \A i \in 1..n - 1 : resumes'[i] = marked[i]
  BY <1>1, <1>2, <1>3, <1>5
<1>7. \A i \in 1..n - 1 :
        /\ i \in u.failed => /\ resumes'[i].status = "deleted"
                             /\ resumes'[i].version = resumes[i].version
                             /\ resumes'[i].created = resumes[i].created
        /\ i \notin u.failed => resumes'[i] = resumes[i]
  <2>1. \A i \in 1..n - 1 :
          marked[i] = IF i \in u.failed THEN [resumes[i] EXCEPT !.status = "deleted"] ELSE resumes[i]
    BY <1>2
  <2> HIDE DEF marked
  <2> SUFFICES ASSUME NEW i \in 1..n - 1
               PROVE  /\ i \in u.failed => /\ resumes'[i].status = "deleted"
                                            /\ resumes'[i].version = resumes[i].version
                                            /\ resumes'[i].created = resumes[i].created
                      /\ i \notin u.failed => resumes'[i] = resumes[i]
    OBVIOUS
  <2>2. resumes[i] \in ResumeRow
    BY <1>2, RowFields DEF ResumesInv
  <2>3. CASE i \in u.failed
    <3>1. resumes'[i] = [resumes[i] EXCEPT !.status = "deleted"]
      BY <1>6, <2>1, <2>3
    <3> QED BY <2>2, <2>3, <3>1, RowDeleted
  <2> QED BY <1>6, <2>1, <2>3
<1> HIDE DEF marked
<1>8. /\ row.version = u.version /\ row.created = u.began /\ row.status = "uploaded"
      /\ row.content = u.content /\ row.primary = u.first
  OBVIOUS
<1> HIDE DEF row
<1>9. /\ work' \in [ResumeRequests -> Request] /\ work'[r] = next
      /\ \A s \in ResumeRequests \ {r} : work'[s] = work[s]
  <2>1. next \in Request
    BY <1>2, RequestMade
  <2> HIDE DEF next
  <2> QED BY <1>1, <2>1, WorkChanges DEF ResumesInv
<1>10. next.op = "process" /\ next.began = clock + 1 /\ next.target = n
  OBVIOUS
<1> HIDE DEF next
<1>11. ResumeTypes'
  <2>1. \A i \in 1..n - 1 : /\ resumes[i].version \in Nat /\ resumes[i].version <= i
                            /\ resumes[i].created \in Nat /\ resumes[i].created <= clock
    BY <1>2, RowFields DEF ResumesInv, ResumeTypes
  <2>2. \A i \in 1..n : resumes'[i].version <= i /\ resumes'[i].created <= clock + 1
    BY <1>2, <1>6, <1>7, <1>8, <2>1
  <2>3. overlapped' \in BOOLEAN /\ replaced' \in BOOLEAN
    BY <1>1, <1>2 DEF ResumesInv, ResumeTypes
  <2> QED BY <1>1, <1>2, <1>6, <1>9, <2>2, <2>3 DEF ResumeTypes
<1>12. Drawn'
  <2>1. \A s \in ResumeRequests :
          /\ work[s].op \notin {"idle", "done"} => work[s].began \in Nat /\ work[s].began <= clock
          /\ work[s].op = "upload" => work[s].version \in Nat /\ work[s].version <= n
          /\ work[s].op \in {"process", "delete", "primary"} => work[s].target \in 1..n - 1
    BY <1>2, RequestFields DEF ResumesInv, ResumeTypes, Drawn
  <2> QED BY <1>1, <1>2, <1>6, <1>9, <1>10, <2>1 DEF Drawn
<1>13. ASSUME ~ overlapped' PROVE InOrder'
  <2>1. InOrder
    BY <1>1, <1>13 DEF ResumesInv
  <2>2. UploadCurrent(u)
    BY <1>1, <2>1 DEF InOrder, HeldIsCurrent
  <2>3. n \notin Stored /\ Stored \subseteq 1..n - 1
    BY <1>2 DEF Stored
  <2>4. Stored' = (Stored \ u.failed) \cup {n}
    BY <1>2, <1>6, <1>7, <1>8 DEF Stored
  <2>5. Primaries' = (Primaries \ u.failed) \cup (IF u.first THEN {n} ELSE {})
    BY <1>2, <1>6, <1>7, <1>8, <2>3, <2>4 DEF Primaries
  <2>6. OneMover'
    BY <1>1, <1>9, <1>10, <2>1 DEF InOrder, OneMover, MovesPrimary
  <2>7. HeldIsCurrent'
    <3>1. \A s \in ResumeRequests : work'[s].op \notin MovesPrimary
      BY <1>1, <1>9, <1>10, <2>1 DEF InOrder, OneMover, MovesPrimary
    <3> QED BY <3>1 DEF HeldIsCurrent, MovesPrimary
  <2>8. Distinct'
    <3>1. \A i \in Stored \ u.failed : /\ resumes'[i] = resumes[i]
                                       /\ resumes[i].content # u.content
                                       /\ resumes[i].version \in Nat /\ resumes[i].version < u.version
      BY <1>2, <1>7, <2>2, <2>3, RowFields DEF UploadCurrent, ResumesInv
    <3>2. \A i, j \in Stored : i # j => /\ resumes[i].content # resumes[j].content
                                        /\ resumes[i].version # resumes[j].version
      BY <2>1 DEF InOrder, Distinct
    <3> QED BY <1>2, <1>6, <1>8, <2>4, <3>1, <3>2 DEF Distinct
  <2>9. OnePrimary'
    <3>1. Primaries \subseteq Stored
      BY DEF Primaries
    <3>2. \A i \in Primaries : resumes[i].primary
      BY DEF Primaries
    <3>3. CASE u.first
      BY <2>2, <2>4, <2>5, <3>1, <3>3 DEF UploadCurrent, OnePrimary
    <3>4. CASE ~ u.first
      BY <1>1, <2>1, <2>2, <2>4, <2>5, <3>1, <3>2, <3>4 DEF UploadCurrent, InOrder, OnePrimary
    <3> QED BY <3>3, <3>4
  <2> QED BY <2>6, <2>7, <2>8, <2>9 DEF InOrder
<1>14. OnlyProcessingParses
  <2>1. \A i \in 1..n - 1 : i \in Stored' => i \in Stored /\ resumes'[i] = resumes[i]
    BY <1>2, <1>6, <1>7 DEF Stored
  <2> QED BY <1>1, <1>2, <1>6, <1>9, <1>10, <2>1 DEF OnlyProcessingParses
<1> QED BY <1>11, <1>12, <1>13, <1>14 DEF ResumesInv

\* A request writes into rows, and ends.
LEMMA InPlace ==
  ASSUME ResumesInv, NEW r \in ResumeRequests, Finish(r), UNCHANGED <<clock, overlapped>>,
         replaced' \in BOOLEAN, resumes' \in [DOMAIN resumes -> ResumeRow],
         \A i \in DOMAIN resumes : /\ resumes'[i].version = resumes[i].version
                                   /\ resumes'[i].created = resumes[i].created
  PROVE  /\ ResumeTypes' /\ Drawn'
         /\ work'[r] = [op |-> "done"]
         /\ \A s \in ResumeRequests \ {r} : work'[s] = work[s]
         /\ DOMAIN resumes' = DOMAIN resumes
<1>1. /\ resumes' \in Seq(ResumeRow) /\ DOMAIN resumes' = DOMAIN resumes
      /\ Len(resumes') = Len(resumes)
  BY RowsKept DEF ResumesInv
<1>2. /\ work' \in [ResumeRequests -> Request] /\ work'[r] = [op |-> "done"]
      /\ \A s \in ResumeRequests \ {r} : work'[s] = work[s]
  BY WorkChanges, RequestMade DEF ResumesInv, Finish
<1>3. ResumeTypes'
  BY <1>1, <1>2 DEF ResumesInv, ResumeTypes
<1>4. Drawn'
  BY <1>1, <1>2 DEF ResumesInv, Drawn
<1> QED BY <1>1, <1>2, <1>3, <1>4

LEMMA ProcessedStep ==
  ASSUME ResumesInv, NEW r \in ResumeRequests, Processed(r)
  PROVE  ResumesInv' /\ OnlyProcessingParses
<1> DEFINE at == work[r].target
<1>1. CASE at \notin Stored
  BY <1>1, GiveUpStep DEF Processed
<1>2. CASE at \in Stored
  <2>1. PICK status \in {"parsed", "failed"}, parsed \in {TRUE, resumes[at].parsed} :
          resumes' = [resumes EXCEPT ![at].status = status, ![at].parsed = parsed,
                                     ![at].updated = work[r].began]
    BY <1>2 DEF Processed
  <2>2. Doing(r, "process") /\ Finish(r) /\ UNCHANGED <<clock, overlapped, replaced>>
    BY <1>2 DEF Processed
  <2>3. at \in DOMAIN resumes /\ work[r].began \in Nat
    BY <1>2, <2>2, RequestFields DEF Stored, Doing, ResumesInv, ResumeTypes
  <2> DEFINE row == [resumes[at] EXCEPT !.status = status, !.parsed = parsed, !.updated = work[r].began]
  <2>4. /\ row \in ResumeRow /\ row.status = status /\ row.version = resumes[at].version
        /\ row.created = resumes[at].created /\ row.content = resumes[at].content
        /\ row.primary = resumes[at].primary
    <3>1. resumes[at] \in ResumeRow
      BY <2>3, RowFields DEF ResumesInv
    <3> QED BY <2>3, <3>1 DEF ResumeRow, ResumeStatus
  <2>5. resumes' = [resumes EXCEPT ![at] = row]
    BY <2>1, <2>3
  <2> HIDE DEF row
  <2>6. resumes \in [DOMAIN resumes -> ResumeRow]
    BY RowFields DEF ResumesInv, ResumeTypes
  <2>7. /\ resumes' \in [DOMAIN resumes -> ResumeRow] /\ resumes'[at] = row
        /\ \A j \in DOMAIN resumes \ {at} : resumes'[j] = resumes[j]
    BY <2>3, <2>4, <2>5, <2>6
  <2>8. \A j \in DOMAIN resumes : /\ resumes'[j].version = resumes[j].version
                                  /\ resumes'[j].created = resumes[j].created
                                  /\ resumes'[j].content = resumes[j].content
                                  /\ resumes'[j].primary = resumes[j].primary
                                  /\ resumes'[j].status # "deleted" <=> j \in Stored
    BY <1>2, <2>4, <2>7 DEF Stored
  <2>9. /\ ResumeTypes' /\ Drawn' /\ work'[r] = [op |-> "done"]
        /\ \A s \in ResumeRequests \ {r} : work'[s] = work[s]
        /\ DOMAIN resumes' = DOMAIN resumes
    <3>1. Finish(r) /\ UNCHANGED <<clock, overlapped>> /\ replaced' \in BOOLEAN
      BY <2>2 DEF ResumesInv, ResumeTypes
    <3> QED BY <2>7, <2>8, <3>1, InPlace
  <2>10. UNCHANGED <<Stored, Primaries>>
    <3>1. Stored' = Stored
      BY <2>8, <2>9 DEF Stored
    <3>2. Primaries' = Primaries
      BY <2>8, <3>1 DEF Primaries, Stored
    <3> QED BY <3>1, <3>2
  <2>11. \A s \in ResumeRequests : work'[s].op # "done" => work'[s] = work[s]
    BY <2>9
  <2>12. \A j \in Stored : /\ resumes'[j].version = resumes[j].version
                           /\ resumes'[j].content = resumes[j].content
    BY <2>8 DEF Stored
  <2>13. ASSUME ~ overlapped' PROVE InOrder'
    <3>1. InOrder
      BY <2>2, <2>13 DEF ResumesInv
    <3>2. OneMover'
      BY <2>11, <3>1 DEF InOrder, OneMover, MovesPrimary
    <3>3. HeldIsCurrent'
      BY <2>10, <2>11, <2>12, <3>1 DEF InOrder, HeldIsCurrent, UploadCurrent, DeleteCurrent
    <3>4. Distinct'
      BY <2>10, <2>12, <3>1 DEF InOrder, Distinct
    <3>5. OnePrimary'
      BY <2>2, <2>10, <3>1 DEF InOrder, OnePrimary
    <3> QED BY <3>2, <3>3, <3>4, <3>5 DEF InOrder
  <2>14. OnlyProcessingParses
    <3>1. \A j \in DOMAIN resumes \ {at} : resumes'[j].parsed = resumes[j].parsed
      BY <2>7
    <3>2. resumes'[at].updated = work[r].began
      <4>1. row.updated = work[r].began
        <5>1. resumes[at] \in ResumeRow
          BY <2>3, RowFields DEF ResumesInv
        <5> QED BY <5>1 DEF row, ResumeRow
      <4> QED BY <2>7, <4>1
    <3> QED BY <2>2, <2>9, <2>10, <2>11, <3>1, <3>2 DEF OnlyProcessingParses, ResumesInv, ResumeTypes
  <2> QED BY <2>9, <2>13, <2>14, SMTT(30) DEF ResumesInv
<1> QED BY <1>1, <1>2

LEMMA DeleteCommitStep ==
  ASSUME ResumesInv, NEW r \in ResumeRequests, DeleteCommit(r)
  PROVE  ResumesInv' /\ OnlyProcessingParses
<1> DEFINE d == work[r]
           New(i) == IF i = d.target THEN [resumes[i] EXCEPT !.status = "deleted"]
                     ELSE IF i \in d.promote
                     THEN [resumes[i] EXCEPT !.primary = TRUE, !.updated = d.began]
                     ELSE resumes[i]
<1>1. CASE GiveUp(r)
  BY <1>1, GiveUpStep
<1>2. CASE ~ GiveUp(r)
  <2>1. /\ d.op = "delete" /\ d.promote \subseteq Stored
        /\ resumes' = [i \in DOMAIN resumes |-> New(i)]
        /\ Finish(r) /\ UNCHANGED <<clock, overlapped, replaced>>
    BY <1>2 DEF DeleteCommit, Doing
  <2>2. d.began \in Nat /\ d.target \in Nat /\ d.promote \in SUBSET Nat
    BY <2>1, RequestFields DEF ResumesInv, ResumeTypes
  <2>3. ASSUME NEW i \in DOMAIN resumes
        PROVE  /\ resumes'[i] = New(i) /\ New(i) \in ResumeRow
               /\ New(i).version = resumes[i].version
               /\ New(i).created = resumes[i].created
               /\ New(i).content = resumes[i].content
               /\ New(i).status = IF i = d.target THEN "deleted" ELSE resumes[i].status
               /\ i # d.target => New(i).parsed = resumes[i].parsed
               /\ i # d.target => (New(i).primary <=> i \in d.promote \/ resumes[i].primary)
    <3>1. resumes[i] \in ResumeRow /\ resumes[i].primary \in BOOLEAN
      BY RowFields DEF ResumesInv
    <3>2. resumes'[i] = New(i)
      BY <2>1
    <3>3. CASE i = d.target
      <4>1. New(i) = [resumes[i] EXCEPT !.status = "deleted"]
        BY <3>3
      <4> HIDE DEF New
      <4> QED BY <3>1, <3>2, <3>3, <4>1, RowDeleted
    <3>4. CASE i # d.target /\ i \in d.promote
      <4>1. New(i) = [resumes[i] EXCEPT !.primary = TRUE, !.updated = d.began]
        BY <3>4
      <4> HIDE DEF New
      <4>2. /\ New(i) \in ResumeRow /\ New(i).status = resumes[i].status
            /\ New(i).content = resumes[i].content /\ New(i).version = resumes[i].version
            /\ New(i).created = resumes[i].created /\ New(i).primary = TRUE
            /\ New(i).parsed = resumes[i].parsed
        BY <2>2, <3>1, <4>1 DEF ResumeRow
      <4> QED BY <3>2, <3>4, <4>2
    <3>5. CASE i # d.target /\ i \notin d.promote
      <4>1. New(i) = resumes[i]
        BY <3>5
      <4> HIDE DEF New
      <4> QED BY <3>1, <3>2, <3>5, <4>1
    <3> QED BY <3>3, <3>4, <3>5
  <2>4. resumes' \in [DOMAIN resumes -> ResumeRow]
    BY <2>1, <2>3
  <2> HIDE DEF New
  <2>5. /\ ResumeTypes' /\ Drawn' /\ work'[r] = [op |-> "done"]
        /\ \A s \in ResumeRequests \ {r} : work'[s] = work[s]
        /\ DOMAIN resumes' = DOMAIN resumes
    <3>1. UNCHANGED <<clock, overlapped>> /\ replaced' \in BOOLEAN
      BY <2>1 DEF ResumesInv, ResumeTypes
    <3> QED BY <2>1, <2>3, <2>4, <3>1, InPlace
  <2>6. Stored' = Stored \ {d.target}
    BY <2>3, <2>5 DEF Stored
  <2>7. ASSUME ~ overlapped' PROVE InOrder'
    <3>1. InOrder
      BY <2>1, <2>7 DEF ResumesInv
    <3>2. d.target \in Stored /\ DeleteCurrent(d)
      BY <2>1, <3>1 DEF InOrder, HeldIsCurrent
    <3>3. Primaries' = (Primaries \ {d.target}) \cup (d.promote \ {d.target})
      BY <2>1, <2>3, <2>6 DEF Primaries, Stored
    <3>4. \A s \in ResumeRequests : work'[s].op \notin MovesPrimary
      BY <2>1, <2>5, <3>1 DEF InOrder, OneMover, MovesPrimary
    <3>5. OneMover' /\ HeldIsCurrent'
      BY <3>4 DEF OneMover, HeldIsCurrent, MovesPrimary
    <3>6. Distinct'
      BY <2>3, <2>6, <3>1 DEF InOrder, Distinct, Stored
    <3>7. OnePrimary'
      <4>1. Primaries \subseteq Stored /\ \A i, j \in Primaries : i = j
        BY <3>1 DEF InOrder, OnePrimary, Primaries
      <4> QED BY <2>6, <3>2, <3>3, <4>1 DEF DeleteCurrent, OnePrimary
    <3> QED BY <3>5, <3>6, <3>7 DEF InOrder
  <2>8. OnlyProcessingParses
    <3>1. \A s \in ResumeRequests : work'[s].op = "process" => work'[s] = work[s]
      BY <2>5
    <3> QED BY <2>1, <2>3, <2>5, <2>6, <3>1 DEF OnlyProcessingParses, ResumesInv, ResumeTypes
  <2> QED BY <2>5, <2>7, <2>8 DEF ResumesInv
<1> QED BY <1>1, <1>2

LEMMA PrimaryCommitStep ==
  ASSUME ResumesInv, NEW r \in ResumeRequests, PrimaryCommit(r)
  PROVE  ResumesInv' /\ OnlyProcessingParses
<1> DEFINE p == work[r]
           New(i) == IF i \in Stored
                     THEN [resumes[i] EXCEPT !.primary = (i = p.target), !.updated = p.began]
                     ELSE resumes[i]
<1>1. /\ p.op = "primary" /\ resumes' = [i \in DOMAIN resumes |-> New(i)]
      /\ Finish(r) /\ UNCHANGED <<clock, overlapped, replaced>>
  BY DEF PrimaryCommit, Doing
<1>2. p.began \in Nat /\ p.target \in Nat
  BY <1>1, RequestFields DEF ResumesInv, ResumeTypes
<1>3. ASSUME NEW i \in DOMAIN resumes
      PROVE  /\ resumes'[i] = New(i) /\ New(i) \in ResumeRow
             /\ New(i).version = resumes[i].version
             /\ New(i).created = resumes[i].created
             /\ New(i).content = resumes[i].content
             /\ New(i).status = resumes[i].status
             /\ New(i).parsed = resumes[i].parsed
             /\ i \in Stored => (New(i).primary <=> i = p.target)
  <2>1. resumes[i] \in ResumeRow /\ (i = p.target) \in BOOLEAN
    BY RowFields DEF ResumesInv
  <2>2. resumes'[i] = New(i)
    BY <1>1
  <2>3. CASE i \in Stored
    <3>1. New(i) = [resumes[i] EXCEPT !.primary = (i = p.target), !.updated = p.began]
      BY <2>3
    <3> HIDE DEF New
    <3>2. /\ New(i) \in ResumeRow /\ New(i).status = resumes[i].status
          /\ New(i).content = resumes[i].content /\ New(i).version = resumes[i].version
          /\ New(i).created = resumes[i].created /\ New(i).primary = (i = p.target)
          /\ New(i).parsed = resumes[i].parsed
      BY <1>2, <2>1, <3>1 DEF ResumeRow
    <3> QED BY <2>2, <2>3, <3>2
  <2>4. CASE i \notin Stored
    <3>1. New(i) = resumes[i]
      BY <2>4
    <3> HIDE DEF New
    <3> QED BY <2>1, <2>2, <2>4, <3>1
  <2> QED BY <2>3, <2>4
<1>4. resumes' \in [DOMAIN resumes -> ResumeRow]
  BY <1>1, <1>3
<1> HIDE DEF New
<1>5. /\ ResumeTypes' /\ Drawn' /\ work'[r] = [op |-> "done"]
      /\ \A s \in ResumeRequests \ {r} : work'[s] = work[s]
      /\ DOMAIN resumes' = DOMAIN resumes
  <2>1. UNCHANGED <<clock, overlapped>> /\ replaced' \in BOOLEAN
    BY <1>1 DEF ResumesInv, ResumeTypes
  <2> QED BY <1>1, <1>3, <1>4, <2>1, InPlace
<1>6. Stored' = Stored
  BY <1>3, <1>5 DEF Stored
<1>7. ASSUME ~ overlapped' PROVE InOrder'
  <2>1. InOrder
    BY <1>1, <1>7 DEF ResumesInv
  <2>2. p.target \in Stored
    BY <1>1, <2>1 DEF InOrder, HeldIsCurrent
  <2>3. Primaries' = {p.target}
    <3>1. \A i \in Stored : resumes'[i].primary <=> i = p.target
      BY <1>3 DEF Stored
    <3> QED BY <1>6, <2>2, <3>1 DEF Primaries
  <2>4. \A s \in ResumeRequests : work'[s].op \notin MovesPrimary
    BY <1>1, <1>5, <2>1 DEF InOrder, OneMover, MovesPrimary
  <2>5. OneMover' /\ HeldIsCurrent'
    BY <2>4 DEF OneMover, HeldIsCurrent, MovesPrimary
  <2>6. Distinct'
    BY <1>3, <1>6, <2>1 DEF InOrder, Distinct, Stored
  <2>7. OnePrimary'
    BY <2>3 DEF OnePrimary
  <2> QED BY <2>5, <2>6, <2>7 DEF InOrder
<1>8. OnlyProcessingParses
  <2>1. \A s \in ResumeRequests : work'[s].op = "process" => work'[s] = work[s]
    BY <1>5
  <2> QED BY <1>1, <1>3, <1>5, <1>6, <2>1 DEF OnlyProcessingParses, ResumesInv, ResumeTypes
<1> QED BY <1>5, <1>7, <1>8 DEF ResumesInv

LEMMA ResumesStep ==
  ASSUME ResumesInv, [ResumesNext]_resumeVars
  PROVE  ResumesInv' /\ OnlyProcessingParses
<1>1. CASE ResumesNext
  <2> SUFFICES ASSUME NEW r \in ResumeRequests,
                      \/ \E content \in Contents : UploadRead(r, content)
                      \/ \E i \in Stored : RetryRead(r, i) \/ DeleteRead(r, i) \/ PrimaryRead(r, i)
                      \/ UploadCommit(r) \/ Processed(r) \/ DeleteCommit(r) \/ PrimaryCommit(r)
                      \/ CutOff(r)
               PROVE  ResumesInv' /\ OnlyProcessingParses
    BY <1>1 DEF ResumesNext
  <2>1. CASE \E content \in Contents : UploadRead(r, content)
    BY <2>1, UploadReadStep
  <2>2. CASE \E i \in Stored : RetryRead(r, i) \/ DeleteRead(r, i) \/ PrimaryRead(r, i)
    BY <2>2, TargetReadStep, DeleteReadStep
  <2>3. CASE UploadCommit(r)
    BY <2>3, UploadCommitStep
  <2>4. CASE Processed(r)
    BY <2>4, ProcessedStep
  <2>5. CASE DeleteCommit(r)
    BY <2>5, DeleteCommitStep
  <2>6. CASE PrimaryCommit(r)
    BY <2>6, PrimaryCommitStep
  <2>7. CASE CutOff(r)
    BY <2>7, GiveUpStep DEF CutOff
  <2> QED BY <2>1, <2>2, <2>3, <2>4, <2>5, <2>6, <2>7
<1>2. CASE UNCHANGED resumeVars
  BY <1>2 DEF resumeVars, ResumesInv, ResumeTypes, Drawn, InOrder, OneMover, HeldIsCurrent,
              UploadCurrent, DeleteCurrent, Distinct, OnePrimary, Stored, Primaries,
              OnlyProcessingParses
<1> QED BY <1>1, <1>2

LEMMA InitResumes == ResumesInit => ResumesInv
<1> SUFFICES ASSUME ResumesInit PROVE ResumesInv
  OBVIOUS
<1>1. resumes = <<>> /\ clock = 0 /\ overlapped = FALSE /\ replaced = FALSE
  BY DEF ResumesInit
<1>2. /\ work \in [ResumeRequests -> Request]
      /\ \A r \in ResumeRequests : work[r].op = "idle"
  BY DEF ResumesInit, Request
<1>3. Stored = {} /\ Primaries = {} /\ DOMAIN resumes = {}
  BY <1>1 DEF Stored, Primaries
<1>4. ResumeTypes /\ Drawn
  <2>1. resumes \in Seq(ResumeRow)
    BY <1>1
  <2> QED BY <1>1, <1>2, <1>3, <2>1 DEF ResumeTypes, Drawn
<1>5. InOrder
  BY <1>2, <1>3 DEF InOrder, OneMover, HeldIsCurrent, Distinct, OnePrimary, MovesPrimary
<1> QED BY <1>4, <1>5 DEF ResumesInv

LEMMA ResumesInvGives == ResumesInv => ResumesInOrder
<1> SUFFICES ASSUME ResumesInv, ~ overlapped
             PROVE  /\ \A i, j \in Stored : i # j =>
                         /\ resumes[i].content # resumes[j].content
                         /\ resumes[i].version # resumes[j].version
                    /\ Cardinality(Primaries) <= 1
                    /\ ~ replaced /\ Stored # {} => Primaries # {}
  BY DEF ResumesInOrder
<1>1. Distinct /\ OnePrimary
  BY DEF ResumesInv, InOrder
<1>2. Primaries = {} \/ \E i : Primaries = {i}
  BY <1>1 DEF OnePrimary
<1>3. Cardinality(Primaries) <= 1
  <2>1. CASE Primaries = {}
    BY <2>1, FS_EmptySet
  <2>2. ASSUME NEW i, Primaries = {i} PROVE Cardinality(Primaries) = 1
    BY <2>2, FS_Singleton, Zenon
  <2> QED BY <1>2, <2>1, <2>2
<1> QED BY <1>1, <1>3 DEF Distinct, OnePrimary

----------------------------------------------------------------------------
\* The caches of fits.

CacheRow ==
  [present : {TRUE}, resume : Nat, updated : Nat, version : Nat,
   of : [edits : SUBSET FitRequests, resume : Nat, parsed : BOOLEAN]]

JobRow == [version : Nat, edits : SUBSET FitRequests]

FitRequest ==
  [op : {"idle", "done"}]
  \cup [op : {"edit"}, version : Nat]
  \cup [op : {"compute"}, kind : Kinds, row : CacheRow, insert : BOOLEAN, extracted : BOOLEAN]
  \cup [op : {"intel"}, row : CacheRow, insert : BOOLEAN, job : JobRow]
  \cup [op : {"fit"}, intel : CacheRow, row : CacheRow, extracted : BOOLEAN]

FitTypes ==
  /\ job \in JobRow
  /\ extraction \in {Absent} \cup [present : {TRUE}, version : Nat, edits : SUBSET FitRequests]
  /\ cached \in [Kinds -> {Absent} \cup CacheRow]
  /\ reading \in [FitRequests -> FitRequest]
  /\ sharing \in BOOLEAN
  /\ blurred \in BOOLEAN

\* The rows that a request is to write.
RowsOf(u) ==
  IF u.op \in {"compute", "intel"} THEN {u.row} ELSE IF u.op = "fit" THEN {u.intel, u.row} ELSE {}

\* The rows that are there, and those that are to be written.
Computed ==
  {cached[k] : k \in {l \in Kinds : cached[l].present}}
  \cup UNION {RowsOf(reading[r]) : r \in FitRequests}

\* Made at a version of the job, from its edits at that version.
MadeOf(version, edits) == version <= job.version /\ (version = job.version => edits = job.edits)

EditsInOrder ==
  /\ \A r, s \in FitRequests : reading[r].op = "edit" /\ reading[s].op = "edit" => r = s
  /\ \A r \in FitRequests : reading[r].op = "edit" => reading[r].version = job.version
  /\ \A r \in FitRequests :
       reading[r].op = "intel" => MadeOf(reading[r].job.version, reading[r].job.edits)
  /\ extraction.present => MadeOf(extraction.version, extraction.edits)
  /\ \A row \in Computed : MadeOf(row.version, row.of.edits)

\* row is of a resume that was there, and its computation has begun.
OfResume(row) ==
  /\ row.updated <= clock
  /\ row.resume \in DOMAIN resumes \cup {NoResume}
  /\ row.resume # NoResume => row.of.resume = row.resume

\* As long as that resume is not written to, row is of it as it is parsed now; and whoever
\* is processing it will set it a later time.
AsParsed(row) ==
  row.resume \in Stored =>
    /\ resumes[row.resume].updated <= row.updated => row.of.parsed = resumes[row.resume].parsed
    /\ \A s \in ResumeRequests :
         Doing(s, "process") /\ work[s].target = row.resume => row.updated < work[s].began

FitInv ==
  /\ ResumesInv /\ FitTypes
  /\ ~ sharing => EditsInOrder
  /\ \A row \in Computed : OfResume(row)
  /\ ~ blurred => \A row \in Computed : AsParsed(row)

LEMMA FitRequestFields ==
  ASSUME NEW u \in FitRequest
  PROVE  /\ u.op \in {"idle", "done", "edit", "compute", "intel", "fit"}
         /\ u.op = "edit" => u.version \in Nat
         /\ u.op = "compute" => u.kind \in Kinds /\ u.insert \in BOOLEAN
         /\ u.op \in {"compute", "fit"} => u.extracted \in BOOLEAN
         /\ u.op \in {"compute", "intel", "fit"} => u.row \in CacheRow
         /\ u.op = "intel" => u.insert \in BOOLEAN /\ u.job \in JobRow
         /\ u.op = "fit" => u.intel \in CacheRow
BY DEF FitRequest

LEMMA FitRequestMade ==
  /\ [op |-> "done"] \in FitRequest
  /\ \A version \in Nat : [op |-> "edit", version |-> version] \in FitRequest
  /\ \A kind \in Kinds, row \in CacheRow, insert, extracted \in BOOLEAN :
       [op |-> "compute", kind |-> kind, row |-> row, insert |-> insert, extracted |-> extracted]
         \in FitRequest
  /\ \A row \in CacheRow, insert \in BOOLEAN, j \in JobRow :
       [op |-> "intel", row |-> row, insert |-> insert, job |-> j] \in FitRequest
  /\ \A intel, row \in CacheRow, extracted \in BOOLEAN :
       [op |-> "fit", intel |-> intel, row |-> row, extracted |-> extracted] \in FitRequest
BY DEF FitRequest

LEMMA CacheRowFields ==
  ASSUME NEW row \in CacheRow
  PROVE  /\ row.present = TRUE /\ row.resume \in Nat /\ row.updated \in Nat /\ row.version \in Nat
         /\ row.of.edits \in SUBSET FitRequests /\ row.of.resume \in Nat
         /\ row.of.parsed \in BOOLEAN
         /\ row.of \in [edits : SUBSET FitRequests, resume : Nat, parsed : BOOLEAN]
BY DEF CacheRow

LEMMA ReadingChanges ==
  ASSUME FitTypes, NEW r \in FitRequests, NEW u \in FitRequest,
         reading' = [reading EXCEPT ![r] = u]
  PROVE  /\ reading' \in [FitRequests -> FitRequest]
         /\ reading'[r] = u
         /\ \A s \in FitRequests \ {r} : reading'[s] = reading[s]
BY DEF FitTypes

LEMMA ComputedRows ==
  ASSUME FitTypes
  PROVE  /\ Computed \subseteq CacheRow
         /\ \A k \in Kinds : cached[k].present => cached[k] \in Computed
         /\ \A r \in FitRequests : RowsOf(reading[r]) \subseteq Computed
<1>1. ASSUME NEW k \in Kinds, cached[k].present PROVE cached[k] \in CacheRow
  <2>1. cached[k] \in {Absent} \cup CacheRow
    BY DEF FitTypes
  <2>2. Absent.present = FALSE
    BY DEF Absent
  <2> QED BY <1>1, <2>1, <2>2
<1>2. ASSUME NEW r \in FitRequests PROVE RowsOf(reading[r]) \subseteq CacheRow
  BY FitRequestFields DEF FitTypes, RowsOf
<1> QED BY <1>1, <1>2 DEF Computed

\* What the writing of a request adds to the rows, at most.
LEMMA RowsChange ==
  ASSUME FitTypes, NEW r \in FitRequests, NEW u \in FitRequest,
         reading' = [reading EXCEPT ![r] = u], cached' = cached
  PROVE  Computed' \subseteq Computed \cup RowsOf(u)
<1>1. \A s \in FitRequests : reading'[s] = u \/ reading'[s] = reading[s]
  BY ReadingChanges
<1>2. \A s \in FitRequests : RowsOf(reading'[s]) \subseteq Computed \cup RowsOf(u)
  BY <1>1, ComputedRows
<1>3. \A s \in FitRequests : RowsOf(reading[s])' = RowsOf(reading'[s])
  BY DEF RowsOf
<1> QED BY <1>2, <1>3 DEF Computed

\* A row is made of the job, as it was read, and of the primary as it is.
LEMMA ReadRow ==
  ASSUME FitInv, NEW j \in JobRow, NEW began \in Nat, NEW row, row = Row(j, began)
  PROVE  /\ row \in CacheRow /\ row.updated = began /\ row.resume = Primary
         /\ row.version = j.version
         /\ row.of.edits = Requirements(j) /\ row.of.resume = Primary
         /\ Primary \in Primaries \cup {NoResume}
         /\ Primary \in DOMAIN resumes \cup {NoResume}
         /\ Primary \in Primaries => row.of.parsed = resumes[Primary].parsed
<1>1. Primary \in Primaries \cup {NoResume}
  BY DEF Primary
<1>2. Primaries \subseteq DOMAIN resumes /\ \A i \in Primaries : i \in Nat /\ i # 0 /\ resumes[i].parsed \in BOOLEAN
  BY RowFields DEF FitInv, ResumesInv, ResumeTypes, Primaries, Stored
<1>3. Requirements(j) \in SUBSET FitRequests
  <2>1. extraction.present => extraction.edits \in SUBSET FitRequests
    <3>1. Absent.present = FALSE
      BY DEF Absent
    <3> QED BY <3>1 DEF FitInv, FitTypes
  <2>2. j.edits \in SUBSET FitRequests
    BY DEF JobRow
  <2> QED BY <2>1, <2>2 DEF Requirements, ExtractionIsFresh
<1>4. j.version \in Nat /\ Primary \in Nat
  BY <1>1, <1>2 DEF FitInv, FitTypes, ResumesInv, ResumeTypes, NoResume, JobRow
<1> DEFINE of == Source(Requirements(j), Primary)
<1>5. /\ of = [edits |-> of.edits, resume |-> of.resume, parsed |-> of.parsed]
      /\ of.edits = Requirements(j) /\ of.resume = Primary
      /\ of.parsed <=> Primary # NoResume /\ resumes[Primary].parsed
      /\ of.parsed \in BOOLEAN
  BY Zenon DEF Source
<1>6. Primary \in Primaries => of.parsed = resumes[Primary].parsed
  BY <1>2, <1>5 DEF NoResume
<1>0. row = [present |-> TRUE, resume |-> Primary, updated |-> began, version |-> j.version, of |-> of]
  BY Zenon DEF Row
<1> HIDE DEF of
<1>7. of \in [edits : SUBSET FitRequests, resume : Nat, parsed : BOOLEAN]
  BY <1>3, <1>4, <1>5
<1>8. row \in CacheRow /\ row.updated = began /\ row.resume = Primary /\ row.version = j.version /\ row.of = of
  BY <1>0, <1>4, <1>7 DEF CacheRow
<1> QED BY <1>1, <1>2, <1>5, <1>6, <1>8

\* A request is answered, or has read what it holds: nothing that is cached changes, and the
\* resumes do not.
LEMMA NothingCached ==
  ASSUME FitInv, FitTypes', UNCHANGED <<resumes, work, overlapped, replaced, job, extraction, cached>>,
         clock' \in Nat, clock <= clock', blurred => blurred',
         ~ sharing' => ~ sharing,
         ~ sharing' => /\ \A r, s \in FitRequests :
                            reading'[r].op = "edit" /\ reading'[s].op = "edit" => r = s
                       /\ \A r \in FitRequests : reading'[r].op = "edit" => reading'[r].version = job.version
                       /\ \A r \in FitRequests :
                            reading'[r].op = "intel" => MadeOf(reading'[r].job.version, reading'[r].job.edits),
         \A row \in Computed' :
           \/ row \in Computed
           \/ /\ ~ sharing => MadeOf(row.version, row.of.edits)
              /\ row.updated <= clock'
              /\ row.resume \in DOMAIN resumes \cup {NoResume}
              /\ row.of.resume = row.resume
              /\ ~ blurred' => AsParsed(row)
  PROVE  FitInv'
<1>1. ResumesInv'
  <2>1. ResumeTypes'
    <3>1. \A i \in DOMAIN resumes : resumes[i].created \in Nat
      BY RowFields DEF FitInv, ResumesInv
    <3> QED BY <3>1 DEF FitInv, ResumesInv, ResumeTypes
  <2>2. Drawn'
    <3>1. \A r \in ResumeRequests : work[r].op \notin {"idle", "done"} => work[r].began \in Nat
      BY RequestFields DEF FitInv, ResumesInv, ResumeTypes
    <3> QED BY <3>1 DEF FitInv, ResumesInv, ResumeTypes, Drawn
  <2>3. ~ overlapped' => InOrder'
    BY DEF FitInv, ResumesInv, InOrder, OneMover, HeldIsCurrent, UploadCurrent, DeleteCurrent,
           Distinct, OnePrimary, Stored, Primaries
  <2> QED BY <2>1, <2>2, <2>3 DEF ResumesInv
<1>2. ASSUME ~ sharing' PROVE EditsInOrder'
  <2>1. EditsInOrder
    BY <1>2 DEF FitInv
  <2>2. \A row \in Computed' : MadeOf(row.version, row.of.edits)'
    BY <1>2, <2>1 DEF EditsInOrder, MadeOf
  <2> QED BY <1>2, <2>1, <2>2 DEF EditsInOrder, MadeOf
<1>3. \A row \in Computed' : OfResume(row)'
  <2>1. \A row \in Computed : row.updated \in Nat /\ OfResume(row)
    BY ComputedRows, CacheRowFields DEF FitInv
  <2>2. clock \in Nat
    BY DEF FitInv, ResumesInv, ResumeTypes
  <2> QED BY <2>1, <2>2 DEF OfResume
<1>4. ASSUME ~ blurred' PROVE \A row \in Computed' : AsParsed(row)'
  <2>1. \A row \in Computed : AsParsed(row)
    BY <1>4 DEF FitInv
  <2> QED BY <1>4, <2>1 DEF AsParsed, Stored, Doing
<1> QED BY <1>1, <1>2, <1>3, <1>4 DEF FitInv

LEMMA EditReadStep == ASSUME FitInv, NEW r \in FitRequests, EditRead(r) PROVE FitInv'
<1> DEFINE u == [op |-> "edit", version |-> job.version]
<1>1. u \in FitRequest /\ u.op = "edit" /\ u.version = job.version
  <2>1. job.version \in Nat
    BY DEF FitInv, FitTypes, JobRow
  <2> QED BY <2>1 DEF FitRequest
<1>2. /\ reading' = [reading EXCEPT ![r] = u]
      /\ sharing' = (sharing \/ \E s \in FitRequests : reading[s].op = "edit")
      /\ UNCHANGED <<resumes, work, clock, overlapped, replaced, job, extraction, cached, blurred>>
  BY DEF EditRead, Turn, resumeVars
<1> HIDE DEF u
<1>3. /\ reading' \in [FitRequests -> FitRequest] /\ reading'[r] = u
      /\ \A s \in FitRequests \ {r} : reading'[s] = reading[s]
  BY <1>1, <1>2, ReadingChanges DEF FitInv
<1>4. FitTypes'
  BY <1>2, <1>3 DEF FitInv, FitTypes
<1>5. Computed' \subseteq Computed
  <2>1. RowsOf(u) = {}
    BY <1>1 DEF RowsOf
  <2> QED BY <1>1, <1>2, <2>1, RowsChange DEF FitInv
<1>6. ~ sharing' => ~ sharing /\ \A s \in FitRequests : reading[s].op # "edit"
  BY <1>2
<1>7. clock' \in Nat /\ clock <= clock'
  BY <1>2 DEF FitInv, ResumesInv, ResumeTypes
<1>8. ~ sharing' => /\ \A q, s \in FitRequests :
                         reading'[q].op = "edit" /\ reading'[s].op = "edit" => q = s
                    /\ \A s \in FitRequests : reading'[s].op = "edit" => reading'[s].version = job.version
                    /\ \A s \in FitRequests :
                         reading'[s].op = "intel" => MadeOf(reading'[s].job.version, reading'[s].job.edits)
  BY <1>1, <1>3, <1>6 DEF FitInv, EditsInOrder
<1> QED BY <1>2, <1>4, <1>5, <1>6, <1>7, <1>8, NothingCached

LEMMA EditCommitStep == ASSUME FitInv, NEW r \in FitRequests, EditCommit(r) PROVE FitInv'
<1>1. /\ reading[r].op = "edit"
      /\ job' = [version |-> reading[r].version + 1, edits |-> job.edits \cup {r}]
      /\ reading' = [reading EXCEPT ![r] = [op |-> "done"]]
      /\ UNCHANGED <<resumes, work, clock, overlapped, replaced, extraction, cached, sharing, blurred>>
  BY DEF EditCommit, Settle, resumeVars
<1>2. /\ reading' \in [FitRequests -> FitRequest] /\ reading'[r] = [op |-> "done"]
      /\ \A s \in FitRequests \ {r} : reading'[s] = reading[s]
  BY <1>1, ReadingChanges, FitRequestMade DEF FitInv
<1>3. FitTypes'
  <2>1. reading[r].version \in Nat
    BY <1>1, FitRequestFields DEF FitInv, FitTypes
  <2>2. job' \in JobRow
    <3>1. job.edits \cup {r} \in SUBSET FitRequests
      BY DEF FitInv, FitTypes, JobRow
    <3> QED BY <1>1, <2>1, <3>1 DEF JobRow
  <2> QED BY <1>1, <1>2, <2>2 DEF FitInv, FitTypes
<1>4. Computed' \subseteq Computed
  <2>1. RowsOf([op |-> "done"]) = {} /\ [op |-> "done"] \in FitRequest
    BY FitRequestMade DEF RowsOf
  <2> QED BY <1>1, <2>1, RowsChange DEF FitInv
<1>5. ResumesInv'
  BY <1>1 DEF FitInv, ResumesInv, ResumeTypes, Drawn, InOrder, OneMover, HeldIsCurrent,
              UploadCurrent, DeleteCurrent, Distinct, OnePrimary, Stored, Primaries
<1>6. ASSUME ~ sharing' PROVE EditsInOrder'
  <2>1. EditsInOrder
    BY <1>1, <1>6 DEF FitInv
  <2>2. job'.version = job.version + 1 /\ job.version \in Nat
    BY <1>1, <2>1 DEF EditsInOrder, FitInv, FitTypes, JobRow
  <2>3. ASSUME NEW version \in Nat, NEW edits, MadeOf(version, edits)
        PROVE  MadeOf(version, edits)'
    BY <2>2, <2>3 DEF MadeOf
  <2>4. extraction.present => extraction.version \in Nat
    <3>1. Absent.present = FALSE
      BY DEF Absent
    <3> QED BY <3>1 DEF FitInv, FitTypes
  <2>5. extraction'.present => MadeOf(extraction.version, extraction.edits)'
    BY <1>1, <2>1, <2>3, <2>4 DEF EditsInOrder
  <2>6. \A row \in Computed' : MadeOf(row.version, row.of.edits)'
    <3>1. \A row \in Computed : row.version \in Nat
      BY ComputedRows, CacheRowFields DEF FitInv
    <3> QED BY <1>4, <2>1, <2>3, <3>1 DEF EditsInOrder
  <2>7. \A s \in FitRequests : reading'[s].op # "edit"
    BY <1>1, <1>2, <2>1 DEF EditsInOrder
  <2>8. ASSUME NEW s \in FitRequests, reading'[s].op = "intel"
        PROVE  MadeOf(reading[s].job.version, reading[s].job.edits)'
    <3>1. reading'[s] = reading[s]
      BY <1>2, <2>8
    <3>2. reading[s].job.version \in Nat
      BY <2>8, <3>1, FitRequestFields DEF FitInv, FitTypes, JobRow
    <3>3. MadeOf(reading[s].job.version, reading[s].job.edits)
      BY <2>1, <2>8, <3>1 DEF EditsInOrder
    <3>4. reading'[s].job.version <= job'.version /\ reading'[s].job.version # job'.version
      BY <2>2, <3>1, <3>2, <3>3 DEF MadeOf
    <3> QED BY <3>4 DEF MadeOf
  <2> QED BY <1>1, <2>5, <2>6, <2>7, <2>8 DEF EditsInOrder
<1>7. \A row \in Computed' : OfResume(row)'
  BY <1>1, <1>4 DEF FitInv, OfResume
<1>8. ASSUME ~ blurred' PROVE \A row \in Computed' : AsParsed(row)'
  BY <1>1, <1>4, <1>8 DEF FitInv, AsParsed, Stored, Doing
<1> QED BY <1>3, <1>5, <1>6, <1>7, <1>8 DEF FitInv

\* The request is answered: from the cached row, after writing its rows, or with an error.
LEMMA SettleStep ==
  ASSUME FitInv, NEW r \in FitRequests, Settle(r), UNCHANGED <<resumeVars, job, sharing, blurred>>,
         cached' \in [Kinds -> {Absent} \cup CacheRow],
         \A k \in Kinds : cached'[k].present => cached'[k] \in Computed,
         \/ extraction' = extraction
         \/ extraction' = [present |-> TRUE, version |-> job.version, edits |-> job.edits]
         \/ \E row \in Computed : extraction' = [present |-> TRUE, version |-> row.version,
                                                 edits |-> row.of.edits]
  PROVE  FitInv'
<1>1. /\ reading' = [reading EXCEPT ![r] = [op |-> "done"]]
      /\ UNCHANGED <<resumes, work, clock, overlapped, replaced, job, sharing, blurred>>
  BY DEF Settle, resumeVars
<1>2. /\ reading' \in [FitRequests -> FitRequest] /\ reading'[r] = [op |-> "done"]
      /\ \A s \in FitRequests \ {r} : reading'[s] = reading[s]
  BY <1>1, ReadingChanges, FitRequestMade DEF FitInv
<1>0. job.version \in Nat /\ job.edits \in SUBSET FitRequests
  BY DEF FitInv, FitTypes, JobRow
<1>3. FitTypes'
  <2>1. extraction' \in {Absent} \cup [present : {TRUE}, version : Nat, edits : SUBSET FitRequests]
    <3>1. \A row \in Computed : row.version \in Nat /\ row.of.edits \in SUBSET FitRequests
      BY ComputedRows, CacheRowFields DEF FitInv
    <3>2. CASE extraction' = extraction
      BY <3>2 DEF FitInv, FitTypes
    <3>3. CASE extraction' = [present |-> TRUE, version |-> job.version, edits |-> job.edits]
      BY <1>0, <3>3
    <3>4. CASE \E row \in Computed : extraction' = [present |-> TRUE, version |-> row.version,
                                                   edits |-> row.of.edits]
      BY <3>1, <3>4
    <3> QED BY <3>2, <3>3, <3>4
  <2> QED BY <1>1, <1>2, <2>1 DEF FitInv, FitTypes
<1>4. Computed' \subseteq Computed
  <2>1. \A s \in FitRequests : RowsOf(reading'[s]) \subseteq RowsOf(reading[s])
    BY <1>2 DEF RowsOf
  <2>2. \A s \in FitRequests : RowsOf(reading[s])' = RowsOf(reading'[s])
    BY DEF RowsOf
  <2> QED BY <2>1, <2>2, ComputedRows DEF Computed, FitInv
<1>5. ResumesInv'
  BY <1>1 DEF FitInv, ResumesInv, ResumeTypes, Drawn, InOrder, OneMover, HeldIsCurrent,
              UploadCurrent, DeleteCurrent, Distinct, OnePrimary, Stored, Primaries
<1>6. ASSUME ~ sharing' PROVE EditsInOrder'
  <2>1. EditsInOrder
    BY <1>1, <1>6 DEF FitInv
  <2>2. \A row \in Computed : MadeOf(row.version, row.of.edits)
    BY <2>1 DEF EditsInOrder
  <2>3. extraction'.present => MadeOf(extraction'.version, extraction'.edits)
    BY <1>0, <2>1, <2>2 DEF EditsInOrder, MadeOf
  <2>4. \A s \in FitRequests : reading'[s].op \in {"edit", "intel"} => reading'[s] = reading[s]
    BY <1>2
  <2> QED BY <1>1, <1>4, <2>1, <2>2, <2>3, <2>4 DEF EditsInOrder, MadeOf
<1>7. \A row \in Computed' : OfResume(row)'
  BY <1>1, <1>4 DEF FitInv, OfResume
<1>8. ASSUME ~ blurred' PROVE \A row \in Computed' : AsParsed(row)'
  BY <1>1, <1>4, <1>8 DEF FitInv, AsParsed, Stored, Doing
<1> QED BY <1>3, <1>5, <1>6, <1>7, <1>8 DEF FitInv

\* Nothing is written.
LEMMA NoneWritten ==
  ASSUME FitInv, NEW r \in FitRequests, Settle(r),
         UNCHANGED <<resumeVars, job, sharing, blurred, cached, extraction>>
  PROVE  FitInv'
<1>1. \A k \in Kinds : cached'[k].present => cached'[k] \in Computed
  BY ComputedRows DEF FitInv
<1> QED BY <1>1, SettleStep DEF FitInv, FitTypes

\* A request computes a row, of a job that it has read, and is to write it.
LEMMA ComputeStep ==
  ASSUME FitInv, NEW r \in FitRequests, NEW j \in JobRow, NEW u \in FitRequest,
         NEW began \in Nat, clock' \in Nat, clock <= clock', began <= clock',
         ~ sharing => MadeOf(j.version, j.edits),
         u.op \in {"compute", "intel", "fit"},
         u.op = "intel" => u.job = j,
         RowsOf(u) \subseteq Computed \cup {Row(j, began)},
         reading' = [reading EXCEPT ![r] = u], Compute,
         UNCHANGED <<resumes, work, overlapped, replaced, job, extraction, cached, sharing>>
  PROVE  FitInv'
<1> DEFINE row == Row(j, began)
<1>1. blurred' = (blurred \/ \E s \in ResumeRequests :
                              Doing(s, "process") /\ work[s].target = Primary)
  BY DEF Compute
<1>2. /\ row \in CacheRow /\ row.updated = began /\ row.resume = Primary
      /\ row.version = j.version
      /\ row.of.edits = Requirements(j) /\ row.of.resume = Primary
      /\ Primary \in Primaries \cup {NoResume}
      /\ Primary \in DOMAIN resumes \cup {NoResume}
      /\ Primary \in Primaries => row.of.parsed = resumes[Primary].parsed
  BY ReadRow
<1>3. RowsOf(u) \subseteq Computed \cup {row}
  OBVIOUS
<1> HIDE DEF row
<1>5. /\ reading' \in [FitRequests -> FitRequest] /\ reading'[r] = u
      /\ \A s \in FitRequests \ {r} : reading'[s] = reading[s]
  BY ReadingChanges DEF FitInv
<1>6. FitTypes'
  <2>1. blurred' \in BOOLEAN
    BY <1>1
  <2> QED BY <1>5, <2>1 DEF FitInv, FitTypes
<1>7. Computed' \subseteq Computed \cup {row}
  BY <1>3, RowsChange DEF FitInv
<1>8. /\ clock' \in Nat /\ clock <= clock' /\ row.updated <= clock'
      /\ row.resume \in DOMAIN resumes \cup {NoResume} /\ row.of.resume = row.resume
  BY <1>2
<1>9. ~ sharing => MadeOf(row.version, row.of.edits)
  <2>1. job.version \in Nat /\ j.version \in Nat
    BY DEF FitInv, FitTypes, JobRow
  <2>2. CASE ~ ExtractionIsFresh(j)
    BY <1>2, <2>2 DEF Requirements
  <2>3. ASSUME ~ sharing, ExtractionIsFresh(j) PROVE MadeOf(j.version, extraction.edits)
    <3>1. extraction.version \in Nat
      <4>1. Absent.present = FALSE
        BY DEF Absent
      <4> QED BY <2>3, <4>1 DEF FitInv, FitTypes, ExtractionIsFresh
    <3>2. MadeOf(extraction.version, extraction.edits) /\ extraction.version >= j.version
      BY <2>3 DEF FitInv, EditsInOrder, ExtractionIsFresh
    <3>3. MadeOf(j.version, j.edits)
      BY <2>3
    <3> QED BY <2>1, <3>1, <3>2, <3>3 DEF MadeOf
  <2> QED BY <1>2, <2>2, <2>3 DEF Requirements
<1>10. ASSUME ~ blurred' PROVE AsParsed(row)
  <2>1. \A s \in ResumeRequests : ~ (Doing(s, "process") /\ work[s].target = Primary)
    BY <1>1, <1>10
  <2>2. Primary \in Stored => Primary \in Primaries
    <3>1. NoResume \notin Stored
      BY RowFields DEF FitInv, ResumesInv, Stored, NoResume
    <3> QED BY <1>2, <3>1
  <2> QED BY <1>2, <2>1, <2>2 DEF AsParsed
<1>11. \A s \in FitRequests : reading'[s].op = "edit" => reading'[s] = reading[s]
  BY <1>5
<1>12. ~ sharing' =>
         /\ \A q, s \in FitRequests : reading'[q].op = "edit" /\ reading'[s].op = "edit" => q = s
         /\ \A s \in FitRequests : reading'[s].op = "edit" => reading'[s].version = job.version
         /\ \A s \in FitRequests :
              reading'[s].op = "intel" => MadeOf(reading'[s].job.version, reading'[s].job.edits)
  BY <1>5, <1>11 DEF FitInv, EditsInOrder
<1>13. (blurred => blurred') /\ (~ sharing' => ~ sharing)
  BY <1>1
<1>14. \A new \in Computed' :
         \/ new \in Computed
         \/ /\ ~ sharing => MadeOf(new.version, new.of.edits)
            /\ new.updated <= clock'
            /\ new.resume \in DOMAIN resumes \cup {NoResume}
            /\ new.of.resume = new.resume
            /\ ~ blurred' => AsParsed(new)
  BY <1>7, <1>8, <1>9, <1>10
<1> QED BY <1>6, <1>8, <1>12, <1>13, <1>14, NothingCached

\* The job as it is now.
LEMMA JobIsMade ==
  ASSUME FitInv
  PROVE  /\ job \in JobRow /\ MadeOf(job.version, job.edits)
         /\ clock \in Nat /\ clock + 1 \in Nat /\ clock <= clock + 1
BY DEF FitInv, FitTypes, JobRow, MadeOf, ResumesInv, ResumeTypes

LEMMA ComputingRow ==
  ASSUME FitInv, NEW k \in Kinds
  PROVE  /\ Computing(k) \in FitRequest /\ Computing(k).op = "compute"
         /\ RowsOf(Computing(k)) = {Row(job, clock + 1)}
<1> DEFINE row == Row(job, clock + 1)
           insert == ~ cached[k].present
           extracted == k = "fit" /\ ~ ExtractionIsFresh(job)
           u == [op |-> "compute", kind |-> k, row |-> row, insert |-> insert,
                 extracted |-> extracted]
<1>1. Computing(k) = u
  BY Zenon DEF Computing
<1>2. row \in CacheRow
  BY JobIsMade, ReadRow
<1>3. insert \in BOOLEAN /\ extracted \in BOOLEAN
  OBVIOUS
<1>5. row = Row(job, clock + 1)
  OBVIOUS
<1> HIDE DEF row, insert, extracted
<1>4. u \in FitRequest /\ u.op = "compute" /\ u.row = row
  BY <1>2, <1>3, FitRequestMade
<1> QED BY <1>1, <1>4, <1>5 DEF RowsOf

\* A request that computes the row of a kind, with the job as it is now.
LEMMA ComputingStep ==
  ASSUME FitInv, NEW r \in FitRequests, NEW k \in Kinds,
         reading' = [reading EXCEPT ![r] = Computing(k)], Compute, clock' = clock + 1,
         UNCHANGED <<resumes, work, overlapped, replaced, job, extraction, cached, sharing>>
  PROVE  FitInv'
<1> DEFINE u == Computing(k)
<1>1. u \in FitRequest /\ u.op = "compute" /\ RowsOf(u) = {Row(job, clock + 1)}
  BY ComputingRow
<1>2. reading' = [reading EXCEPT ![r] = u]
  OBVIOUS
<1> HIDE DEF u
<1>3. /\ u.op \in {"compute", "intel", "fit"} /\ (u.op = "intel" => u.job = job)
      /\ RowsOf(u) \subseteq Computed \cup {Row(job, clock + 1)}
  BY <1>1
<1>4. /\ job \in JobRow /\ clock + 1 \in Nat /\ (~ sharing => MadeOf(job.version, job.edits))
      /\ clock' \in Nat /\ clock <= clock' /\ clock + 1 <= clock'
  BY JobIsMade
<1> QED BY <1>1, <1>2, <1>3, <1>4, ComputeStep, Zenon

LEMMA CacheReadStep ==
  ASSUME FitInv, NEW r \in FitRequests, NEW k \in Kinds, CacheRead(r, k)
  PROVE  FitInv'
<1>1. UNCHANGED <<resumes, work, overlapped, replaced, job, cached, sharing>>
  BY DEF CacheRead
<1>2. CASE Settle(r) /\ UNCHANGED <<clock, blurred>>
  <2>1. UNCHANGED <<resumeVars, job, sharing, blurred, cached>>
    BY <1>1, <1>2 DEF resumeVars
  <2>2. \A l \in Kinds : cached'[l].present => cached'[l] \in Computed
    BY <2>1, ComputedRows DEF FitInv
  <2>3. \/ extraction' = extraction
        \/ extraction' = [present |-> TRUE, version |-> job.version, edits |-> job.edits]
    BY DEF CacheRead
  <2> QED BY <1>2, <2>1, <2>2, <2>3, SettleStep DEF FitInv, FitTypes
<1>3. CASE ~ (Settle(r) /\ UNCHANGED <<clock, blurred>>)
  <2>1. Turn(r, Computing(k)) /\ Compute /\ clock' = clock + 1 /\ UNCHANGED extraction
    BY <1>3, Zenon DEF CacheRead
  <2>2. reading' = [reading EXCEPT ![r] = Computing(k)]
    BY <2>1 DEF Turn
  <2>3. UNCHANGED <<resumes, work, overlapped, replaced, job, extraction, cached, sharing>>
    BY <1>1, <2>1
  <2> QED BY <2>1, <2>2, <2>3, ComputingStep, Zenon
<1> QED BY <1>2, <1>3

\* The commit of one or of both rows of a request.
LEMMA WritesRows ==
  ASSUME FitInv, NEW r \in FitRequests, Settle(r), UNCHANGED <<resumeVars, job, sharing, blurred>>,
         \A k \in Kinds : cached'[k] = cached[k] \/ cached'[k] \in RowsOf(reading[r]),
         DOMAIN cached' = Kinds, cached' = [k \in Kinds |-> cached'[k]],
         \/ extraction' = extraction
         \/ \E row \in RowsOf(reading[r]) : extraction' = [present |-> TRUE, version |-> row.version,
                                                           edits |-> row.of.edits]
  PROVE  FitInv'
<1>1. RowsOf(reading[r]) \subseteq Computed /\ Computed \subseteq CacheRow
  BY ComputedRows DEF FitInv
<1>2. \A k \in Kinds : cached'[k].present => cached'[k] \in Computed
  BY <1>1, ComputedRows DEF FitInv
<1>3. \A k \in Kinds : cached'[k] \in {Absent} \cup CacheRow
  BY <1>1 DEF FitInv, FitTypes
<1>4. cached' \in [Kinds -> {Absent} \cup CacheRow]
  BY <1>3
<1>5. \/ extraction' = extraction
      \/ \E row \in Computed : extraction' = [present |-> TRUE, version |-> row.version,
                                              edits |-> row.of.edits]
  BY <1>1
<1> QED BY <1>2, <1>4, <1>5, SettleStep

LEMMA CacheCommitStep ==
  ASSUME FitInv, NEW r \in FitRequests, CacheCommit(r)
  PROVE  FitInv'
<1> DEFINE c == reading[r]
<1>1. /\ c.op = "compute" /\ Settle(r) /\ UNCHANGED <<resumeVars, job, sharing, blurred>>
      /\ \/ UNCHANGED <<cached, extraction>>
         \/ /\ cached' = [cached EXCEPT ![c.kind] = c.row]
            /\ \/ extraction' = extraction
               \/ extraction' = [present |-> TRUE, version |-> c.row.version,
                                 edits |-> c.row.of.edits]
  BY DEF CacheCommit, Extracted
<1>2. c.row \in RowsOf(c)
  BY <1>1 DEF RowsOf
<1>3. CASE UNCHANGED <<cached, extraction>>
  BY <1>1, <1>3, NoneWritten
<1>4. CASE cached' = [cached EXCEPT ![c.kind] = c.row]
  <2> HIDE DEF c
  <2>1. DOMAIN cached = Kinds /\ cached \in [Kinds -> {Absent} \cup CacheRow]
    BY DEF FitInv, FitTypes
  <2>2. /\ \A k \in Kinds : cached'[k] = cached[k] \/ cached'[k] = c.row
        /\ DOMAIN cached' = Kinds /\ cached' = [k \in Kinds |-> cached'[k]]
    BY <1>4, <2>1
  <2> QED BY <1>1, <1>2, <2>2, WritesRows DEF c
<1> QED BY <1>1, <1>3, <1>4

LEMMA JobIntelReadStep ==
  ASSUME FitInv, NEW r \in FitRequests, JobIntelRead(r)
  PROVE  FitInv'
<1>1. UNCHANGED <<resumes, work, overlapped, replaced, job, extraction, cached, sharing>>
  BY DEF JobIntelRead
<1>2. CASE Settle(r) /\ UNCHANGED <<clock, blurred>>
  <2>1. UNCHANGED <<resumeVars, job, sharing, blurred, cached, extraction>>
    BY <1>1, <1>2 DEF resumeVars
  <2> QED BY <1>2, <2>1, NoneWritten
<1>3. CASE ~ (Settle(r) /\ UNCHANGED <<clock, blurred>>)
  <2> DEFINE row == Row(job, clock + 1)
             insert == ~ cached["intel"].present
             u == [op |-> "intel", row |-> row, insert |-> insert, job |-> job]
  <2>1. /\ Compute /\ clock' = clock + 1
        /\ \/ reading' = [reading EXCEPT ![r] = Computing("fit")]
           \/ reading' = [reading EXCEPT ![r] = u]
    BY <1>3, Zenon DEF JobIntelRead, Turn
  <2>2. CASE reading' = [reading EXCEPT ![r] = Computing("fit")]
    <3>1. "fit" \in Kinds
      BY DEF Kinds
    <3> QED BY <1>1, <2>1, <2>2, <3>1, ComputingStep, Zenon
  <2>3. CASE reading' = [reading EXCEPT ![r] = u]
    <3>1. row \in CacheRow /\ job \in JobRow /\ MadeOf(job.version, job.edits)
      BY JobIsMade, ReadRow
    <3>2. insert \in BOOLEAN /\ row = Row(job, clock + 1)
      OBVIOUS
    <3> HIDE DEF row, insert
    <3>3. u \in FitRequest /\ u.op = "intel" /\ u.row = row /\ u.job = job
      BY <3>1, <3>2, FitRequestMade
    <3> HIDE DEF u
    <3>4. RowsOf(u) = {Row(job, clock + 1)}
      BY <3>2, <3>3 DEF RowsOf
    <3>5. /\ u.op \in {"compute", "intel", "fit"} /\ (u.op = "intel" => u.job = job)
          /\ RowsOf(u) \subseteq Computed \cup {Row(job, clock + 1)}
      BY <3>3, <3>4
    <3>6. /\ clock + 1 \in Nat /\ clock' \in Nat /\ clock <= clock' /\ clock + 1 <= clock'
          /\ (~ sharing => MadeOf(job.version, job.edits))
      BY <2>1, JobIsMade
    <3> QED BY <1>1, <2>1, <2>3, <3>1, <3>3, <3>5, <3>6, ComputeStep, Zenon
  <2> QED BY <2>1, <2>2, <2>3
<1> QED BY <1>2, <1>3

LEMMA JobIntelReturnsStep ==
  ASSUME FitInv, NEW r \in FitRequests, JobIntelReturns(r)
  PROVE  FitInv'
<1> DEFINE c == reading[r]
           row == Row(c.job, c.row.updated)
           extracted == ~ ExtractionIsFresh(c.job)
           u == [op |-> "fit", intel |-> c.row, row |-> row, extracted |-> extracted]
<1>1. /\ c.op = "intel"
      /\ UNCHANGED <<resumeVars, job, extraction, sharing>>
      /\ \/ Settle(r) /\ UNCHANGED <<cached, blurred>>
         \/ /\ cached' = [cached EXCEPT !["intel"] = c.row]
            /\ Settle(r) /\ UNCHANGED blurred
         \/ reading' = [reading EXCEPT ![r] = u] /\ Compute /\ UNCHANGED cached
  BY Zenon DEF JobIntelReturns
<1>2. c.row \in RowsOf(c) /\ c.row \in CacheRow /\ c.job \in JobRow
  <2>1. c.row \in CacheRow /\ c.job \in JobRow
    BY <1>1, FitRequestFields DEF FitInv, FitTypes
  <2> QED BY <1>1, <2>1 DEF RowsOf
<1>3. CASE Settle(r) /\ UNCHANGED <<cached, blurred>>
  <2>1. UNCHANGED <<resumeVars, job, sharing, blurred, cached, extraction>>
    BY <1>1, <1>3 DEF resumeVars
  <2> QED BY <1>3, <2>1, NoneWritten
<1>4. CASE cached' = [cached EXCEPT !["intel"] = c.row] /\ Settle(r) /\ UNCHANGED blurred
  <2> HIDE DEF c
  <2>1. DOMAIN cached = Kinds /\ cached \in [Kinds -> {Absent} \cup CacheRow]
    BY DEF FitInv, FitTypes
  <2>2. /\ \A k \in Kinds : cached'[k] = cached[k] \/ cached'[k] = c.row
        /\ DOMAIN cached' = Kinds /\ cached' = [k \in Kinds |-> cached'[k]]
    BY <1>4, <2>1
  <2>3. UNCHANGED <<resumeVars, job, sharing, blurred, extraction>>
    BY <1>1, <1>4 DEF resumeVars
  <2> QED BY <1>2, <1>4, <2>2, <2>3, WritesRows DEF c
<1>5. CASE reading' = [reading EXCEPT ![r] = u] /\ Compute /\ UNCHANGED cached
  <2>0. /\ c.row.updated \in Nat /\ c.row.updated <= clock /\ clock \in Nat
        /\ clock' = clock /\ UNCHANGED <<resumes, work, overlapped, replaced>>
    BY <1>1, <1>2, ComputedRows, CacheRowFields
       DEF FitInv, OfResume, ResumesInv, ResumeTypes, resumeVars
  <2>1. row \in CacheRow /\ (~ sharing => MadeOf(c.job.version, c.job.edits))
    BY <1>1, <1>2, <2>0, ReadRow DEF FitInv, EditsInOrder
  <2>2. extracted \in BOOLEAN /\ row = Row(c.job, c.row.updated)
    OBVIOUS
  <2>3. c.row \in Computed
    BY <1>2, ComputedRows DEF FitInv
  <2> HIDE DEF row, extracted, c
  <2>4. u \in FitRequest /\ u.op = "fit" /\ u.row = row /\ u.intel = c.row
    BY <1>2, <2>1, <2>2, FitRequestMade
  <2> HIDE DEF u
  <2>5. RowsOf(u) \subseteq Computed \cup {Row(c.job, c.row.updated)}
    BY <2>2, <2>3, <2>4 DEF RowsOf
  <2>6. u.op \in {"compute", "intel", "fit"} /\ (u.op = "intel" => u.job = c.job)
    BY <2>4
  <2>7. /\ UNCHANGED <<resumes, work, overlapped, replaced, job, extraction, cached, sharing>>
        /\ clock' \in Nat /\ clock <= clock' /\ c.row.updated <= clock'
    BY <1>1, <1>5, <2>0
  <2> QED BY <1>2, <1>5, <2>0, <2>1, <2>4, <2>5, <2>6, <2>7, ComputeStep, Zenon
<1> QED BY <1>1, <1>3, <1>4, <1>5

LEMMA JobFitCommitStep ==
  ASSUME FitInv, NEW r \in FitRequests, JobFitCommit(r)
  PROVE  FitInv'
<1> DEFINE c == reading[r]
<1>1. /\ c.op = "fit" /\ Settle(r) /\ UNCHANGED <<resumeVars, job, sharing, blurred>>
      /\ \/ UNCHANGED <<cached, extraction>>
         \/ /\ cached' = [cached EXCEPT !["intel"] = c.intel, !["fit"] = c.row]
            /\ \/ extraction' = extraction
               \/ extraction' = [present |-> TRUE, version |-> c.row.version,
                                 edits |-> c.row.of.edits]
  BY DEF JobFitCommit, Extracted
<1>2. c.row \in RowsOf(c) /\ c.intel \in RowsOf(c)
  BY <1>1 DEF RowsOf
<1>3. CASE UNCHANGED <<cached, extraction>>
  BY <1>1, <1>3, NoneWritten
<1>4. CASE cached' = [cached EXCEPT !["intel"] = c.intel, !["fit"] = c.row]
  <2> HIDE DEF c
  <2>1. DOMAIN cached = Kinds /\ cached \in [Kinds -> {Absent} \cup CacheRow]
    BY DEF FitInv, FitTypes
  <2>2. /\ \A k \in Kinds : cached'[k] = cached[k] \/ cached'[k] = c.row \/ cached'[k] = c.intel
        /\ DOMAIN cached' = Kinds /\ cached' = [k \in Kinds |-> cached'[k]]
    BY <1>4, <2>1
  <2> QED BY <1>1, <1>2, <2>2, WritesRows DEF c
<1> QED BY <1>1, <1>3, <1>4

LEMMA ResumeDeleted ==
  ASSUME NEW row \in CacheRow, NEW new, new = [row EXCEPT !.resume = NoResume]
  PROVE  /\ new \in CacheRow /\ new.resume = NoResume /\ new.updated = row.updated
         /\ new.version = row.version /\ new.of = row.of
BY DEF CacheRow, NoResume

LEMMA ResumeStepKeeps == ASSUME FitInv, ResumeStep PROVE FitInv'
<1>1. ResumesInv' /\ OnlyProcessingParses
  BY ResumesStep DEF FitInv, ResumeStep
<1>2. UNCHANGED <<job, extraction, reading, sharing>>
  BY DEF ResumeStep
<1>3. ASSUME NEW k \in Kinds
      PROVE  \/ cached'[k] = cached[k]
             \/ cached[k].present /\ cached'[k] = [cached[k] EXCEPT !.resume = NoResume]
  BY DEF ResumeStep
<1>4. \A k \in Kinds : cached'[k] \in {Absent} \cup CacheRow
  BY <1>3, ComputedRows, ResumeDeleted DEF FitInv, FitTypes
<1>5. FitTypes'
  <2>1. cached' \in [Kinds -> {Absent} \cup CacheRow]
    BY <1>4 DEF ResumeStep
  <2>2. blurred' \in BOOLEAN
    BY DEF ResumeStep
  <2> QED BY <1>2, <2>1, <2>2 DEF FitInv, FitTypes
<1>6. ASSUME NEW new \in Computed'
      PROVE  \/ new \in Computed
             \/ \E row \in Computed : /\ new.resume = NoResume /\ new.updated = row.updated
                                      /\ new.version = row.version /\ new.of = row.of
  <2>1. CASE \E k \in Kinds : cached'[k].present /\ new = cached'[k]
    <3>1. PICK k \in Kinds : cached'[k].present /\ new = cached'[k]
      BY <2>1
    <3>2. CASE cached'[k] = cached[k]
      BY <3>1, <3>2, ComputedRows DEF FitInv
    <3>3. CASE cached[k].present /\ cached'[k] = [cached[k] EXCEPT !.resume = NoResume]
      <4>1. cached[k] \in Computed /\ cached[k] \in CacheRow
        BY <3>3, ComputedRows DEF FitInv
      <4> QED BY <3>1, <3>3, <4>1, ResumeDeleted
    <3> QED BY <1>3, <3>2, <3>3
  <2>2. CASE \E r \in FitRequests : new \in RowsOf(reading[r])'
    <3>1. \A r \in FitRequests : RowsOf(reading[r])' = RowsOf(reading[r])
      BY <1>2 DEF RowsOf
    <3> QED BY <2>2, <3>1, ComputedRows DEF FitInv
  <2> QED BY <2>1, <2>2 DEF Computed
<1>7. ASSUME ~ sharing' PROVE EditsInOrder'
  <2>1. EditsInOrder
    BY <1>2, <1>7 DEF FitInv
  <2>2. \A row \in Computed' : MadeOf(row.version, row.of.edits)
    BY <1>6, <2>1 DEF EditsInOrder
  <2> QED BY <1>2, <2>1, <2>2 DEF EditsInOrder, MadeOf
<1>8. /\ clock \in Nat /\ clock' \in Nat /\ clock <= clock'
      /\ DOMAIN resumes \subseteq DOMAIN resumes'
      /\ \A row \in Computed : row.updated \in Nat /\ OfResume(row)
  BY <1>1, ComputedRows, CacheRowFields DEF FitInv, ResumesInv, ResumeTypes, OnlyProcessingParses
<1>9. \A row \in Computed' : OfResume(row)'
  BY <1>6, <1>8 DEF OfResume
<1>10. ASSUME ~ blurred', NEW new \in Computed', new.resume \in Stored'
       PROVE  /\ resumes'[new.resume].updated <= new.updated =>
                   new.of.parsed = resumes'[new.resume].parsed
              /\ \A s \in ResumeRequests :
                   Doing(s, "process")' /\ work'[s].target = new.resume => new.updated < work'[s].began
  <2> DEFINE i == new.resume
  <2>1. NoResume \notin Stored'
    <3>1. NoResume \notin DOMAIN resumes'
      BY <1>1 DEF ResumesInv, ResumeTypes, NoResume
    <3> QED BY <3>1 DEF Stored
  <2>2. new \in Computed /\ i \in DOMAIN resumes
    BY <1>6, <1>8, <1>10, <2>1 DEF OfResume
  <2>3. i \in Stored
    BY <1>1, <1>10, <2>2 DEF OnlyProcessingParses
  <2>4. ~ blurred /\ ~ (resumes'[i].updated < resumes[i].updated)
    BY <1>10, <2>3 DEF ResumeStep
  <2>5. AsParsed(new) /\ new.updated \in Nat /\ new.updated <= clock
    BY <1>8, <2>2, <2>4 DEF FitInv, OfResume
  <2>6. resumes[i].updated \in Nat /\ resumes'[i].updated \in Nat
    <3>1. resumes[i].updated \in Nat
      BY <2>2, RowFields DEF FitInv, ResumesInv
    <3>2. ResumeTypes' /\ i \in DOMAIN resumes'
      BY <1>1, <1>8, <2>2 DEF ResumesInv
    <3>3. resumes'[i] \in ResumeRow
      BY <3>2 DEF ResumeTypes
    <3>4. resumes'[i].updated \in Nat
      BY <3>3 DEF ResumeRow
    <3> QED BY <3>1, <3>4
  <2>7. ASSUME resumes'[i].updated <= new.updated PROVE new.of.parsed = resumes'[i].parsed
    <3>1. new.of.parsed = resumes[i].parsed
      BY <2>3, <2>4, <2>5, <2>6, <2>7 DEF AsParsed
    <3>2. \A s \in ResumeRequests : Doing(s, "process") /\ work[s].target = i => new.updated < work[s].began
      BY <2>3, <2>5 DEF AsParsed
    <3>3. resumes'[i].parsed = resumes[i].parsed
      <4>1. \A s \in ResumeRequests :
              ~ (Doing(s, "process") /\ work[s].target = i /\ resumes'[i].updated = work[s].began)
        BY <2>5, <2>6, <2>7, <3>2
      <4> QED BY <1>1, <1>10, <2>2, <4>1 DEF OnlyProcessingParses
    <3> QED BY <3>1, <3>3
  <2>8. ASSUME NEW s \in ResumeRequests, Doing(s, "process")', work'[s].target = i
        PROVE  new.updated < work'[s].began
    <3>1. work'[s] = work[s] \/ work'[s].began = clock + 1
      BY <1>1, <2>8 DEF OnlyProcessingParses, Doing
    <3>2. CASE work'[s] = work[s]
      BY <2>3, <2>5, <2>8, <3>2 DEF AsParsed, Doing
    <3>3. CASE work'[s].began = clock + 1
      BY <1>8, <2>5, <3>3
    <3> QED BY <3>1, <3>2, <3>3
  <2> QED BY <2>7, <2>8
<1>11. ~ blurred' => \A row \in Computed' : AsParsed(row)'
  BY <1>10 DEF AsParsed
<1> QED BY <1>1, <1>5, <1>7, <1>9, <1>11 DEF FitInv

\* A candidate with resumes has exactly one primary, and no content or version twice, as long
\* as no two requests that move is_primary are in flight together and no failed primary is
\* replaced: whatever is uploaded, retried, deleted or cut off halfway.
THEOREM ResumesInOrderHolds == ResumesSpec => []ResumesInOrder
<1>1. ResumesInv /\ [ResumesNext]_resumeVars => ResumesInv'
  BY ResumesStep
<1> QED BY InitResumes, <1>1, ResumesInvGives, PTL DEF ResumesSpec

LEMMA FitInvInit == FitInit => FitInv
<1> SUFFICES ASSUME FitInit PROVE FitInv
  OBVIOUS
<1>1. ResumesInv
  BY InitResumes DEF FitInit
<1>2. Absent.present = FALSE
  BY DEF Absent
<1>3. /\ FitTypes
      /\ \A k \in Kinds : cached[k] = Absent
      /\ \A r \in FitRequests : reading[r].op = "idle"
  <2>1. [op |-> "idle"] \in FitRequest
    BY DEF FitRequest
  <2>2. job \in JobRow
    BY DEF FitInit, JobRow
  <2> QED BY <2>1, <2>2 DEF FitInit, FitTypes
<1>4. Computed = {}
  BY <1>2, <1>3 DEF Computed, RowsOf
<1>5. EditsInOrder
  BY <1>2, <1>3, <1>4 DEF FitInit, EditsInOrder
<1> QED BY <1>1, <1>3, <1>4, <1>5 DEF FitInv

LEMMA FitInvStep == FitInv /\ [FitNext]_fitVars => FitInv'
<1> SUFFICES ASSUME FitInv, [FitNext]_fitVars PROVE FitInv'
  OBVIOUS
<1>1. CASE FitNext
  BY <1>1, ResumeStepKeeps, EditReadStep, EditCommitStep, CacheReadStep, CacheCommitStep,
     JobIntelReadStep, JobIntelReturnsStep, JobFitCommitStep DEF FitNext
<1>2. CASE UNCHANGED fitVars
  <2>1. UNCHANGED <<resumeVars, job, extraction, cached, reading, sharing, blurred>>
    BY <1>2 DEF fitVars, cacheVars
  <2>2. ResumesInv'
    BY <2>1, ResumesStep DEF FitInv
  <2>3. UNCHANGED <<resumes, work, clock, Computed, Stored>>
    BY <2>1 DEF resumeVars, Computed, RowsOf, Stored
  <2> QED BY <2>1, <2>2, <2>3 DEF FitInv, FitTypes, EditsInOrder, MadeOf, OfResume, AsParsed, Doing
<1> QED BY <1>1, <1>2

LEMMA FitInvGives == FitInv => ServedIsCurrent
<1> SUFFICES ASSUME FitInv, NEW k \in Kinds, Served(k)
             PROVE  /\ k = "fit" /\ ~ sharing => cached[k].of.edits = job.edits
                    /\ Primary # NoResume =>
                         /\ cached[k].of.resume = Primary
                         /\ ~ blurred => cached[k].of.parsed = resumes[Primary].parsed
  BY DEF ServedIsCurrent
<1>1. /\ cached[k].present
      /\ k = "fit" => cached[k].version >= job.version
      /\ cached[k].resume = Primary
      /\ Primary # NoResume => resumes[Primary].updated <= cached[k].updated
  BY DEF Served, IsFresh
<1>2. cached[k] \in Computed /\ cached[k] \in CacheRow
  BY <1>1, ComputedRows DEF FitInv
<1>3. ASSUME k = "fit", ~ sharing PROVE cached[k].of.edits = job.edits
  <2>1. MadeOf(cached[k].version, cached[k].of.edits)
    BY <1>2, <1>3 DEF FitInv, EditsInOrder
  <2>2. cached[k].version \in Nat /\ job.version \in Nat
    BY <1>2, CacheRowFields DEF FitInv, FitTypes, JobRow
  <2> QED BY <1>1, <1>3, <2>1, <2>2 DEF MadeOf
<1>4. ASSUME Primary # NoResume
      PROVE  /\ cached[k].of.resume = Primary
             /\ ~ blurred => cached[k].of.parsed = resumes[Primary].parsed
  <2>1. OfResume(cached[k]) /\ (~ blurred => AsParsed(cached[k]))
    BY <1>2 DEF FitInv
  <2>2. Primary \in Stored
    BY <1>4 DEF Primary, Primaries
  <2> QED BY <1>1, <1>4, <2>1, <2>2 DEF OfResume, AsParsed
<1> QED BY <1>3, <1>4

\* What get_fit serves of a candidate's fit to a job, and get_intel of their resume, is
\* computed from what is there now: from all edits of the job unless two shared a version, and from the primary
\* resume as it is parsed now unless it was read while it was being processed.
THEOREM ServedIsCurrentHolds == FitSpec => []ServedIsCurrent
BY FitInvInit, FitInvStep, FitInvGives, PTL DEF FitSpec

\* The resumes stay in order beside the caches too: get_primary never finds two.
THEOREM ResumesInOrderBeside == FitSpec => []ResumesInOrder
<1>1. FitInv => ResumesInOrder
  BY ResumesInvGives DEF FitInv
<1> QED BY FitInvInit, FitInvStep, <1>1, PTL DEF FitSpec

----------------------------------------------------------------------------
\* Induction, of a set of numbers.
LEMMA Inductive ==
  ASSUME NEW S \in SUBSET Nat, 0 \in S, \A n \in S : n + 1 \in S
  PROVE  S = Nat
<1> SUFFICES ASSUME Nat \ S # {} PROVE FALSE
  OBVIOUS
<1>1. PICK m \in Nat \ S : \A n \in Nat \ S : m <= n
  BY LeastOf
<1>2. m # 0 /\ m - 1 \in Nat /\ m - 1 \in S
  BY <1>1
<1>3. m = (m - 1) + 1
  BY <1>1
<1> QED BY <1>1, <1>2, <1>3

\* Sums of the values of a function over a finite set, which the library defines by a choice.

\* A sum over the sets of up to n elements of S.
Summing(f, S, g) ==
  g = [s \in SUBSET S |-> IF s = {} THEN 0 ELSE f[CHOOSE x \in s : TRUE] + g[s \ {CHOOSE x \in s : TRUE}]]

Nearly(f, S, g, n) ==
  \A s \in SUBSET S : Cardinality(s) <= n =>
    g[s] = IF s = {} THEN 0 ELSE f[CHOOSE x \in s : TRUE] + g[s \ {CHOOSE x \in s : TRUE}]

LEMMA NearlyExist ==
  ASSUME NEW S, IsFiniteSet(S), NEW f
  PROVE  \A n \in Nat : \E g : g = [s \in SUBSET S |-> g[s]] /\ Nearly(f, S, g, n)
<1> DEFINE N == {n \in Nat : \E g : g = [s \in SUBSET S |-> g[s]] /\ Nearly(f, S, g, n)}
           pick(s) == CHOOSE x \in s : TRUE
<1>1. \A s \in SUBSET S : IsFiniteSet(s) /\ Cardinality(s) \in Nat
  BY FS_Subset, FS_CardinalityType
<1>2. \A s \in SUBSET S : s # {} => pick(s) \in s
  OBVIOUS
<1>3. \A s \in SUBSET S : s # {} => Cardinality(s \ {pick(s)}) = Cardinality(s) - 1
  BY <1>1, <1>2, FS_RemoveElement
<1>4. \A s \in SUBSET S : s \ {pick(s)} \in SUBSET S
  OBVIOUS
<1>5. 0 \in N
  <2> DEFINE g == [s \in SUBSET S |-> 0]
  <2>1. ASSUME NEW s \in SUBSET S, Cardinality(s) <= 0 PROVE s = {}
    BY <1>1, <2>1, FS_EmptySet
  <2>2. Nearly(f, S, g, 0)
    BY <2>1, Zenon DEF Nearly
  <2>3. g = [s \in SUBSET S |-> g[s]]
    OBVIOUS
  <2> QED BY <2>2, <2>3, Zenon
<1>6. ASSUME NEW n \in N PROVE n + 1 \in N
  <2>1. PICK g : g = [s \in SUBSET S |-> g[s]] /\ Nearly(f, S, g, n)
    BY <1>6, Zenon
  <2> DEFINE h == [s \in SUBSET S |-> IF Cardinality(s) <= n THEN g[s]
                                      ELSE f[pick(s)] + g[s \ {pick(s)}]]
  <2>2. n \in Nat
    OBVIOUS
  <2>3. ASSUME NEW s \in SUBSET S, Cardinality(s) <= n + 1, s # {}
        PROVE  h[s] = f[pick(s)] + h[s \ {pick(s)}]
    <3>1. Cardinality(s \ {pick(s)}) <= n
      BY <1>1, <1>3, <2>2, <2>3
    <3>2. h[s \ {pick(s)}] = g[s \ {pick(s)}]
      BY <1>4, <3>1, Zenon
    <3>3. CASE Cardinality(s) <= n
      <4>1. g[s] = f[pick(s)] + g[s \ {pick(s)}]
        BY <2>1, <2>3, <3>3, Zenon DEF Nearly
      <4> QED BY <3>2, <3>3, <4>1, Zenon
    <3>4. CASE ~ (Cardinality(s) <= n)
      BY <3>2, <3>4, Zenon
    <3> QED BY <3>3, <3>4, Zenon
  <2>4. h[{}] = 0
    <3>1. Cardinality({}) <= n /\ {} \in SUBSET S
      BY <2>2, FS_EmptySet
    <3>2. g[{}] = 0
      BY <2>1, <3>1, Zenon DEF Nearly
    <3> QED BY <3>1, <3>2, Zenon
  <2>5. h = [s \in SUBSET S |-> h[s]]
    OBVIOUS
  <2> HIDE DEF h
  <2>6. Nearly(f, S, h, n + 1)
    BY <2>3, <2>4, Zenon DEF Nearly
  <2> QED BY <2>2, <2>5, <2>6
<1> HIDE DEF N
<1>7. N \in SUBSET Nat
  BY DEF N
<1>8. N = Nat
  BY <1>5, <1>6, <1>7, Inductive
<1> QED BY <1>8, Zenon DEF N

LEMMA SummingExists ==
  ASSUME NEW S, IsFiniteSet(S), NEW f
  PROVE  \E g : Summing(f, S, g)
<1>1. Cardinality(S) \in Nat
  BY FS_CardinalityType
<1>2. PICK g : g = [s \in SUBSET S |-> g[s]] /\ Nearly(f, S, g, Cardinality(S))
  BY <1>1, NearlyExist
<1>3. \A s \in SUBSET S : Cardinality(s) <= Cardinality(S)
  BY FS_Subset
<1>4. \A s \in SUBSET S :
        g[s] = IF s = {} THEN 0 ELSE f[CHOOSE x \in s : TRUE] + g[s \ {CHOOSE x \in s : TRUE}]
  BY <1>2, <1>3, Zenon DEF Nearly
<1>5. g = [s \in SUBSET S |-> IF s = {} THEN 0 ELSE f[CHOOSE x \in s : TRUE] + g[s \ {CHOOSE x \in s : TRUE}]]
  BY <1>2, <1>4, Zenon
<1> QED BY <1>5, Zenon DEF Summing

LEMMA SumIs ==
  ASSUME NEW S, IsFiniteSet(S), NEW f
  PROVE  \E g : Summing(f, S, g) /\ SumFunctionOnSet(f, S) = g[S]
<1> DEFINE G == CHOOSE g : Summing(f, S, g)
<1>1. Summing(f, S, G)
  BY SummingExists
<1>2. SumFunctionOnSet(f, S) = G[S]
  BY DEF SumFunctionOnSet, FoldFunctionOnSet, MapThenFoldSet, Summing
<1> QED BY <1>1, <1>2, Zenon

\* Two sums of f over the subsets of one set and of a smaller one agree.
LEMMA SummingsAgree ==
  ASSUME NEW S, IsFiniteSet(S), NEW T \in SUBSET S, NEW f, NEW g, NEW h,
         Summing(f, S, g), Summing(f, T, h)
  PROVE  \A s \in SUBSET T : g[s] = h[s]
<1> DEFINE pick(s) == CHOOSE x \in s : TRUE
           N == {n \in Nat : \A s \in SUBSET T : Cardinality(s) = n => g[s] = h[s]}
<1>1. \A s \in SUBSET T : IsFiniteSet(s) /\ Cardinality(s) \in Nat
  BY FS_Subset, FS_CardinalityType
<1>2. \A s \in SUBSET T : s # {} => pick(s) \in s
  OBVIOUS
<1>3. \A s \in SUBSET T : s # {} => Cardinality(s \ {pick(s)}) = Cardinality(s) - 1
  BY <1>1, <1>2, FS_RemoveElement
<1>4. \A s \in SUBSET T : s # {} => g[s] = f[pick(s)] + g[s \ {pick(s)}]
  BY Zenon DEF Summing
<1>5. \A s \in SUBSET T : s # {} => h[s] = f[pick(s)] + h[s \ {pick(s)}]
  BY Zenon DEF Summing
<1>6. g[{}] = 0 /\ h[{}] = 0
  BY Zenon DEF Summing
<1> HIDE DEF pick
<1>7. 0 \in N
  BY <1>1, <1>6, FS_EmptySet
<1>8. ASSUME NEW n \in N PROVE n + 1 \in N
  <2>1. n \in Nat
    OBVIOUS
  <2>2. ASSUME NEW s \in SUBSET T, Cardinality(s) = n + 1 PROVE g[s] = h[s]
    <3>1. s # {}
      BY <2>1, <2>2, FS_EmptySet
    <3>2. Cardinality(s \ {pick(s)}) = n
      BY <1>3, <2>1, <2>2, <3>1
    <3>3. s \ {pick(s)} \in SUBSET T
      OBVIOUS
    <3>4. g[s \ {pick(s)}] = h[s \ {pick(s)}]
      BY <3>2, <3>3, Zenon
    <3> QED BY <1>4, <1>5, <3>1, <3>4
  <2> QED BY <2>1, <2>2
<1> HIDE DEF N
<1>9. N = Nat
  <2>1. N \in SUBSET Nat
    BY DEF N
  <2> QED BY <1>7, <1>8, <2>1, Inductive
<1> QED BY <1>1, <1>9, Zenon DEF N

LEMMA SumOfNone == \A f : SumFunctionOnSet(f, {}) = 0
<1> SUFFICES ASSUME NEW f PROVE SumFunctionOnSet(f, {}) = 0
  OBVIOUS
<1>1. PICK g : Summing(f, {}, g) /\ SumFunctionOnSet(f, {}) = g[{}]
  BY FS_EmptySet, SumIs
<1> QED BY <1>1, Zenon DEF Summing

LEMMA SumPicks ==
  ASSUME NEW S, IsFiniteSet(S), S # {}, NEW f
  PROVE  LET x == CHOOSE x \in S : TRUE
         IN SumFunctionOnSet(f, S) = f[x] + SumFunctionOnSet(f, S \ {x})
<1> DEFINE x == CHOOSE x \in S : TRUE
           T == S \ {x}
<1>1. IsFiniteSet(T) /\ T \in SUBSET S
  BY FS_Subset
<1>2. PICK g : Summing(f, S, g) /\ SumFunctionOnSet(f, S) = g[S]
  BY SumIs
<1>3. PICK h : Summing(f, T, h) /\ SumFunctionOnSet(f, T) = h[T]
  BY <1>1, SumIs
<1>4. g[T] = h[T]
  <2>1. \A s \in SUBSET T : g[s] = h[s]
    <3> HIDE DEF T
    <3> QED BY <1>1, <1>2, <1>3, SummingsAgree
  <2> QED BY <2>1, Zenon
<1>5. g[S] = f[x] + g[T]
  BY <1>2, Zenon DEF Summing
<1> QED BY <1>2, <1>3, <1>4, <1>5, Zenon

\* The sum of natural numbers is one, and any element can be taken first.
LEMMA SumsTake ==
  ASSUME NEW S, IsFiniteSet(S), NEW f, \A x \in S : f[x] \in Nat
  PROVE  \A T \in SUBSET S :
           /\ SumFunctionOnSet(f, T) \in Nat
           /\ \A x \in T : SumFunctionOnSet(f, T) = f[x] + SumFunctionOnSet(f, T \ {x})
<1> DEFINE sum(T) == SumFunctionOnSet(f, T)
           pick(T) == CHOOSE x \in T : TRUE
           Takes(T) == sum(T) \in Nat /\ \A x \in T : sum(T) = f[x] + sum(T \ {x})
           N == {n \in Nat : \A T \in SUBSET S : Cardinality(T) <= n => Takes(T)}
<1>1. \A T \in SUBSET S : IsFiniteSet(T) /\ Cardinality(T) \in Nat
  BY FS_Subset, FS_CardinalityType
<1>2. \A T \in SUBSET S : T # {} => sum(T) = f[pick(T)] + sum(T \ {pick(T)})
  BY <1>1, SumPicks
<1>3. \A T \in SUBSET S : T # {} => pick(T) \in T
  OBVIOUS
<1>4. \A T \in SUBSET S, x \in S : x \in T => Cardinality(T \ {x}) = Cardinality(T) - 1
  BY <1>1, FS_RemoveElement
<1>5. sum({}) = 0
  BY SumOfNone, Zenon
<1> HIDE DEF sum, pick
<1>6. Takes({})
  BY <1>5
<1>7. \A T \in SUBSET S : Cardinality(T) <= 0 => T = {}
  BY <1>1, FS_EmptySet
<1>8. 0 \in N
  BY <1>6, <1>7, Zenon
<1>9. ASSUME NEW n \in N PROVE n + 1 \in N
  <2>1. n \in Nat
    OBVIOUS
  <2>2. ASSUME NEW T \in SUBSET S, Cardinality(T) <= n + 1, T # {} PROVE Takes(T)
    <3> DEFINE c == pick(T)
               C == T \ {c}
    <3>1. c \in T /\ c \in S
      BY <1>3, <2>2, Zenon
    <3>2. \A x \in T : Cardinality(T \ {x}) <= n
      BY <1>1, <1>4, <2>1, <2>2
    <3>3. \A x \in T : Takes(T \ {x})
      <4>1. \A x \in T : T \ {x} \in SUBSET S
        OBVIOUS
      <4> QED BY <3>2, <4>1, Zenon
    <3>4. sum(T) = f[c] + sum(C)
      BY <1>2, <2>2, Zenon
    <3>5. f[c] \in Nat /\ sum(C) \in Nat
      BY <3>1, <3>3, Zenon
    <3>6. ASSUME NEW x \in T, x # c PROVE sum(T) = f[x] + sum(T \ {x})
      <4>1. x \in C /\ c \in T \ {x}
        BY <3>1, <3>6
      <4>2. C \ {x} = (T \ {x}) \ {c}
        OBVIOUS
      <4>3. sum(C) = f[x] + sum(C \ {x})
        BY <3>1, <3>3, <4>1, Zenon
      <4>4. sum(T \ {x}) = f[c] + sum((T \ {x}) \ {c})
        BY <3>3, <4>1, Zenon
      <4>5. f[x] \in Nat /\ x \in S
        OBVIOUS
      <4>6. Cardinality(C) <= n /\ Cardinality(C) \in Nat /\ Cardinality(C \ {x}) = Cardinality(C) - 1
        <5>1. C \in SUBSET S
          OBVIOUS
        <5> QED BY <1>1, <1>4, <3>1, <3>2, <4>1, <4>5, <5>1
      <4>7. sum(C \ {x}) \in Nat
        <5>1. C \ {x} \in SUBSET S /\ Cardinality(C \ {x}) <= n
          BY <2>1, <4>6
        <5> QED BY <5>1, Zenon
      <4> HIDE DEF c, C
      <4> DEFINE a == f[c]
                 b == f[x]
                 d == sum(C \ {x})
                 e == sum(C)
                 g == sum(T \ {x})
      <4>8. a \in Nat /\ b \in Nat /\ d \in Nat /\ e = b + d /\ g = a + d /\ sum(T) = a + e
        BY <3>4, <3>5, <4>2, <4>3, <4>4, <4>5, <4>7, Zenon
      <4> HIDE DEF a, b, d, e, g
      <4>9. sum(T) = b + g
        BY <4>8
      <4> QED BY <4>9, Zenon DEF b, g
    <3>7. sum(T) \in Nat
      <4> DEFINE a == f[c]
                 b == sum(C)
      <4>1. a \in Nat /\ b \in Nat /\ sum(T) = a + b
        BY <3>4, <3>5, Zenon
      <4> HIDE DEF a, b
      <4> QED BY <4>1
    <3> QED BY <3>4, <3>6, <3>7, Zenon
  <2>3. \A T \in SUBSET S : Cardinality(T) <= n + 1 => Takes(T)
    BY <1>6, <2>2, Zenon
  <2> QED BY <2>1, <2>3
<1> HIDE DEF N
<1>10. N = Nat
  <2>1. N \in SUBSET Nat
    BY DEF N
  <2> QED BY <1>8, <1>9, <2>1, Inductive
<1>11. \A T \in SUBSET S : Takes(T)
  <2> SUFFICES ASSUME NEW T \in SUBSET S PROVE Takes(T)
    OBVIOUS
  <2>1. Cardinality(T) \in N /\ Cardinality(T) <= Cardinality(T)
    BY <1>1, <1>10
  <2> QED BY <2>1, Zenon DEF N
<1> QED BY <1>11, Zenon DEF sum

\* Induction over the subsets of a finite set.
LEMMA SubsetsAll ==
  ASSUME NEW S, IsFiniteSet(S), NEW P \in SUBSET (SUBSET S), {} \in P,
         \A T \in SUBSET S, x \in S : T \in P /\ x \notin T => T \cup {x} \in P
  PROVE  P = SUBSET S
<1> DEFINE N == {n \in Nat : \A T \in SUBSET S : Cardinality(T) <= n => T \in P}
<1>1. \A T \in SUBSET S : IsFiniteSet(T) /\ Cardinality(T) \in Nat
  BY FS_Subset, FS_CardinalityType
<1>2. 0 \in N
  <2>1. \A T \in SUBSET S : Cardinality(T) <= 0 => T = {}
    BY <1>1, FS_EmptySet
  <2> QED BY <2>1
<1>3. ASSUME NEW n \in N PROVE n + 1 \in N
  <2>1. n \in Nat
    OBVIOUS
  <2>2. ASSUME NEW T \in SUBSET S, Cardinality(T) <= n + 1, T # {} PROVE T \in P
    <3>1. PICK x \in T : TRUE
      BY <2>2
    <3>2. Cardinality(T \ {x}) = Cardinality(T) - 1
      BY <1>1, FS_RemoveElement
    <3>3. Cardinality(T \ {x}) <= n /\ T \ {x} \in SUBSET S
      BY <1>1, <2>1, <2>2, <3>2
    <3>4. T \ {x} \in P
      BY <3>3, Zenon
    <3>5. T = (T \ {x}) \cup {x} /\ x \in S /\ x \notin T \ {x}
      OBVIOUS
    <3> QED BY <3>3, <3>4, <3>5, Zenon
  <2>3. \A T \in SUBSET S : Cardinality(T) <= n + 1 => T \in P
    BY <2>2, Zenon
  <2> QED BY <2>1, <2>3
<1> HIDE DEF N
<1>4. N = Nat
  <2>1. N \in SUBSET Nat
    BY DEF N
  <2> QED BY <1>2, <1>3, <2>1, Inductive
<1>5. \A T \in SUBSET S : T \in P
  <2> SUFFICES ASSUME NEW T \in SUBSET S PROVE T \in P
    OBVIOUS
  <2>1. Cardinality(T) \in N /\ Cardinality(T) <= Cardinality(T)
    BY <1>1, <1>4
  <2> QED BY <2>1, Zenon DEF N
<1> QED BY <1>5

Weighed(f, S) == IsFiniteSet(S) /\ \A x \in S : f[x] \in Nat

LEMMA SumTakes ==
  ASSUME NEW S, NEW f, Weighed(f, S)
  PROVE  /\ SumFunctionOnSet(f, S) \in Nat
         /\ \A x \in S : SumFunctionOnSet(f, S) = f[x] + SumFunctionOnSet(f, S \ {x})
<1>1. S \in SUBSET S
  OBVIOUS
<1>2. IsFiniteSet(S) /\ \A x \in S : f[x] \in Nat
  BY DEF Weighed
<1> QED BY <1>1, <1>2, SumsTake

LEMMA WeighedParts ==
  ASSUME NEW S, NEW f, Weighed(f, S), NEW T \in SUBSET S
  PROVE  Weighed(f, T)
BY FS_Subset DEF Weighed

LEMMA SumPart ==
  ASSUME NEW S, NEW f, Weighed(f, S), NEW x \in S
  PROVE  f[x] \in Nat /\ f[x] <= SumFunctionOnSet(f, S)
<1> DEFINE a == f[x]
           b == SumFunctionOnSet(f, S \ {x})
           c == SumFunctionOnSet(f, S)
<1>1. Weighed(f, S \ {x})
  BY WeighedParts
<1>2. a \in Nat /\ b \in Nat /\ c = a + b
  BY <1>1, SumTakes, Zenon DEF Weighed
<1> HIDE DEF a, b, c
<1>3. a \in Nat /\ a <= c
  BY <1>2
<1> QED BY <1>3, Zenon DEF a, c

\* The sum of one element.
LEMMA SumOfOne ==
  ASSUME NEW f, NEW x, f[x] \in Nat
  PROVE  SumFunctionOnSet(f, {x}) = f[x]
<1>1. Weighed(f, {x})
  BY FS_Singleton, Zenon DEF Weighed
<1>2. SumFunctionOnSet(f, {x}) = f[x] + SumFunctionOnSet(f, {x} \ {x})
  BY <1>1, SumTakes, Zenon
<1>3. {x} \ {x} = {}
  OBVIOUS
<1>4. SumFunctionOnSet(f, {x}) = f[x] + 0
  BY <1>2, <1>3, SumOfNone, Zenon
<1> QED BY <1>4

LEMMA SumSame ==
  ASSUME NEW S, NEW f, NEW g, Weighed(f, S), \A x \in S : f[x] = g[x]
  PROVE  SumFunctionOnSet(f, S) = SumFunctionOnSet(g, S)
<1> DEFINE P == {T \in SUBSET S : SumFunctionOnSet(f, T) = SumFunctionOnSet(g, T)}
<1>1. {} \in P
  BY SumOfNone, Zenon
<1>2. ASSUME NEW T \in SUBSET S, NEW x \in S, T \in P, x \notin T PROVE T \cup {x} \in P
  <2> DEFINE A == T \cup {x}
  <2>1. A \in SUBSET S /\ x \in A /\ A \ {x} = T
    BY <1>2
  <2>2. Weighed(f, A) /\ Weighed(g, A)
    <3>1. Weighed(g, S)
      BY Zenon DEF Weighed
    <3> QED BY <2>1, <3>1, WeighedParts, Zenon
  <2> HIDE DEF A
  <2>3. SumFunctionOnSet(f, A) = f[x] + SumFunctionOnSet(f, T)
    BY <2>1, <2>2, SumTakes, Zenon
  <2>4. SumFunctionOnSet(g, A) = g[x] + SumFunctionOnSet(g, T)
    BY <2>1, <2>2, SumTakes, Zenon
  <2>5. SumFunctionOnSet(f, T) = SumFunctionOnSet(g, T)
    BY <1>2, Zenon
  <2>6. SumFunctionOnSet(f, A) = SumFunctionOnSet(g, A)
    BY <2>3, <2>4, <2>5, Zenon
  <2> QED BY <2>1, <2>6, Zenon DEF A
<1>3. P \in SUBSET (SUBSET S) /\ IsFiniteSet(S)
  BY DEF Weighed
<1> HIDE DEF P
<1>4. P = SUBSET S
  BY <1>1, <1>2, <1>3, SubsetsAll
<1>5. S \in P
  BY <1>4
<1> QED BY <1>5, Zenon DEF P

\* The sum of two sets that have no element in common.
LEMMA SumOfBoth ==
  ASSUME NEW A, NEW B, NEW f, Weighed(f, A \cup B), A \cap B = {}
  PROVE  SumFunctionOnSet(f, A \cup B) = SumFunctionOnSet(f, A) + SumFunctionOnSet(f, B)
<1> DEFINE P == {T \in SUBSET B :
                   SumFunctionOnSet(f, A \cup T) = SumFunctionOnSet(f, A) + SumFunctionOnSet(f, T)}
           sum(T) == SumFunctionOnSet(f, T)
<1>1. Weighed(f, A) /\ Weighed(f, B)
  BY WeighedParts
<1>2. {} \in P
  <2>1. sum(A) \in Nat /\ sum({}) = 0
    BY <1>1, SumTakes, SumOfNone, Zenon
  <2> HIDE DEF sum
  <2>2. A \cup {} = A
    OBVIOUS
  <2>3. sum(A \cup {}) = sum(A) + sum({})
    BY <2>1, <2>2
  <2> QED BY <2>3, Zenon DEF sum
<1>3. ASSUME NEW T \in SUBSET B, NEW x \in B, T \in P, x \notin T PROVE T \cup {x} \in P
  <2> DEFINE a == sum(A)
             b == sum(T)
             c == f[x]
             d == sum(T \cup {x})
             e == sum(A \cup T)
             g == sum(A \cup (T \cup {x}))
  <2>1. /\ T \cup {x} \in SUBSET B /\ x \in T \cup {x} /\ (T \cup {x}) \ {x} = T
        /\ A \cup (T \cup {x}) \in SUBSET (A \cup B) /\ x \in A \cup (T \cup {x})
        /\ (A \cup (T \cup {x})) \ {x} = A \cup T
    BY <1>3
  <2>2. Weighed(f, T) /\ Weighed(f, T \cup {x}) /\ Weighed(f, A \cup (T \cup {x}))
    BY <1>1, <2>1, WeighedParts, Zenon
  <2>3. a \in Nat /\ b \in Nat /\ c \in Nat
    BY <1>1, <2>2, SumTakes, Zenon DEF Weighed
  <2>4. d = c + b
    <3>1. SumFunctionOnSet(f, T \cup {x}) = f[x] + SumFunctionOnSet(f, (T \cup {x}) \ {x})
      BY <2>1, <2>2, SumTakes, Zenon
    <3> QED BY <2>1, <3>1, Zenon
  <2>7. g = c + e
    <3>1. SumFunctionOnSet(f, A \cup (T \cup {x}))
            = f[x] + SumFunctionOnSet(f, (A \cup (T \cup {x})) \ {x})
      BY <2>1, <2>2, SumTakes, Zenon
    <3> QED BY <2>1, <3>1, Zenon
  <2>5. e = a + b
    BY <1>3, Zenon
  <2> HIDE DEF a, b, c, d, e, g
  <2>6. g = a + d
    BY <2>3, <2>4, <2>5, <2>7
  <2> QED BY <2>1, <2>6, Zenon DEF a, d, g, sum
<1>4. P \in SUBSET (SUBSET B) /\ IsFiniteSet(B)
  BY <1>1 DEF Weighed
<1> HIDE DEF P
<1>5. P = SUBSET B
  <2>1. \A T \in SUBSET B, x \in B : T \in P /\ x \notin T => T \cup {x} \in P
    BY <1>3, Zenon
  <2> HIDE DEF sum
  <2> QED BY <1>2, <1>4, <2>1, SubsetsAll
<1>6. B \in P
  BY <1>5
<1> QED BY <1>6, Zenon DEF P

----------------------------------------------------------------------------
\* The rounds of a learning plan.

\* What a learning plan is made from.
Resources(Names) == [skills : SUBSET Names, free : BOOLEAN, coverage : Int, hours : Nat]

Planned(Names) ==
  [kind : {"plan"}, required : Seq(Names), known : SUBSET Names,
   catalogue : Seq(Resources(Names)), hoursPerWeek : Int, freeOnly : BOOLEAN]

\* How deep what a skill depends on goes.
Deep == {"deep learning", "scikit-learn", "tensorflow", "pytorch", "model evaluation"}
Middle == {"machine learning", "probability", "pandas", "kubernetes"}
Shallow == {"statistics", "numpy", "fastapi", "apache spark", "apache airflow", "apache kafka",
            "docker", "terraform", "aws", "react", "django", "node.js"}
Depth(skill) ==
  IF skill \in Deep THEN 3 ELSE IF skill \in Middle THEN 2 ELSE IF skill \in Shallow THEN 1 ELSE 0

LEMMA DepthNat == \A skill : Depth(skill) \in 0..3
BY DEF Depth

\* No skill depends on itself, however indirectly.
LEMMA Acyclic ==
  ASSUME NEW skill, NEW d \in Dependencies(skill)
  PROVE  Depth(d) < Depth(skill)
<1> DEFINE deep == {"python", "machine learning", "linear algebra", "statistics"}
           middle == {"python", "statistics", "linear algebra", "numpy", "docker", "linux"}
           shallow == {"python", "sql", "java", "linux", "cloud computing", "javascript", "html", "css"}
<1>1. \A k \in Deep : Dependencies(k) \subseteq deep
  BY ZenonT(60) DEF Deep, Dependencies
<1>2. \A k \in Middle : Dependencies(k) \subseteq middle
  BY ZenonT(60) DEF Middle, Dependencies
<1>3. \A k \in Shallow : Dependencies(k) \subseteq shallow
  BY ZenonT(60) DEF Shallow, Dependencies
<1>4. \A k : k \notin Deep \cup Middle \cup Shallow => Dependencies(k) = {}
  BY DEF Deep, Middle, Shallow, Dependencies
<1>5. \A k \in deep : k \notin Deep
  BY DEF Deep
<1>6. \A k \in middle : k \notin Deep \cup Middle
  BY DEF Deep, Middle
<1>7. \A k \in shallow : k \notin Deep \cup Middle \cup Shallow
  BY DEF Deep, Middle, Shallow
<1>8. Deep \cap Middle = {} /\ Deep \cap Shallow = {} /\ Middle \cap Shallow = {}
  BY DEF Deep, Middle, Shallow
<1> HIDE DEF deep, middle, shallow
<1>9. \A k : /\ k \notin Deep => Depth(k) <= 2
             /\ k \notin Deep \cup Middle => Depth(k) <= 1
             /\ k \notin Deep \cup Middle \cup Shallow => Depth(k) = 0
             /\ k \in Deep => Depth(k) = 3
             /\ k \in Middle => Depth(k) = 2
             /\ k \in Shallow => Depth(k) = 1
  BY <1>8 DEF Depth
<1>10. Depth(d) \in 0..3
  BY DepthNat
<1>11. CASE skill \in Deep
  <2>1. Depth(d) <= 2 /\ Depth(skill) = 3
    BY <1>1, <1>5, <1>9, <1>11
  <2> QED BY <1>10, <2>1
<1>12. CASE skill \in Middle
  <2>1. Depth(d) <= 1 /\ Depth(skill) = 2
    BY <1>2, <1>6, <1>9, <1>12
  <2> QED BY <1>10, <2>1
<1>13. CASE skill \in Shallow
  <2>1. Depth(d) = 0 /\ Depth(skill) = 1
    BY <1>3, <1>7, <1>9, <1>13
  <2> QED BY <2>1
<1> QED BY <1>4, <1>11, <1>12, <1>13

\* A function applied again and again.
Iterated(G, v, N, h) == h[0] = v /\ \A n \in 1..N : h[n] = G[h[n - 1]]

LEMMA Iterates ==
  ASSUME NEW V, NEW v \in V, NEW G \in [V -> V]
  PROVE  \A N \in Nat : \E h \in [0..N -> V] : Iterated(G, v, N, h)
<1> DEFINE Goes(N, h) == Iterated(G, v, N, h)
           S == {N \in Nat : \E h \in [0..N -> V] : Goes(N, h)}
<1>1. 0 \in S
  <2> DEFINE h == [n \in 0..0 |-> v]
  <2>1. h \in [0..0 -> V] /\ Goes(0, h)
    BY DEF Iterated
  <2> QED BY <2>1
<1>2. ASSUME NEW N \in S PROVE N + 1 \in S
  <2>1. N \in Nat
    OBVIOUS
  <2>2. PICK h \in [0..N -> V] : Goes(N, h)
    OBVIOUS
  <2> DEFINE g == [n \in 0..(N + 1) |-> IF n = N + 1 THEN G[h[N]] ELSE h[n]]
  <2>3. g \in [0..(N + 1) -> V]
    BY <2>1, <2>2
  <2>4. \A n \in 0..N : g[n] = h[n]
    BY <2>1
  <2>5. g[N + 1] = G[g[N]]
    BY <2>1, <2>4
  <2>6. g[0] = v
    BY <2>1, <2>2, <2>4 DEF Iterated
  <2>7. ASSUME NEW n \in 1..(N + 1) PROVE g[n] = G[g[n - 1]]
    <3>1. CASE n = N + 1
      <4>1. n - 1 = N
        BY <2>1, <3>1
      <4> QED BY <2>5, <3>1, <4>1, Zenon
    <3>2. CASE n # N + 1
      <4>1. n \in 1..N /\ n \in 0..N /\ n - 1 \in 0..N
        BY <2>1, <3>2
      <4> QED BY <2>2, <2>4, <4>1, Zenon DEF Iterated
    <3> QED BY <3>1, <3>2
  <2> HIDE DEF g
  <2>8. N + 1 \in Nat /\ Goes(N + 1, g)
    BY <2>1, <2>6, <2>7 DEF Iterated
  <2> QED BY <2>3, <2>8, Zenon
<1> HIDE DEF S
<1>3. S = Nat
  <2>1. S \in SUBSET Nat
    BY DEF S
  <2> QED BY <1>1, <1>2, <2>1, Inductive
<1> QED BY <1>3, Zenon DEF S

LEMMA GapsFinite ==
  ASSUME NEW Names, NEW s \in Planned(Names)
  PROVE  /\ Len(s.required) \in Nat
         /\ IsFiniteSet(Gaps(s)) /\ Cardinality(Gaps(s)) \in 0..Len(s.required)
<1> DEFINE r == s.required
           n == Len(r)
<1>1. r \in Seq(Names)
  BY DEF Planned
<1>2. n \in Nat /\ DOMAIN r = 1..n
  BY <1>1
<1>3. IsFiniteSet(1..n) /\ Cardinality(1..n) = n
  BY <1>2, FS_Interval
<1>4. IsFiniteSet(ToSet(r)) /\ Cardinality(ToSet(r)) <= n
  <2> DEFINE T == {r[i] : i \in 1..n}
             f == [i \in 1..n |-> r[i]]
  <2>1. f \in Surjection(1..n, T)
    BY DEF Surjection
  <2>2. IsFiniteSet(T) /\ Cardinality(T) <= Cardinality(1..n)
    <3> HIDE DEF T, f
    <3> QED BY <1>3, <2>1, FS_Surjection
  <2>3. ToSet(r) = T
    BY <1>2, Zenon DEF ToSet
  <2> QED BY <1>3, <2>2, <2>3, Zenon
<1>5. Gaps(s) \in SUBSET ToSet(r)
  BY DEF Gaps
<1> HIDE DEF r
<1>6. /\ IsFiniteSet(Gaps(s)) /\ Cardinality(Gaps(s)) <= Cardinality(ToSet(r))
      /\ Cardinality(ToSet(r)) \in Nat /\ Cardinality(Gaps(s)) \in Nat
  BY <1>4, <1>5, FS_Subset, FS_CardinalityType
<1>7. Cardinality(Gaps(s)) \in 0..n
  BY <1>2, <1>4, <1>6
<1> QED BY <1>2, <1>6, <1>7, Zenon DEF r

\* A round takes some of the gaps that remain, none of which depends on another that does.
LEMMA ReadyAre ==
  ASSUME NEW Names, NEW s \in Planned(Names), NEW A
  PROVE  /\ Ready(s, A) \in SUBSET (Gaps(s) \ A)
         /\ Gaps(s) \ A # {} => Ready(s, A) # {}
         /\ \A skill \in Ready(s, A) : Dependencies(skill) \cap Gaps(s) \subseteq A
<1> DEFINE remaining == Gaps(s) \ A
           ready == {skill \in remaining : Dependencies(skill) \cap Gaps(s) \subseteq A}
           depths == {Depth(skill) : skill \in remaining}
<1>1. CASE remaining # {}
  <2>1. depths \in SUBSET Nat /\ depths # {}
    BY <1>1, DepthNat
  <2>2. PICK m \in depths : \A n \in depths : m <= n
    <3> HIDE DEF depths
    <3> QED BY <2>1, LeastOf
  <2>3. PICK skill \in remaining : m = Depth(skill)
    OBVIOUS
  <2>4. \A other \in remaining : Depth(skill) <= Depth(other)
    BY <2>2, <2>3, Zenon
  <2>5. \A d \in Dependencies(skill) \cap Gaps(s) : d \in A
    <3> SUFFICES ASSUME NEW d \in Dependencies(skill), d \in remaining PROVE FALSE
      OBVIOUS
    <3>1. Depth(d) < Depth(skill) /\ Depth(skill) <= Depth(d)
      BY <2>4, Acyclic, Zenon
    <3>2. Depth(d) \in 0..3 /\ Depth(skill) \in 0..3
      BY DepthNat
    <3> QED BY <3>1, <3>2
  <2>6. ready # {}
    BY <2>5
  <2>7. Ready(s, A) = ready
    BY <2>6, Zenon DEF Ready
  <2> QED BY <2>6, <2>7
<1>2. CASE remaining = {}
  <2>1. ready = {}
    BY <1>2
  <2> DEFINE first == {i \in DOMAIN s.required :
                         /\ s.required[i] \in remaining
                         /\ \A j \in 1..(i - 1) : s.required[j] \notin remaining}
  <2>2. first = {}
    BY <1>2
  <2>3. Ready(s, A) = {s.required[i] : i \in first}
    BY <2>1, Zenon DEF Ready
  <2>4. Ready(s, A) = {}
    <3> HIDE DEF first
    <3> QED BY <2>2, <2>3
  <2> QED BY <1>2, <2>4
<1> QED BY <1>1, <1>2

\* What is scheduled after each round.
Scheduling(s, A) ==
  /\ A \in [0..Len(s.required) -> SUBSET Gaps(s)]
  /\ A[0] = {}
  /\ \A n \in 1..Len(s.required) : A[n] = A[n - 1] \cup Ready(s, A[n - 1])

LEMMA ScheduledIs ==
  ASSUME NEW Names, NEW s \in Planned(Names)
  PROVE  Scheduling(s, Scheduled(s))
<1> DEFINE N == Len(s.required)
           V == SUBSET Gaps(s)
           G == [B \in V |-> B \cup Ready(s, B)]
           Steps(g) == g = [n \in 0..N |-> IF n = 0 THEN {} ELSE g[n - 1] \cup Ready(s, g[n - 1])]
           F == CHOOSE g : Steps(g)
<1>1. N \in Nat
  BY GapsFinite
<1>2. G \in [V -> V] /\ {} \in V
  <2>1. \A B \in V : B \cup Ready(s, B) \in V
    BY ReadyAre
  <2> QED BY <2>1
<1>3. PICK h \in [0..N -> V] : h[0] = {} /\ \A n \in 1..N : h[n] = G[h[n - 1]]
  <2> HIDE DEF N, V, G
  <2> DEFINE v == {}
  <2>1. v \in V
    BY <1>2
  <2> HIDE DEF v
  <2>2. \A M \in Nat : \E h \in [0..M -> V] : Iterated(G, v, M, h)
    <3>1. G \in [V -> V]
      BY <1>2
    <3> QED BY <2>1, <3>1, Iterates, Zenon
  <2>3. \E h \in [0..N -> V] : h[0] = v /\ \A n \in 1..N : h[n] = G[h[n - 1]]
    BY <1>1, <2>2, Zenon DEF Iterated
  <2> QED BY <2>3, Zenon DEF v
<1>4. \A n \in 1..N : n \in 0..N /\ n - 1 \in 0..N /\ n # 0
  BY <1>1
<1>5. \A n \in 1..N : h[n] = h[n - 1] \cup Ready(s, h[n - 1])
  BY <1>3, <1>4, Zenon
<1>6. \A n \in 0..N : n # 0 => n \in 1..N
  BY <1>1
<1>7. Steps(h)
  <2>1. h = [n \in 0..N |-> h[n]]
    BY <1>3
  <2>2. \A n \in 0..N : h[n] = IF n = 0 THEN {} ELSE h[n - 1] \cup Ready(s, h[n - 1])
    BY <1>3, <1>5, <1>6, Zenon
  <2> QED BY <2>1, <2>2, Zenon
<1>8. Steps(F)
  BY <1>7, Zenon
<1>9. Scheduled(s) = F
  BY DEF Scheduled
<1> HIDE DEF F
<1>10. \A n \in 0..N : F[n] = IF n = 0 THEN {} ELSE F[n - 1] \cup Ready(s, F[n - 1])
  BY <1>8, Zenon
<1>11. 0 \in 0..N
  BY <1>1
<1>12. F[0] = {} /\ \A n \in 1..N : F[n] = F[n - 1] \cup Ready(s, F[n - 1])
  BY <1>4, <1>10, <1>11, Zenon
<1> DEFINE S == {n \in Nat : n \in 0..N => F[n] = h[n]}
<1>13. 0 \in S
  BY <1>3, <1>12
<1>14. ASSUME NEW n \in S PROVE n + 1 \in S
  <2>1. SUFFICES ASSUME n + 1 \in 0..N PROVE F[n + 1] = h[n + 1]
    OBVIOUS
  <2>2. n + 1 \in 1..N /\ (n + 1) - 1 = n /\ n \in 0..N
    BY <1>1, <2>1
  <2>3. F[n] = h[n]
    BY <2>2
  <2> QED BY <1>5, <1>12, <2>2, <2>3, ZenonT(30)
<1> HIDE DEF S
<1>15. S = Nat
  <2>1. S \in SUBSET Nat
    BY DEF S
  <2> QED BY <1>13, <1>14, <2>1, Inductive
<1>16. \A n \in 0..N : F[n] = h[n]
  BY <1>1, <1>15 DEF S
<1>17. F = [n \in 0..N |-> F[n]]
  BY <1>8
<1>18. F \in [0..N -> V]
  BY <1>3, <1>16, <1>17
<1> QED BY <1>9, <1>12, <1>18, Zenon DEF Scheduling

\* Nothing is taken back, and each round takes a gap while there is one.
LEMMA SchedulesGrow ==
  ASSUME NEW Names, NEW s \in Planned(Names), NEW A, Scheduling(s, A)
  PROVE  \A n \in 0..Len(s.required) :
           /\ \A m \in 0..n : A[m] \subseteq A[n]
           /\ A[n] = Gaps(s) \/ Cardinality(A[n]) >= n
<1> DEFINE N == Len(s.required)
           Grown(n) == /\ \A m \in 0..n : A[m] \subseteq A[n]
                       /\ A[n] = Gaps(s) \/ Cardinality(A[n]) >= n
           S == {n \in Nat : n \in 0..N => Grown(n)}
<1>1. N \in Nat
  BY GapsFinite
<1>2. /\ A \in [0..N -> SUBSET Gaps(s)] /\ A[0] = {}
      /\ \A n \in 1..N : A[n] = A[n - 1] \cup Ready(s, A[n - 1])
  BY DEF Scheduling
<1>3. \A n \in 0..N : IsFiniteSet(A[n]) /\ Cardinality(A[n]) \in Nat
  BY <1>2, GapsFinite, FS_Subset, FS_CardinalityType
<1>4. 0 \in S
  <2>1. Cardinality(A[0]) >= 0
    BY <1>2, FS_EmptySet
  <2>2. \A m \in 0..0 : A[m] \subseteq A[0]
    OBVIOUS
  <2> QED BY <2>1, <2>2
<1>5. ASSUME NEW n \in S PROVE n + 1 \in S
  <2>1. SUFFICES ASSUME n + 1 \in 0..N PROVE Grown(n + 1)
    OBVIOUS
  <2>2. n \in Nat /\ n \in 0..N /\ n + 1 \in 1..N /\ (n + 1) - 1 = n /\ Grown(n)
    BY <1>1, <2>1
  <2> DEFINE R == Ready(s, A[n])
             B == A[n + 1]
  <2>3. B = A[n] \cup R
    BY <1>2, <2>2, Zenon
  <2>4. R \in SUBSET (Gaps(s) \ A[n]) /\ (Gaps(s) \ A[n] # {} => R # {})
    BY ReadyAre
  <2>5. ASSUME NEW m \in 0..(n + 1) PROVE A[m] \subseteq B
    <3>1. CASE m = n + 1
      BY <3>1
    <3>2. CASE m # n + 1
      <4>1. m \in 0..n
        BY <2>2, <3>2
      <4> QED BY <2>2, <2>3, <4>1
    <3> QED BY <3>1, <3>2
  <2>6. ASSUME B # Gaps(s) PROVE Cardinality(B) >= n + 1
    <3>1. A[n] # Gaps(s) /\ A[n] \in SUBSET Gaps(s)
      BY <1>2, <2>2, <2>3, <2>4, <2>6
    <3>2. PICK x \in R : TRUE
      BY <2>4, <3>1
    <3>3. x \in B /\ x \notin A[n] /\ A[n] \in SUBSET B
      BY <2>3, <2>4
    <3>4. IsFiniteSet(B) /\ Cardinality(B) \in Nat
      BY <1>3, <2>1, Zenon
    <3>5. A[n] \in SUBSET (B \ {x}) /\ IsFiniteSet(B \ {x}) /\ Cardinality(B \ {x}) = Cardinality(B) - 1
      <4> HIDE DEF B
      <4> QED BY <3>3, <3>4, FS_RemoveElement, FS_Subset
    <3>6. Cardinality(A[n]) <= Cardinality(B \ {x})
      <4> HIDE DEF B
      <4> QED BY <3>5, FS_Subset
    <3>7. Cardinality(A[n]) >= n /\ Cardinality(A[n]) \in Nat
      BY <1>3, <2>2, <3>1
    <3> DEFINE a == Cardinality(A[n])
               b == Cardinality(B)
               c == Cardinality(B \ {x})
    <3>8. n \in Nat /\ a \in Nat /\ a >= n /\ b \in Nat /\ c = b - 1 /\ a <= c
      BY <2>2, <3>4, <3>5, <3>6, <3>7, Zenon
    <3> HIDE DEF a, b, c
    <3>9. b >= n + 1
      BY <3>8
    <3> QED BY <3>9, Zenon DEF b
  <2> QED BY <2>5, <2>6, Zenon
<1> HIDE DEF S
<1>6. S = Nat
  <2>1. S \in SUBSET Nat
    BY DEF S
  <2> QED BY <1>4, <1>5, <2>1, Inductive
<1>7. \A n \in 0..N : n \in Nat
  BY <1>1
<1> QED BY <1>6, <1>7, Zenon DEF S

\* The loop ends with everything scheduled.
LEMMA AllScheduled ==
  ASSUME NEW Names, NEW s \in Planned(Names), NEW A, Scheduling(s, A)
  PROVE  A[Len(s.required)] = Gaps(s)
<1> DEFINE N == Len(s.required)
           g == Cardinality(Gaps(s))
           a == Cardinality(A[N])
<1>1. N \in Nat /\ IsFiniteSet(Gaps(s)) /\ g \in 0..N
  BY GapsFinite
<1>2. N \in 0..N
  BY <1>1
<1>3. A[N] \in SUBSET Gaps(s)
  BY <1>2 DEF Scheduling
<1>4. A[N] = Gaps(s) \/ a >= N
  BY <1>2, SchedulesGrow, Zenon
<1>5. a \in Nat /\ a <= g /\ (a = g => A[N] = Gaps(s))
  <2> HIDE DEF N
  <2> QED BY <1>1, <1>3, FS_Subset, FS_CardinalityType
<1>6. a >= N => a = g
  <2> HIDE DEF N, a, g
  <2> QED BY <1>1, <1>5
<1> QED BY <1>4, <1>5, <1>6, Zenon

\* Each gap is in one round, after the rounds of the gaps that it depends on.
InRounds(s, R) ==
  /\ \A n \in 1..Len(s.required) : R[n] \subseteq Gaps(s)
  /\ \A skill \in Gaps(s) : \E n \in 1..Len(s.required) : skill \in R[n]
  /\ \A n, m \in 1..Len(s.required), skill \in Gaps(s) : skill \in R[n] /\ skill \in R[m] => n = m
  /\ \A n, m \in 1..Len(s.required), skill \in Gaps(s), d \in Gaps(s) :
       skill \in R[n] /\ d \in R[m] /\ d \in Dependencies(skill) => m < n

LEMMA RoundsAre ==
  ASSUME NEW Names, NEW s \in Planned(Names)
  PROVE  InRounds(s, Rounds(s)) /\ DOMAIN Rounds(s) = 1..Len(s.required)
<1> DEFINE N == Len(s.required)
           A == Scheduled(s)
           R == Rounds(s)
<1>1. N \in Nat
  BY GapsFinite
<1>2. Scheduling(s, A)
  BY ScheduledIs
<1>3. DOMAIN R = 1..N /\ \A n \in 1..N : R[n] = A[n] \ A[n - 1]
  BY DEF Rounds
<1> HIDE DEF A, R
<1>4. A[N] = Gaps(s) /\ A[0] = {} /\ \A n \in 0..N : A[n] \in SUBSET Gaps(s)
  BY <1>2, AllScheduled DEF Scheduling
<1>5. \A n \in 0..N, m \in 0..N : m <= n => A[m] \subseteq A[n]
  <2>1. \A n \in 0..N : \A m \in 0..n : A[m] \subseteq A[n]
    BY <1>2, SchedulesGrow, Zenon
  <2>2. \A n \in 0..N, m \in 0..N : m <= n => m \in 0..n
    BY <1>1
  <2> QED BY <2>1, <2>2, Zenon
<1>6. \A n, m \in 1..N : n < m => R[n] \subseteq A[m - 1]
  <2> SUFFICES ASSUME NEW n \in 1..N, NEW m \in 1..N, n < m PROVE R[n] \subseteq A[m - 1]
    OBVIOUS
  <2>1. n \in 0..N /\ m - 1 \in 0..N /\ n <= m - 1
    BY <1>1
  <2>2. A[n] \subseteq A[m - 1]
    BY <1>5, <2>1, Zenon
  <2> QED BY <1>3, <2>2
<1>7. \A n, m \in 1..N, skill \in Gaps(s) : skill \in R[n] /\ skill \in R[m] => ~ (n < m)
  BY <1>3, <1>6
<1>8. \A n, m \in 1..N, skill \in Gaps(s) : skill \in R[n] /\ skill \in R[m] => n = m
  <2>1. \A n, m \in 1..N : ~ (n < m) /\ ~ (m < n) => n = m
    BY <1>1
  <2> QED BY <1>7, <2>1, Zenon
<1>9. ASSUME NEW skill \in Gaps(s) PROVE \E n \in 1..N : skill \in R[n]
  <2> DEFINE S == {n \in 0..N : skill \in A[n]}
  <2>1. N \in S /\ S \in SUBSET Nat
    BY <1>1, <1>4
  <2>2. PICK n \in S : \A m \in S : n <= m
    <3> HIDE DEF S
    <3> QED BY <2>1, LeastOf
  <2>3. n \in 0..N /\ skill \in A[n] /\ n # 0
    BY <1>4
  <2>4. n \in 1..N /\ n - 1 \in 0..N /\ ~ (n <= n - 1)
    BY <1>1, <2>3
  <2>5. skill \notin A[n - 1]
    BY <2>2, <2>4, Zenon
  <2>6. skill \in R[n]
    BY <1>3, <2>3, <2>4, <2>5
  <2> QED BY <2>4, <2>6, Zenon
<1>10. ASSUME NEW n \in 1..N, NEW m \in 1..N, NEW skill \in Gaps(s), NEW d \in Gaps(s),
              skill \in R[n], d \in R[m], d \in Dependencies(skill)
       PROVE  m < n
  <2>1. A[n] = A[n - 1] \cup Ready(s, A[n - 1])
    BY <1>2, Zenon DEF Scheduling
  <2>2. skill \in Ready(s, A[n - 1])
    BY <1>3, <1>10, <2>1
  <2>3. d \in A[n - 1]
    <3>1. \A k \in Ready(s, A[n - 1]) : Dependencies(k) \cap Gaps(s) \subseteq A[n - 1]
      BY ReadyAre
    <3> QED BY <1>10, <2>2, <3>1
  <2>4. ~ (n <= m)
    <3> SUFFICES ASSUME n <= m PROVE FALSE
      OBVIOUS
    <3>1. n - 1 \in 0..N /\ m - 1 \in 0..N /\ n - 1 <= m - 1
      BY <1>1
    <3>2. A[n - 1] \subseteq A[m - 1]
      BY <1>5, <3>1, Zenon
    <3> QED BY <1>3, <1>10, <2>3, <3>2
  <2> QED BY <1>1, <2>4
<1>11. \A n \in 1..N : R[n] \subseteq Gaps(s)
  <2>1. \A n \in 1..N : n \in 0..N
    BY <1>1
  <2> QED BY <1>3, <1>4, <2>1
<1>12. InRounds(s, R)
  BY <1>8, <1>9, <1>10, <1>11, Zenon DEF InRounds
<1> QED BY <1>3, <1>12, Zenon DEF R

----------------------------------------------------------------------------
\* The steps of a learning plan.

\* Resources are ordered, ties aside.
LEMMA BetterOrders ==
  ASSUME NEW Names, NEW a \in Resources(Names), NEW b \in Resources(Names), NEW c \in Resources(Names)
  PROVE  /\ Better(a, b) => ~ Better(b, a)
         /\ Better(a, b) /\ ~ Better(c, b) => Better(a, c)
<1>1. /\ Duration(a) \in Int /\ Duration(b) \in Int /\ Duration(c) \in Int
      /\ a.coverage \in Int /\ b.coverage \in Int /\ c.coverage \in Int
      /\ a.free \in BOOLEAN /\ b.free \in BOOLEAN /\ c.free \in BOOLEAN
  BY DEF Resources, Duration
<1> QED BY <1>1 DEF Better

\* The first of the best in a part of the catalogue.
Best(r, T, b) ==
  b \in T /\ \A j \in T \ {b} : IF j < b THEN Better(r[b], r[j]) ELSE ~ Better(r[j], r[b])

LEMMA BestExists ==
  ASSUME NEW Names, NEW r \in Seq(Resources(Names)), NEW T \in SUBSET DOMAIN r, T # {}
  PROVE  \E b \in T : Best(r, T, b)
<1> DEFINE n == Len(r)
           S == {k \in Nat : k <= n /\ T \cap (1..k) # {} => \E b : Best(r, T \cap (1..k), b)}
<1>1. n \in Nat /\ DOMAIN r = 1..n /\ \A i \in 1..n : r[i] \in Resources(Names)
  OBVIOUS
<1>2. 0 \in S
  <2>1. T \cap (1..0) = {}
    OBVIOUS
  <2> QED BY <2>1
<1>3. ASSUME NEW k \in S PROVE k + 1 \in S
  <2>1. k \in Nat
    OBVIOUS
  <2> DEFINE m == k + 1
             U == T \cap (1..k)
             W == T \cap (1..m)
  <2>6. m \in Nat
    BY <2>1
  <2>2. SUFFICES ASSUME m <= n, W # {} PROVE \E b : Best(r, W, b)
    BY <2>6, Zenon
  <2>3. k <= n /\ m \notin U /\ \A j \in U : j < m /\ ~ (m < j) /\ j \in 1..n
    BY <1>1, <2>1, <2>2
  <2>4. CASE m \notin T
    <3>1. W = U
      BY <2>1, <2>4
    <3>2. \E b : Best(r, U, b)
      BY <2>2, <2>3, <3>1, Zenon
    <3> QED BY <3>1, <3>2, Zenon
  <2>5. CASE m \in T
    <3>1. W = U \cup {m} /\ m \in 1..n
      BY <1>1, <2>1, <2>2, <2>5
    <3>2. CASE U = {}
      <4>1. Best(r, W, m)
        BY <3>1, <3>2 DEF Best
      <4> QED BY <4>1
    <3>3. CASE U # {}
      <4>1. PICK b : Best(r, U, b)
        BY <2>3, <3>3, Zenon
      <4>2. b \in U /\ b \in 1..n /\ b < m /\ b # m
        BY <2>3, <4>1 DEF Best
      <4>3. CASE Better(r[m], r[b])
        <5>1. ASSUME NEW j \in U PROVE Better(r[m], r[j])
          <6>1. CASE j = b
            BY <4>3, <6>1
          <6>2. CASE j # b
            <7>1. j \in 1..n
              BY <2>3
            <7>2. r[m] \in Resources(Names) /\ r[b] \in Resources(Names) /\ r[j] \in Resources(Names)
              BY <1>1, <3>1, <4>2, <7>1, Zenon
            <7>3. ~ Better(r[j], r[b])
              <8>1. Better(r[b], r[j]) => ~ Better(r[j], r[b])
                BY <7>2, BetterOrders, Zenon
              <8> QED BY <4>1, <6>2, <8>1, Zenon DEF Best
            <7> QED BY <4>3, <7>2, <7>3, BetterOrders, ZenonT(30)
          <6> QED BY <6>1, <6>2
        <5>2. Best(r, W, m)
          BY <2>3, <3>1, <5>1 DEF Best
        <5> QED BY <5>2
      <4>4. CASE ~ Better(r[m], r[b])
        <5>1. Best(r, W, b)
          BY <2>3, <3>1, <4>1, <4>2, <4>4 DEF Best
        <5> QED BY <5>1
      <4> QED BY <4>3, <4>4
    <3> QED BY <3>2, <3>3
  <2> QED BY <2>4, <2>5
<1> HIDE DEF S
<1>4. S = Nat
  <2>1. S \in SUBSET Nat
    BY DEF S
  <2> QED BY <1>2, <1>3, <2>1, Inductive
<1>5. T \cap (1..n) = T /\ n \in S /\ n <= n
  BY <1>1, <1>4
<1>6. \E b : Best(r, T, b)
  <2>1. n \in Nat /\ (n <= n /\ T \cap (1..n) # {} => \E b : Best(r, T \cap (1..n), b))
    BY <1>5, Zenon DEF S
  <2> QED BY <1>5, <2>1, Zenon
<1> QED BY <1>6 DEF Best

\* A skill has one best resource, or nothing teaches it.
LEMMA BestResourceIs ==
  ASSUME NEW Names, NEW s \in Planned(Names), NEW skill
  PROVE  IF Teachable(s, skill)
         THEN \E i \in DOMAIN s.catalogue : BestResource(s, skill) = {i}
         ELSE BestResource(s, skill) = {}
<1> DEFINE r == s.catalogue
           able == {i \in DOMAIN r : CanTeach(r[i], skill, s.freeOnly)}
<1>1. r \in Seq(Resources(Names))
  BY DEF Planned
<1>2. BestResource(s, skill) = {i \in able : Best(r, able, i)}
  <2>1. \A i \in able : Best(r, able, i)
           <=> \A j \in able \ {i} : IF j < i THEN Better(r[i], r[j]) ELSE ~ Better(r[j], r[i])
    BY Zenon DEF Best
  <2>2. BestResource(s, skill) =
          {i \in able : \A j \in able \ {i} : IF j < i THEN Better(r[i], r[j]) ELSE ~ Better(r[j], r[i])}
    BY Zenon DEF BestResource
  <2> HIDE DEF able, r
  <2> QED BY <2>1, <2>2
<1>3. Teachable(s, skill) <=> able # {}
  BY DEF Teachable
<1>4. \A i \in able : i \in Nat /\ i \in DOMAIN r
  BY <1>1
<1>5. ASSUME NEW i \in able, NEW j \in able, Best(r, able, i), Best(r, able, j), i < j PROVE FALSE
  <2>1. j # i /\ ~ (j < i)
    BY <1>4, <1>5
  <2>2. Better(r[j], r[i]) /\ ~ Better(r[j], r[i])
    BY <1>5, <2>1, Zenon DEF Best
  <2> QED BY <2>2
<1>6. \A i, j \in able : Best(r, able, i) /\ Best(r, able, j) => i = j
  <2>1. \A i, j \in able : ~ (i < j) /\ ~ (j < i) => i = j
    BY <1>4
  <2> QED BY <1>5, <2>1, Zenon
<1>7. ASSUME able # {} PROVE \E i \in DOMAIN r : BestResource(s, skill) = {i}
  <2>1. PICK b \in able : Best(r, able, b)
    <3>1. able \in SUBSET DOMAIN r
      OBVIOUS
    <3> HIDE DEF able, r
    <3> QED BY <1>1, <1>7, <3>1, BestExists
  <2>2. BestResource(s, skill) = {b}
    <3> HIDE DEF able, r
    <3> QED BY <1>2, <1>6, <2>1
  <2> QED BY <1>4, <2>2, Zenon
<1>8. able = {} => BestResource(s, skill) = {}
  <2> HIDE DEF able, r
  <2> QED BY <1>2
<1> QED BY <1>3, <1>7, <1>8, Zenon

LEMMA Division ==
  ASSUME NEW n \in Int, NEW d \in Nat \ {0}
  PROVE  /\ n \div d \in Int /\ n % d \in Int
         /\ n = (d * (n \div d)) + (n % d)
         /\ 0 <= n % d /\ n % d < d
OBVIOUS

LEMMA RoundNat ==
  ASSUME NEW n \in Nat, NEW d \in Nat \ {0}
  PROVE  Round(n, d) \in Nat
<1>1. n \div d \in Int /\ n % d \in Int /\ n = (d * (n \div d)) + (n % d) /\ n % d < d
  BY Division
<1>2. n \div d >= 0
  <2> DEFINE q == n \div d
             r == n % d
  <2>1. q \in Int /\ r \in Int /\ n = (d * q) + r /\ r < d
    BY <1>1
  <2> HIDE DEF q, r
  <2>2. q < 0 => d * q <= d * (0 - 1)
    BY <2>1
  <2>3. q >= 0
    BY <2>1, <2>2
  <2> QED BY <2>3 DEF q
<1>3. n \div d \in Nat /\ n \div d + 1 \in Nat
  BY <1>1, <1>2
<1> QED BY <1>3, Zenon DEF Round

LEMMA WeeksNat ==
  ASSUME NEW Names, NEW s \in Planned(Names), NEW i \in DOMAIN s.catalogue
  PROVE  StepWeeks(s, i) \in Nat
<1> DEFINE hours == IF s.catalogue[i].hours = 0 THEN 20 ELSE s.catalogue[i].hours
           week == IF s.hoursPerWeek > 0 THEN s.hoursPerWeek ELSE 10
<1>1. s.catalogue[i] \in Resources(Names) /\ s.hoursPerWeek \in Int
  <2>1. s.catalogue \in Seq(Resources(Names)) /\ s.hoursPerWeek \in Int
    BY DEF Planned
  <2> QED BY <2>1
<1>2. s.catalogue[i].hours \in Nat
  BY <1>1 DEF Resources
<1>3. hours \in Nat /\ week \in Nat \ {0}
  BY <1>1, <1>2
<1>4. StepWeeks(s, i) = Round(10 * hours, week)
  BY DEF StepWeeks
<1> HIDE DEF hours, week
<1>5. 10 * hours \in Nat
  BY <1>3
<1> QED BY <1>3, <1>4, <1>5, RoundNat, Zenon

StepOf(s, R, skill, n, i) ==
  [skill |-> skill, round |-> n, weeks |-> StepWeeks(s, i), parallel |-> Cardinality(R[n]) > 1]

\* A step is at a skill of its round; each teachable gap has one.
HasSteps(s, R, P) ==
  /\ IsFiniteSet(P)
  /\ \A x \in P : /\ x.skill \in Gaps(s) /\ x.round \in 1..Len(s.required) /\ x.skill \in R[x.round]
                  /\ x.weeks \in Nat
                  /\ x.parallel = (Cardinality(R[x.round]) > 1)
  /\ \A x, y \in P : x.skill = y.skill => x = y
  /\ \A skill \in Gaps(s) : Teachable(s, skill) <=> \E x \in P : x.skill = skill

LEMMA PlanIs ==
  ASSUME NEW Names, NEW s \in Planned(Names)
  PROVE  HasSteps(s, Rounds(s), Plan(s))
<1> DEFINE R == Rounds(s)
           P == Plan(s)
           N == Len(s.required)
<1>1. InRounds(s, R) /\ DOMAIN R = 1..N
  BY RoundsAre
<1>2. P = UNION {UNION {{StepOf(s, R, skill, n, i) : i \in BestResource(s, skill)} : skill \in R[n]} :
                   n \in DOMAIN R}
  BY DEF Plan, StepOf
<1> HIDE DEF R, P
<1>3. \A x : x \in P <=> \E n \in 1..N : \E skill \in R[n] : \E i \in BestResource(s, skill) :
                           x = StepOf(s, R, skill, n, i)
  BY <1>1, <1>2
<1>4. ASSUME NEW skill PROVE
        /\ \A i, j \in BestResource(s, skill) : i = j
        /\ BestResource(s, skill) \subseteq DOMAIN s.catalogue
        /\ Teachable(s, skill) <=> BestResource(s, skill) # {}
  BY BestResourceIs
<1>5. ASSUME NEW x \in P
      PROVE  /\ x.skill \in Gaps(s) /\ x.round \in 1..N /\ x.skill \in R[x.round]
             /\ x.weeks \in Nat /\ x.parallel = (Cardinality(R[x.round]) > 1)
             /\ \E i \in BestResource(s, x.skill) : x = StepOf(s, R, x.skill, x.round, i)
  <2>1. PICK n \in 1..N : \E skill \in R[n] : \E i \in BestResource(s, skill) :
                            x = StepOf(s, R, skill, n, i)
    BY <1>3
  <2>2. PICK skill \in R[n] : \E i \in BestResource(s, skill) : x = StepOf(s, R, skill, n, i)
    BY <2>1
  <2>3. PICK i \in BestResource(s, skill) : x = StepOf(s, R, skill, n, i)
    BY <2>2
  <2>4. /\ x.skill = skill /\ x.round = n /\ x.weeks = StepWeeks(s, i)
        /\ x.parallel = (Cardinality(R[n]) > 1)
    BY <2>3 DEF StepOf
  <2>5. skill \in Gaps(s)
    BY <1>1 DEF InRounds
  <2>6. i \in DOMAIN s.catalogue
    BY <1>4
  <2>7. StepWeeks(s, i) \in Nat
    BY <2>6, WeeksNat
  <2> QED BY <2>3, <2>4, <2>5, <2>7, Zenon
<1>6. ASSUME NEW x \in P, NEW y \in P, x.skill = y.skill PROVE x = y
  <2>1. x.round = y.round
    <3>1. \A n, m \in 1..N, skill \in Gaps(s) : skill \in R[n] /\ skill \in R[m] => n = m
      BY <1>1, Zenon DEF InRounds
    <3> QED BY <1>5, <1>6, <3>1, Zenon
  <2>2. PICK i \in BestResource(s, x.skill) : x = StepOf(s, R, x.skill, x.round, i)
    BY <1>5
  <2>3. PICK j \in BestResource(s, x.skill) : y = StepOf(s, R, x.skill, x.round, j)
    BY <1>5, <1>6, <2>1, Zenon
  <2>4. i = j
    BY <1>4
  <2> QED BY <2>2, <2>3, <2>4, Zenon
<1>7. ASSUME NEW skill \in Gaps(s) PROVE Teachable(s, skill) <=> \E x \in P : x.skill = skill
  <2>1. ASSUME Teachable(s, skill) PROVE \E x \in P : x.skill = skill
    <3>1. PICK i \in BestResource(s, skill) : TRUE
      BY <1>4, <2>1
    <3>2. PICK n \in 1..N : skill \in R[n]
      BY <1>1 DEF InRounds
    <3>3. StepOf(s, R, skill, n, i) \in P
      BY <1>3, <3>1, <3>2, Zenon
    <3>4. StepOf(s, R, skill, n, i).skill = skill
      BY DEF StepOf
    <3> QED BY <3>3, <3>4, Zenon
  <2>2. ASSUME NEW x \in P, x.skill = skill PROVE Teachable(s, skill)
    BY <1>4, <1>5, <2>2
  <2> QED BY <2>1, <2>2
<1>8. IsFiniteSet(P)
  <2> DEFINE f == [x \in P |-> x.skill]
  <2>1. f \in Injection(P, Gaps(s))
    BY <1>5, <1>6 DEF Injection, IsInjective
  <2>2. IsFiniteSet(Gaps(s))
    BY GapsFinite
  <2> HIDE DEF f
  <2> QED BY <2>1, <2>2, FS_Injection
<1>9. HasSteps(s, R, P)
  BY <1>5, <1>6, <1>7, <1>8, Zenon DEF HasSteps
<1> QED BY <1>9, Zenon DEF R, P

----------------------------------------------------------------------------
\* The weeks of a learning plan.

LEMMA MaxIs ==
  ASSUME NEW S \in SUBSET Nat, IsFiniteSet(S), S # {}
  PROVE  Max(S) \in S /\ \A x \in S : x <= Max(S)
<1> DEFINE Has(T) == \E x \in T : \A y \in T : x >= y
           P == {T \in SUBSET S : T = {} \/ Has(T)}
<1>1. {} \in P
  OBVIOUS
<1>2. ASSUME NEW T \in SUBSET S, NEW x \in S, T \in P, x \notin T PROVE T \cup {x} \in P
  <2>1. CASE T = {}
    <3>1. T \cup {x} = {x} /\ x >= x
      BY <2>1
    <3> QED BY <3>1
  <2>2. CASE T # {}
    <3>1. PICK y \in T : \A z \in T : y >= z
      BY <1>2, <2>2
    <3>2. x \in Nat /\ \A z \in T : z \in Nat
      OBVIOUS
    <3>3. CASE x >= y
      <4>1. \A z \in T \cup {x} : x >= z
        BY <3>1, <3>2, <3>3
      <4>2. Has(T \cup {x})
        BY <4>1
      <4> QED BY <4>2
    <3>4. CASE ~ (x >= y)
      <4>1. \A z \in T \cup {x} : y >= z
        BY <3>1, <3>2, <3>4
      <4>2. Has(T \cup {x})
        BY <4>1
      <4> QED BY <4>2
    <3> QED BY <3>3, <3>4
  <2> QED BY <2>1, <2>2
<1>3. P \in SUBSET (SUBSET S)
  OBVIOUS
<1> HIDE DEF P
<1>4. P = SUBSET S
  <2>1. \A T \in SUBSET S, x \in S : T \in P /\ x \notin T => T \cup {x} \in P
    BY <1>2, Zenon
  <2> HIDE DEF Has
  <2> QED BY <1>1, <1>3, <2>1, SubsetsAll
<1>5. Has(S)
  <2>1. S \in P
    BY <1>4
  <2> QED BY <2>1, Zenon DEF P
<1>6. Max(S) \in S /\ \A y \in S : Max(S) >= y
  BY <1>5, Zenon DEF Max
<1> QED BY <1>6

TimedSteps(P) == IsFiniteSet(P) /\ \A x \in P : x.weeks \in Nat /\ x.parallel \in BOOLEAN

WeeksOf(P) == [x \in P |-> x.weeks]

LEMMA WeeksAre ==
  ASSUME NEW P, TimedSteps(P), NEW T \in SUBSET P
  PROVE  /\ SumOfWeeks(T) = SumFunctionOnSet(WeeksOf(P), T)
         /\ Weighed(WeeksOf(P), T)
         /\ SumOfWeeks(T) \in Nat
         /\ \A x \in T : x.weeks \in Nat /\ x.weeks <= SumOfWeeks(T)
         /\ TimedSteps(T)
<1>1. TimedSteps(T)
  BY FS_Subset DEF TimedSteps
<1>2. Weighed(WeeksOf(T), T)
  BY <1>1 DEF Weighed, WeeksOf, TimedSteps
<1>3. SumOfWeeks(T) = SumFunctionOnSet(WeeksOf(T), T)
  <2>1. DOMAIN WeeksOf(T) = T
    BY DEF WeeksOf
  <2>2. SumOfWeeks(T) = SumFunctionOnSet(WeeksOf(T), DOMAIN WeeksOf(T))
    BY Zenon DEF SumOfWeeks, SumFunction, WeeksOf
  <2> QED BY <2>1, <2>2, Zenon
<1>4. \A x \in T : WeeksOf(T)[x] = WeeksOf(P)[x] /\ WeeksOf(T)[x] = x.weeks
  BY DEF WeeksOf
<1>5. SumFunctionOnSet(WeeksOf(T), T) = SumFunctionOnSet(WeeksOf(P), T)
  BY <1>2, <1>4, SumSame
<1>6. Weighed(WeeksOf(P), T)
  BY <1>2, <1>4, Zenon DEF Weighed
<1>7. SumOfWeeks(T) \in Nat
  BY <1>2, <1>3, SumTakes, Zenon
<1>8. \A x \in T : x.weeks \in Nat /\ x.weeks <= SumOfWeeks(T)
  <2>1. \A x \in T : WeeksOf(T)[x] \in Nat /\ WeeksOf(T)[x] <= SumFunctionOnSet(WeeksOf(T), T)
    BY <1>2, SumPart, Zenon
  <2> QED BY <1>3, <1>4, <2>1, Zenon
<1> QED BY <1>1, <1>3, <1>5, <1>6, <1>7, <1>8, Zenon

LEMMA WeeksOfBoth ==
  ASSUME NEW P, TimedSteps(P), NEW A \in SUBSET P, NEW B \in SUBSET P, A \cap B = {}
  PROVE  SumOfWeeks(A \cup B) = SumOfWeeks(A) + SumOfWeeks(B)
<1>1. A \cup B \in SUBSET P
  OBVIOUS
<1>2. Weighed(WeeksOf(P), A \cup B)
  BY <1>1, WeeksAre, Zenon
<1>3. SumFunctionOnSet(WeeksOf(P), A \cup B)
        = SumFunctionOnSet(WeeksOf(P), A) + SumFunctionOnSet(WeeksOf(P), B)
  BY <1>2, SumOfBoth, Zenon
<1> QED BY <1>1, <1>3, WeeksAre, Zenon

LEMMA WeeksOfNone == SumOfWeeks({}) = 0
<1> DEFINE f == [x \in {} |-> x.weeks]
<1>1. SumOfWeeks({}) = SumFunctionOnSet(f, DOMAIN f)
  BY Zenon DEF SumOfWeeks, SumFunction
<1>2. DOMAIN f = {}
  OBVIOUS
<1> QED BY <1>1, <1>2, SumOfNone, Zenon

\* The groups of parallel steps, and the steps in none.
GroupOf(T, n) == {x \in T : x.parallel /\ x.round = n}
GroupsOf(T) == {x.round : x \in {y \in T : y.parallel}}
Alone(T) == {x \in T : ~ x.parallel}
Longest(T) == [n \in GroupsOf(T) |-> Max({x.weeks : x \in GroupOf(T, n)})]

LEMMA GroupsAre ==
  ASSUME NEW P, TimedSteps(P), NEW T \in SUBSET P
  PROVE  /\ ParallelWeeks(T) = SumFunctionOnSet(Longest(T), GroupsOf(T)) + SumOfWeeks(Alone(T))
         /\ Weighed(Longest(T), GroupsOf(T))
         /\ \A n \in GroupsOf(T) : /\ \E x \in GroupOf(T, n) : Longest(T)[n] = x.weeks
                                   /\ \A x \in GroupOf(T, n) : x.weeks <= Longest(T)[n]
         /\ ParallelWeeks(T) \in Nat
<1>1. IsFiniteSet(T) /\ \A x \in T : x.weeks \in Nat /\ x.parallel \in BOOLEAN
  BY FS_Subset DEF TimedSteps
<1>2. ParallelWeeks(T) = SumFunctionOnSet(Longest(T), GroupsOf(T)) + SumOfWeeks(Alone(T))
  <2>1. DOMAIN Longest(T) = GroupsOf(T)
    BY DEF Longest
  <2>2. ParallelWeeks(T) = SumFunctionOnSet(Longest(T), DOMAIN Longest(T)) + SumOfWeeks(Alone(T))
    BY Zenon DEF ParallelWeeks, SumFunction, Longest, GroupsOf, GroupOf, Alone
  <2> QED BY <2>1, <2>2, Zenon
<1>3. IsFiniteSet(GroupsOf(T))
  <2> DEFINE S == {y \in T : y.parallel}
             f == [x \in S |-> x.round]
  <2>1. f \in Surjection(S, GroupsOf(T))
    BY DEF GroupsOf, Surjection
  <2>2. IsFiniteSet(S)
    BY <1>1, FS_Subset
  <2> HIDE DEF S, f
  <2> QED BY <2>1, <2>2, FS_Surjection
<1>4. ASSUME NEW n \in GroupsOf(T)
      PROVE  /\ \E x \in GroupOf(T, n) : Longest(T)[n] = x.weeks
             /\ \A x \in GroupOf(T, n) : x.weeks <= Longest(T)[n]
             /\ Longest(T)[n] \in Nat
  <2> DEFINE S == {x.weeks : x \in GroupOf(T, n)}
             f == [x \in GroupOf(T, n) |-> x.weeks]
  <2>1. S \in SUBSET Nat
    BY <1>1 DEF GroupOf
  <2>2. S # {}
    BY DEF GroupOf, GroupsOf
  <2>3. IsFiniteSet(S)
    <3>1. IsFiniteSet(GroupOf(T, n))
      BY <1>1, FS_Subset DEF GroupOf
    <3>2. f \in Surjection(GroupOf(T, n), S)
      BY DEF Surjection
    <3> HIDE DEF S, f
    <3> QED BY <3>1, <3>2, FS_Surjection
  <2>4. Longest(T)[n] = Max(S)
    BY DEF Longest
  <2>5. Max(S) \in S /\ \A x \in S : x <= Max(S)
    <3> HIDE DEF S
    <3> QED BY <2>1, <2>2, <2>3, MaxIs
  <2> QED BY <2>1, <2>4, <2>5
<1>5. Weighed(Longest(T), GroupsOf(T))
  BY <1>3, <1>4, Zenon DEF Weighed
<1>6. ParallelWeeks(T) \in Nat
  <2> DEFINE a == SumFunctionOnSet(Longest(T), GroupsOf(T))
             b == SumOfWeeks(Alone(T))
  <2>1. a \in Nat
    BY <1>5, SumTakes, Zenon
  <2>2. Alone(T) \in SUBSET P
    BY DEF Alone
  <2>3. b \in Nat
    BY <2>2, WeeksAre, Zenon
  <2> HIDE DEF a, b
  <2>4. a + b \in Nat
    BY <2>1, <2>3
  <2> QED BY <1>2, <2>4, Zenon DEF a, b
<1> QED BY <1>2, <1>4, <1>5, <1>6, Zenon

\* What a round adds to the weeks: no less than any step of it, no more than all of them.
RoundWeeks(A, B, k) ==
  /\ k \in Nat /\ ParallelWeeks(A \cup B) = ParallelWeeks(A) + k
  /\ \A x \in B : x.weeks <= k
  /\ k <= SumOfWeeks(B)

LEMMA RoundAdds ==
  ASSUME NEW P, TimedSteps(P), NEW A \in SUBSET P, NEW B \in SUBSET P, NEW n,
         \A x \in A : x.round # n, \A x \in B : x.round = n,
         (\A x \in B : x.parallel) \/ (\A x \in B : ~ x.parallel)
  PROVE  \E k : RoundWeeks(A, B, k)
<1> DEFINE C == A \cup B
           sum(T) == SumFunctionOnSet(Longest(T), GroupsOf(T))
           pw(T) == ParallelWeeks(T)
           sw(T) == SumOfWeeks(T)
<1>1. C \in SUBSET P /\ Alone(A) \in SUBSET P /\ Alone(B) \in SUBSET P /\ A \cap B = {}
  BY DEF Alone
<1>2. /\ pw(A) = sum(A) + sw(Alone(A)) /\ pw(C) = sum(C) + sw(Alone(C))
      /\ pw(A) \in Nat /\ pw(C) \in Nat
  BY <1>1, GroupsAre, Zenon
<1>3. Weighed(Longest(A), GroupsOf(A)) /\ Weighed(Longest(C), GroupsOf(C))
  BY <1>1, GroupsAre, Zenon
<1>4. sum(A) \in Nat /\ sw(Alone(A)) \in Nat /\ sw(B) \in Nat
  BY <1>1, <1>3, SumTakes, WeeksAre, Zenon
<1>5. \A x \in B : x.weeks \in Nat /\ x.weeks <= sw(B)
  BY WeeksAre, Zenon
<1>6. CASE B = {}
  <2>1. C = A
    BY <1>6
  <2>2. pw(C) = pw(A) + 0
    BY <1>2, <2>1
  <2>3. 0 <= sw(B) /\ 0 \in Nat
    BY <1>4
  <2>4. RoundWeeks(A, B, 0)
    BY <1>6, <2>2, <2>3, Zenon DEF RoundWeeks
  <2> QED BY <2>4, Zenon
<1>7. CASE B # {} /\ \A x \in B : x.parallel
  <2>1. GroupsOf(C) = GroupsOf(A) \cup {n} /\ n \notin GroupsOf(A)
    BY <1>7 DEF GroupsOf
  <2>2. GroupOf(C, n) = B
    BY <1>7 DEF GroupOf
  <2>3. \A m \in GroupsOf(A) : GroupOf(C, m) = GroupOf(A, m)
    BY <2>1 DEF GroupOf
  <2>4. Alone(C) = Alone(A)
    BY <1>7 DEF Alone
  <2>5. \A m \in GroupsOf(A) : Longest(A)[m] = Longest(C)[m]
    <3>1. \A m \in GroupsOf(A) : Longest(A)[m] = Max({x.weeks : x \in GroupOf(A, m)})
      BY DEF Longest
    <3>2. \A m \in GroupsOf(A) : Longest(C)[m] = Max({x.weeks : x \in GroupOf(C, m)})
      BY <2>1 DEF Longest
    <3> QED BY <2>3, <3>1, <3>2, Zenon
  <2> DEFINE k == Longest(C)[n]
  <2>6. n \in GroupsOf(C) /\ GroupsOf(C) \ {n} = GroupsOf(A)
    BY <2>1
  <2>7. k \in Nat
    BY <1>3, <2>6, Zenon DEF Weighed
  <2>8. sum(C) = k + sum(A)
    <3>1. SumFunctionOnSet(Longest(C), GroupsOf(C))
            = Longest(C)[n] + SumFunctionOnSet(Longest(C), GroupsOf(C) \ {n})
      BY <1>3, <2>6, SumTakes, Zenon
    <3>2. SumFunctionOnSet(Longest(A), GroupsOf(A)) = SumFunctionOnSet(Longest(C), GroupsOf(A))
      BY <1>3, <2>5, SumSame
    <3> QED BY <2>6, <3>1, <3>2, Zenon
  <2>9. /\ \E x \in B : k = x.weeks
        /\ \A x \in B : x.weeks <= k
    BY <1>1, <2>2, <2>6, GroupsAre, Zenon
  <2>10. pw(C) = pw(A) + k
    <3> DEFINE a == sum(A)
               b == sw(Alone(A))
               c == sum(C)
               d == pw(A)
               e == pw(C)
    <3>1. a \in Nat /\ b \in Nat /\ k \in Nat /\ c = k + a /\ d = a + b /\ e = c + b
      BY <1>2, <1>4, <2>4, <2>7, <2>8, Zenon
    <3> HIDE DEF a, b, c, d, e, k
    <3>2. e = d + k
      BY <3>1
    <3> QED BY <3>2, Zenon DEF d, e
  <2>11. k <= sw(B)
    <3>1. PICK x \in B : k = x.weeks
      BY <2>9, Zenon
    <3> QED BY <1>5, <3>1, Zenon
  <2>12. RoundWeeks(A, B, k)
    BY <2>7, <2>9, <2>10, <2>11, Zenon DEF RoundWeeks
  <2> QED BY <2>12, Zenon
<1>8. CASE \A x \in B : ~ x.parallel
  <2>1. GroupsOf(C) = GroupsOf(A)
    BY <1>8 DEF GroupsOf
  <2>2. \A m \in GroupsOf(A) : GroupOf(C, m) = GroupOf(A, m)
    BY <1>8 DEF GroupOf
  <2>3. Alone(C) = Alone(A) \cup B /\ Alone(A) \cap B = {}
    BY <1>1, <1>8 DEF Alone
  <2>4. Longest(C) = Longest(A)
    BY <2>1, <2>2, Zenon DEF Longest
  <2>5. sw(Alone(C)) = sw(Alone(A)) + sw(B)
    <3>1. SumOfWeeks(Alone(A) \cup B) = SumOfWeeks(Alone(A)) + SumOfWeeks(B)
      BY <1>1, <2>3, WeeksOfBoth
    <3> QED BY <2>3, <3>1, Zenon
  <2> DEFINE k == sw(B)
  <2>6. pw(C) = pw(A) + k
    <3> DEFINE a == sum(A)
               b == sw(Alone(A))
               d == pw(A)
               e == pw(C)
    <3>1. a \in Nat /\ b \in Nat /\ k \in Nat /\ d = a + b /\ e = a + (b + k)
      BY <1>2, <1>4, <2>1, <2>4, <2>5, Zenon
    <3> HIDE DEF a, b, d, e, k
    <3>2. e = d + k
      BY <3>1
    <3> QED BY <3>2, Zenon DEF d, e
  <2>7. k \in Nat /\ k <= sw(B)
    BY <1>4
  <2>8. RoundWeeks(A, B, k)
    BY <1>5, <2>6, <2>7, Zenon DEF RoundWeeks
  <2> QED BY <2>8, Zenon
<1> QED BY <1>6, <1>7, <1>8

\* The steps of the first n rounds.
Upto(P, n) == {x \in P : x.round <= n}

\* The weeks of a plan grow with its rounds, by any step of a round at least and by the
\* whole of it at most.
Paced(P, n) ==
  LET weeks == ParallelWeeks(Upto(P, n))
  IN /\ weeks \in Nat
     /\ weeks <= SumOfWeeks(Upto(P, n))
     /\ n > 0 => /\ ParallelWeeks(Upto(P, n - 1)) <= weeks
                 /\ \A x \in P : x.round = n => ParallelWeeks(Upto(P, n - 1)) + x.weeks <= weeks

LEMMA PlansArePaced ==
  ASSUME NEW Names, NEW s \in Planned(Names), NEW R, NEW P, HasSteps(s, R, P)
  PROVE  /\ \A n \in Nat : Paced(P, n)
         /\ Upto(P, Len(s.required)) = P
         /\ TimedSteps(P)
<1> DEFINE pw(n) == ParallelWeeks(Upto(P, n))
           sw(n) == SumOfWeeks(Upto(P, n))
           S == {n \in Nat : Paced(P, n)}
           N == Len(s.required)
<1>1. N \in Nat
  BY GapsFinite
<1>2. \A x \in P : x.round \in 1..N /\ x.weeks \in Nat /\ x.parallel = (Cardinality(R[x.round]) > 1)
  BY Zenon DEF HasSteps
<1>3. TimedSteps(P)
  <2>1. \A x \in P : x.parallel \in BOOLEAN
    <3>1. \A x \in P : (Cardinality(R[x.round]) > 1) \in BOOLEAN
      OBVIOUS
    <3> QED BY <1>2, <3>1, Zenon
  <2>2. IsFiniteSet(P)
    BY Zenon DEF HasSteps
  <2>3. \A x \in P : x.weeks \in Nat
    BY <1>2, Zenon
  <2> QED BY <2>1, <2>2, <2>3, Zenon DEF TimedSteps
<1>4. \A n : Upto(P, n) \in SUBSET P
  BY DEF Upto
<1>5. \A n : pw(n) \in Nat /\ sw(n) \in Nat
  BY <1>3, <1>4, GroupsAre, WeeksAre, Zenon
<1>6. 0 \in S
  <2>1. Upto(P, 0) = {}
    BY <1>1, <1>2 DEF Upto
  <2>2. GroupsOf({}) = {} /\ Alone({}) = {}
    BY DEF GroupsOf, Alone
  <2>3. pw(0) = SumFunctionOnSet(Longest({}), {}) + SumOfWeeks({})
    <3>1. {} \in SUBSET P
      OBVIOUS
    <3>2. ParallelWeeks({}) = SumFunctionOnSet(Longest({}), GroupsOf({})) + SumOfWeeks(Alone({}))
      BY <1>3, <3>1, GroupsAre, Zenon
    <3> QED BY <2>1, <2>2, <3>2, Zenon
  <2>4. pw(0) = 0 + 0 /\ sw(0) = 0
    BY <2>1, <2>3, SumOfNone, WeeksOfNone, Zenon
  <2>5. pw(0) <= sw(0) /\ ~ (0 > 0) /\ 0 \in Nat
    <3> HIDE DEF pw, sw
    <3> QED BY <2>4
  <2>6. Paced(P, 0)
    BY <1>5, <2>5, Zenon DEF Paced
  <2> QED BY <2>5, <2>6, Zenon
<1>7. ASSUME NEW n \in S PROVE n + 1 \in S
  <2> DEFINE m == n + 1
             A == Upto(P, n)
             B == {x \in P : x.round = m}
  <2>1. n \in Nat /\ m \in Nat /\ m > 0 /\ m - 1 = n /\ Paced(P, n)
    OBVIOUS
  <2>2. Upto(P, m) = A \cup B
    BY <1>2, <2>1, <1>1 DEF Upto
  <2>3. \A x \in A : x.round # m
    BY <2>1, <1>1, <1>2 DEF Upto
  <2>4. \A x \in B : x.round = m
    OBVIOUS
  <2>5. (\A x \in B : x.parallel) \/ (\A x \in B : ~ x.parallel)
    BY <1>2
  <2>6. A \in SUBSET P /\ B \in SUBSET P /\ A \cap B = {}
    BY <2>3 DEF Upto
  <2> HIDE DEF m, A, B
  <2>7. PICK k : RoundWeeks(A, B, k)
    BY <1>3, <2>3, <2>4, <2>5, <2>6, RoundAdds
  <2>8. SumOfWeeks(A \cup B) = SumOfWeeks(A) + SumOfWeeks(B)
    BY <1>3, <2>6, WeeksOfBoth
  <2> DEFINE a == pw(n)
             b == pw(m)
             c == sw(n)
             d == sw(m)
             e == SumOfWeeks(B)
  <2>9. /\ a \in Nat /\ b \in Nat /\ c \in Nat /\ d \in Nat /\ e \in Nat /\ k \in Nat
        /\ a <= c /\ b = a + k /\ k <= e /\ d = c + e
    BY <1>3, <1>5, <2>1, <2>2, <2>6, <2>7, <2>8, WeeksAre, Zenon DEF RoundWeeks, Paced, A
  <2>10. \A x \in P : x.round = m => x.weeks \in Nat /\ x.weeks <= k
    BY <1>2, <2>7, Zenon DEF RoundWeeks, B
  <2> HIDE DEF a, b, c, d, e
  <2>11. b <= d /\ a <= b /\ \A x \in P : x.round = m => a + x.weeks <= b
    BY <2>9, <2>10
  <2>12. Paced(P, m)
    BY <2>1, <2>9, <2>11, Zenon DEF Paced, a, b, c, d
  <2> QED BY <2>1, <2>12, Zenon DEF m
<1>8. S = Nat
  <2>1. S \in SUBSET Nat
    OBVIOUS
  <2> HIDE DEF S
  <2> QED BY <1>6, <1>7, <2>1, Inductive
<1>9. Upto(P, N) = P
  BY <1>1, <1>2 DEF Upto
<1> QED BY <1>3, <1>8, <1>9, Zenon

LEMMA WeeksMonotone ==
  ASSUME NEW P, \A n \in Nat : Paced(P, n)
  PROVE  \A n \in Nat : \A m \in 0..n : ParallelWeeks(Upto(P, m)) <= ParallelWeeks(Upto(P, n))
<1> DEFINE pw(n) == ParallelWeeks(Upto(P, n))
           S == {n \in Nat : \A m \in 0..n : pw(m) <= pw(n)}
<1>1. \A n \in Nat : pw(n) \in Nat /\ (n > 0 => pw(n - 1) <= pw(n))
  BY Zenon DEF Paced
<1> HIDE DEF pw
<1>2. 0 \in S
  <2>1. pw(0) \in Nat
    BY <1>1
  <2>2. \A m \in 0..0 : m = 0
    OBVIOUS
  <2>3. pw(0) <= pw(0)
    BY <2>1
  <2>4. \A m \in 0..0 : pw(m) <= pw(0)
    BY <2>2, <2>3, Zenon
  <2> QED BY <2>4
<1>3. ASSUME NEW n \in S PROVE n + 1 \in S
  <2> DEFINE k == n + 1
  <2>1. n \in Nat /\ k \in Nat /\ k > 0 /\ k - 1 = n
    OBVIOUS
  <2>2. pw(n) <= pw(k) /\ pw(n) \in Nat /\ pw(k) \in Nat
    BY <1>1, <2>1
  <2>3. ASSUME NEW m \in 0..k PROVE pw(m) <= pw(k)
    <3>1. CASE m = k
      BY <2>2, <3>1
    <3>2. CASE m # k
      <4>1. m \in 0..n
        BY <2>1, <3>2
      <4>2. pw(m) <= pw(n) /\ pw(m) \in Nat
        BY <1>1, <4>1, <2>1
      <4> QED BY <2>2, <4>2
    <3> QED BY <3>1, <3>2
  <2> HIDE DEF k
  <2>4. k \in S
    BY <2>1, <2>3
  <2> QED BY <2>4, Zenon DEF k
<1>4. S = Nat
  <2>1. S \in SUBSET Nat
    OBVIOUS
  <2> HIDE DEF S
  <2> QED BY <1>2, <1>3, <2>1, Inductive
<1> QED BY <1>4, Zenon DEF pw

\* The longest of what a skill needs, if it needs anything.
LEMMA LongestOf ==
  ASSUME NEW T, IsFiniteSet(T), NEW f, \A d \in T : f[d] \in Nat
  PROVE  LET m == Max({0} \cup {f[d] : d \in T})
         IN m \in Nat /\ (m = 0 \/ \E d \in T : m = f[d])
<1> DEFINE U == {f[d] : d \in T}
           S == {0} \cup U
           g == [d \in T |-> f[d]]
<1>1. g \in Surjection(T, U)
  BY DEF Surjection
<1>2. IsFiniteSet(U)
  <2> HIDE DEF U, g
  <2> QED BY <1>1, FS_Surjection
<1>3. IsFiniteSet(S)
  <2> HIDE DEF U
  <2> QED BY <1>2, FS_Singleton, FS_Union
<1>4. S \in SUBSET Nat /\ S # {}
  OBVIOUS
<1>5. Max(S) \in S
  <2> HIDE DEF S
  <2> QED BY <1>3, <1>4, MaxIs
<1> QED BY <1>4, <1>5

\* The weeks of a gap's step, none if nothing teaches it.
Own(s, P) == [skill \in Gaps(s) |-> SumOfWeeks({step \in P : step.skill = skill})]

LEMMA OwnWeeks ==
  ASSUME NEW Names, NEW s \in Planned(Names), NEW R, NEW P, HasSteps(s, R, P), NEW skill \in Gaps(s)
  PROVE  \/ Own(s, P)[skill] = 0
         \/ \E x \in P : /\ x.skill = skill /\ x.weeks \in Nat /\ Own(s, P)[skill] = x.weeks
                         /\ {step \in P : step.skill = skill} = {x}
<1> DEFINE T == {step \in P : step.skill = skill}
<1>1. Own(s, P)[skill] = SumOfWeeks(T)
  BY DEF Own
<1>2. CASE T = {}
  BY <1>1, <1>2, WeeksOfNone, Zenon
<1>3. CASE T # {}
  <2>1. PICK x \in T : TRUE
    BY <1>3
  <2>2. x \in P /\ x.skill = skill
    OBVIOUS
  <2>3. \A y \in T : y = x
    BY <2>2, Zenon DEF HasSteps
  <2>4. T = {x}
    <3> HIDE DEF T
    <3> QED BY <2>1, <2>3
  <2>5. TimedSteps(P) /\ T \in SUBSET P
    BY PlansArePaced
  <2>6. SumOfWeeks(T) = SumFunctionOnSet(WeeksOf(P), T) /\ x.weeks \in Nat
    <3> HIDE DEF T
    <3> QED BY <2>1, <2>5, WeeksAre, Zenon
  <2>7. WeeksOf(P)[x] = x.weeks
    BY <2>2 DEF WeeksOf
  <2>8. SumFunctionOnSet(WeeksOf(P), {x}) = WeeksOf(P)[x]
    BY <2>6, <2>7, SumOfOne, Zenon
  <2> QED BY <1>1, <2>2, <2>4, <2>6, <2>7, <2>8, Zenon
<1> QED BY <1>2, <1>3

\* The chains of one gap, of two, and so on.
Chained(s, own, c) ==
  /\ c \in [0..Len(s.required) -> [Gaps(s) -> Nat]]
  /\ c[0] = own
  /\ \A n \in 1..Len(s.required) : \A skill \in Gaps(s) :
       c[n][skill] = own[skill] + Max({0} \cup {c[n - 1][d] : d \in Dependencies(skill) \cap Gaps(s)})

LEMMA ChainsAre ==
  ASSUME NEW Names, NEW s \in Planned(Names), NEW P, Own(s, P) \in [Gaps(s) -> Nat]
  PROVE  \E c : Chained(s, Own(s, P), c) /\ Chains(s, P) = c[Len(s.required)]
<1> DEFINE N == Len(s.required)
           own == Own(s, P)
           V == [Gaps(s) -> Nat]
           Next(B) == [skill \in Gaps(s) |->
                         own[skill] + Max({0} \cup {B[d] : d \in Dependencies(skill) \cap Gaps(s)})]
           G == [B \in V |-> Next(B)]
           Steps(g) == g = [n \in 0..N |-> IF n = 0 THEN own ELSE Next(g[n - 1])]
           F == CHOOSE g : Steps(g)
<1>1. N \in Nat /\ IsFiniteSet(Gaps(s))
  BY GapsFinite
<1>2. \A B \in V : Next(B) \in V
  <2> SUFFICES ASSUME NEW B \in V, NEW skill \in Gaps(s)
               PROVE  own[skill] + Max({0} \cup {B[d] : d \in Dependencies(skill) \cap Gaps(s)}) \in Nat
    OBVIOUS
  <2> DEFINE T == Dependencies(skill) \cap Gaps(s)
  <2>1. IsFiniteSet(T) /\ \A d \in T : B[d] \in Nat
    BY <1>1, FS_Subset
  <2> HIDE DEF T
  <2> DEFINE a == own[skill]
             m == Max({0} \cup {B[d] : d \in T})
  <2>2. m \in Nat
    BY <2>1, LongestOf, Zenon
  <2>3. a \in Nat
    OBVIOUS
  <2> HIDE DEF a, m
  <2>4. a + m \in Nat
    BY <2>2, <2>3
  <2> QED BY <2>4, Zenon DEF a, m, T
<1> HIDE DEF Next, own, V
<1>3. G \in [V -> V] /\ own \in V
  BY <1>2 DEF own, V
<1>4. PICK h \in [0..N -> V] : Iterated(G, own, N, h)
  <2> HIDE DEF G, N
  <2>1. \A M \in Nat : \E h \in [0..M -> V] : Iterated(G, own, M, h)
    BY <1>3, Iterates
  <2> QED BY <1>1, <2>1, Zenon
<1>5. \A n \in 1..N : n \in 0..N /\ n - 1 \in 0..N /\ n # 0
  BY <1>1
<1>6. \A n \in 0..N : n # 0 => n \in 1..N
  BY <1>1
<1>7. \A n \in 1..N : h[n] = Next(h[n - 1])
  <2>1. \A n \in 1..N : h[n - 1] \in V
    BY <1>5
  <2> QED BY <1>4, <2>1, Zenon DEF Iterated
<1>8. Steps(h)
  <2>1. h = [n \in 0..N |-> h[n]]
    BY <1>4
  <2>2. \A n \in 0..N : h[n] = IF n = 0 THEN own ELSE Next(h[n - 1])
    BY <1>4, <1>6, <1>7, Zenon DEF Iterated
  <2> QED BY <2>1, <2>2, Zenon
<1>9. Steps(F)
  BY <1>8, Zenon
<1>10. Chains(s, P) = F[N]
  BY DEF Chains, Next, own, Own
<1> HIDE DEF F
<1>11. \A n \in 0..N : F[n] = IF n = 0 THEN own ELSE Next(F[n - 1])
  BY <1>9, Zenon
<1>12. 0 \in 0..N
  BY <1>1
<1>13. F[0] = own /\ \A n \in 1..N : F[n] = Next(F[n - 1])
  BY <1>5, <1>11, <1>12, Zenon
<1> DEFINE S == {n \in Nat : n \in 0..N => F[n] \in V}
<1>14. 0 \in S
  BY <1>3, <1>13
<1>15. ASSUME NEW n \in S PROVE n + 1 \in S
  <2>1. SUFFICES ASSUME n + 1 \in 0..N PROVE F[n + 1] \in V
    OBVIOUS
  <2>2. n + 1 \in 1..N /\ (n + 1) - 1 = n /\ n \in 0..N
    BY <1>1, <2>1
  <2>3. F[n] \in V
    BY <2>2
  <2> QED BY <1>2, <1>13, <2>2, <2>3, Zenon
<1> HIDE DEF S
<1>16. S = Nat
  <2>1. S \in SUBSET Nat
    BY DEF S
  <2> QED BY <1>14, <1>15, <2>1, Inductive
<1>17. \A n \in 0..N : F[n] \in V
  BY <1>1, <1>16 DEF S
<1>18. F \in [0..N -> V]
  <2>1. F = [n \in 0..N |-> F[n]]
    BY <1>9
  <2> QED BY <1>17, <2>1
<1>19. \A n \in 1..N : \A skill \in Gaps(s) :
         F[n][skill] = own[skill] + Max({0} \cup {F[n - 1][d] : d \in Dependencies(skill) \cap Gaps(s)})
  BY <1>13 DEF Next
<1>20. Chained(s, own, F)
  BY <1>13, <1>18, <1>19, Zenon DEF Chained, V
<1> QED BY <1>10, <1>20, Zenon DEF own

\* A chain that ends in a skill takes no longer than the rounds up to its own.
LEMMA ChainsFit ==
  ASSUME NEW Names, NEW s \in Planned(Names), NEW R, InRounds(s, R), NEW P, HasSteps(s, R, P)
  PROVE  ChainWeeks(s, P) \in Nat /\ ChainWeeks(s, P) <= ParallelWeeks(P)
<1> DEFINE N == Len(s.required)
           own == Own(s, P)
           pw(n) == ParallelWeeks(Upto(P, n))
           Fits(f) == \A r \in 1..N, skill \in Gaps(s) : skill \in R[r] => f[skill] <= pw(r)
<1>1. N \in Nat /\ IsFiniteSet(Gaps(s))
  BY GapsFinite
<1>2. (\A n \in Nat : Paced(P, n)) /\ Upto(P, N) = P
  BY PlansArePaced
<1>3. /\ \A n \in Nat : \A m \in 0..n : pw(m) <= pw(n)
      /\ \A n \in Nat : pw(n) \in Nat
  BY <1>2, WeeksMonotone, Zenon DEF Paced
<1>4. \A skill \in Gaps(s) : own[skill] = 0 \/ \E x \in P : /\ x.skill = skill /\ x.weeks \in Nat
                                                            /\ own[skill] = x.weeks
  BY OwnWeeks
<1>5. own \in [Gaps(s) -> Nat]
  <2>1. \A skill \in Gaps(s) : own[skill] \in Nat
    <3> HIDE DEF own
    <3> QED BY <1>4
  <2>2. own = [skill \in Gaps(s) |-> own[skill]]
    BY DEF Own
  <2> HIDE DEF own
  <2> QED BY <2>1, <2>2
<1>6. PICK c : Chained(s, own, c) /\ Chains(s, P) = c[N]
  <2> HIDE DEF N
  <2> QED BY <1>5, ChainsAre DEF N
<1> HIDE DEF own
<1>7. ASSUME NEW r \in 1..N, NEW skill \in Gaps(s), skill \in R[r], NEW k \in Nat, k <= pw(r - 1)
      PROVE  own[skill] + k <= pw(r)
  <2>1. r \in Nat /\ r - 1 \in Nat /\ r > 0 /\ r - 1 \in 0..r
    BY <1>1
  <2> DEFINE a == pw(r - 1)
             b == pw(r)
             o == own[skill]
  <2>2. a \in Nat /\ b \in Nat /\ a <= b /\ k <= a
    BY <1>3, <1>7, <2>1
  <2>3. o \in Nat
    BY <1>5
  <2>4. o = 0 \/ a + o <= b
    <3>1. ASSUME NEW x \in P, x.skill = skill, own[skill] = x.weeks PROVE a + o <= b
      <4>1. x.round \in 1..N /\ x.skill \in R[x.round]
        BY Zenon DEF HasSteps
      <4>2. x.round = r
        BY <1>7, <3>1, <4>1, Zenon DEF InRounds
      <4> QED BY <1>2, <2>1, <3>1, <4>2, Zenon DEF Paced
    <3> QED BY <1>4, <3>1, Zenon
  <2> HIDE DEF a, b, o
  <2>5. o + k <= b
    BY <2>2, <2>3, <2>4
  <2> QED BY <2>5, Zenon DEF o, b
<1>8. c \in [0..N -> [Gaps(s) -> Nat]] /\ c[0] = own
  BY <1>6, Zenon DEF Chained
<1> DEFINE S == {n \in Nat : n \in 0..N => Fits(c[n])}
<1>9. 0 \in S
  <2> SUFFICES ASSUME NEW r \in 1..N, NEW skill \in Gaps(s), skill \in R[r] PROVE own[skill] <= pw(r)
    BY <1>8, Zenon
  <2>1. r - 1 \in Nat /\ r \in Nat
    BY <1>1
  <2>2. 0 <= pw(r - 1) /\ 0 \in Nat /\ pw(r) \in Nat
    <3> HIDE DEF pw
    <3> QED BY <1>3, <2>1
  <2>3. own[skill] + 0 <= pw(r)
    BY <1>7, <2>2, Zenon
  <2>4. own[skill] \in Nat
    BY <1>5
  <2> HIDE DEF pw
  <2> QED BY <2>2, <2>3, <2>4
<1>10. ASSUME NEW n \in S PROVE n + 1 \in S
  <2> DEFINE m == n + 1
  <2>0. m \in Nat
    OBVIOUS
  <2>1. SUFFICES ASSUME m \in 0..N PROVE Fits(c[m])
    BY <2>0, Zenon
  <2>2. m \in 1..N /\ m - 1 = n /\ n \in 0..N
    BY <1>1, <2>1
  <2>3. Fits(c[n])
    BY <2>2, Zenon
  <2> HIDE DEF m
  <2>4. SUFFICES ASSUME NEW r \in 1..N, NEW skill \in Gaps(s), skill \in R[r] PROVE c[m][skill] <= pw(r)
    OBVIOUS
  <2> DEFINE T == Dependencies(skill) \cap Gaps(s)
             f == c[n]
             k == Max({0} \cup {f[d] : d \in T})
  <2>5. c[m][skill] = own[skill] + k
    <3> DEFINE needed(g) == Max({0} \cup {g[d] : d \in T})
    <3>1. c[m][skill] = own[skill] + needed(c[m - 1])
      BY <1>6, <2>2, Zenon DEF Chained
    <3> HIDE DEF needed
    <3>2. c[m][skill] = own[skill] + needed(f)
      BY <2>2, <3>1, Zenon
    <3> QED BY <3>2, Zenon DEF needed
  <2>6. k \in Nat /\ (k = 0 \/ \E d \in T : k = f[d])
    <3>1. IsFiniteSet(T) /\ \A d \in T : f[d] \in Nat
      BY <1>1, <1>8, <2>2, FS_Subset
    <3> HIDE DEF T, f
    <3> QED BY <3>1, LongestOf, Zenon
  <2>7. r - 1 \in Nat
    BY <1>1
  <2>8. k <= pw(r - 1)
    <3>1. CASE k = 0
      <4>1. pw(r - 1) \in Nat
        BY <1>3, <2>7
      <4> HIDE DEF pw, k
      <4> QED BY <3>1, <4>1
    <3>2. CASE \E d \in T : k = f[d]
      <4>1. PICK d \in T : k = f[d]
        BY <3>2, Zenon
      <4>2. d \in Gaps(s) /\ d \in Dependencies(skill)
        OBVIOUS
      <4>3. PICK q \in 1..N : d \in R[q]
        BY <4>2, Zenon DEF InRounds
      <4>4. q < r
        BY <2>4, <4>2, <4>3, Zenon DEF InRounds
      <4>5. f[d] <= pw(q)
        BY <2>3, <4>2, <4>3, Zenon
      <4>6. q \in 0..(r - 1) /\ q \in Nat
        BY <1>1, <4>4
      <4>7. pw(q) <= pw(r - 1) /\ pw(q) \in Nat /\ pw(r - 1) \in Nat
        BY <1>3, <2>7, <4>6, Zenon
      <4>8. k <= pw(q)
        BY <4>1, <4>5, Zenon
      <4> HIDE DEF pw, k
      <4> QED BY <2>6, <4>7, <4>8
    <3> QED BY <2>6, <3>1, <3>2, Zenon
  <2>9. own[skill] + k <= pw(r)
    <3> HIDE DEF k
    <3> QED BY <1>7, <2>4, <2>6, <2>8, Zenon
  <2> QED BY <2>5, <2>9, Zenon
<1> HIDE DEF S
<1>11. S = Nat
  <2>1. S \in SUBSET Nat
    BY DEF S
  <2> QED BY <1>9, <1>10, <2>1, Inductive
<1>12. Fits(c[N]) /\ c[N] \in [Gaps(s) -> Nat]
  <2>1. N \in 0..N /\ N \in S
    BY <1>1, <1>11
  <2> QED BY <1>8, <2>1 DEF S
<1> DEFINE f == Chains(s, P)
           k == Max({0} \cup {f[skill] : skill \in Gaps(s)})
<1>13. ChainWeeks(s, P) = k
  BY DEF ChainWeeks
<1>14. f \in [Gaps(s) -> Nat] /\ Fits(f)
  BY <1>6, <1>12, Zenon
<1> HIDE DEF f
<1>15. k \in Nat /\ (k = 0 \/ \E skill \in Gaps(s) : k = f[skill])
  <2>1. \A skill \in Gaps(s) : f[skill] \in Nat
    BY <1>14
  <2> QED BY <1>1, <2>1, LongestOf, Zenon
<1>16. k <= pw(N)
  <2>1. CASE k = 0
    <3>1. pw(N) \in Nat
      BY <1>1, <1>3
    <3> HIDE DEF pw, k
    <3> QED BY <2>1, <3>1
  <2>2. CASE \E skill \in Gaps(s) : k = f[skill]
    <3>1. PICK skill \in Gaps(s) : k = f[skill]
      BY <2>2, Zenon
    <3>2. PICK r \in 1..N : skill \in R[r]
      BY Zenon DEF InRounds
    <3>3. f[skill] <= pw(r)
      BY <1>14, <3>2, Zenon
    <3>4. r \in 0..N /\ r \in Nat
      BY <1>1
    <3>5. pw(r) <= pw(N) /\ pw(r) \in Nat /\ pw(N) \in Nat
      BY <1>1, <1>3, <3>4, Zenon
    <3>6. k <= pw(r)
      BY <3>1, <3>3, Zenon
    <3> HIDE DEF pw, k
    <3> QED BY <1>15, <3>5, <3>6
  <2> QED BY <1>15, <2>1, <2>2, Zenon
<1> QED BY <1>2, <1>13, <1>15, <1>16, Zenon

\* A plan teaches each missing skill that something teaches, once, after the skills that it
\* depends on; its weeks allow for the longest chain of dependencies and are no more than
\* the steps take one by one.
THEOREM PlanIsFeasibleHolds ==
  ASSUME NEW Names, Is("plan") => subject \in Planned(Names)
  PROVE  PlanIsFeasible
<1> SUFFICES ASSUME Is("plan") PROVE PlanIsFeasible
  BY DEF PlanIsFeasible
<1> DEFINE s == subject
           R == Rounds(s)
           P == Plan(s)
<1>1. s \in Planned(Names)
  OBVIOUS
<1> HIDE DEF s
<1>2. InRounds(s, R)
  BY <1>1, RoundsAre
<1>3. HasSteps(s, R, P)
  BY <1>1, PlanIs
<1> HIDE DEF R, P
<1>4. ASSUME NEW skill \in Gaps(s)
      PROVE  Cardinality({step \in P : step.skill = skill}) = IF Teachable(s, skill) THEN 1 ELSE 0
  <2> DEFINE T == {step \in P : step.skill = skill}
  <2>1. CASE Teachable(s, skill)
    <3>1. PICK x \in P : x.skill = skill
      BY <1>3, <2>1, Zenon DEF HasSteps
    <3>2. \A y \in P : y.skill = skill => y = x
      BY <1>3, <3>1, Zenon DEF HasSteps
    <3>3. T = {x}
      BY <3>1, <3>2
    <3>4. Cardinality({x}) = 1
      BY FS_Singleton
    <3> QED BY <2>1, <3>3, <3>4, Zenon
  <2>2. CASE ~ Teachable(s, skill)
    <3>1. \A x \in P : x.skill # skill
      BY <1>3, <2>2, Zenon DEF HasSteps
    <3>2. T = {}
      BY <3>1
    <3> QED BY <2>2, <3>2, FS_EmptySet, Zenon
  <2> QED BY <2>1, <2>2
<1>5. ASSUME NEW step \in P, NEW other \in P, other.skill \in Dependencies(step.skill)
      PROVE  other.round < step.round
  <2>1. /\ step.skill \in Gaps(s) /\ step.round \in 1..Len(s.required) /\ step.skill \in R[step.round]
        /\ other.skill \in Gaps(s) /\ other.round \in 1..Len(s.required) /\ other.skill \in R[other.round]
    BY <1>3, Zenon DEF HasSteps
  <2> QED BY <1>2, <1>5, <2>1, Zenon DEF InRounds
<1>6. ChainWeeks(s, P) <= ParallelWeeks(P)
  BY <1>1, <1>2, <1>3, ChainsFit
<1>7. ParallelWeeks(P) <= SumOfWeeks(P)
  <2>1. Len(s.required) \in Nat
    BY <1>1, GapsFinite
  <2>2. Paced(P, Len(s.required)) /\ Upto(P, Len(s.required)) = P
    BY <1>1, <1>3, <2>1, PlansArePaced
  <2> QED BY <2>2, Zenon DEF Paced
<1> QED BY <1>4, <1>5, <1>6, <1>7, Zenon DEF PlanIsFeasible, P, s
=============================================================================

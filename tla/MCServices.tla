----------------------------- MODULE MCServices -----------------------------
(***************************************************************************)
(* Services that do not share state, side by side: a behaviour is one of   *)
(* the part that its first state names, and the others stand still. Of a   *)
(* pure service the only step is to be given a subject.                    *)
(***************************************************************************)
EXTENDS Assessments, FitCache, Workflows, MCAdaptive, DemoData, Interviews, Applications,
        Screenings, VoiceProfile, CareerState, MCSubjects, TLC

VARIABLE part

assessmentVars == <<attempts, requests>>
libraryVars == <<assessmentVars, fitVars, workflowVars, adaptiveVars>>
hiringVars == <<demoVars, interviewVars, applicationVars, screeningVars>>
candidateVars == <<voiceVars, careerVars>>
allVars == <<part, libraryVars, hiringVars, candidateVars, subject>>

MCApplicants == <<"c1", "c2">>

\* Contents of files are only compared.
Symmetry == Permutations(Contents)

\* Resume requests and fit requests that are made: the others never come.
Mixes == {<<3, 0>>, <<2, 2>>, <<1, 3>>}
MixedFitInit ==
  /\ resumes = <<>> /\ clock = 0 /\ overlapped = FALSE /\ replaced = FALSE
  /\ job = [version |-> 1, edits |-> {}] /\ extraction = Absent
  /\ cached = [k \in Kinds |-> Absent] /\ sharing = FALSE /\ blurred = FALSE
  /\ \E m \in Mixes :
       /\ work = [r \in ResumeRequests |-> [op |-> IF r > m[1] THEN "done" ELSE "idle"]]
       /\ reading = [r \in FitRequests |-> [op |-> IF r > m[2] THEN "done" ELSE "idle"]]

Stateful ==
  {"assessments", "fit cache", "workflow", "adaptive",
   "demo data", "interview", "application", "screening", "voice", "career"}

ServicesInit ==
  /\ part \in Stateful \cup SubjectKinds
  /\ Init
  /\ IF part = "fit cache" THEN MixedFitInit ELSE FitInit
  /\ WorkflowInit
  /\ AdaptiveInit
  /\ DemoInit
  /\ IF part = "interview" THEN InterviewInit
     ELSE InterviewInit /\ interview.status = "scheduled"
  /\ ApplicationInit
  /\ ScreeningInit
  /\ VoiceInit
  /\ IF part = "career" THEN CareerInit ELSE CareerInit /\ database = "postgresql"
  /\ subject = [kind |-> "none"]

LibraryNext ==
  /\ UNCHANGED <<hiringVars, candidateVars, subject>>
  /\ \/ part = "assessments" /\ Next
        /\ UNCHANGED <<fitVars, workflowVars, adaptiveVars>>
     \/ part = "fit cache" /\ FitNext
        /\ UNCHANGED <<assessmentVars, workflowVars, adaptiveVars>>
     \/ part = "workflow" /\ WorkflowNext
        /\ UNCHANGED <<assessmentVars, fitVars, adaptiveVars>>
     \/ part = "adaptive" /\ AdaptiveNext
        /\ UNCHANGED <<assessmentVars, fitVars, workflowVars>>

HiringNext ==
  /\ UNCHANGED <<libraryVars, candidateVars, subject>>
  /\ \/ part = "demo data" /\ DemoNext
        /\ UNCHANGED <<interviewVars, applicationVars, screeningVars>>
     \/ part = "interview" /\ InterviewNext
        /\ UNCHANGED <<demoVars, applicationVars, screeningVars>>
     \/ part = "application" /\ ApplicationNext
        /\ UNCHANGED <<demoVars, interviewVars, screeningVars>>
     \/ part = "screening" /\ ScreeningNext
        /\ UNCHANGED <<demoVars, interviewVars, applicationVars>>

CandidateNext ==
  /\ UNCHANGED <<libraryVars, hiringVars, subject>>
  /\ \/ part = "voice" /\ VoiceNext /\ UNCHANGED careerVars
     \/ part = "career" /\ CareerNext /\ UNCHANGED voiceVars

SubjectNext ==
  /\ part \in SubjectKinds /\ Is("none")
  /\ subject' \in SubjectsOf(part)
  /\ UNCHANGED <<libraryVars, hiringVars, candidateVars>>

ServicesNext ==
  UNCHANGED part /\ (LibraryNext \/ HiringNext \/ CandidateNext \/ SubjectNext)

ServicesSpec == ServicesInit /\ [][ServicesNext]_allVars
=============================================================================

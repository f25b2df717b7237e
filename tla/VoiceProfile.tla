----------------------------- MODULE VoiceProfile -----------------------------
(***************************************************************************)
(* The page on which a candidate dictates a profile:                       *)
(*   frontend .../Skill2Job/components/VoiceProfileAgent.tsx               *)
(*                                                                         *)
(* The clicks, the callbacks of the browser's speech recognisers and the   *)
(* answers of the server come in any order: a button is there only in the  *)
(* state that shows it, but nothing takes back a recogniser or a request   *)
(* that an earlier state left behind. Texts are abstracted to being empty  *)
(* or not, what was extracted from one to being there or not.              *)
(***************************************************************************)
EXTENDS Naturals

CONSTANTS
  MaxRecognisers,  \* bound: recognisers that are made
  MaxCalls         \* bound: requests of each kind that are made

ASSUME VoiceBounds == MaxRecognisers \in Nat /\ MaxCalls \in Nat

VARIABLES
  page,         \* what the component shows: its state, transcript and result
  recognisers,  \* the recognisers by the order of startListening
  current,      \* recognitionRef, 0 for null
  calls         \* requests of each kind: made, and without an answer yet

voiceVars == <<page, recognisers, current, calls>>

Recognisers == 1..MaxRecognisers
Views == {"idle", "listening", "transcript_ready", "analyzing", "review", "confirming",
          "success", "error"}

VoiceInit ==
  /\ page = [view |-> "idle", text |-> FALSE, result |-> FALSE]
  /\ recognisers = [i \in Recognisers |-> "none"]
  /\ current = 0
  /\ calls = [analysis |-> [made |-> 0, open |-> 0], update |-> [made |-> 0, open |-> 0]]

Shows(views) == page.view \in views
Show(view) == page' = [page EXCEPT !.view = view]

----------------------------------------------------------------------------
\* The browser. A recogniser is asked to start and may report that it has; it may report
\* results and an error; it ends once, after which it reports nothing.
Active(i) == recognisers[i] \in {"asked", "started"}
Becomes(i, stage) == recognisers' = [recognisers EXCEPT ![i] = stage]

OnStart(i) ==
  /\ recognisers[i] = "asked"
  /\ Becomes(i, "started")
  /\ Show("listening")
  /\ UNCHANGED <<current, calls>>

OnResult(i) ==
  /\ recognisers[i] = "started"
  /\ page' = [page EXCEPT !.text = TRUE]
  /\ UNCHANGED <<recognisers, current, calls>>

\* Of the errors only "aborted" is not shown.
OnError(i) ==
  /\ Active(i)
  /\ \/ Show("error")
     \/ Show(IF page.view = "listening" THEN "transcript_ready" ELSE page.view)
  /\ UNCHANGED <<recognisers, current, calls>>

\* A plausible bug: only the reference is cleared.
OnEnd_RefOnly(i) ==
  /\ Active(i)
  /\ Becomes(i, "ended")
  /\ current' = 0
  /\ UNCHANGED <<page, calls>>

\* It clears the reference whether or not the reference is to recogniser i.
OnEnd(i) ==
  /\ Active(i)
  /\ Becomes(i, "ended")
  /\ Show(IF page.view = "listening" THEN "transcript_ready" ELSE page.view)
  /\ current' = 0
  /\ UNCHANGED calls

----------------------------------------------------------------------------
\* The buttons

\* Also on a second click before the first recogniser has reported its start.
StartListening ==
  /\ Shows({"idle", "transcript_ready"})
  /\ \E i \in Recognisers :
       /\ recognisers[i] = "none"
       /\ \A j \in Recognisers : j < i => recognisers[j] # "none"
       /\ Becomes(i, "asked")
       /\ current' = i
  /\ page' = [page EXCEPT !.text = FALSE, !.result = FALSE]
  /\ UNCHANGED calls

\* A browser without speech recognition.
CannotListen ==
  /\ Shows({"idle", "transcript_ready"})
  /\ Show("error")
  /\ UNCHANGED <<recognisers, current, calls>>

\* stop() lets the recogniser finish: its last results and its end are still to come.
StopListening ==
  /\ Shows({"listening"})
  /\ Show("transcript_ready")
  /\ current' = 0
  /\ UNCHANGED <<recognisers, calls>>

TypeText ==
  /\ \/ /\ Shows({"idle", "error"})                        \* "type instead"
        /\ page' = [page EXCEPT !.view = "transcript_ready", !.text = FALSE]
     \/ /\ Shows({"error"}) /\ page.text                   \* "edit transcript"
        /\ Show("transcript_ready")
     \/ /\ Shows({"transcript_ready"})                     \* the text area
        /\ \E text \in BOOLEAN : page' = [page EXCEPT !.text = text]
  /\ UNCHANGED <<recognisers, current, calls>>

Ask(kind) ==
  /\ calls[kind].made < MaxCalls
  /\ calls' = [calls EXCEPT ![kind] = [made |-> @.made + 1, open |-> @.open + 1]]
Replied(kind) ==
  /\ calls[kind].open > 0
  /\ calls' = [calls EXCEPT ![kind].open = @ - 1]

AnalyzeTranscript ==
  /\ Shows({"transcript_ready"}) /\ page.text
  /\ Show("analyzing")
  /\ Ask("analysis")
  /\ UNCHANGED <<recognisers, current>>

\* An answer is taken whatever the page shows by then.
AnalysisAnswered ==
  /\ Replied("analysis")
  /\ \/ page' = [page EXCEPT !.view = "review", !.result = TRUE]
     \/ Show("error")
  /\ UNCHANGED <<recognisers, current>>

ConfirmUpdate ==
  /\ Shows({"review"}) /\ page.result
  /\ Show("confirming")
  /\ Ask("update")
  /\ UNCHANGED <<recognisers, current>>

UpdateAnswered ==
  /\ Replied("update")
  /\ Show("success") \/ Show("error")
  /\ UNCHANGED <<recognisers, current>>

\* abort() of the current recogniser: its end is still to come.
Reset ==
  /\ \/ Shows({"transcript_ready", "success", "error"})
     \/ Shows({"review"}) /\ page.result
  /\ page' = [view |-> "idle", text |-> FALSE, result |-> FALSE]
  /\ current' = 0
  /\ UNCHANGED <<recognisers, calls>>

VoiceNext ==
  \/ \E i \in Recognisers : OnStart(i) \/ OnResult(i) \/ OnError(i) \/ OnEnd(i)
  \/ StartListening \/ CannotListen \/ StopListening \/ TypeText
  \/ AnalyzeTranscript \/ AnalysisAnswered
  \/ ConfirmUpdate \/ UpdateAnswered
  \/ Reset

VoiceSpec == VoiceInit /\ [][VoiceNext]_voiceVars

----------------------------------------------------------------------------
\* Whatever comes late, the page never shows a wait that nothing will end or a card without
\* a way on: it says it is listening only while a recogniser that has started has not
\* ended, spins only for a request without an answer, and reviews only what there is.
NoDeadEnd ==
  /\ Shows({"listening"}) => \E i \in Recognisers : recognisers[i] = "started"
  /\ Shows({"analyzing"}) => calls.analysis.open > 0
  /\ Shows({"confirming"}) => calls.update.open > 0
  /\ Shows({"review"}) => page.result
=============================================================================

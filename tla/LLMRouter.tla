------------------------------ MODULE LLMRouter ------------------------------
(***************************************************************************)
(* Conversations routed over the configured LLM providers:                 *)
(*   ai_core/llm_router.py, ai_core/providers/base.py and the providers    *)
(*                                                                         *)
(* Calls run in one event loop and share the health of the providers; a    *)
(* step is what happens between two awaits. A call takes the list of       *)
(* providers once, when it starts. chat records the health of what it      *)
(* tries; stream_chat does not.                                            *)
(***************************************************************************)
EXTENDS Naturals, Sequences, FiniteSetsExt

CONSTANTS
  Providers,   \* how many are configured; 1..Providers in the order of their priority
  MaxRetries,  \* config.max_retries
  Chats,       \* bound: each is one call of chat
  Streams      \* bound: each is one call of stream_chat

ASSUME ProvidersAssumption == Providers \in Nat
ASSUME RetriesAssumption == MaxRetries \in Nat \ {0}
ASSUME CallsAssumption == Chats \cap Streams = {}

VARIABLES
  health,  \* status and consecutive_failures of each provider
  route    \* the calls

routerVars == <<health, route>>

Conversations == Chats \cup Streams
HealthStatus == {"unknown", "healthy", "degraded", "unhealthy"}

\* What reached the caller: answers, whole or only a part of one.
Output == [from : 0..Providers, whole : BOOLEAN]   \* 0: the rule-based fallback

\* The list of a call, at which of its providers the call is, and whether the last request
\* that it made has failed.
NotStarted ==
  [phase |-> "idle", list |-> {}, at |-> 0, attempt |-> 1, failed |-> FALSE, output |-> <<>>]

RouterInit ==
  /\ health = [p \in 1..Providers |-> [status |-> "unknown", failures |-> 0]]
  /\ route = [c \in Conversations |-> NotStarted]

Current(c) == route[c].at
InFlight(c) == route[c].phase = "sent"
SetRoute(c, r) == route' = [route EXCEPT ![c] = r]

\* record_success, record_failure: three in a row make a provider unhealthy.
RecordSuccess(p) == [health EXCEPT ![p] = [status |-> "healthy", failures |-> 0]]
RecordFailure(p) ==
  [health EXCEPT ![p] =
     [status   |-> IF @.failures + 1 >= 3 THEN "unhealthy" ELSE "degraded",
      failures |-> IF @.failures = 3 THEN 3 ELSE @.failures + 1]]   \* three or more

\* _get_healthy_or_all: if no provider is available, the first one alone.
HealthyOrAll ==
  LET available == {p \in 1..Providers : health[p].status # "unhealthy"}
  IN IF available # {} THEN available ELSE {p \in 1..Providers : p = 1}

\* The call ends with one more piece of output, whole: the answer of the provider, which has
\* then not failed, or the fallback.
Concluded(r, from) ==
  [r EXCEPT !.phase = "done", !.failed = @ /\ from = 0,
            !.output = Append(@, [from |-> from, whole |-> TRUE])]

StartConversation(c) ==
  /\ route[c].phase = "idle"
  /\ IF HealthyOrAll = {}
     THEN SetRoute(c, Concluded(route[c], 0))
     ELSE SetRoute(c, [route[c] EXCEPT !.phase = "sent", !.list = HealthyOrAll,
                                       !.at = Min(HealthyOrAll)])
  /\ UNCHANGED health

\* A request has failed: on to the next provider of the list, or to the fallback after the
\* last.
NextProvider(r) ==
  LET rest == {p \in r.list : p > r.at}
      failed == [r EXCEPT !.failed = TRUE]
  IN IF rest # {} THEN [failed EXCEPT !.at = Min(rest), !.attempt = 1] ELSE Concluded(failed, 0)

\* A plausible bug: a retry does not count.
Retry_Uncounted(r) == IF r.attempt < MaxRetries THEN r ELSE NextProvider(r)

Retry(r) ==
  IF r.attempt < MaxRetries
  THEN [r EXCEPT !.failed = TRUE, !.attempt = @ + 1]
  ELSE NextProvider(r)

ChatAnswered(c) ==
  /\ InFlight(c)
  /\ health' = RecordSuccess(Current(c))
  /\ SetRoute(c, Concluded(route[c], Current(c)))

\* An answer without content or tool calls: a success for the provider, retried here.
ChatEmpty(c) ==
  /\ InFlight(c)
  /\ health' = RecordSuccess(Current(c))
  /\ SetRoute(c, Retry(route[c]))

ChatFailed(c) ==
  /\ InFlight(c)
  /\ health' = RecordFailure(Current(c))
  /\ SetRoute(c, Retry(route[c]))

\* Rate limits and refused keys overrule what record_failure has just recorded, and no
\* other attempt is made.
ChatRefused(c, status) ==
  /\ InFlight(c)
  /\ health' = [RecordFailure(Current(c)) EXCEPT ![Current(c)].status = status]
  /\ SetRoute(c, NextProvider(route[c]))

\* The pieces that a stream of the current provider can leave with the caller, if not all
\* of its answer.
Parts(c) == {<<>>, <<[from |-> Current(c), whole |-> FALSE]>>}

\* A stream that is closed without an exception ends the call. Nobody looks at what came of
\* it: the whole answer, a part only (a cut at the limit of tokens, a connection closed
\* early, lines that are not read) or nothing at all.
StreamEnds(c) ==
  /\ InFlight(c)
  /\ \/ SetRoute(c, Concluded(route[c], Current(c)))
     \/ \E part \in Parts(c) :
          SetRoute(c, [route[c] EXCEPT !.phase = "done", !.failed = FALSE, !.output = @ \o part])
  /\ UNCHANGED health

\* A plausible bug: the loop is left when a provider fails after its first chunks.
StreamFails_Stops(c) ==
  /\ InFlight(c)
  /\ \E part \in Parts(c) :
       SetRoute(c, IF part = <<>> THEN NextProvider(route[c])
                   ELSE [route[c] EXCEPT !.phase = "done", !.failed = TRUE, !.output = @ \o part])
  /\ UNCHANGED health

\* A stream breaks, before its first chunk or after some that the caller already has.
StreamFails(c) ==
  /\ InFlight(c)
  /\ \E part \in Parts(c) : SetRoute(c, NextProvider([route[c] EXCEPT !.output = @ \o part]))
  /\ UNCHANGED health

ChatStep(c) ==
  \/ ChatAnswered(c) \/ ChatEmpty(c) \/ ChatFailed(c)
  \/ \E status \in {"degraded", "unhealthy"} : ChatRefused(c, status)

StreamStep(c) == StreamEnds(c) \/ StreamFails(c)

RouterNext ==
  \/ \E c \in Conversations : StartConversation(c)
  \/ \E c \in Chats : ChatStep(c)
  \/ \E c \in Streams : StreamStep(c)

\* Every request to a provider ends, by its answer, an error or its timeout.
RouterFairness ==
  /\ \A c \in Chats : WF_routerVars(ChatStep(c))
  /\ \A c \in Streams : WF_routerVars(StreamStep(c))

RouterSpec == RouterInit /\ [][RouterNext]_routerVars /\ RouterFairness

----------------------------------------------------------------------------
\* How a call ends. A failed request is never its end: the next provider of the list takes
\* over, and after the last of them the fallback, whole. Without a failure at the end it is
\* the provider the call is at that has ended it. A chat has then got one answer, whole, and
\* nothing else; a stream has got the pieces of the providers in the order of the list, at
\* most one of each, all of them parts but perhaps the last. A stream does not get more
\* than this: what its last provider sent may be a part, or nothing.
AnsweredInTurn ==
  \A c \in Conversations :
    route[c].phase = "done" =>
      LET out == route[c].output
          fallback == Len(out) > 0 /\ out[Len(out)].from = 0
      IN /\ fallback <=> (route[c].failed \/ route[c].list = {})
         /\ fallback => out[Len(out)].whole /\ \A p \in route[c].list : p <= route[c].at
         /\ \A i \in DOMAIN out : out[i].whole => i = Len(out)
         /\ \A i, j \in DOMAIN out : i < j => out[i].from # 0 /\ (out[j].from # 0 => out[i].from < out[j].from)
         /\ \A i \in DOMAIN out : out[i].from <= route[c].at
         /\ c \in Chats => Len(out) = 1 /\ out[1].whole

\* Every call ends, whatever the providers do, and however often they are retried.
CallsEnd == <>[](\A c \in Conversations : ~ InFlight(c))
=============================================================================

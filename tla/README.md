# Skill2Gap: TLA+ specifications

Skill2Gap is a recruitment platform: a FastAPI backend (`src/backend/app`) over
PostgreSQL through SQLAlchemy's async sessions, Celery workers fed by a Redis broker,
and a React client (`src/frontend`). This directory specifies the parts of it that keep
state under concurrent requests and the engines that compute what it decides by, checks
them with TLC on small instances, and proves the main results with TLAPS for every size.

## 1. The system

Every HTTP request runs as one coroutine with one database session (`db/session.py`,
`get_db`): reads are READ COMMITTED, the ORM flushes UPDATE and INSERT statements that
take row locks, and everything becomes visible at the commit after the handler returns.
Handlers read rows, decide in Python, and write by primary key: between the read and the
write any other request may commit. Most hazards below are of that form. Components talk
by function calls inside a request, by rows in the database between requests, and by
broker messages to workers; the browser's tabs talk to one another only through
localStorage.

| Component | State | Operations | Hard because | What makes it correct | Module |
|---|---|---|---|---|---|
| Simulation scenarios and executions (`services/simulation`, `api/v1/simulations.py`) | a scenario row, its execution rows, broker messages | create, edit, delete, run, execute, cancel | stale reads, two rows locked in two orders, message sent before the commit, cascades | a scenario never gets stuck; only verified configurations run; sessions end | `Simulation`, `RunLedger` |
| Celery workers (`workers/tasks.py`) | a session per task | `run_simulation`, `process_resume`, two mail tasks | early acknowledgement, crash, no commit | effects are all or nothing | in `Simulation` |
| Team invitations (`services/invitation_service.py`) | invitation, membership and user rows, mails | create, resend, revoke, validate, accept | token races, rotation, expiry, crash between commit and mail | joining consumes a pending invitation; mail only for committed tokens | `Invitations` |
| Organizations and memberships (`services/organization_service.py`) | organization and membership rows | create, update, member status | self modification | only an administrator reactivates a member | part of `Invitations` |
| Authentication (`services/auth.py`, `repositories/refresh_token.py`) | user rows, refresh tokens | register, login, refresh, logout | concurrent refreshes, refresh against logout | the tabs end with a token that works, or with none | `RefreshTokens` |
| Session client (`frontend/src/api/client.ts`, `contexts/AuthContext.tsx`) | access token per tab, shared refresh token, flag, queue | request, 401, refresh, replay, mount, reload | late 401s, tabs that share a token, lost connections | one exchange per tab; nobody waits for ever; no dead token kept | `SessionClient` |
| Assessments (`services/assessment`) | attempt, answer and result rows | start, open, answer, report, finish | time limit against a late answer, counts of stale reads | a result counts the accepted answers and stays; attempts are limited | `Assessments`, `AdaptiveQuestions`, `AssessmentScoring` |
| Agent workflows (`ai_core/workflow_engine.py`) | workflow objects in memory | create, execute, confirm, cancel | a tool awaited while other requests act | gates hold; steps in order | `Workflows` |
| LLM router (`ai_core/llm_router.py`) | provider health | chat, stream | fallback, retries, a stream that breaks | no call ends in a failed request; every call ends | `LLMRouter` |
| Jobs and applications (`services/jobs`) | postings with a version, applications, notifications | status, delete, apply, withdraw, decide | lost updates, time of a notification | a decision stands; the newest notice is true | `Applications`, edits in `FitCache` |
| Resume pipeline (`services/candidate`) | resume rows, files | upload, process, retry, primary, delete | check then insert, two commits, crash | one primary; no content and no version twice | `Resumes` |
| Fit and intelligence caches (`services/screening`) | cached analyses, extracted requirements | compute or serve | freshness by version and by time, a reader that does not ask for it | what is served as fresh is current | `FitCache`, `FitEngine` |
| Batch screening and rankings (`services/screening/screening_service.py`) | screenings, rankings | screen all, rank | long transactions over the same rows | ranks follow the scores | `Screenings` |
| Interviews (`services/interview`) | an interview with counter, answers, scorecard | answer, complete, score, notes | counter and scorecard from stale reads | it ends when all is answered; notes stay | `Interviews` |
| Evaluation of simulations (`simulation/evaluation.py`, `matching_engine.py`) | none | score, rank, shortlist | truncation, tie-breaks, caps | learning never hurts | `SimulationScoring` |
| Ranking and requirement analyzers (`services/simulation`) | none | reports over the rows of a run | the same facts counted in many places | the sections agree | `RankingImpact`, `ChangeReports` |
| Skill2Job (`skill2job`) | profile state, progress, plans | review, dossier, progress, plan | rows held over a language model's answer; rounds and parallel groups | nothing lost alone; plans are feasible | `CareerState`, `LearningPlan` |
| Demo data (`services/demo`) | runs and what they generated | generate, reset | background task, failure at any stage, reset beside it | nothing is stranded | `DemoData` |
| Voice profile page (`VoiceProfileAgent.tsx`) | view, recogniser, requests | record, edit, analyse, confirm, reset | callbacks of recognisers and requests of an earlier state | no wait that nothing ends | `VoiceProfile` |
| Rate limiter, audit log, fairness and analytics, XAI, agents with tools and memory, candidate profiles, e-mail delivery, other pages | a window, rows | - | - | - | see section 5 |

`PROJECT.json` lists every component with its status and reason, and the hazards line by line.

## 2. Modules

Modules of components: `Simulation`, `Invitations`, `RefreshTokens`, `SessionClient`,
`Assessments`, `AdaptiveQuestions`, `Workflows`, `LLMRouter`, `Resumes`, `FitCache`,
`Interviews`, `Applications`, `Screenings`, `CareerState`, `DemoData`, `VoiceProfile`, and
without a state of their own `AssessmentScoring`, `FitEngine`, `SimulationScoring`,
`RankingImpact`, `ChangeReports`, `LearningPlan` over `Arithmetic` and `Subject`.
`RunLedger` is an abstract specification. `SessionClient` extends `RefreshTokens`
(client and server of one session), `FitCache` extends `Resumes` (the caches depend on the
life of the resumes), `RankingImpact` and `ChangeReports` extend `SimulationScoring`.
`Simulation_proofs`, `Invitations_proofs`, `SessionClient_proofs` and `Assessments_proofs` hold
the theorems about those modules; `Candidate_proofs` those about `VoiceProfile`,
`CareerState`, `Resumes`, `FitCache` and `LearningPlan`; `Hiring_proofs` about `Applications`, `Interviews`,
`Screenings` and `DemoData`; `Agents_proofs` about `Workflows`, `LLMRouter` and
`AdaptiveQuestions`; `Scoring_proofs` about `SimulationScoring`, `ChangeReports`,
`AssessmentScoring`, `FitEngine` and `RankingImpact`. `MC...` are instances for TLC.

In the modules with a database, a request is a pair of actions, `...Read` and `...Commit`
(or `...ed`): everything up to the last read, and the commit. A commit writes the columns
the handler assigned, by primary key, from what was read; unique constraints and foreign
keys are conditions of the commit, and a violated one rolls all of the request back.
Requests are numbered in the order of their arrival where that is what their transactions'
times depend on.

### Simulation

`scenario` and `executions` are the committed rows. A *process* is a request or a worker.
`session[p]` holds what p read (`row`), the execution it works on, the body of a PATCH,
and how far it is (`phase`). `scenarioLock` and `runLock` are PostgreSQL's row locks;
`queue` is the broker; `issued` are the ids already used.

| Code | Actions |
|---|---|
| `update_scenario` | `UpdateRead` (guards, transitions, validation on the row read), `UpdateCommit` (UPDATE of the patched columns by primary key) |
| `run_scenario` and its route | `RunRead` (status guard), `RunCheck` / `RunRefused` (`has_active`, validator), `RunDispatch` (INSERT, UPDATE, message), `RunCommit`; `RunInline` when the broker is absent or the dispatch fails |
| `cancel_execution` | `CancelRead`, `CancelScenario` (first row of the flush: its lock), `CancelCommit` |
| `delete_scenario` | `DeleteRead`, `DeleteScenario`, `DeleteCommit` (cascade) |
| `run_simulation` / `execute` | `TakeRun`, `TakeStale`, `MarkRun`, `MarkMiss`, `MarkScenario`, `WorkerEnds` |
| a row vanished while a request waited | `RequestMiss` |
| crash, exception, lost connection | `Abort` |
| PostgreSQL's deadlock detector | `BreakDeadlock` |

Choices worth knowing:

- The ORM writes only attributes that changed. A cancel that read the scenario as
  already `cancelled` therefore does not touch the scenario, and the worker does not set a
  scenario it read as cancelled to running. The flush orders parent before child.
- `run_scenario` publishes the message before the commit. `TakeStale` is a worker that
  gets it first, or gets it after a cancel or delete: `execute` raises or returns.
- The worker's session is never committed. All it does is take locks and roll back, so
  `WorkerEnds` is a rollback, and the failure branch of `execute` in a worker equals `Abort`.
- A session that only adds writes to rows it has already locked takes no extra steps: the
  writes are invisible to others until the commit.
- The execution id is drawn when the request starts (`RunRead`); with uuid4 no other
  session can draw it, and the moment of drawing is invisible.
- Abstracted: of a configuration only its version and the validator's verdict remain;
  names, metadata, timestamps (`completed_at` is written together with the status),
  progress, results and impacts decide nothing. Access checks are left out: the actors are
  those who pass them. Jobs with scenarios cannot be deleted (their foreign key is NOT NULL
  and the ORM tries to null it), so scenarios do not vanish through their job.
- Not modelled: a broker that raises after accepting the message; redelivery (tasks are
  acknowledged early, so a message is consumed once).

### RunLedger

`File`, `Cancel`, `Purge`: an execution row appears once, queued or finished, with its
configuration; it may only be cancelled while queued; rows vanish only all together, and
nothing is filed afterwards. `Simulation!Ledger` instantiates it with
`ledger <- executions, open <- Exists`, and `LedgerSpec` is checked and proved. Since no
worker commits, no ledger step belongs to a worker: when the worker is repaired, the
abstract ledger gains the steps queued -> completed | failed and the property will say so.

### Invitations

`invitations`, `member` (status of the invitee's membership row) and `account` are
committed rows, `mails` the tokens handed to the mailer, `stored` a history of tokens once
committed. Each request reads in one step (`CreateRead`, `ResendRead`, `RevokeRead`,
`ValidateRead`, `AcceptRead`) and writes in a later one; create and resend then queue
their mail in a third (`QueueMail`), and may die before it (`Abort`). `AcceptCommit` is
the conditional UPDATE `mark_accepted_if_pending` with the unique constraints of users and
memberships; all other writes go by primary key. `PassDue` is time, `UpdateMember` an
administrator, `Register` the invitee creating an account on their own. Tokens are model
values; a token can be presented once it was mailed. Roles, passwords, and the
same-inviter and same-address checks are left out: the actors are those who pass them.

### SessionClient over RefreshTokens

`live` are the tokens the server accepts. `stored` is localStorage, shared by the tabs;
`accessToken[p]`, `isRefreshing[p]` and `page[p]` belong to a tab; `call[c]` is one call with
its kind and phase. `failedQueue` is the set of calls in phase `queued`.

| Code | Actions |
|---|---|
| `AuthContext`: refresh of a mounted page, login, logout; requests of a page | `Mount`, `Start`, `HandleOk` |
| login, logout and any authorised route | `ServeLogin`, `ServeAuthorized`, `ServeUnauthorized` |
| `AuthService.refresh` | `RefreshLookup` (`is_valid`), `RefreshCommit` (`revoke`, store, commit) |
| response interceptor: retried, waiting, without a token, leading | `HandleFailed`, `HandleQueue`, `HandleNoToken`, `HandleExchange` |
| the exchange ends: `processQueue`, replay, `clearAuth` | `HandleGranted`, `HandleRefused` |
| lost connection; reload or leaving the page; expiry | `Lose`, `Reload`, `StoredExpires` |

A step is what JavaScript runs without giving up control. A reload leaves an *orphan*: the
server finishes the call, nobody hears the answer. Tokens that nobody can present any more
are forgotten and may be drawn again (`Draw`: all free tokens, or one that stands for them),
so a finite set suffices. `doubt` is a history variable: since `stored` was last written it
expired or a page that presented it went away. A call without an access token is answered
422, which the client only rejects; such calls are left out.

### Assessments, AdaptiveQuestions, AssessmentScoring

| Code | Actions |
|---|---|
| `start_attempt` | `StartRead` (count the attempts, refuse at the limit), `StartCommit` (`attempt_number` is unique) |
| `get_attempt_state` with `_auto_expire_guard` | `OpenRead`, `OpenCommit` |
| `submit_answer`, `record_integrity_event` | `AnswerRead`/`AnswerCommit`, `EventRead`/`EventCommit` |
| `finalize` | `FinishRead`, `FinishCommit`, `Grade` (the result is one row per attempt) |
| time | `TimePasses` |

`counted` is what the result was computed from, `racing` the answers that were being
graded at that moment. Where a handler finalises an expired attempt and then raises,
the exception rolls the finalisation back, so that step changes nothing. `AdaptiveQuestions`
is the order of questions (`SubmitAnswer` with `PickNextQuestion` and its streaks);
`AssessmentScoring` the graders, sections, skills and recommendation as operators. Of an
answer, what the graders count is kept. Execution of code in a sandbox is its number of
passed tests.

### Workflows, LLMRouter

Both live in one event loop: an action is what a coroutine does between two awaits.
`Workflows`: `Execute` (`execute_next_step` up to the await of the tool, or to its return
without one), `ToolReturns`, `ToolFails`, `Confirm`, `Cancel`. `awaiting` is the step whose
tool each request awaits; a workflow with its gates is `workflow`. `LLMRouter`:
`StartConversation` takes the list of providers once; `ChatAnswered`, `ChatEmpty`,
`ChatFailed` (retries within a provider, then the next), `ChatRefused` (rate limits and
refused keys: no retry), `StreamEnds`, `StreamFails` (the stream of the next provider starts
over, after the part already sent). A stream that is closed without an exception has sent a
whole answer, a part of one, or nothing, and ends the call in each case; an empty chat is
refused. Health is recorded by chats only.

### Resumes and FitCache

| Code | Actions |
|---|---|
| `upload_resume` and the processing in its route | `UploadRead`, `UploadCommit` (first commit), `Processed` (second) |
| `retry_parsing` | `RetryRead`, `Processed` |
| `delete_resume`, `set_primary_resume` | `DeleteRead`/`DeleteCommit`, `PrimaryRead`/`PrimaryCommit` |
| crash | `CutOff` |
| `update_job`, `change_job_status` | `EditRead`, `EditCommit` |
| `get_fit`, `get_intel` | `CacheRead` (`_is_fresh`, `_get_requirements`), `CacheCommit` |
| `get_job_intel` | `JobIntelRead` and `JobIntelReturns` (its `get_intel`; then the fit that is there, fresh or not), `JobFitCommit` (the fit it asks `get_fit` for if none is there, and both rows) |
| deleted resumes set `resume_id` to NULL | `ResumeStep` |

`created` and `updated` are `now()`, in PostgreSQL the time at which the transaction began:
`clock` counts transactions. While `get_job_intel` waits for its fit it holds the lock of the
intelligence it has written (`IntelIsLocked`). What a cached row was computed from (`of`: edits
of the job, resume, whether parsed) is a ghost field that the freshness rule does not see. The
rules of the files (types, size, scanning) only refuse an upload. Extraction of requirements is
the edits it saw.

### Interviews, Applications, Screenings

`Interviews`: `ReplyRead`/`ReplyCommit` (answer and evaluation in one transaction, the counter
from the read), `CompleteInterview`, `ScoreRead`/`ScoreCommit` (`evaluate_interview`,
`create_scorecard`), `NotesRead`/`NotesCommit`. `Applications`: `SetPosting`, `DeletePosting`,
`ApplyRead`/`ApplyCommit` (unique by job and candidate), `WithdrawRead`/`WithdrawCommit`,
`StatusRead`/`StatusCommit` with the notification whose time is the sender's begin;
`under_review` stands for all statuses that decide nothing. `Screenings` is one long transaction
per request: `ScreenStart`, `ScreenLook`, `ScreenWrite` (waits for a row another request has
inserted and not committed, and fails if it then exists), `RankRead`, `RankCommit`; what it has
written is private until then. `ScreenLook` ends the request, and what it has written is lost,
at an applicant without a profile.

### CareerState and LearningPlan

`CareerState`: `ReviewRead`/`ReviewCommit`, `DossierRead`/`DossierCommit`,
`CompleteRead`/`CompleteCommit`, `UpdateRead`/`UpdateCommit`. SQLAlchemy writes a column
only if its value differs from the one read: `upsert` assigns every column, but those handed
back as read are not written, and `NothingIsLostAlone` depends on exactly that. `database` is the one
that `db/session.py` was given: PostgreSQL (the default) or SQLite (as in the tests). It matters
at one place: the column `completed_at` is a `DateTime` without a zone
(`skill2job_models.py:230`), the time written to it has one, and asyncpg refuses that at the flush
(`Refused`). The tables are taken to be those of the models, as `main.py:163` creates them.
`LearningPlan` is `_build_gaps`, `_best_resource_for_skill`, `_build_learning_plan` and its
weeks, including that a round of one step is summed and a round of several counts as its
longest, and that a skill without a resource is scheduled without a step. The dictionary of
dependencies is the whole one. The `while` loop is the function `Scheduled` over the
numbers of its rounds, at most one per required skill; that it needs no more is proved.

### DemoData

`Generate`, then per stage `StageCommit` (the rows of a stage commit when the next one
reports progress), `Complete` (with the ids), `Fails` (an exception whose handler commits
what was flushed), `Breaks` (a failed statement or a stopped server: nothing is committed),
and `ResetRead`, `ResetCommit`, `ResetFails`.

### VoiceProfile

The clicks (`StartListening`, `CannotListen`, `StopListening`, `TypeText`, `AnalyzeTranscript`,
`ConfirmUpdate`, `Reset`) are enabled in the views that show their button; the callbacks
(`OnStart`, `OnResult`, `OnError`, `OnEnd` of each recogniser) and answers (`AnalysisAnswered`,
`UpdateAnswered`) come whenever they like.

### FitEngine, SimulationScoring, RankingImpact, ChangeReports

Pure engines as operators over a `subject`, a record that `MCSubjects` draws from families
chosen at the boundaries of the scales. Floats are integers in a fixed unit (hundredths,
thousandths) and ratios are pairs; Python's `round` and `int` are `Round` and `\div`. Matching
of texts is data: which skill is found where, the similarity of two texts. A name of a skill in
`ChangeReports` has the skill that it stands for, a spelling and capitals: reports compare
`Canonical` names, a candidate's `has` and a project's technologies are sets of names as they
are spelt. The correlation is rounded to four digits, as it is
reported. The properties
compare two evaluations (of a resume and of a better one), two reports of one scenario, or the
sections of one report.

## 3. Runs

| Run | Instance | Shows |
|---|---|---|
| `sim_safety` | 2 requests, 1 worker, 2 executions, 2 versions, faults (692 thousand states) | `TypeOK`, `NeverWedged`, `SnapshotsVerified`, `LedgerSpec` hold |
| `sim_live` | 2 requests, 1 worker, 1 execution, faults | `SessionsEnd` holds under `FairSpec` |
| `sim_single_active` | 2 requests, 2 executions | violation: two active executions |
| `sim_ready_verified` | 2 requests, 2 versions | violation: ready with an invalid configuration |
| `sim_executed` | 1 request, 1 worker, no faults | violation: a queued execution is never executed |
| `invitations` | 3 requests, 2 invitations, 3 tokens (91 thousand states) | `TypeOK`, `AcceptedHasMember`, `MailsAreStored`, `Admission` hold |
| `invitations_terminal` | 2 requests, 1 invitation, 3 tokens | violation: accepted becomes revoked |
| `sessions` | 2 tabs, 2 calls, 4 tokens, 2 expired access tokens (171 thousand states) | `TypeOK`, `RefreshIsLed`, `StoredIsUsable` hold |
| `calls_live` | 1 tab, 2 calls, 5 tokens, 1 expiry; 2 providers, 2 retries, 2 chats, 1 stream | `CallsSettle`, `CallsEnd` under fairness, `AnsweredInTurn` |
| `services` | ten components and four families of subjects side by side (667 thousand states) | 24 properties, below |
| `adaptive_steps_down` | 5 questions of 4 levels | violation: a wrong answer does not step down |
| `deleted_resume_served` | 1 candidate | violation: an analysis of a deleted resume is served |

`services` and `calls_live` check components that share no state in one run: a behaviour
belongs to the `part` that its first state names, and the variables of the others stand
still. The state space is the sum, not the product, of the parts.

**Bounds.** Each race in the code is between two sessions on one row or one parent with
its children, and the instances hold every pair.

- Simulation: two requests and a worker contain edit/edit, run/run, cancel/cancel,
  cancel/worker (the deadlock), delete/worker; two executions are needed for two active
  ones and for one cancelled while another is queued. Two versions (`MaxVersion`) give one
  edit before and one after a race; edits stop there. Invitations: three requests allow a
  revoke, a resend and an acceptance at once, three tokens one rotation of one invitation
  beside a second one.
- Sessions: two tabs race for the token; two calls are a leader and a waiter in one tab or
  a leader in each; four tokens are the stored one, one in hand for each call and one more;
  after two expiries a call that was retried finds its token expired again.
- Assessments: 3 attempts where 2 are allowed, 4 requests, 2 questions: two starts, an answer and
  a finish overlap. Workflows: 4 steps, two of them with gates, one without a handler, two
  executors. Resumes and caches: 2 contents, and mixes of three or four requests: three of resumes,
  two of each kind, or one upload beside three edits and reads.
  Interviews: 2 questions, 4 requests. Applications: 6 requests. Screenings: 2 applicants,
  3 requests, 2 scores. Career: 3 requests. Demo data: 2 runs of 2 scenarios with 5 stages each, any
  number of resets. Voice: 2 recognisers, 2 requests of each kind.
- Subjects: the families of `MCSubjects` sit at the boundaries of each scale: no, one and two
  requirements; years at and below the steps; pools with ties; weights with zeros and with
  a sum off by one thousandth; answers at full, part and no marks; plans with chains,
  parallel rounds and skills nobody teaches.

Interchangeable values are reduced by symmetry in safety runs only. The theorems remove the
bounds for everything in section 4.

**Deadlock checking** is off: once ids, requests, tokens or versions are used up, or a part
has come to its end, the instance legitimately has nothing left to do. That nothing hangs
is what `SessionsEnd`, `CallsSettle`, `CallsEnd`, `NoDeadEnd` and `NeverStalls` check instead.

**Fairness.** `FairSpec` of `Simulation`: a request that has begun continues and a worker
keeps polling, as asyncio and Celery schedule them; steps that wait for a row lock have
strong fairness, because PostgreSQL queues lock requests in order, so a lock that is
released again and again is granted; the deadlock detector has weak fairness. `Fairness` of
`SessionClient`: the server answers, or the event loop of the tab handles the answer of,
each call that has one coming. `RouterFairness`: every request to a provider ends, as the
HTTP clients have timeouts, and the event loop resumes every call. No user is obliged to
act, no message is obliged to be lost, and no fault is obliged to happen.

**What the passing properties say.** The comment above each definition states it in full.

| Property | Says, and where it could go wrong |
|---|---|
| `NeverWedged` | a scenario that reads `queued` has a queued execution; otherwise it is stuck for good. It depends on the flush order parent before child and on the conditional write in a cancel |
| `SnapshotsVerified` | whatever edits race, only accepted configurations are run: `run_scenario` validates again |
| `LedgerSpec` | `Simulation` implements `RunLedger` |
| `SessionsEnd` | sessions end although requests and workers lock two rows in opposite orders |
| `AcceptedHasMember`, `MailsAreStored`, `Admission` | a membership behind every acceptance; no mail of an uncommitted token; joining consumes an invitation pending at that moment |
| `RefreshIsLed` | the flag of a tab says exactly that one call leads an exchange; nobody waits while it is down |
| `StoredIsUsable` | the browser keeps no token the server has revoked, except while the answer is on its way or after the page that presented it left |
| `CallsSettle`, `CallsEnd` | every call of a tab and every conversation ends, whatever the request it waits for does |
| `AnsweredInTurn` | a failed request is never the end of a conversation: the next provider takes over, after the last the fallback; pieces of a stream come in the order of the providers and nothing follows a whole answer |
| `AttemptsAreLimited` | concurrent starts stay within the limit: the unique number carries it |
| `OnlyRacingAnswersAreLost`, `VerdictIsFinal` | results are complete but for answers being graded meanwhile, and final |
| `NeverStalls` | an open question is offered until none is left, in any order of answers |
| `GatesHold`, `SequentialUnlessOverlapped` | no tool behind a gate runs unconfirmed; order is lost only by two awaits at once |
| `ResumesInOrder` | one primary, no content and no version twice, but for overlapping requests |
| `ServedIsCurrent` | what `get_fit` and `get_intel` serve is of the current job and resume, whoever wrote it; the two ways in which it is not are named (`sharing`, `blurred`). `get_job_intel` writes under the same rule and serves without it: what it serves is outside of the property |
| `EvidenceHelps`, `LearningHelps`, `BetterAnswersHelp` | more evidence, skills, degrees or right answers never lower a score, a rank or a recommendation |
| `ImpactAddsUp` | the sections of an analysis, counted apart, agree; the correlation is 1 without moves, and of up to 62 candidates only then |
| `ReportsAgree` | two reports computed apart tell of the same skills, by the same names, however they are spelt; whom a skill affects lacked a name of it |
| `UnreportedIsHarmless` | a scenario reported as unchanged changes nothing for those who match all spellings of a skill or none |
| `CountedOnce`, `CardKeepsNotes` | an interview ends when all is answered; a scorecard computed again keeps notes and answers, but for a race |
| `NewestNoticeIsTrue`, `DecisionsStand` | the newest notification tells the status; a decision is withdrawn only by a request that had passed its check |
| `RankingsInOrder` | rankings are a permutation in the order of the scores |
| `NothingIsStranded` | a reset leaves nothing behind, however runs ended |
| `NoDeadEnd` | the page never waits for what has already come |
| `NothingIsLostAlone` | reviews and hours are lost only to an overlapping request of the same kind; a request fails only beside another, or to complete a module on PostgreSQL |
| `PlanIsFeasible` | every missing skill that something teaches once and no other, after what it depends on; the weeks lie between the longest chain and the sum |

Several of these carry a history variable (`together`, `overlapped`, `sharing`, `blurred`,
`crossed`, `raced`, `late`, `doubt`, `disturbed`) that marks the overlaps in which the code really
loses something. The property then says that this is the *only* way to lose it.

**What the violations show** (`findings` in `PROJECT.json` has the quotations).

1. Two `run` requests both pass `has_active`; nothing in the schema forbids two active
   executions.
2. Marking ready and installing an invalid configuration can interleave; the resulting
   ready scenario can be neither edited, deleted nor run: only this race wedges it.
3. A worker never commits, so a queued execution is never executed.
4. A revoke overwrites an acceptance; the member stays, the invitation reads `revoked`.
5. The next question is chosen from the last answer's row, which is true in Python whatever
   it says, so a wrong answer never steps down.
6. Deleting a candidate's only resume makes the analysis of it look like one made without
   a resume, and it is served.

**Met while reading**, in parts that the models leave out or include without a property
of their own:

- Simulation: two concurrent configuration edits produce one `config_version`; `README.md:766`
  allows ready -> draft, while a ready scenario is not editable, and `get_status` reports
  `can_edit` for it; `README.md:780` promises partial results of failed runs, which are rolled
  back or never written.
- Invitations: two concurrent creates leave two pending invitations, after which
  `get_pending_by_email_and_org` raises; a crash between the commit of a rotated token and its
  mail (`organizations.py:246`) invalidates the old link and sends no new one.
- Sessions: a logout that is replayed after a refresh still names the token that was exchanged,
  and leaves the new one valid on the server (`client.ts`).
- Assessments: `TakeAssessment.tsx` marks the attempt as submitted before the call, so a lost
  submit at the end of the time is not repeated.
- Jobs: a job with screenings or interviews cannot be deleted (`recruiter_job_service.py:95`);
  applying ignores `is_archived`; applicants who withdrew are still screened; a withdraw in
  flight overwrites a decision (the case `DecisionsStand` names).
- Screening: a request that finds no applicant can drop rankings computed meanwhile (the case
  `crossed` names).
- Resumes: a server that stops between the two commits of an upload leaves the resume
  `uploaded`, which nothing processes again.
- LLM router: an unhealthy provider is not tried again while a healthy one is there, so it never
  becomes healthy again (`llm_router.py:143`). A stream that comes to its end empty, or cut
  short, ends the call (`llm_router.py:171-173`), while an empty chat goes on to the next
  provider (`:129-132`); and a stream that breaks is followed by another answer from its
  beginning. "Users never notice provider switching" (`:6`) does not hold of streams.
- Fit and intelligence: `get_job_intel` serves a fit that is there without asking whether it is
  fresh (`intel_service.py:125-129`), so after an edit of the job or a new resume it shows the
  old one until somebody calls `get_fit`; `fit_service.py:6-7` says that rows are invalidated by
  the version of the job or a newer resume.
- Reports of simulations: a skill that is respelt within one canonical name (PostgreSQL to
  postgres) is reported as unchanged (`change_detection.py:8-9` means it so), while scores match
  names as they are spelt: candidates with SQL match the one and not the other. A skill that is
  demoted under another name counts as affecting also those who lacked it before, because
  `requirement_impact_analyzer.py:690-691` asks for the list by the new name. Of 63 candidates
  or more, two neighbours may swap ranks and the correlation still reads 1.0
  (`ranking_impact_analyzer.py:146`).
- Skill2Job: on PostgreSQL no module can be completed: every request that writes `completed_at`
  fails at the flush (`training/agent.py:400,412`, `service.py:631,646` against
  `skill2job_models.py:230`; the tests run on SQLite, `conftest.py:20`). No migration has the
  columns `evidence_state` and `learning_hours` of the same table, so a database made by
  `alembic upgrade` alone lacks them. `node_profile` of the training orchestrator uses a name it
  does not import, and its handler lets the rest of the pipeline run without a profile;
  `update_learning_progress` stores the evidence as status, which readiness does not count
  (`readiness/engine.py:292`); gap analysis reuses stored matches of an older profile;
  `_build_learning_plan` ignores its `free_only`, so the plan of the free path
  (`time_to_ready.py:123`) is the one of all resources; `ProfileSync.tsx:138` sends an index
  into a filtered list that `intelligence.py:399` reads as one into the whole list.
- Demo data: a second run of one scenario collides on the names of its companies and stays
  `running`.
- Voice profile: an `onend` of an older recogniser clears the reference to the new one, and a
  late analysis may reopen the review during a confirmation; neither is a dead end.

## 4. Proofs

Eight modules hold proofs. Each theorem holds for every value of the constants under the
named assumptions of the module it is about, which state only that bounds are naturals,
that `None` is distinct, that sets meant to be disjoint or finite are.

| Theorems | Module | Invariant |
|---|---|---|
| `TypeCorrect`, `NeverWedgedHolds`, `SnapshotsVerifiedHolds`, `ImplementsLedger` | `Simulation_proofs` | `IInv`, below |
| `TypeCorrect`, `AcceptedHasMemberHolds`, `MailsAreStoredHolds`, `AdmissionHolds` | `Invitations_proofs` | `IInv`: adds `SessionShape` (a session's token is real, the invitation it read exists, the token it is about to mail is committed) |
| `SessionTypes`, `RefreshIsAlwaysLed`, `StoredIsAlwaysUsable` | `SessionClient_proofs` | `SessionInv`, below |
| `TypeCorrect`, `AttemptsAreLimitedHolds`, `OnlyRacingAnswersAreLostHolds`, `VerdictIsFinalHolds` | `Assessments_proofs` | `AssessmentInv`, below |
| `GatesHoldAlways`, `SequentialHolds` | `Agents_proofs` | `WorkflowInv`: steps whose gate is closed are `Untouched`, an awaited step has an open gate (`AwaitedIsOpen`), and without overlaps the workflow is `InSequence` with the one request that awaits |
| `AnsweredInTurnHolds` | `Agents_proofs` | `RouterInv`, of every call (`CallInv`): in flight it is at a provider of its list and has output nothing but parts, of earlier providers (`Fragments`), a chat nothing at all; when it is done, what it has output `Answers` it |
| `NeverStallsHolds` | `Agents_proofs` | `AdaptiveInv`: types and `NeverStalls`; the lemma `PicksOpen` says that the nearest question is an open one |
| `NoDeadEndHolds` | `Candidate_proofs` | `VoiceInv`: types and `NoDeadEnd`, which is inductive with them |
| `NothingIsLostAloneHolds` | `Candidate_proofs` | `CareerInv`, below |
| `ResumesInOrderHolds`, `ResumesInOrderBeside` | `Candidate_proofs` | `ResumesInv`, below |
| `ServedIsCurrentHolds` | `Candidate_proofs` | `FitInv`, below |
| `PlanIsFeasibleHolds` | `Candidate_proofs` | none: a plan is computed from one request, below |
| `NewestNoticeIsTrueHolds`, `DecisionsStandAlways` | `Hiring_proofs` | `ApplicationInv`: one notice per request (`SentOnce`), a withdraw has seen an undecided status (`SeenUndecided`), and the last told is the last written unless `late` (`ToldLast`) |
| `CountedOnceHolds`, `CardKeepsNotesHolds` | `Hiring_proofs` | `InterviewInv`: a request has read no more answers than are stored (`ReadBehind`), a scorecard covers what the one it replaces did (`CardGrows`) |
| `RankingsInOrderHolds` | `Hiring_proofs` | `ScreeningInv`, below |
| `NothingIsStrandedHolds` | `Hiring_proofs` | `DemoInv`, below |
| `LearningHelpsHolds`, `ReportsAgreeHolds`, `UnreportedIsHarmlessHolds`, `BetterAnswersHelpHolds`, `EvidenceHelpsHolds`, `ImpactAddsUpHolds` | `Scoring_proofs` | none: the engines have no state, below |

**Simulation.** `NeverWedged` is not inductive. `IInv` adds to `TypeOK`:

| Conjunct | Why it is needed |
|---|---|
| `EditsBounded` | an accepted edit can still bump the version it read (typing) |
| `LocksHeld` | which phases hold the scenario's lock; while held nobody else writes or deletes the row |
| `IdsUnique` | an id in hand has no row and no second owner; rows exist only with their scenario |
| `TargetsStable` | between the read and the write of a cancel its execution is queued, cancelled, or gone with the scenario |
| `Verified` | a request past its check holds a verified configuration; rows are never `running` |
| `QueuedHasRun` | `NeverWedged`, strengthened: for the cancels in flight that will not write the scenario, another queued execution remains |

Each conjunct has a lemma with one step per action. The refinement has one lemma per
action that changes a row (`File` for the two commits of a run, `Cancel` or a stutter for
a cancel, `Purge` for a delete) and one lemma that every other step stutters.

**SessionClient.** `SessionInv` adds to the type invariant and the two properties:

| Conjunct | Why it is needed |
|---|---|
| `CallShape` | which phases a kind of call can be in, and which tokens it then holds |
| `NewIsPrivate` | a token granted and not yet handled is valid and nobody else's: not stored, not presented, not granted twice. So what a tab stores is usable when it stores it |
| `OrphansAreDoubted` | a call without a page that may still revoke the stored token has raised `doubt` |

**Assessments.** `AssessmentInv` adds `Held` (the attempt a request has read exists with at
least the answers it saw, and a start has counted no more attempts than there are),
`RacingIsNoted` (an answer past its check when its attempt is graded is among `racing`) to
the invariants checked. `AttemptsAreLimited` needs the cardinality facts of
`FiniteSetTheorems`: numbers without gaps up to the count, hence a start that counted fewer
than allowed inserts a number that is free, or fails.

**Resumes and FitCache.** `ResumesInOrder` counts rows at rest; what can break it is in the
hands of requests. `ResumesInv` adds, as long as no two requests that move `is_primary` have
overlapped:

| Conjunct | Why it is needed |
|---|---|
| `Drawn` | times and versions that requests hold are not ahead of the clock and of the table, so the next one drawn is new |
| `OneMover` | at most one request is in flight that moves `is_primary` |
| `HeldIsCurrent` | what that request read is still so: the rows an upload replaces, its version, whether it is the first; which row a deletion promotes, and that none is needed otherwise |

`FitInv` adds to it, over the rows that are cached and those that requests have computed and not
yet written, the two of a `get_job_intel` included (`Computed`):

| Conjunct | Why it is needed |
|---|---|
| `EditsInOrder` | unless two edits shared a version: one edit at a time is in flight, and whatever was made at the current version (`MadeOf`: the extraction, and the job that a `get_job_intel` has read, too) saw exactly its edits |
| `OfResume` | a row's resume is the one it was computed from, and its time is past |
| `AsParsed` | unless `blurred`: a row no older than its resume has the resume as parsed, and whoever is processing the resume will stamp it later than the row |

What the caches need of the resumes is one fact, `OnlyProcessingParses`: no step of `Resumes`
changes what is parsed but the end of a processing, at the time at which it began. The
same lemma carries `ResumesInOrder` over to the composed specification
(`ResumesInOrderBeside`).

**CareerState.** `Recorded` says of the stored row and of what every request in flight has
read that each review done is in it, or lost to another, or has committed beside the
request; `Timed` that completion has its time in both; `ReadInv` that a request beside which
nothing has committed still has the row as stored; and a request that has failed is `Excused`:
another has committed beside it, or it completes a module on PostgreSQL.

**LearningPlan.** `PlanIsFeasibleHolds` rests on lemmas about what its functions and folds
compute, for any list of required skills and any catalogue:

| Lemmas | Say |
|---|---|
| `Acyclic` | the dictionary of dependencies has no cycle: each skill is deeper than those it depends on |
| `ReadyAre`, `ScheduledIs`, `SchedulesGrow`, `AllScheduled` | so a gap of least depth is ready and the loop never takes its fallback, each round takes a gap while there is one, and the rounds end with everything scheduled |
| `RoundsAre` | each gap is in one round, later than those it depends on |
| `BetterOrders`, `BestResourceIs`, `PlanIs` | the order of resources is strict and its ties are transitive, so a skill has one best resource or nothing teaches it, and one step or none |
| `SummingExists`, `SumsTake`, `SumOfBoth`, `SumSame`, `MaxIs` | what the library's sum of a function over a finite set and its maximum are, whichever element they choose first |
| `GroupsAre`, `RoundAdds`, `PlansArePaced` | a round adds to the weeks at least each of its steps and at most all of them, parallel or not |
| `ChainsAre`, `ChainsFit` | hence a chain that ends in a round takes no longer than the rounds up to it |

The two recursive functions are given by a choice too; `Iterates` shows that a function which
applies a step again and again exists, and `Inductive`, `SubsetsAll` are the inductions, over
the numbers and over the subsets of a finite set for which a fact holds. The hypothesis,
`Is("plan") => subject \in Planned(Names)`, gives the subject its type: required and known
skills among any names, a catalogue of any length, hours that are naturals, and any number
of hours a week, zero and negative ones (which `StepWeeks` takes for ten) included.

**Screenings.** `ScreeningInv`, unless `crossed`: the rankings are those of the scores
(`Ranks`), and a request that has computed rankings has done so from some scores (`ComputedFrom`)
whose rankings are the ones it has read. Rankings carry their scores, so that if they are
still the stored ones at the commit, the stored scores are those it computed from.

**DemoData.** `DemoInv`, unless `disturbed`: what a task has generated follows the order of its
stages (`Generated`: no documents without ids, no jobs without recruiters), and what a reset
has read is what it would find now (`ReadIsCurrent`: runs created since have done nothing).

**Scoring.** The engines compute with rounded quotients of sums, so the theorems rest on a
small library of lemmas, for all integers and all lengths:

| Lemmas | Say |
|---|---|
| `SumStep`, `SumMono`, `SumScaled`, `SumBounds`, `SumOnes` | what the sum of a list is, that it keeps the order of its elements, and bounds of one sum by a multiple of another |
| `Division`, `DivMono`, `Fractions`, `RoundMono`, `RoundWhole` | a quotient and its rest; a fraction that is no greater is rounded to no greater a number, ties to the even neighbour included |
| `SkillMono`, `EducationMono`, `ProjectMono`, `OverallMono`, `RankMono` | each dimension of a score, and the rank, in what a candidate has |
| `Improves`, `QuotientMore`, `NoLower`, `BetterList` | no grade of `Improved(a)` is worse, and no percentage of a list with one such element |
| `CreditsGrow`, `ExperienceGrows`, `DutyCreditsGrow`, `EnrichedCounts` | each piece of evidence, added to a resume, lowers the credit of no component |
| `AddsBounds`, `ScoreBounds`, `ScoreMono` | the credits over a common denominator, and that the fit lies between 0 and 100 and follows the credits |
| `SumBySteps`, `PartialSums`, `SumAdd`, `SumReplaced`, `RankingWithout`, `SumsByRank` | a sum over a ranking is the sum over 1..n, whatever the order |
| `RankIs`, `EveryPlace`, `FirstOf`, `TopMoversAre` | ranks are the places of a strict order, each taken once, and its first k are as many as there are, at most k |
| `ChangesBalance`, `SumOfSquares`, `Spearman`, `Correlated` | the changes of rank sum to 0, three times their squares to at most n(n² - 1): the correlation lies between -1 and 1 |
| `SquaresEven`, `RoundDown`, `RhoIs` | the sum of the squares is even, so it is 0 or at least 2; and of at most 62 candidates a sum of 2 is not rounded away in four digits |
| `BucketsAdjoin`, `Distributed`, `PartsAddUp`, `Shortlisted`, `Qualifying` | counts between adjoining bounds add up to all, and what the sections count apart agrees |

Sums are defined by a recursive function, and induction is over the set of the lengths for
which a fact holds (`Inductive`), a set rather than a predicate, so that the provers need no
operator as a parameter. Counts of one repetition each (`Hits` of a list without
repetitions) are cardinalities, which is why the order of a list of skills does not matter;
that is what the argument of `UnreportedIsHarmless` needs, because the report compares sets.
Those are sets of skills, and the scores count names: `HitsBySkill` and `HitsOfSkills` count the
same by skills for a candidate who matches all spellings of a skill alike (`Indifferent`), and for
the others nothing is claimed. In `ReportsAgree` the lemmas `OneName` and `OnlyName` say that a valid
configuration asks for a skill by one name, whatever its spelling.
The fit is a mean of means, each over its own number of items; the model brings them over a
common denominator, the product of those numbers, and `AddsBounds` uses that it is a multiple
of each of them only as `k * divisor <= common` for the quotient `k`.

`ImpactAddsUpHolds` takes the property in its named parts. An analysis reads ranks only, and
two facts about them carry everything: scores with ties broken by the number of the candidate
are a strict order, so both rankings are permutations of 1..n (`EveryPlace`); and a sum over
a permutation is the sum over 1..n, proved by taking the last rank out of a ranking
(`RankingWithout`). The bound of the correlation needs no more than that: with old and new
ranks a and b, (a - b)² + (a + b - n - 1)² adds up to the same for every pair of rankings, and
the second sum is not negative.

The six of them have a hypothesis that only gives the subject its type:
`Is("simulation") => subject \in Pooled(Names)` (candidates and configurations over any set of
names, weights in the naturals, years, thresholds and shortlists any number; for `ImpactAddsUpHolds`
the shortlists are naturals, 1 to 500 by `domain/simulation_schemas.py:99`) and
`Is("attempt") => subject \in Attempts(Skills)` (lists of answers, hits and passed tests at
most as many as there are keywords and tests), and `Is("fit") => ` the subject's `doc` is one
of `Docs` (lists of skills with the places where each is found, of employments, and of
responsibilities with any overlaps). Neither the
weights nor the texts have to be valid: only the premises that the properties state.

**Only model-checked.** Liveness (`SessionsEnd`, `CallsSettle`, `CallsEnd`), which is outside
the prover, and the violations. Every invariant and every action property that a passing run
checks has a theorem.

## 5. Not modelled, and why

- *Audit log*: append-only, in the transaction of its cause; it commits and rolls back
  with it. *E-mail delivery* and its SMTP retries: I/O; the moment a token is handed over is
  in `Invitations`.
- *Fairness, analytics, XAI and reports*: statistics and wording over committed rows.
- *Agents, tools, conversation memory, retrieval*: construction of prompts, similarity
  search, transcripts of one user; no protocol of their own beyond workflows and router.
- *Candidate profiles, users, saved jobs, dashboards*: rows with one owner, no protocol
  between requests.
- *Rate limiter and middleware*: a window of timestamps per address and process.
- *Organizations*, beyond the invitee's membership: invitations grant the roles of administrators,
  managers and recruiters (`invitation_service.py:22-26`), so an organization may come to have
  several administrators, who may suspend or revoke one another but not themselves. Each such
  request writes one membership from a value of its own, and no code counts the administrators
  that remain; two who suspend each other at once both succeed. There is no promise to check.
- *Question generation, parsing of resumes, extraction of requirements and evidence,
  evaluation of interview answers, match scores of Skill2Job*: text heuristics and language
  models. They appear as choices (succeeds or fails, which skill is found where) of the
  modules that use them.
- *Pages* other than the voice profile: they render what the server says. The countdown of
  the assessment page and the stream of the chat are candidates for a later module.

Next, where the project would grow: the countdown of `TakeAssessment.tsx` composed with
`Assessments`; and, when the worker commits, the steps queued -> completed | failed in `RunLedger`.

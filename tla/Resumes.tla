------------------------------- MODULE Resumes -------------------------------
(***************************************************************************)
(* The resumes of one candidate:                                           *)
(*   services/candidate/resume.py, repositories/candidate/resume.py,       *)
(*   the resume routes of api/v1/candidates.py                             *)
(*                                                                         *)
(* A request reads its rows and commits later; it may be cut off before.   *)
(* created_at and updated_at are now(), in PostgreSQL the time at which    *)
(* the transaction began: Hold draws it. Rows are kept in the order of     *)
(* their commits, deleted ones included.                                   *)
(***************************************************************************)
EXTENDS Naturals, Sequences, FiniteSets

CONSTANTS
  Contents,           \* file contents, told apart by their hash
  MaxResumeRequests  \* bound: requests

ASSUME ResumeRequestsAssumption == MaxResumeRequests \in Nat

ResumeRequests == 1..MaxResumeRequests   \* in the order of their arrival

VARIABLES
  resumes,     \* the rows
  work,        \* the requests in flight and what they hold
  clock,       \* how many transactions have begun
  overlapped,  \* history: two requests that write is_primary were in flight together
  replaced     \* history: a failed resume that was primary was uploaded again

resumeVars == <<resumes, work, clock, overlapped, replaced>>

\* "processing" is written and overwritten in one transaction.
ResumeStatus == {"uploaded", "parsed", "failed", "deleted"}

ResumeRow ==
  [status : ResumeStatus, content : Contents, version : Nat, primary : BOOLEAN,
   parsed  : BOOLEAN,     \* it has its row in parsed_resume_data
   created : Nat, updated : Nat]

Stored == {i \in DOMAIN resumes : resumes[i].status # "deleted"}
Primaries == {i \in Stored : resumes[i].primary}
Newest(S) == CHOOSE i \in S : \A j \in S : resumes[j].created <= resumes[i].created

ResumesInit ==
  /\ resumes = <<>>
  /\ work = [r \in ResumeRequests |-> [op |-> "idle"]]
  /\ clock = 0
  /\ overlapped = FALSE
  /\ replaced = FALSE

Doing(r, op) == work[r].op = op
MovesPrimary == {"upload", "delete", "primary"}

\* The next request that arrives.
Comes(r) == Doing(r, "idle") /\ \A s \in ResumeRequests : s < r => ~ Doing(s, "idle")

\* A transaction begins, reads, and holds what it read.
Hold(r, held) ==
  /\ Comes(r)
  /\ work' = [work EXCEPT ![r] = held]
  /\ clock' = clock + 1
  /\ overlapped' = (overlapped \/ /\ held.op \in MovesPrimary
                                  /\ \E s \in ResumeRequests : work[s].op \in MovesPrimary)
  /\ UNCHANGED <<resumes, replaced>>

Finish(r) == work' = [work EXCEPT ![r] = [op |-> "done"]]

\* Nothing is written: a refusal, or a transaction that is rolled back.
GiveUp(r) == Finish(r) /\ UNCHANGED <<resumes, clock, overlapped, replaced>>

----------------------------------------------------------------------------
\* POST /resume/upload. A content that is already there is refused, unless its parsing
\* failed: then it replaces that resume. Two rows of one content make find_by_hash raise.

UploadRead(r, content) ==
  LET same == {i \in Stored : resumes[i].content = content}
      kept == Stored \ same
  IN IF \E i \in same : resumes[i].status # "failed" \/ Cardinality(same) > 1
     THEN Comes(r) /\ GiveUp(r)
     ELSE Hold(r, [op      |-> "upload",
                   began   |-> clock + 1,
                   content |-> content,
                   failed  |-> same,
                   version |-> IF kept = {} THEN 1
                               ELSE 1 + (CHOOSE v \in {resumes[i].version : i \in kept} :
                                           \A i \in kept : resumes[i].version <= v),
                   first   |-> kept = {}])

\* The first of the two commits; the second transaction, to process it, begins.
UploadCommit(r) ==
  LET u == work[r]
      row == [status |-> "uploaded", content |-> u.content, version |-> u.version,
              primary |-> u.first, parsed |-> FALSE,
              created |-> u.began, updated |-> u.began]
  IN /\ Doing(r, "upload")
     /\ resumes' = Append([i \in DOMAIN resumes |->
                             IF i \in u.failed THEN [resumes[i] EXCEPT !.status = "deleted"]
                             ELSE resumes[i]], row)
     /\ work' = [work EXCEPT ![r] = [op |-> "process", began |-> clock + 1,
                                     target |-> Len(resumes) + 1]]
     /\ clock' = clock + 1
     /\ replaced' = (replaced \/ \E i \in u.failed : resumes[i].primary /\ ~ u.first)
     /\ UNCHANGED overlapped

\* process_resume: parsed or failed, and either is committed; a parse may fail after
\* the parsed data were written. A resume deleted meanwhile makes it raise.
Processed(r) ==
  /\ Doing(r, "process")
  /\ LET i == work[r].target
     IN IF i \notin Stored
        THEN GiveUp(r)
        ELSE /\ \E status \in {"parsed", "failed"}, parsed \in {TRUE, resumes[i].parsed} :
                  /\ status = "parsed" => parsed
                  /\ resumes' = [resumes EXCEPT ![i].status = status, ![i].parsed = parsed,
                                                ![i].updated = work[r].began]
             /\ Finish(r)
             /\ UNCHANGED <<clock, overlapped, replaced>>

\* POST /resume/{resume_id}/retry
RetryRead(r, i) ==
  IF resumes[i].status = "failed"
  THEN Hold(r, [op |-> "process", began |-> clock + 1, target |-> i])
  ELSE Comes(r) /\ GiveUp(r)

\* DELETE /resume/{resume_id}: the row is deleted and stays locked, and what remains is
\* listed; a second delete of it waits.

\* A plausible bug: the deleted row is still in the list, and is_primary.
DeleteRead_Listed(r, i) ==
  /\ \A s \in ResumeRequests : Doing(s, "delete") => work[s].target # i
  /\ Hold(r, [op |-> "delete", began |-> clock + 1, target |-> i,
              promote |-> IF Primaries # {} THEN {} ELSE {Newest(Stored)}])

DeleteRead(r, i) ==
  LET remaining == Stored \ {i}
  IN /\ \A s \in ResumeRequests : Doing(s, "delete") => work[s].target # i
     /\ Hold(r, [op |-> "delete", began |-> clock + 1, target |-> i,
                 promote |-> IF remaining = {} \/ remaining \cap Primaries # {}
                             THEN {}
                             ELSE {Newest(remaining)}])

\* An UPDATE by the ORM that finds no row raises.
DeleteCommit(r) ==
  /\ Doing(r, "delete")
  /\ IF work[r].promote \subseteq Stored
     THEN /\ resumes' = [i \in DOMAIN resumes |->
               IF i = work[r].target THEN [resumes[i] EXCEPT !.status = "deleted"]
               ELSE IF i \in work[r].promote
               THEN [resumes[i] EXCEPT !.primary = TRUE, !.updated = work[r].began]
               ELSE resumes[i]]
          /\ Finish(r)
          /\ UNCHANGED <<clock, overlapped, replaced>>
     ELSE GiveUp(r)

\* PUT /resume/primary: two UPDATEs, of all rows and then of the one, if it is still there.
\* They wait for the rows that a delete has locked.
PrimaryRead(r, i) == Hold(r, [op |-> "primary", began |-> clock + 1, target |-> i])

PrimaryCommit(r) ==
  /\ Doing(r, "primary")
  /\ \A s \in ResumeRequests : ~ Doing(s, "delete")
  /\ resumes' = [i \in DOMAIN resumes |->
       IF i \in Stored
       THEN [resumes[i] EXCEPT !.primary = (i = work[r].target), !.updated = work[r].began]
       ELSE resumes[i]]
  /\ Finish(r)
  /\ UNCHANGED <<clock, overlapped, replaced>>

\* The process dies, or the connection is lost.
CutOff(r) == ~ Doing(r, "idle") /\ ~ Doing(r, "done") /\ GiveUp(r)

ResumesNext ==
  \E r \in ResumeRequests :
    \/ \E content \in Contents : UploadRead(r, content)
    \/ \E i \in Stored : RetryRead(r, i) \/ DeleteRead(r, i) \/ PrimaryRead(r, i)
    \/ UploadCommit(r) \/ Processed(r) \/ DeleteCommit(r) \/ PrimaryCommit(r)
    \/ CutOff(r)

ResumesSpec == ResumesInit /\ [][ResumesNext]_resumeVars

----------------------------------------------------------------------------
\* A candidate with resumes has exactly one primary, and neither a content nor a version
\* twice (get_primary and find_by_hash raise when they find two), through uploads, retries,
\* deletions and requests cut off halfway; only two requests in flight together, or the
\* upload that replaces a failed primary, can break it.
ResumesInOrder ==
  ~ overlapped =>
    /\ \A i, j \in Stored : i # j =>
         /\ resumes[i].content # resumes[j].content
         /\ resumes[i].version # resumes[j].version
    /\ Cardinality(Primaries) <= 1
    /\ ~ replaced /\ Stored # {} => Primaries # {}
=============================================================================

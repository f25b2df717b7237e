------------------------------ MODULE FitCache ------------------------------
(***************************************************************************)
(* What is cached of a candidate's resume, and of its fit to one job:      *)
(*   services/screening/fit_service.py, services/screening/intel_service.py*)
(* with the edits of the job, services/jobs/recruiter_job_service.py       *)
(*                                                                         *)
(* get_fit and get_intel read the primary resume and the cached row,       *)
(* compute, wait for a model to polish the summary, and write the row.     *)
(* get_job_intel asks get_intel, and then takes the fit that is there,     *)
(* fresh or not; it asks get_fit only if there is none. The contents of    *)
(* the job are the edits that made it.                                     *)
(***************************************************************************)
EXTENDS Resumes

CONSTANTS
  MaxFitRequests   \* bound: requests

ASSUME FitRequestsAssumption == MaxFitRequests \in Nat

FitRequests == 1..MaxFitRequests   \* in the order of their arrival

VARIABLES
  job,          \* jobs: its version, and the edits its columns come from
  extraction,   \* job_requirement_extractions
  cached,       \* job_fit_analyses ("fit") and candidate_evidence_intels ("intel")
  reading,      \* the requests in flight
  sharing,      \* history: two edits were in flight together
  blurred       \* history: a resume was read while it was being processed, or a request
                \* that began earlier than the last one to write it has set its time back

cacheVars == <<job, extraction, cached, reading, sharing, blurred>>
fitVars == <<resumeVars, cacheVars>>

Kinds == {"fit", "intel"}
NoResume == 0

\* The columns of a cached row, and what its result was computed from.
Absent == [present |-> FALSE]
Source(edits, i) ==
  [edits |-> edits, resume |-> i, parsed |-> i # NoResume /\ resumes[i].parsed]

FitInit ==
  /\ ResumesInit
  /\ job = [version |-> 1, edits |-> {}]
  /\ extraction = Absent
  /\ cached = [k \in Kinds |-> Absent]
  /\ reading = [r \in FitRequests |-> [op |-> "idle"]]
  /\ sharing = FALSE
  /\ blurred = FALSE

\* get_primary; two make it raise.
Primary == IF Primaries = {} THEN NoResume ELSE CHOOSE i \in Primaries : TRUE

Settle(r) == reading' = [reading EXCEPT ![r] = [op |-> "done"]]
Turns(r) == reading[r].op = "idle" /\ \A s \in FitRequests : s < r => reading[s].op # "idle"
Turn(r, held) ==
  /\ Turns(r)
  /\ reading' = [reading EXCEPT ![r] = held]

----------------------------------------------------------------------------
\* update_job and change_job_status: the columns of the patch, and one more than the
\* version that was read.

EditRead(r) ==
  /\ Turn(r, [op |-> "edit", version |-> job.version])
  /\ sharing' = (sharing \/ \E s \in FitRequests : reading[s].op = "edit")
  /\ UNCHANGED <<resumeVars, job, extraction, cached, blurred>>

EditCommit(r) ==
  /\ reading[r].op = "edit"
  /\ job' = [version |-> reading[r].version + 1, edits |-> job.edits \cup {r}]
  /\ Settle(r)
  /\ UNCHANGED <<resumeVars, extraction, cached, sharing, blurred>>

----------------------------------------------------------------------------
\* _get_requirements, for a job as it was read
ExtractionIsFresh(j) == extraction.present /\ extraction.version >= j.version
Requirements(j) == IF ExtractionIsFresh(j) THEN extraction.edits ELSE j.edits

\* A plausible bug: the time is not compared when the resume is the same.
IsFresh_SameResume(k, i) ==
  /\ cached[k].present
  /\ k = "fit" => cached[k].version >= job.version
  /\ cached[k].resume = i

\* _is_fresh, for the primary resume i
IsFresh(k, i) ==
  /\ cached[k].present
  /\ k = "fit" => cached[k].version >= job.version
  /\ cached[k].resume = i
  /\ i # NoResume => resumes[i].updated <= cached[k].updated

\* The row that is computed now, of the primary and of a job as it was read, by a request that
\* began at a time.
Row(j, began) ==
  [present |-> TRUE, resume |-> Primary, updated |-> began, version |-> j.version,
   of |-> Source(Requirements(j), Primary)]

\* It is blurred if its resume is being processed.
Compute ==
  blurred' = (blurred \/ \E s \in ResumeRequests :
                           Doing(s, "process") /\ work[s].target = Primary)

Computing(k) ==
  [op |-> "compute", kind |-> k, row |-> Row(job, clock + 1), insert |-> ~ cached[k].present,
   extracted |-> k = "fit" /\ ~ ExtractionIsFresh(job)]

\* The requirements of the job are kept as they are now also by a get_fit that is served.
CacheRead(r, k) ==
  /\ Turns(r)
  /\ IF Cardinality(Primaries) > 1
     THEN Settle(r) /\ UNCHANGED <<clock, blurred, extraction>>
     ELSE IF IsFresh(k, Primary)
     THEN /\ Settle(r)
          /\ extraction' = IF k = "fit" /\ ~ ExtractionIsFresh(job)
                           THEN [present |-> TRUE, version |-> job.version, edits |-> job.edits]
                           ELSE extraction
          /\ UNCHANGED <<clock, blurred>>
     ELSE Turn(r, Computing(k)) /\ Compute /\ clock' = clock + 1 /\ UNCHANGED extraction
  /\ UNCHANGED <<resumes, work, overlapped, replaced, job, cached, sharing>>

\* A second row for the same job and candidate violates a unique constraint, and a resume
\* deleted meanwhile the foreign key.
Conflicts(k, row, insert) ==
  \/ insert /\ cached[k].present
  \/ row.resume \notin Stored \cup {NoResume}

\* get_job_intel has written an intelligence, not yet committed, while it waits for the
\* fit that it asked for: who writes that row then waits for its lock.
IntelIsLocked == \E s \in FitRequests : reading[s].op = "fit"

Extracted(row, extracted) ==
  extraction' = IF extracted
                THEN [present |-> TRUE, version |-> row.version, edits |-> row.of.edits]
                ELSE extraction

CacheCommit(r) ==
  LET c == reading[r]
  IN /\ c.op = "compute"
     /\ c.kind = "intel" => ~ IntelIsLocked
     /\ IF Conflicts(c.kind, c.row, c.insert)
        THEN UNCHANGED <<cached, extraction>>
        ELSE /\ cached' = [cached EXCEPT ![c.kind] = c.row]
             /\ Extracted(c.row, c.extracted)
     /\ Settle(r)
     /\ UNCHANGED <<resumeVars, job, sharing, blurred>>

\* get_job_intel, up to the polish of get_intel. If the intelligence is fresh it goes on to
\* the fit at once, and the fit that is there is served; if none is, get_fit computes it.
JobIntelRead(r) ==
  /\ Turns(r)
  /\ IF Cardinality(Primaries) > 1 \/ (IsFresh("intel", Primary) /\ cached["fit"].present)
     THEN Settle(r) /\ UNCHANGED <<clock, blurred>>
     ELSE /\ Turn(r, IF IsFresh("intel", Primary)
                     THEN Computing("fit")
                     ELSE [op |-> "intel", row |-> Row(job, clock + 1),
                           insert |-> ~ cached["intel"].present, job |-> job])
          /\ Compute /\ clock' = clock + 1
  /\ UNCHANGED <<resumes, work, overlapped, replaced, job, extraction, cached, sharing>>

\* The intelligence is polished and written. The fit that is there is served, and the
\* request ends; if none is, get_fit is asked, with the job as the request has read it, in
\* the same transaction.
\* A get_fit that raises is done without.
JobIntelReturns(r) ==
  LET c == reading[r]
  IN /\ c.op = "intel"
     /\ ~ IntelIsLocked
     /\ IF Conflicts("intel", c.row, c.insert)
        THEN Settle(r) /\ UNCHANGED <<cached, blurred>>
        ELSE IF cached["fit"].present \/ Cardinality(Primaries) > 1
        THEN /\ cached' = [cached EXCEPT !["intel"] = c.row]
             /\ Settle(r)
             /\ UNCHANGED blurred
        ELSE /\ reading' = [reading EXCEPT ![r] =
                  [op |-> "fit", intel |-> c.row, row |-> Row(c.job, c.row.updated),
                   extracted |-> ~ ExtractionIsFresh(c.job)]]
             /\ Compute
             /\ UNCHANGED cached
     /\ UNCHANGED <<resumeVars, job, extraction, sharing>>

\* Both rows are committed, or neither: a conflict is caught, but the transaction is lost.
JobFitCommit(r) ==
  LET c == reading[r]
  IN /\ c.op = "fit"
     /\ IF Conflicts("fit", c.row, TRUE)
        THEN UNCHANGED <<cached, extraction>>
        ELSE /\ cached' = [cached EXCEPT !["intel"] = c.intel, !["fit"] = c.row]
             /\ Extracted(c.row, c.extracted)
     /\ Settle(r)
     /\ UNCHANGED <<resumeVars, job, sharing, blurred>>

\* The columns resume_id are set to NULL when their resume is deleted; which waits for a row
\* that refers to it and is not committed.
ResumeStep ==
  /\ ResumesNext
  /\ \A r \in FitRequests :
       reading[r].op = "fit" => reading[r].intel.resume \notin Stored \ Stored'
  /\ cached' = [k \in Kinds |->
       IF cached[k].present /\ cached[k].resume \in Stored \ Stored'
       THEN [cached[k] EXCEPT !.resume = NoResume]
       ELSE cached[k]]
  /\ blurred' = (blurred \/ \E i \in Stored : resumes'[i].updated < resumes[i].updated)
  /\ UNCHANGED <<job, extraction, reading, sharing>>

FitNext ==
  \/ ResumeStep
  \/ \E r \in FitRequests :
       \/ EditRead(r) \/ EditCommit(r)
       \/ \E k \in Kinds : CacheRead(r, k)
       \/ CacheCommit(r)
       \/ JobIntelRead(r) \/ JobIntelReturns(r) \/ JobFitCommit(r)

FitSpec == FitInit /\ [][FitNext]_fitVars

----------------------------------------------------------------------------
\* What get_fit and get_intel serve of the cache. What get_job_intel serves of a fit that is
\* there is not asked for: it may be of an older job, resume or parse, whenever an edit or an
\* upload came after it and nobody has asked get_fit since.
Served(k) == Cardinality(Primaries) <= 1 /\ IsFresh(k, Primary)

\* A row that get_fit or get_intel would serve was computed from what is there now, whoever
\* wrote it, get_job_intel too: from the requirements that all edits of the job have made,
\* unless two edits shared a version; and, as long as its resume is not deleted, from that
\* resume as it is parsed now, unless it was read while it was being processed.
ServedIsCurrent ==
  \A k \in Kinds :
    Served(k) =>
      /\ k = "fit" /\ ~ sharing => cached[k].of.edits = job.edits
      /\ Primary # NoResume =>
           /\ cached[k].of.resume = Primary
           /\ ~ blurred => cached[k].of.parsed = resumes[Primary].parsed

\* "Regenerated when the resume changes" (domain/models.py:996): what is served of a
\* candidate is not from a resume that the candidate no longer has.
NothingFromDeletedResumes ==
  \A k \in Kinds : Served(k) => cached[k].of.resume = Primary
=============================================================================

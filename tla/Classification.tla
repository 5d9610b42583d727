--------------------------- MODULE Classification ---------------------------
(***************************************************************************)
(* The photo-classification queue and its worker.  A job is delivered at   *)
(* least once: BullMQ gives it a fixed number of attempts, and puts the    *)
(* job of a process that died back in the queue, but only so many times.   *)
(* An attempt runs ProcessPhotoClassificationHandler: it loads the photo,  *)
(* saves it as processing, calls the AI service (for minutes), stores the  *)
(* result and saves the photo again, from the entity loaded at the start.  *)
(* Of a result only the image it is of is kept.                            *)
(*                                                                         *)
(* A live worker is taken to keep the lock on its job, so one job never    *)
(* has two attempts at work; jobs of different photos overlap freely (the  *)
(* limit of three at once per process is left out).                        *)
(***************************************************************************)
EXTENDS PhotoRows

CONSTANTS
    Attempts,      \* attempts of a job (the "attempts" option)
    MaxStalls      \* times the job of a dead worker is taken up again

ASSUME JobAssumption == Attempts \in Nat \ {0} /\ MaxStalls \in Nat

VARIABLES
    jobs,          \* the job of each photo id
    attempt,       \* the handler at work on it
    results        \* the photo_processings rows of each photo

jobVars == <<jobs, attempt, results>>

JobState == {"none", "waiting", "active", "done", "dead"}
Job == [state : JobState, failures : 0 .. Attempts, stalls : 0 .. MaxStalls + 1]
NoJob == [state |-> "none", failures |-> 0, stalls |-> 0]

Off == [step |-> "off"]
Attempt ==
    {Off} \cup [step : {"claim", "classify", "finish", "fail", "failed"}, photo : PhotoRow]

Result == [status : {"completed"}, image : PhotoIds] \cup [status : {"failed"}]

Completed(p) == [status |-> "completed", image |-> p]

JobTypeOK ==
    /\ jobs \in [PhotoIds -> Job]
    /\ attempt \in [PhotoIds -> Attempt]
    /\ results \in [PhotoIds -> SUBSET Result]
    /\ \A p \in PhotoIds : attempt[p] # Off => jobs[p].state = "active"

JobInit ==
    /\ jobs = [p \in PhotoIds |-> NoJob]
    /\ attempt = [p \in PhotoIds |-> Off]
    /\ results = [p \in PhotoIds |-> {}]

-----------------------------------------------------------------------------
\* Seeded bug: a reviewed photo may be classified too.
AllowedAlsoReviewed(photo) == TRUE

\* ALLOWED_STATUSES
AllowedStatus(photo) == photo.status \in {"pending", "failed", "processing"}

\* Seeded bug: a failed attempt is not counted.
AfterUncounted(job) == [job EXCEPT !.state = "waiting"]

\* What BullMQ does with a job whose attempt threw: it waits (for the backoff)
\* and runs again, or is given up.
AfterFailure(job) ==
    [job EXCEPT !.failures = @ + 1,
                !.state = IF job.failures + 1 < Attempts THEN "waiting" ELSE "dead"]

\* Seeded bug: the job of a dead worker is always taken up again.
AfterStallAgain(job) == [job EXCEPT !.stalls = @ + 1, !.state = "waiting"]

\* What BullMQ does with a job whose worker died.
AfterStall(job) ==
    [job EXCEPT !.stalls = @ + 1,
                !.state = IF job.stalls < MaxStalls THEN "waiting" ELSE "dead"]

AttemptEnds(p, job) ==
    /\ jobs' = [jobs EXCEPT ![p] = job]
    /\ attempt' = [attempt EXCEPT ![p] = Off]

\* The attempt goes on with the photo it loaded, as it is by now in memory.
Continue(p, step, photo) ==
    /\ attempt' = [attempt EXCEPT ![p] = [step |-> step, photo |-> photo]]
    /\ UNCHANGED jobs

-----------------------------------------------------------------------------
\* A worker takes the job and loads the photo; without a photo, or with one in
\* another status, the attempt throws at once.
StartAttempt(p) ==
    /\ jobs[p].state = "waiting"
    /\ IF p \in DOMAIN photos /\ AllowedStatus(photos[p])
       THEN /\ attempt' = [attempt EXCEPT ![p] = [step |-> "claim", photo |-> photos[p]]]
            /\ jobs' = [jobs EXCEPT ![p].state = "active"]
       ELSE AttemptEnds(p, AfterFailure(jobs[p]))
    /\ UNCHANGED <<rowVars, results>>

SaveProcessing(p) ==
    /\ attempt[p].step = "claim"
    /\ LET photo == Processing(attempt[p].photo) IN
       SavePhoto(p, photo) /\ Continue(p, "classify", photo)
    /\ UNCHANGED <<bucket, results>>

\* That save is outside the try block.
SaveProcessingThrows(p) ==
    /\ attempt[p].step = "claim"
    /\ AttemptEnds(p, AfterFailure(jobs[p]))
    /\ UNCHANGED <<rowVars, results>>

\* What comes back from the service, and of which image; "none" is a timeout or
\* a broken connection.
PipelineAnswer ==
    [http : {"none", "4xx", "5xx"}]
    \cup [http : {"2xx"}, wellFormed : BOOLEAN, supported : BOOLEAN, image : PhotoIds]

\* Seeded bug: an answer is taken for the photo whatever image it is of.
ClassifyAnyImage(p, answer) ==
    IF answer.http = "2xx" THEN "response" ELSE "ai_pipeline.service_unavailable"

\* CyclingAiPipelineAdapter.classify: the response, or what it throws.
Classify(p, answer) ==
    IF answer.http \in {"none", "5xx"} THEN "ai_pipeline.service_unavailable"
    ELSE IF answer.http = "4xx" THEN "ai_pipeline.invalid_request"
    ELSE IF ~answer.wellFormed THEN "ai_pipeline.invalid_response_shape"
    ELSE IF ~answer.supported THEN "ai_pipeline.unsupported_schema_version"
    ELSE IF answer.image # p THEN "ai_pipeline.image_id_mismatch"
    ELSE "response"

\* RETRYABLE_AI_ERRORS
RetryableAiErrors == {"ai_pipeline.service_unavailable"}

\* The service answers, and persistResult stores the answer in a transaction.
PersistResult(p) ==
    /\ attempt[p].step = "classify"
    /\ \E answer \in PipelineAnswer :
         /\ Classify(p, answer) = "response"
         /\ results' = [results EXCEPT ![p] = @ \cup {Completed(answer.image)}]
    /\ Continue(p, "finish", attempt[p].photo)
    /\ UNCHANGED rowVars

\* "Photo stays in 'processing'".
ServiceUnavailable(p) ==
    /\ attempt[p].step = "classify"
    /\ \E answer \in PipelineAnswer : Classify(p, answer) \in RetryableAiErrors
    /\ AttemptEnds(p, AfterFailure(jobs[p]))
    /\ UNCHANGED <<rowVars, results>>

SaveProcessed(p) ==
    /\ attempt[p].step = "finish"
    /\ SavePhoto(p, Processed(attempt[p].photo))
    /\ AttemptEnds(p, [jobs[p] EXCEPT !.state = "done"])
    /\ UNCHANGED <<bucket, results>>

\* Anything else goes wrong in the try block: the service refuses, its answer is
\* not understood, a statement fails; the last save may fail after markProcessed has already changed the entity.
ClassifyThrows(p) ==
    /\ attempt[p].step \in {"classify", "finish"}
    /\ \/ Continue(p, "fail", attempt[p].photo)
       \/ /\ attempt[p].step = "finish"
          /\ Continue(p, "fail", Processed(attempt[p].photo))
    /\ UNCHANGED <<rowVars, results>>

\* persistFailure, whose own failure is only logged.
PersistFailure(p) ==
    /\ attempt[p].step = "fail"
    /\ \/ results' = [results EXCEPT ![p] = @ \cup {[status |-> "failed"]}]
       \/ UNCHANGED results
    /\ Continue(p, "failed", attempt[p].photo)
    /\ UNCHANGED rowVars

\* markFailed and save, whose failure is only logged too; then the attempt
\* throws.
SaveFailed(p) ==
    /\ attempt[p].step = "failed"
    /\ SavePhoto(p, Failed(attempt[p].photo)) \/ UNCHANGED photos
    /\ AttemptEnds(p, AfterFailure(jobs[p]))
    /\ UNCHANGED <<bucket, results>>

WorkerDies(p) ==
    /\ jobs[p].state = "active"
    /\ AttemptEnds(p, AfterStall(jobs[p]))
    /\ UNCHANGED <<rowVars, results>>

\* What the worker does unless its process dies.
AttemptStep(p) ==
    \/ StartAttempt(p) \/ SaveProcessing(p) \/ SaveProcessingThrows(p)
    \/ PersistResult(p) \/ ServiceUnavailable(p) \/ SaveProcessed(p)
    \/ ClassifyThrows(p) \/ PersistFailure(p) \/ SaveFailed(p)
=============================================================================

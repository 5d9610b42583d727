--------------------------- MODULE PipelineProofs ---------------------------
(***************************************************************************)
(* The theorems of PhotoPipeline, for any number of photos, uploads,       *)
(* files, handlers and orders, and any number of attempts of a job.  Order *)
(* of the argument: types; jobs and the ids on their way to them; copies   *)
(* of photos and their results; keys; complete orders.                     *)
(***************************************************************************)
EXTENDS PhotoPipeline, TLAPS

-----------------------------------------------------------------------------
(* The inductive invariant.  It says of every copy of a row that a handler *)
(* carries what holds of the row itself, so that whichever copy is saved   *)
(* last, the row stays in order.                                           *)

\* Ids on their way to the queue have no job yet, and no two handlers share one.
EnqueuingFresh ==
    \A d \in Desks : \A p \in Enqueuing(d) :
        /\ jobs[p] = NoJob
        /\ \A x \in Desks \ {d} : p \notin Enqueuing(x)

\* A job that is not over has attempts left, and times to be taken up again.
JobsHaveLeft ==
    \A p \in PhotoIds : jobs[p].state \in {"waiting", "active"} =>
        jobs[p].failures < Attempts /\ jobs[p].stalls <= MaxStalls

\* reviewed_at goes with the status, and so does processed_at.
Coherent(photo) ==
    /\ photo.reviewed <=> photo.status = "reviewed"
    /\ photo.status \in {"processed", "failed"} => photo.processed

\* A copy of the row of p that may be saved: it has the key of the row, is
\* coherent, and says "processed" only when a result is stored.
CopyOf(rows, stored, p, photo) ==
    /\ p \in DOMAIN rows
    /\ photo.key = rows[p].key
    /\ Coherent(photo)
    /\ photo.status = "processed" => Completed(p) \in stored[p]

RowsOK == \A p \in DOMAIN photos : CopyOf(photos, results, p, photos[p])

\* The worker never carries a reviewed photo, and has a result stored before
\* it goes on to finish.
AttemptOK(rows, stored, p, work) ==
    /\ CopyOf(rows, stored, p, work.photo)
    /\ work.photo.status # "reviewed"
    /\ work.step = "finish" => Completed(p) \in stored[p]

AttemptsOK == \A p \in PhotoIds : attempt[p] # Off => AttemptOK(photos, results, p, attempt[p])

\* The steps in which a handler carries a copy of a photo.
Carrying == {"review", "delete", "retouch"}

DesksOK ==
    \A d \in Desks : desk[d].step \in Carrying =>
        CopyOf(photos, results, desk[d].id, desk[d].photo)

\* A completed result is of the photo it is stored for.
ResultsOwn ==
    \A p \in PhotoIds : \A r \in results[p] : r.status = "completed" => r.image = p

\* An order with no item left to retouch is announced, awaited, or got there
\* with nobody to notice.
CompleteSeen ==
    \A o \in DOMAIN ordered : PendingItems(o) = {} => o \in announced \cup quiet \/ Awaited(o)

PipelineInductive ==
    /\ PipelineTypeOK
    /\ EnqueuingFresh
    /\ JobsHaveLeft
    /\ RowsOK
    /\ AttemptsOK
    /\ DesksOK
    /\ ResultsOwn
    /\ OnePhotoPerUpload
    /\ CompleteSeen

-----------------------------------------------------------------------------
PhotosOK ==
    /\ DOMAIN photos \subseteq PhotoIds
    /\ \A p \in DOMAIN photos : photos[p] \in PhotoRow

\* Rows are added and rewritten under the same key, results are added.
RowsGrow ==
    /\ DOMAIN photos \subseteq DOMAIN photos'
    /\ \A p \in DOMAIN photos : photos'[p].key = photos[p].key
    /\ \A p \in PhotoIds : results[p] \subseteq results'[p]

-----------------------------------------------------------------------------
(* Types.                                                                  *)

\* The mutators of the Photo entity return rows of the photos table.
LEMMA PhotoType ==
    ASSUME NEW c \in PhotoRow
    PROVE  /\ Processing(c) \in PhotoRow
           /\ Processed(c) \in PhotoRow
           /\ Failed(c) \in PhotoRow
           /\ Reviewed(c) \in PhotoRow
           /\ \A f \in Files : SetRetouched(c, f) \in PhotoRow
  BY DEF PhotoRow, PhotoStatus, Processing, Processed, Failed, Reviewed, SetRetouched

\* An attempt at work carries a row, and its job is active.
LEMMA AttemptType ==
    ASSUME JobTypeOK, NEW p \in PhotoIds,
           attempt[p].step \in {"claim", "classify", "finish", "fail", "failed"}
    PROVE  /\ attempt[p] # Off
           /\ attempt[p].photo \in PhotoRow
           /\ jobs[p].state = "active"
           /\ jobs[p] \in Job
  BY DEF JobTypeOK, Attempt, Off

\* What a handler of photos has in hand at each of its steps.
LEMMA DeskType ==
    ASSUME desk \in [Desks -> Desk], NEW d \in Desks
    PROVE  /\ desk[d].step \in Carrying =>
                desk[d].id \in PhotoIds /\ desk[d].photo \in PhotoRow
           /\ desk[d].step \in {"delete", "retouch"} =>
                /\ desk[d].file \in Files
                /\ desk[d] = [step |-> desk[d].step, id |-> desk[d].id,
                              photo |-> desk[d].photo, file |-> desk[d].file]
           /\ desk[d].step = "announce" => desk[d].id \in PhotoIds
           /\ Enqueuing(d) \subseteq PhotoIds
  <1>1. desk[d] \in Desk
    OBVIOUS
  <1>2. CASE desk[d] = Idle
    BY <1>2 DEF Idle, Enqueuing, Carrying
  <1>3. CASE desk[d] \in [step : {"enqueue"}, ids : UNION {[batch -> PhotoIds] : batch \in SUBSET Keys}]
    <2>1. PICK batch \in SUBSET Keys : desk[d].ids \in [batch -> PhotoIds]
      BY <1>3
    <2>2. desk[d].step = "enqueue"
      BY <1>3
    <2> QED BY <2>1, <2>2 DEF Enqueuing, Carrying
  <1>4. CASE desk[d] \in [step : {"review"}, id : PhotoIds, photo : PhotoRow]
    BY <1>4 DEF Enqueuing, Carrying
  <1>5. CASE desk[d] \in [step : {"delete", "retouch"}, id : PhotoIds, photo : PhotoRow, file : Files]
    BY <1>5 DEF Enqueuing, Carrying
  <1>6. CASE desk[d] \in [step : {"announce"}, id : PhotoIds]
    BY <1>6 DEF Enqueuing, Carrying
  <1> QED BY <1>1, <1>2, <1>3, <1>4, <1>5, <1>6 DEF Desk

\* Saving a photo under an id keeps the table well typed.
LEMMA SaveType ==
    ASSUME PhotosOK, NEW p \in PhotoIds, NEW c \in PhotoRow, SavePhoto(p, c)
    PROVE  /\ PhotosOK'
           /\ DOMAIN photos' = DOMAIN photos \cup {p}
           /\ photos'[p] = c
           /\ \A q \in DOMAIN photos \ {p} : photos'[q] = photos[q]
  BY DEF PhotosOK, SavePhoto, Upsert

\* What BullMQ makes of a job that has attempts left is a job.
LEMMA AfterType ==
    ASSUME NEW job \in Job, job.failures < Attempts, job.stalls <= MaxStalls
    PROVE  /\ AfterFailure(job) \in Job
           /\ AfterFailure(job).state = "waiting" => AfterFailure(job).failures < Attempts
           /\ AfterFailure(job).stalls = job.stalls
           /\ AfterFailure(job).state \in {"waiting", "dead"}
           /\ AfterStall(job) \in Job
           /\ AfterStall(job).state = "waiting" => AfterStall(job).stalls <= MaxStalls
           /\ AfterStall(job).failures = job.failures
           /\ AfterStall(job).state \in {"waiting", "dead"}
  <1>1. /\ job.failures + 1 \in 0 .. Attempts /\ job.stalls + 1 \in 0 .. MaxStalls + 1
        /\ job.failures \in Nat /\ job.stalls \in Nat
    BY JobAssumption DEF Job
  <1> DEFINE failed == IF job.failures + 1 < Attempts THEN "waiting" ELSE "dead"
             stalled == IF job.stalls < MaxStalls THEN "waiting" ELSE "dead"
  <1>2. failed \in JobState /\ stalled \in JobState
    BY DEF JobState
  <1>3. AfterFailure(job) = [job EXCEPT !.failures = job.failures + 1, !.state = failed]
    BY DEF AfterFailure
  <1>4. AfterStall(job) = [job EXCEPT !.stalls = job.stalls + 1, !.state = stalled]
    BY DEF AfterStall
  <1>5. /\ AfterFailure(job) \in Job /\ AfterFailure(job).state = failed
        /\ AfterFailure(job).failures = job.failures + 1 /\ AfterFailure(job).stalls = job.stalls
    <2> HIDE DEF failed
    <2> QED BY <1>1, <1>2, <1>3 DEF Job
  <1>6. /\ AfterStall(job) \in Job /\ AfterStall(job).state = stalled
        /\ AfterStall(job).stalls = job.stalls + 1 /\ AfterStall(job).failures = job.failures
    <2> HIDE DEF stalled
    <2> QED BY <1>1, <1>2, <1>4 DEF Job
  <1> QED BY <1>1, <1>5, <1>6, JobAssumption

\* An attempt that ends leaves the tables of the queue well typed.
LEMMA EndsType ==
    ASSUME JobTypeOK, NEW p \in PhotoIds, NEW job \in Job, AttemptEnds(p, job)
    PROVE  /\ jobs' \in [PhotoIds -> Job]
           /\ attempt' \in [PhotoIds -> Attempt]
           /\ \A q \in PhotoIds : attempt'[q] # Off => jobs'[q].state = "active"
           /\ jobs'[p] = job /\ attempt'[p] = Off
           /\ \A q \in PhotoIds \ {p} : jobs'[q] = jobs[q] /\ attempt'[q] = attempt[q]
  BY DEF JobTypeOK, AttemptEnds, Attempt

\* So does one that goes on.
LEMMA ContinueType ==
    ASSUME JobTypeOK, NEW p \in PhotoIds, NEW step, NEW c \in PhotoRow,
           step \in {"claim", "classify", "finish", "fail", "failed"},
           attempt[p] # Off, Continue(p, step, c)
    PROVE  /\ jobs' \in [PhotoIds -> Job]
           /\ attempt' \in [PhotoIds -> Attempt]
           /\ \A q \in PhotoIds : attempt'[q] # Off => jobs'[q].state = "active"
           /\ attempt'[p] = [step |-> step, photo |-> c]
           /\ \A q \in PhotoIds \ {p} : attempt'[q] = attempt[q]
           /\ jobs' = jobs
  BY DEF JobTypeOK, Continue, Attempt

\* Every step of an attempt, and its death, keeps the tables and the queue well
\* typed, and leaves alone jobs that were never enqueued.
LEMMA WorkerType ==
    ASSUME PipelineTypeOK, JobsHaveLeft, NEW p \in PhotoIds, AttemptStep(p) \/ WorkerDies(p)
    PROVE  /\ PhotosOK'
           /\ DOMAIN photos \subseteq DOMAIN photos'
           /\ bucket' = bucket
           /\ JobTypeOK'
           /\ JobsHaveLeft'
           /\ \A q \in PhotoIds : jobs[q] = NoJob => jobs'[q] = NoJob
  <1> USE DEF rowVars
  <1>0. /\ JobTypeOK /\ PhotosOK
        /\ jobs \in [PhotoIds -> Job] /\ results \in [PhotoIds -> SUBSET Result]
        /\ attempt \in [PhotoIds -> Attempt]
    BY DEF PipelineTypeOK, JobTypeOK, PhotosOK
  <1>a. jobs[p].state \in {"waiting", "active"} =>
           /\ AfterFailure(jobs[p]) \in Job
           /\ AfterFailure(jobs[p]).state = "waiting" => AfterFailure(jobs[p]).failures < Attempts
           /\ AfterFailure(jobs[p]).stalls <= MaxStalls
           /\ AfterFailure(jobs[p]).state \in {"waiting", "dead"}
           /\ AfterStall(jobs[p]) \in Job
           /\ AfterStall(jobs[p]).state = "waiting" => AfterStall(jobs[p]).stalls <= MaxStalls
           /\ AfterStall(jobs[p]).failures < Attempts
           /\ AfterStall(jobs[p]).state \in {"waiting", "dead"}
    BY <1>0, AfterType DEF JobsHaveLeft
  <1>b. jobs[p].state \in {"waiting", "active"} => jobs[p] # NoJob
    BY DEF NoJob
  <1>c. ASSUME AttemptEnds(p, AfterFailure(jobs[p])), results' = results,
               jobs[p].state \in {"waiting", "active"}
        PROVE  JobTypeOK' /\ JobsHaveLeft' /\ \A q \in PhotoIds : jobs[q] = NoJob => jobs'[q] = NoJob
    <2>1. /\ jobs' \in [PhotoIds -> Job] /\ attempt' \in [PhotoIds -> Attempt]
          /\ \A q \in PhotoIds : attempt'[q] # Off => jobs'[q].state = "active"
          /\ jobs'[p] = AfterFailure(jobs[p])
          /\ \A q \in PhotoIds \ {p} : jobs'[q] = jobs[q]
      BY <1>0, <1>a, <1>c, EndsType
    <2> QED BY <2>1, <1>0, <1>a, <1>b, <1>c DEF JobTypeOK, JobsHaveLeft
  <1>d. ASSUME NEW step \in {"classify", "finish", "fail", "failed"}, NEW c \in PhotoRow,
               attempt[p] # Off, Continue(p, step, c), results' \in [PhotoIds -> SUBSET Result]
        PROVE  JobTypeOK' /\ JobsHaveLeft' /\ \A q \in PhotoIds : jobs[q] = NoJob => jobs'[q] = NoJob
    <2>1. /\ jobs' = jobs /\ attempt' \in [PhotoIds -> Attempt]
          /\ \A q \in PhotoIds : attempt'[q] # Off => jobs'[q].state = "active"
      BY <1>0, <1>d, ContinueType
    <2> QED BY <2>1, <1>0, <1>d DEF JobTypeOK, JobsHaveLeft
  <1>1. CASE StartAttempt(p)
    <2>1. CASE p \in DOMAIN photos /\ AllowedStatus(photos[p])
      <3>1. photos[p] \in PhotoRow
        BY <1>0, <2>1 DEF PhotosOK
      <3>2. [step |-> "claim", photo |-> photos[p]] \in Attempt
        BY <3>1 DEF Attempt
      <3>3. /\ attempt' = [attempt EXCEPT ![p] = [step |-> "claim", photo |-> photos[p]]]
            /\ jobs' = [jobs EXCEPT ![p].state = "active"]
            /\ jobs[p].state = "waiting"
            /\ UNCHANGED <<photos, bucket, results>>
        BY <1>1, <2>1 DEF StartAttempt
      <3>4. /\ jobs'[p] \in Job /\ jobs'[p].state = "active"
            /\ jobs'[p].failures = jobs[p].failures /\ jobs'[p].stalls = jobs[p].stalls
        BY <3>3, <1>0 DEF Job, JobState
      <3>5. JobTypeOK'
        BY <1>0, <3>2, <3>3, <3>4 DEF JobTypeOK
      <3>6. JobsHaveLeft'
        BY <1>0, <3>3, <3>4 DEF JobsHaveLeft
      <3> QED BY <1>0, <1>b, <3>3, <3>5, <3>6 DEF PhotosOK
    <2>2. CASE ~(p \in DOMAIN photos /\ AllowedStatus(photos[p]))
      BY <1>1, <2>2, <1>0, <1>c DEF StartAttempt, PhotosOK
    <2> QED BY <2>1, <2>2
  <1>2. CASE SaveProcessing(p)
    <2>1. attempt[p].photo \in PhotoRow /\ attempt[p] # Off
      BY <1>0, <1>2, AttemptType DEF SaveProcessing
    <2>2. Processing(attempt[p].photo) \in PhotoRow
      BY <2>1, PhotoType
    <2>3. PhotosOK' /\ DOMAIN photos' = DOMAIN photos \cup {p}
      BY <1>0, <1>2, <2>2, SaveType DEF SaveProcessing
    <2> QED BY <1>0, <1>2, <1>d, <2>1, <2>2, <2>3 DEF SaveProcessing
  <1>3. CASE SaveProcessingThrows(p)
    BY <1>3, <1>0, <1>c, AttemptType DEF SaveProcessingThrows, PhotosOK
  <1>4. CASE PersistResult(p)
    <2>1. attempt[p].photo \in PhotoRow /\ attempt[p] # Off
      BY <1>0, <1>4, AttemptType DEF PersistResult
    <2>2. PICK answer \in PipelineAnswer :
             /\ Classify(p, answer) = "response"
             /\ results' = [results EXCEPT ![p] = @ \cup {Completed(answer.image)}]
      BY <1>4 DEF PersistResult
    <2>3. answer.image = p
      BY <2>2 DEF Classify
    <2>4. results' \in [PhotoIds -> SUBSET Result]
      BY <1>0, <2>2, <2>3 DEF Completed, Result
    <2> QED BY <1>0, <1>4, <1>d, <2>1, <2>4 DEF PersistResult, PhotosOK
  <1>5. CASE ServiceUnavailable(p)
    BY <1>5, <1>0, <1>c, AttemptType DEF ServiceUnavailable, PhotosOK
  <1>6. CASE SaveProcessed(p)
    <2>1. /\ attempt[p].photo \in PhotoRow /\ attempt[p] # Off
          /\ jobs[p].state = "active" /\ jobs[p] \in Job
      BY <1>0, <1>6, AttemptType DEF SaveProcessed
    <2>2. PhotosOK' /\ DOMAIN photos' = DOMAIN photos \cup {p}
      BY <1>0, <1>6, <2>1, PhotoType, SaveType DEF SaveProcessed
    <2>3. /\ [jobs[p] EXCEPT !.state = "done"] \in Job
          /\ [jobs[p] EXCEPT !.state = "done"].state = "done"
      BY <2>1 DEF Job, JobState
    <2>4. AttemptEnds(p, [jobs[p] EXCEPT !.state = "done"]) /\ UNCHANGED <<bucket, results>>
      BY <1>6 DEF SaveProcessed
    <2>5. /\ jobs' \in [PhotoIds -> Job] /\ attempt' \in [PhotoIds -> Attempt]
          /\ \A q \in PhotoIds : attempt'[q] # Off => jobs'[q].state = "active"
          /\ jobs'[p].state = "done"
          /\ \A q \in PhotoIds \ {p} : jobs'[q] = jobs[q]
      BY <1>0, <2>3, <2>4, EndsType
    <2> QED BY <1>0, <1>b, <2>1, <2>2, <2>4, <2>5 DEF JobTypeOK, JobsHaveLeft
  <1>7. CASE ClassifyThrows(p)
    <2>1. attempt[p].photo \in PhotoRow /\ attempt[p] # Off
      BY <1>0, <1>7, AttemptType DEF ClassifyThrows
    <2>2. Processed(attempt[p].photo) \in PhotoRow
      BY <2>1, PhotoType
    <2> QED BY <1>0, <1>7, <1>d, <2>1, <2>2 DEF ClassifyThrows, PhotosOK
  <1>8. CASE PersistFailure(p)
    <2>1. attempt[p].photo \in PhotoRow /\ attempt[p] # Off
      BY <1>0, <1>8, AttemptType DEF PersistFailure
    <2>2. results' \in [PhotoIds -> SUBSET Result]
      BY <1>0, <1>8 DEF PersistFailure, Result
    <2> QED BY <1>0, <1>8, <1>d, <2>1, <2>2 DEF PersistFailure, PhotosOK
  <1>9. CASE SaveFailed(p)
    <2>1. /\ attempt[p].photo \in PhotoRow /\ attempt[p] # Off /\ jobs[p].state = "active"
      BY <1>0, <1>9, AttemptType DEF SaveFailed
    <2>2. PhotosOK' /\ DOMAIN photos \subseteq DOMAIN photos'
      BY <1>0, <1>9, <2>1, PhotoType, SaveType DEF SaveFailed, PhotosOK
    <2> QED BY <1>0, <1>9, <1>c, <2>1, <2>2 DEF SaveFailed
  <1>10. CASE WorkerDies(p)
    <2>1. /\ jobs' \in [PhotoIds -> Job] /\ attempt' \in [PhotoIds -> Attempt]
          /\ \A q \in PhotoIds : attempt'[q] # Off => jobs'[q].state = "active"
          /\ jobs'[p] = AfterStall(jobs[p])
          /\ \A q \in PhotoIds \ {p} : jobs'[q] = jobs[q]
      BY <1>0, <1>10, <1>a, EndsType DEF WorkerDies
    <2> QED BY <2>1, <1>0, <1>10, <1>a, <1>b DEF WorkerDies, JobTypeOK, JobsHaveLeft, PhotosOK
  <1> QED BY <1>1, <1>2, <1>3, <1>4, <1>5, <1>6, <1>7, <1>8, <1>9, <1>10 DEF AttemptStep

\* A handler that moves on to a state without new jobs in hand leaves the ids
\* of the others alone.
LEMMA MoveKeepsFresh ==
    ASSUME desk \in [Desks -> Desk], EnqueuingFresh, NEW d \in Desks, NEW state \in Desk,
           state.step # "enqueue", Goto(d, state),
           \A p \in PhotoIds : jobs[p] = NoJob => jobs'[p] = NoJob
    PROVE  /\ desk' \in [Desks -> Desk]
           /\ EnqueuingFresh'
  <1>1. desk' \in [Desks -> Desk] /\ desk'[d] = state /\ \A x \in Desks \ {d} : desk'[x] = desk[x]
    BY DEF Goto
  <1>2. /\ Enqueuing(d)' = {}
        /\ \A x \in Desks \ {d} : Enqueuing(x)' = Enqueuing(x)
    BY <1>1 DEF Enqueuing
  <1>3. \A x \in Desks : Enqueuing(x)' \subseteq Enqueuing(x) /\ Enqueuing(x) \subseteq PhotoIds
    BY <1>2, DeskType
  <1> QED BY <1>1, <1>3 DEF EnqueuingFresh

\* Every step of a handler of photos keeps the tables, the queue and the
\* handlers well typed, and its failure does too.
LEMMA DeskKeepsType ==
    ASSUME PipelineTypeOK, JobsHaveLeft, EnqueuingFresh,
           NEW d \in Desks, DeskStep(d) \/ DeskFails(d)
    PROVE  /\ PhotosOK'
           /\ DOMAIN photos \subseteq DOMAIN photos'
           /\ bucket' \subseteq Files
           /\ JobTypeOK'
           /\ JobsHaveLeft'
           /\ desk' \in [Desks -> Desk]
           /\ EnqueuingFresh'
  <1> USE DEF rowVars, jobVars
  <1>0. /\ JobTypeOK /\ PhotosOK /\ bucket \subseteq Files
        /\ jobs \in [PhotoIds -> Job] /\ results \in [PhotoIds -> SUBSET Result]
        /\ attempt \in [PhotoIds -> Attempt]
        /\ desk \in [Desks -> Desk]
    BY DEF PipelineTypeOK, JobTypeOK, PhotosOK
  <1>a. ASSUME UNCHANGED jobVars
        PROVE  JobTypeOK' /\ JobsHaveLeft' /\ \A p \in PhotoIds : jobs[p] = NoJob => jobs'[p] = NoJob
    BY <1>0, <1>a DEF JobTypeOK, JobsHaveLeft
  <1>b. Idle \in Desk /\ Idle.step # "enqueue"
    BY DEF Desk, Idle
  <1>1. CASE ConfirmBatch(d)
    <2>0. PICK batch \in (SUBSET Keys) \ {{}} : \E ids \in [batch -> Fresh] :
             SaveMany(ids) /\ Begin(d, [step |-> "enqueue", ids |-> ids])
      BY <1>1 DEF ConfirmBatch
    <2>1. PICK ids \in [batch -> Fresh] :
             SaveMany(ids) /\ Begin(d, [step |-> "enqueue", ids |-> ids])
      BY <2>0
    <2>2. ids \in [batch -> PhotoIds] /\ DOMAIN ids = batch /\ batch \subseteq Keys
      BY <2>1 DEF Fresh
    <2>3. [step |-> "enqueue", ids |-> ids] \in Desk
      <3>1. ids \in UNION {[b -> PhotoIds] : b \in SUBSET Keys}
        BY <2>2
      <3> QED BY <3>1 DEF Desk
    <2>4. /\ desk' \in [Desks -> Desk]
          /\ desk'[d] = [step |-> "enqueue", ids |-> ids]
          /\ \A x \in Desks \ {d} : desk'[x] = desk[x]
      BY <1>0, <2>1, <2>3 DEF Begin, Goto
    <2>5. \A k \in Keys : NewPhoto(k) \in PhotoRow
      BY DEF NewPhoto, PhotoRow, PhotoStatus
    <2>6. PhotosOK' /\ DOMAIN photos \subseteq DOMAIN photos'
      <3> DEFINE new == {k \in DOMAIN ids : k \notin {photos[p].key : p \in DOMAIN photos}}
      <3>1. photos' = [p \in DOMAIN photos \cup {ids[k] : k \in new} |->
                         IF p \in DOMAIN photos THEN photos[p]
                         ELSE NewPhoto(CHOOSE k \in new : ids[k] = p)]
        BY <2>1 DEF SaveMany
      <3>2. new \subseteq batch
        BY <2>2
      <3>3. DOMAIN photos' = DOMAIN photos \cup {ids[k] : k \in new}
        <4> HIDE DEF new
        <4> QED BY <3>1
      <3>4. \A p \in DOMAIN photos' : photos'[p] \in PhotoRow
        <4> HIDE DEF new
        <4> SUFFICES ASSUME NEW p \in DOMAIN photos' PROVE photos'[p] \in PhotoRow
          OBVIOUS
        <4>1. CASE p \in DOMAIN photos
          BY <4>1, <3>1, <1>0 DEF PhotosOK
        <4>2. CASE p \notin DOMAIN photos
          <5>1. \E k \in new : ids[k] = p
            BY <4>2, <3>3
          <5>2. (CHOOSE k \in new : ids[k] = p) \in Keys
            BY <5>1, <3>2, <2>2
          <5> QED BY <5>2, <4>2, <3>1, <3>3, <2>5
        <4> QED BY <4>1, <4>2
      <3>5. DOMAIN photos' \subseteq PhotoIds
        <4> HIDE DEF new
        <4> QED BY <3>3, <3>2, <2>2, <1>0 DEF PhotosOK
      <3> QED BY <3>3, <3>4, <3>5 DEF PhotosOK
    <2>7. EnqueuingFresh'
      <3>1. UNCHANGED jobVars
        BY <1>1 DEF ConfirmBatch
      <3>2. Enqueuing(d)' \subseteq Fresh
        BY <2>4, <2>2, <2>1 DEF Enqueuing
      <3>3. \A x \in Desks \ {d} : Enqueuing(x)' = Enqueuing(x)
        BY <2>4 DEF Enqueuing
      <3>4. \A p \in Fresh : jobs[p] = NoJob /\ \A x \in Desks : p \notin Enqueuing(x)
        BY DEF Fresh
      <3> QED BY <3>1, <3>2, <3>3, <3>4 DEF EnqueuingFresh
    <2> QED BY <1>0, <1>1, <1>a, <2>4, <2>6, <2>7 DEF ConfirmBatch
  <1>2. CASE EnqueueJobs(d)
    <2>1. /\ jobs' = [p \in PhotoIds |->
                 IF p \in Enqueuing(d) THEN [NoJob EXCEPT !.state = "waiting"] ELSE jobs[p]]
          /\ Finish(d)
          /\ UNCHANGED <<photos, bucket, attempt, results>>
      BY <1>2 DEF EnqueueJobs
    <2>2. /\ [NoJob EXCEPT !.state = "waiting"] = [state |-> "waiting", failures |-> 0, stalls |-> 0]
          /\ [state |-> "waiting", failures |-> 0, stalls |-> 0] \in Job
      BY JobAssumption DEF NoJob, Job, JobState
    <2>3. \A p \in Enqueuing(d) : attempt[p] = Off
      <3>1. \A p \in Enqueuing(d) : p \in PhotoIds /\ jobs[p] = NoJob
        BY <1>0, DeskType DEF EnqueuingFresh
      <3> QED BY <3>1, <1>0 DEF JobTypeOK, NoJob
    <2>4. JobTypeOK'
      BY <1>0, <2>1, <2>2, <2>3 DEF JobTypeOK
    <2>5. JobsHaveLeft'
      BY <1>0, <2>1, <2>2, JobAssumption DEF JobsHaveLeft
    <2>6. desk' = [desk EXCEPT ![d] = Idle]
      BY <2>1 DEF Finish, Goto
    <2>7. /\ Enqueuing(d)' = {}
          /\ \A x \in Desks \ {d} : Enqueuing(x)' = Enqueuing(x)
      BY <1>0, <1>b, <2>6 DEF Enqueuing
    <2>8. \A x \in Desks \ {d} : \A p \in Enqueuing(x) : jobs'[p] = NoJob
      BY <1>0, <2>1, DeskType DEF EnqueuingFresh
    <2>9. EnqueuingFresh'
      BY <2>7, <2>8 DEF EnqueuingFresh
    <2> QED BY <1>0, <1>b, <2>1, <2>4, <2>5, <2>6, <2>9 DEF PhotosOK
  <1>3. ASSUME NEW p \in PhotoIds, MarkReviewed(d, p)
        PROVE  PhotosOK' /\ desk' \in [Desks -> Desk] /\ EnqueuingFresh'
    <2>1. [step |-> "review", id |-> p, photo |-> photos[p]] \in Desk
      BY <1>0, <1>3 DEF MarkReviewed, PhotosOK, Desk
    <2> QED BY <1>0, <1>3, <1>a, <2>1, MoveKeepsFresh DEF MarkReviewed, Begin, PhotosOK
  <1>4. CASE SaveReviewed(d)
    <2>1. desk[d].id \in PhotoIds /\ desk[d].photo \in PhotoRow
      BY <1>0, <1>4, DeskType DEF SaveReviewed, Carrying
    <2>2. PhotosOK' /\ DOMAIN photos \subseteq DOMAIN photos'
      BY <1>0, <1>4, <2>1, PhotoType, SaveType DEF SaveReviewed
    <2> QED BY <1>0, <1>4, <1>a, <1>b, <2>2, MoveKeepsFresh DEF SaveReviewed, Finish
  <1>5. ASSUME NEW p \in PhotoIds, NEW f \in Files, ConfirmRetouched(d, p, f)
        PROVE  PhotosOK' /\ desk' \in [Desks -> Desk] /\ EnqueuingFresh'
    <2> DEFINE next == IF photos[p].retouched = NoFile THEN "retouch" ELSE "delete"
    <2>1. [step |-> next, id |-> p, photo |-> photos[p], file |-> f] \in Desk
      BY <1>0, <1>5 DEF ConfirmRetouched, PhotosOK, Desk
    <2>2. Goto(d, [step |-> next, id |-> p, photo |-> photos[p], file |-> f]) /\ next # "enqueue"
      BY <1>5 DEF ConfirmRetouched, Begin
    <2> HIDE DEF next
    <2> QED BY <1>0, <1>5, <1>a, <2>1, <2>2, MoveKeepsFresh DEF ConfirmRetouched, PhotosOK
  <1>6. CASE DeleteOldFile(d)
    <2>1. [desk[d] EXCEPT !.step = "retouch"] =
            [step |-> "retouch", id |-> desk[d].id, photo |-> desk[d].photo, file |-> desk[d].file]
      BY <1>0, <1>6, DeskType DEF DeleteOldFile
    <2>2. [desk[d] EXCEPT !.step = "retouch"] \in Desk
      BY <1>0, <1>6, <2>1, DeskType DEF DeleteOldFile, Desk, Carrying
    <2>3. Goto(d, [desk[d] EXCEPT !.step = "retouch"]) /\ [desk[d] EXCEPT !.step = "retouch"].step # "enqueue"
      BY <1>6, <2>1 DEF DeleteOldFile
    <2> QED BY <1>0, <1>6, <1>a, <2>2, <2>3, MoveKeepsFresh DEF DeleteOldFile, PhotosOK
  <1>7. CASE SaveRetouched(d)
    <2>1. desk[d].id \in PhotoIds /\ desk[d].photo \in PhotoRow /\ desk[d].file \in Files
      BY <1>0, <1>7, DeskType DEF SaveRetouched, Carrying
    <2>2. PhotosOK' /\ DOMAIN photos \subseteq DOMAIN photos'
      BY <1>0, <1>7, <2>1, PhotoType, SaveType DEF SaveRetouched
    <2>3. [step |-> "announce", id |-> desk[d].id] \in Desk
      BY <2>1 DEF Desk
    <2> QED BY <1>0, <1>7, <1>a, <2>2, <2>3, MoveKeepsFresh DEF SaveRetouched
  <1>8. CASE AnnounceCompleted(d)
    BY <1>0, <1>8, <1>a, <1>b, MoveKeepsFresh DEF AnnounceCompleted, Finish, PhotosOK
  <1>9. CASE DeskFails(d)
    BY <1>0, <1>9, <1>a, <1>b, MoveKeepsFresh DEF DeskFails, Finish, PhotosOK
  <1> QED BY <1>0, <1>a, <1>1, <1>2, <1>3, <1>4, <1>5, <1>6, <1>7, <1>8, <1>9
          DEF DeskStep, MarkReviewed, ConfirmRetouched

\* What the orders are about: everything of RetouchTypeOK but the history.
OrdersOK ==
    /\ dismissed \subseteq PhotoIds
    /\ DOMAIN ordered \subseteq OrderIds
    /\ \A o \in DOMAIN ordered :
         ordered[o] \in [event : {EventOf[k] : k \in Keys},
                        photos : SUBSET DOMAIN photos, paid : BOOLEAN]
    /\ announced \subseteq DOMAIN ordered

\* A row that stays makes the orders of its photo stay well typed.
LEMMA OrdersStay ==
    ASSUME OrdersOK, DOMAIN photos \subseteq DOMAIN photos', UNCHANGED <<dismissed, ordered>>,
           announced' \subseteq DOMAIN ordered
    PROVE  OrdersOK'
  <1>1. ASSUME NEW o \in DOMAIN ordered
        PROVE  ordered[o] \in [event : {EventOf[k] : k \in Keys},
                               photos : SUBSET DOMAIN photos', paid : BOOLEAN]
    BY DEF OrdersOK
  <1> QED BY <1>1 DEF OrdersOK

\* Every step of the orders keeps them well typed.
LEMMA OrderStepType ==
    ASSUME OrdersOK, PhotosOK, OrderStep
    PROVE  OrdersOK'
  <1> USE DEF OrdersOK, PhotosOK, rowVars
  <1>1. ASSUME NEW o \in OrderIds, PlaceOrder(o)
        PROVE  OrdersOK'
    <2>0. PICK e \in {EventOf[k] : k \in Keys} :
             \E ids \in ((SUBSET FromGallery(e)) \cup (SUBSET FromCart(e)) \cup (SUBSET FromPreview(e))) \ {{}} :
                ordered' = Upsert(ordered, o, [event |-> e, photos |-> ids, paid |-> FALSE])
      BY <1>1 DEF PlaceOrder
    <2>1. PICK ids \in ((SUBSET FromGallery(e)) \cup (SUBSET FromCart(e)) \cup (SUBSET FromPreview(e))) \ {{}} :
             ordered' = Upsert(ordered, o, [event |-> e, photos |-> ids, paid |-> FALSE])
      BY <2>0
    <2>2. ids \subseteq DOMAIN photos
      <3>1. FromGallery(e) \subseteq DOMAIN photos /\ FromCart(e) \subseteq DOMAIN photos
        BY DEF FromGallery, FromCart, PhotosOf
      <3>2. FromPreview(e) = DOMAIN photos
        BY DEF FromPreview
      <3>3. \/ ids \in SUBSET FromGallery(e)
            \/ ids \in SUBSET FromCart(e)
            \/ ids \in SUBSET FromPreview(e)
        BY <2>1, Zenon
      <3> QED BY <3>1, <3>2, <3>3, Zenon
    <2>3. [event |-> e, photos |-> ids, paid |-> FALSE]
             \in [event : {EventOf[k] : k \in Keys}, photos : SUBSET DOMAIN photos, paid : BOOLEAN]
      BY <2>2
    <2> QED BY <1>1, <2>1, <2>3 DEF PlaceOrder, Upsert
  <1>2. ASSUME NEW o \in OrderIds, PayOrder(o)
        PROVE  OrdersOK'
    <2> DEFINE Row == [event : {EventOf[k] : k \in Keys}, photos : SUBSET DOMAIN photos, paid : BOOLEAN]
    <2>1. ordered[o] \in Row
      BY <1>2 DEF PayOrder
    <2>2. [ordered[o] EXCEPT !.paid = TRUE] \in Row
      BY <2>1
    <2>3. ordered' = [ordered EXCEPT ![o] = [ordered[o] EXCEPT !.paid = TRUE]]
      BY <1>2 DEF PayOrder
    <2>4. \A x \in DOMAIN ordered : ordered[x] \in Row
      OBVIOUS
    <2>5. DOMAIN ordered' = DOMAIN ordered /\ \A x \in DOMAIN ordered : ordered'[x] \in Row
      <3> HIDE DEF Row
      <3> QED BY <2>2, <2>3, <2>4
    <2> QED BY <1>2, <2>5 DEF PayOrder
  <1>3. ASSUME NEW p \in PhotoIds, NEW requires \in BOOLEAN, SetRetouchFlag(p, requires)
        PROVE  OrdersOK'
    BY <1>3 DEF SetRetouchFlag
  <1> QED BY <1>1, <1>2, <1>3 DEF OrderStep

\* The types, and what keeps the counters of the jobs in their ranges.
TypesInductive == PipelineTypeOK /\ EnqueuingFresh /\ JobsHaveLeft

\* The pipeline starts with empty tables and queues.
LEMMA TypesInit == PipelineInit => TypesInductive
  <1> SUFFICES ASSUME PipelineInit PROVE TypesInductive
    OBVIOUS
  <1> USE DEF PipelineInit, PhotoInit, JobInit, RetouchInit
  <1>1. NoJob \in Job /\ NoJob.state = "none"
    BY JobAssumption DEF NoJob, Job, JobState
  <1>2. JobTypeOK
    BY <1>1 DEF JobTypeOK, Attempt
  <1>3. DOMAIN photos = {} /\ DOMAIN ordered = {}
    BY DEF NoRows
  <1>4. PipelineTypeOK
    BY <1>2, <1>3 DEF PipelineTypeOK, RetouchTypeOK, Desk
  <1>5. EnqueuingFresh
    BY DEF EnqueuingFresh, Enqueuing, Idle
  <1>6. JobsHaveLeft
    BY <1>1 DEF JobsHaveLeft
  <1> QED BY <1>4, <1>5, <1>6 DEF TypesInductive

\* Every step of the pipeline keeps it well typed.
LEMMA TypesStep == TypesInductive /\ [PipelineNext]_pipelineVars => TypesInductive'
  <1> SUFFICES ASSUME TypesInductive, [PipelineNext]_pipelineVars PROVE TypesInductive'
    OBVIOUS
  <1> USE DEF TypesInductive
  <1>0. /\ PhotosOK /\ OrdersOK /\ quiet \subseteq DOMAIN ordered
        /\ JobTypeOK /\ bucket \subseteq Files /\ desk \in [Desks -> Desk]
    BY DEF PipelineTypeOK, RetouchTypeOK, PhotosOK, OrdersOK
  <1>1. ASSUME PhotosOK', OrdersOK', quiet' \subseteq (DOMAIN ordered)',
               JobTypeOK', bucket' \subseteq Files, desk' \in [Desks -> Desk]
        PROVE  PipelineTypeOK'
    BY <1>1 DEF PipelineTypeOK, RetouchTypeOK, PhotosOK, OrdersOK
  <1>2. ASSUME NEW p \in PhotoIds, WorkerStep(p) \/ WorkerDies(p),
               UNCHANGED <<desk, retouchVars>>, quiet' \subseteq (DOMAIN ordered)'
        PROVE  TypesInductive'
    <2>1. /\ PhotosOK' /\ DOMAIN photos \subseteq DOMAIN photos' /\ bucket' = bucket
          /\ JobTypeOK' /\ JobsHaveLeft'
          /\ \A q \in PhotoIds : jobs[q] = NoJob => jobs'[q] = NoJob
      BY <1>2, WorkerType DEF WorkerStep
    <2>2. OrdersOK'
      BY <1>0, <1>2, <2>1, OrdersStay DEF retouchVars, OrdersOK
    <2>3. EnqueuingFresh'
      <3>1. \A d \in Desks : Enqueuing(d)' = Enqueuing(d) /\ Enqueuing(d) \subseteq PhotoIds
        BY <1>0, <1>2, DeskType DEF Enqueuing
      <3> QED BY <2>1, <3>1 DEF EnqueuingFresh
    <2> QED BY <1>0, <1>1, <1>2, <2>1, <2>2, <2>3
  <1>3. ASSUME NEW d \in Desks, DeskStep(d) \/ DeskFails(d), quiet' \subseteq (DOMAIN ordered)'
        PROVE  TypesInductive'
    <2>1. /\ PhotosOK' /\ DOMAIN photos \subseteq DOMAIN photos' /\ bucket' \subseteq Files
          /\ JobTypeOK' /\ JobsHaveLeft' /\ desk' \in [Desks -> Desk] /\ EnqueuingFresh'
      BY <1>3, DeskKeepsType
    <2>2. UNCHANGED <<dismissed, ordered>> /\ announced' \subseteq DOMAIN ordered
      <3>1. announced \subseteq DOMAIN ordered
        BY <1>0 DEF OrdersOK
      <3>2. CASE AnnounceCompleted(d)
        BY <3>1, <3>2 DEF AnnounceCompleted, OrdersFullyRetouchedBy
      <3>3. CASE ~AnnounceCompleted(d)
        BY <3>1, <3>3, <1>3 DEF DeskStep, DeskFails, retouchVars, ConfirmBatch, EnqueueJobs, MarkReviewed,
             SaveReviewed, ConfirmRetouched, DeleteOldFile, SaveRetouched
      <3> QED BY <3>2, <3>3
    <2>3. OrdersOK'
      BY <1>0, <2>1, <2>2, OrdersStay
    <2> QED BY <1>1, <1>3, <2>1, <2>3
  <1>4. ASSUME OrderStep, quiet' \subseteq (DOMAIN ordered)'
        PROVE  TypesInductive'
    <2>1. OrdersOK'
      BY <1>0, <1>4, OrderStepType
    <2>2. UNCHANGED <<rowVars, jobVars, desk>>
      BY <1>4 DEF OrderStep, PlaceOrder, PayOrder, SetRetouchFlag
    <2> QED BY <1>0, <1>1, <1>4, <2>1, <2>2
            DEF rowVars, jobVars, PhotosOK, JobTypeOK, JobsHaveLeft, EnqueuingFresh, Enqueuing
  <1>5. CASE UNCHANGED pipelineVars
    BY <1>0, <1>1, <1>5 DEF pipelineVars, rowVars, jobVars, retouchVars, PhotosOK, OrdersOK, JobTypeOK,
                            JobsHaveLeft, EnqueuingFresh, Enqueuing
  <1>6. ASSUME Overlook, DOMAIN ordered \subseteq (DOMAIN ordered)'
        PROVE  quiet' \subseteq (DOMAIN ordered)'
    BY <1>0, <1>6 DEF Overlook
  <1>7. ASSUME PipelineNext
        PROVE  /\ DOMAIN ordered \subseteq (DOMAIN ordered)'
               /\ quiet' \subseteq (DOMAIN ordered)'
    <2>1. DOMAIN ordered \subseteq (DOMAIN ordered)'
      BY <1>7 DEF PipelineNext, WorkerStep, WorkerDies, DeskStep, DeskFails, OrderStep, retouchVars, ConfirmBatch,
           EnqueueJobs, MarkReviewed, SaveReviewed, ConfirmRetouched, DeleteOldFile, SaveRetouched, AnnounceCompleted,
           PlaceOrder, PayOrder, SetRetouchFlag, Upsert
    <2>2. CASE Overlook
      BY <2>1, <2>2, <1>6
    <2>3. CASE quiet' = quiet
      BY <1>0, <2>1, <2>3
    <2>4. CASE \E d \in Desks : DeskFails(d) /\ OverlookFailed(d)
      BY <1>0, <2>1, <2>4 DEF OverlookFailed
    <2> QED BY <1>7, <2>1, <2>2, <2>3, <2>4 DEF PipelineNext
  <1> QED BY <1>2, <1>3, <1>4, <1>5, <1>7 DEF PipelineNext, WorkerStep

-----------------------------------------------------------------------------
(* Copies of photos and their results.                                     *)

CopiesOK == RowsOK /\ AttemptsOK /\ DesksOK /\ ResultsOwn

\* A copy stays one while rows and results are only added to.
LEMMA CopyStays ==
    ASSUME RowsGrow, NEW p \in PhotoIds, NEW c, CopyOf(photos, results, p, c)
    PROVE  CopyOf(photos', results', p, c)
  BY DEF RowsGrow, CopyOf

\* Saving a copy adds no row, changes no key, and leaves every row in order.
LEMMA SaveCopy ==
    ASSUME PhotosOK, RowsOK, NEW p \in PhotoIds, NEW c \in PhotoRow,
           CopyOf(photos, results, p, c), SavePhoto(p, c), UNCHANGED results
    PROVE  RowsGrow /\ RowsOK' /\ DOMAIN photos' = DOMAIN photos
  <1>1. /\ DOMAIN photos' = DOMAIN photos
        /\ photos'[p] = c
        /\ \A q \in DOMAIN photos \ {p} : photos'[q] = photos[q]
    BY SaveType DEF CopyOf
  <1>2. RowsGrow
    BY <1>1 DEF RowsGrow, CopyOf
  <1>3. CopyOf(photos', results', p, c)
    BY <1>2, CopyStays
  <1>4. ASSUME NEW q \in DOMAIN photos \ {p}
        PROVE  CopyOf(photos', results', q, photos'[q])
    <2>1. CopyOf(photos, results, q, photos[q]) /\ q \in PhotoIds
      BY DEF RowsOK, PhotosOK
    <2> QED BY <1>1, <1>2, <2>1, CopyStays
  <1> QED BY <1>1, <1>2, <1>3, <1>4 DEF RowsOK

\* Rows that nobody writes stay in order while results are added.
LEMMA RowsStay ==
    ASSUME PhotosOK, RowsOK, RowsGrow, UNCHANGED photos
    PROVE  RowsOK'
  <1>1. ASSUME NEW p \in DOMAIN photos
        PROVE  CopyOf(photos', results', p, photos'[p])
    <2>1. CopyOf(photos, results, p, photos[p]) /\ p \in PhotoIds
      BY DEF RowsOK, PhotosOK
    <2> QED BY <2>1, CopyStays
  <1> QED BY <1>1 DEF RowsOK

\* An attempt that moves leaves the others as they are.
LEMMA AttemptMoves ==
    ASSUME AttemptsOK, RowsGrow, NEW p \in PhotoIds,
           \A q \in PhotoIds \ {p} : attempt'[q] = attempt[q],
           attempt'[p] # Off => AttemptOK(photos', results', p, attempt'[p])
    PROVE  AttemptsOK'
  <1>1. ASSUME NEW q \in PhotoIds \ {p}, attempt[q] # Off
        PROVE  AttemptOK(photos', results', q, attempt[q])
    <2>1. AttemptOK(photos, results, q, attempt[q])
      BY <1>1 DEF AttemptsOK
    <2>2. CopyOf(photos', results', q, attempt[q].photo)
      BY <2>1, CopyStays DEF AttemptOK
    <2> QED BY <2>1, <2>2 DEF AttemptOK, RowsGrow
  <1> QED BY <1>1 DEF AttemptsOK

\* So does a handler of photos.
LEMMA DeskMoves ==
    ASSUME DesksOK, RowsGrow, desk \in [Desks -> Desk], NEW d \in Desks,
           \A x \in Desks \ {d} : desk'[x] = desk[x],
           desk'[d].step \in Carrying => CopyOf(photos', results', desk'[d].id, desk'[d].photo)
    PROVE  DesksOK'
  <1>1. ASSUME NEW x \in Desks \ {d}, desk[x].step \in Carrying
        PROVE  CopyOf(photos', results', desk[x].id, desk[x].photo)
    <2>1. CopyOf(photos, results, desk[x].id, desk[x].photo) /\ desk[x].id \in PhotoIds
      BY <1>1, DeskType DEF DesksOK
    <2> QED BY <2>1, CopyStays
  <1> QED BY <1>1 DEF DesksOK

\* The mutators of the worker make copies of copies.
LEMMA WorkerCopy ==
    ASSUME NEW p \in PhotoIds, NEW c \in PhotoRow, CopyOf(photos, results, p, c), c.status # "reviewed"
    PROVE  /\ CopyOf(photos, results, p, Processing(c)) /\ Processing(c).status # "reviewed"
           /\ CopyOf(photos, results, p, Failed(c)) /\ Failed(c).status # "reviewed"
           /\ Completed(p) \in results[p] =>
                CopyOf(photos, results, p, Processed(c)) /\ Processed(c).status # "reviewed"
  BY DEF CopyOf, Coherent, PhotoRow, Processing, Failed, Processed

\* Those of the handlers of photos do, too.
LEMMA DeskCopy ==
    ASSUME NEW p \in PhotoIds, NEW c \in PhotoRow, CopyOf(photos, results, p, c)
    PROVE  /\ CopyOf(photos, results, p, Reviewed(c))
           /\ \A f \in Files : CopyOf(photos, results, p, SetRetouched(c, f))
  BY DEF CopyOf, Coherent, PhotoRow, Reviewed, SetRetouched

\* Every step of an attempt keeps the copies in order, its own among them.
LEMMA WorkerCopies ==
    ASSUME TypesInductive, CopiesOK, NEW p \in PhotoIds,
           AttemptStep(p) \/ WorkerDies(p), UNCHANGED desk
    PROVE  CopiesOK' /\ RowsGrow /\ DOMAIN photos' = DOMAIN photos
  <1> USE DEF rowVars
  <1>0. /\ JobTypeOK /\ PhotosOK /\ desk \in [Desks -> Desk]
        /\ attempt \in [PhotoIds -> Attempt] /\ jobs \in [PhotoIds -> Job]
        /\ results \in [PhotoIds -> SUBSET Result]
        /\ RowsOK /\ AttemptsOK /\ DesksOK /\ ResultsOwn
    BY DEF TypesInductive, PipelineTypeOK, JobTypeOK, PhotosOK, CopiesOK
  <1>a. ASSUME attempt[p].step \in {"claim", "classify", "finish", "fail", "failed"}
        PROVE  /\ attempt[p].photo \in PhotoRow
               /\ AttemptOK(photos, results, p, attempt[p])
               /\ CopyOf(photos, results, p, attempt[p].photo)
               /\ attempt[p].photo.status # "reviewed"
    BY <1>0, <1>a, AttemptType DEF AttemptsOK, AttemptOK
  <1>b. ASSUME RowsGrow
        PROVE  DesksOK'
    <2>1. ASSUME NEW x \in Desks, desk[x].step \in Carrying
          PROVE  CopyOf(photos', results', desk[x].id, desk[x].photo)
      <3>1. CopyOf(photos, results, desk[x].id, desk[x].photo) /\ desk[x].id \in PhotoIds
        BY <1>0, <2>1, DeskType DEF DesksOK
      <3> QED BY <1>b, <3>1, CopyStays
    <2> QED BY <2>1 DEF DesksOK
  <1>c. ASSUME UNCHANGED <<photos, results>>
        PROVE  RowsGrow /\ RowsOK' /\ ResultsOwn' /\ DOMAIN photos' = DOMAIN photos
    BY <1>0, <1>c DEF RowsGrow, RowsOK, ResultsOwn
  <1>d. ASSUME NEW step, NEW c, Continue(p, step, c), RowsGrow,
               CopyOf(photos', results', p, c), c.status # "reviewed",
               step = "finish" => Completed(p) \in results'[p]
        PROVE  AttemptsOK'
    <2>1. /\ attempt'[p] = [step |-> step, photo |-> c]
          /\ \A q \in PhotoIds \ {p} : attempt'[q] = attempt[q]
      BY <1>0, <1>d DEF Continue
    <2>2. AttemptOK(photos', results', p, attempt'[p])
      BY <1>d, <2>1 DEF AttemptOK
    <2> QED BY <1>0, <1>d, <2>1, <2>2, AttemptMoves
  <1>e. ASSUME ResultsOwn, PhotosOK, UNCHANGED results
        PROVE  ResultsOwn'
    BY <1>e DEF ResultsOwn
  <1>1. CASE StartAttempt(p)
    <2>1. RowsGrow /\ RowsOK' /\ ResultsOwn' /\ DOMAIN photos' = DOMAIN photos
      BY <1>1, <1>c DEF StartAttempt
    <2>2. CASE p \in DOMAIN photos /\ AllowedStatus(photos[p])
      <3>1. /\ attempt'[p] = [step |-> "claim", photo |-> photos[p]]
            /\ \A q \in PhotoIds \ {p} : attempt'[q] = attempt[q]
            /\ UNCHANGED <<photos, results>>
        BY <1>0, <1>1, <2>2 DEF StartAttempt
      <3>2. CopyOf(photos, results, p, photos[p]) /\ photos[p].status # "reviewed"
        BY <1>0, <2>2 DEF RowsOK, AllowedStatus
      <3>3. AttemptOK(photos', results', p, attempt'[p])
        BY <3>1, <3>2 DEF AttemptOK
      <3>4. AttemptsOK'
        BY <1>0, <2>1, <3>1, <3>3, AttemptMoves
      <3> QED BY <2>1, <3>4, <1>b DEF CopiesOK
    <2>3. CASE ~(p \in DOMAIN photos /\ AllowedStatus(photos[p]))
      <3>1. /\ attempt'[p] = Off /\ \A q \in PhotoIds \ {p} : attempt'[q] = attempt[q]
        BY <1>0, <1>1, <2>3 DEF StartAttempt, AttemptEnds
      <3>2. AttemptsOK'
        BY <1>0, <2>1, <3>1, AttemptMoves
      <3> QED BY <2>1, <3>2, <1>b DEF CopiesOK
    <2> QED BY <2>2, <2>3
  <1>2. CASE SaveProcessing(p)
    <2> DEFINE c == Processing(attempt[p].photo)
    <2>1. c \in PhotoRow /\ CopyOf(photos, results, p, c) /\ c.status # "reviewed"
      BY <1>2, <1>a, PhotoType, WorkerCopy DEF SaveProcessing
    <2>2. SavePhoto(p, c) /\ Continue(p, "classify", c) /\ UNCHANGED results
      BY <1>2 DEF SaveProcessing
    <2> HIDE DEF c
    <2>3. RowsGrow /\ RowsOK' /\ DOMAIN photos' = DOMAIN photos
      BY <1>0, <2>1, <2>2, SaveCopy
    <2>4. CopyOf(photos', results', p, c)
      BY <2>1, <2>3, CopyStays
    <2>5. AttemptsOK'
      BY <2>1, <2>2, <2>3, <2>4, <1>d
    <2> QED BY <1>0, <2>2, <2>3, <2>5, <1>b, <1>e DEF CopiesOK
  <1>3. CASE SaveProcessingThrows(p) \/ ServiceUnavailable(p) \/ WorkerDies(p)
    <2>1. attempt'[p] = Off /\ \A q \in PhotoIds \ {p} : attempt'[q] = attempt[q]
      BY <1>0, <1>3 DEF SaveProcessingThrows, ServiceUnavailable, WorkerDies, AttemptEnds
    <2>2. RowsGrow /\ RowsOK' /\ ResultsOwn' /\ DOMAIN photos' = DOMAIN photos
      BY <1>3, <1>c DEF SaveProcessingThrows, ServiceUnavailable, WorkerDies
    <2>3. AttemptsOK'
      BY <1>0, <2>1, <2>2, AttemptMoves
    <2> QED BY <2>2, <2>3, <1>b DEF CopiesOK
  <1>4. CASE PersistResult(p)
    <2>1. PICK answer \in PipelineAnswer :
             /\ Classify(p, answer) = "response"
             /\ results' = [results EXCEPT ![p] = @ \cup {Completed(answer.image)}]
      BY <1>4 DEF PersistResult
    <2>2. answer.image = p
      BY <2>1 DEF Classify
    <2>3. /\ \A q \in PhotoIds \ {p} : results'[q] = results[q]
          /\ results'[p] = results[p] \cup {Completed(p)}
          /\ UNCHANGED photos /\ Continue(p, "finish", attempt[p].photo)
      BY <1>0, <1>4, <2>1, <2>2 DEF PersistResult
    <2>4. RowsGrow /\ DOMAIN photos' = DOMAIN photos
      BY <2>3 DEF RowsGrow
    <2>5. RowsOK'
      BY <1>0, <2>3, <2>4, RowsStay
    <2>6. ResultsOwn'
      BY <1>0, <2>3 DEF ResultsOwn, Completed
    <2>7. CopyOf(photos', results', p, attempt[p].photo) /\ attempt[p].photo.status # "reviewed"
      BY <1>4, <1>a, <2>4, CopyStays DEF PersistResult
    <2>8. AttemptsOK'
      <3> DEFINE c == attempt[p].photo
      <3> HIDE DEF c
      <3>1. Continue(p, "finish", c) /\ CopyOf(photos', results', p, c) /\ c.status # "reviewed"
        BY <2>3, <2>7 DEF c
      <3> QED BY <2>3, <2>4, <3>1, <1>d
    <2> QED BY <2>4, <2>5, <2>6, <2>8, <1>b DEF CopiesOK
  <1>5. CASE SaveProcessed(p)
    <2>1. Completed(p) \in results[p]
      BY <1>5, <1>a DEF SaveProcessed, AttemptOK
    <2>2. /\ Processed(attempt[p].photo) \in PhotoRow
          /\ CopyOf(photos, results, p, Processed(attempt[p].photo))
      BY <1>5, <1>a, <2>1, PhotoType, WorkerCopy DEF SaveProcessed
    <2>3. RowsGrow /\ RowsOK' /\ DOMAIN photos' = DOMAIN photos
      BY <1>0, <1>5, <2>2, SaveCopy DEF SaveProcessed
    <2>4. attempt'[p] = Off /\ \A q \in PhotoIds \ {p} : attempt'[q] = attempt[q]
      BY <1>0, <1>5 DEF SaveProcessed, AttemptEnds
    <2>5. AttemptsOK'
      BY <1>0, <2>3, <2>4, AttemptMoves
    <2> QED BY <1>0, <1>5, <2>3, <2>5, <1>b, <1>e DEF CopiesOK, SaveProcessed
  <1>6. CASE ClassifyThrows(p)
    <2>1. RowsGrow /\ RowsOK' /\ ResultsOwn' /\ DOMAIN photos' = DOMAIN photos
      BY <1>6, <1>c DEF ClassifyThrows
    <2>2. CASE Continue(p, "fail", attempt[p].photo)
      <3>1. CopyOf(photos', results', p, attempt[p].photo) /\ attempt[p].photo.status # "reviewed"
        BY <1>6, <1>a, <2>1, CopyStays DEF ClassifyThrows
      <3>2. AttemptsOK'
        BY <2>1, <2>2, <3>1, <1>d
      <3> QED BY <2>1, <3>2, <1>b DEF CopiesOK
    <2>3. CASE attempt[p].step = "finish" /\ Continue(p, "fail", Processed(attempt[p].photo))
      <3>1. Completed(p) \in results[p]
        BY <2>3, <1>a DEF AttemptOK
      <3>2. /\ CopyOf(photos, results, p, Processed(attempt[p].photo))
            /\ Processed(attempt[p].photo).status # "reviewed"
        BY <2>3, <1>a, <3>1, WorkerCopy
      <3>3. CopyOf(photos', results', p, Processed(attempt[p].photo))
        BY <2>1, <3>2, CopyStays
      <3>4. AttemptsOK'
        BY <2>1, <2>3, <3>2, <3>3, <1>d
      <3> QED BY <2>1, <3>4, <1>b DEF CopiesOK
    <2> QED BY <1>6, <2>2, <2>3 DEF ClassifyThrows
  <1>7. CASE PersistFailure(p)
    <2>1. /\ UNCHANGED photos /\ Continue(p, "failed", attempt[p].photo)
          /\ \A q \in PhotoIds \ {p} : results'[q] = results[q]
          /\ results'[p] = results[p] \/ results'[p] = results[p] \cup {[status |-> "failed"]}
      BY <1>0, <1>7 DEF PersistFailure
    <2>2. RowsGrow /\ DOMAIN photos' = DOMAIN photos
      BY <2>1 DEF RowsGrow
    <2>3. RowsOK'
      BY <1>0, <2>1, <2>2, RowsStay
    <2>4. ResultsOwn'
      BY <1>0, <2>1 DEF ResultsOwn
    <2>5. CopyOf(photos', results', p, attempt[p].photo) /\ attempt[p].photo.status # "reviewed"
      BY <1>7, <1>a, <2>2, CopyStays DEF PersistFailure
    <2>6. AttemptsOK'
      BY <2>1, <2>2, <2>5, <1>d
    <2> QED BY <2>2, <2>3, <2>4, <2>6, <1>b DEF CopiesOK
  <1>8. CASE SaveFailed(p)
    <2>1. /\ Failed(attempt[p].photo) \in PhotoRow
          /\ CopyOf(photos, results, p, Failed(attempt[p].photo))
      BY <1>8, <1>a, PhotoType, WorkerCopy DEF SaveFailed
    <2>2. RowsGrow /\ RowsOK' /\ DOMAIN photos' = DOMAIN photos
      BY <1>0, <1>8, <1>c, <2>1, SaveCopy DEF SaveFailed
    <2>3. attempt'[p] = Off /\ \A q \in PhotoIds \ {p} : attempt'[q] = attempt[q]
      BY <1>0, <1>8 DEF SaveFailed, AttemptEnds
    <2>4. AttemptsOK'
      BY <1>0, <2>2, <2>3, AttemptMoves
    <2> QED BY <1>0, <1>8, <2>2, <2>4, <1>b, <1>e DEF CopiesOK, SaveFailed
  <1> QED BY <1>1, <1>2, <1>3, <1>4, <1>5, <1>6, <1>7, <1>8 DEF AttemptStep

\* A batch adds rows of new photos with keys of their own, and changes none.
LEMMA SaveManyAdds ==
    ASSUME TypesInductive, NEW batch \in SUBSET Keys, NEW ids \in [batch -> Fresh], SaveMany(ids)
    PROVE  /\ DOMAIN photos \subseteq DOMAIN photos'
           /\ \A p \in DOMAIN photos : photos'[p] = photos[p]
           /\ \A p \in DOMAIN photos' \ DOMAIN photos :
                /\ p \in PhotoIds
                /\ \E k \in batch : /\ photos'[p] = NewPhoto(k)
                                   /\ ids[k] = p
                                   /\ k \notin {photos[q].key : q \in DOMAIN photos}
  <1> DEFINE new == {k \in DOMAIN ids : k \notin {photos[p].key : p \in DOMAIN photos}}
  <1>1. photos' = [p \in DOMAIN photos \cup {ids[k] : k \in new} |->
                     IF p \in DOMAIN photos THEN photos[p]
                     ELSE NewPhoto(CHOOSE k \in new : ids[k] = p)]
    BY DEF SaveMany
  <1>2. /\ new \subseteq batch
        /\ \A k \in new : k \notin {photos[p].key : p \in DOMAIN photos} /\ ids[k] \in PhotoIds
    BY DEF Fresh
  <1> HIDE DEF new
  <1>3. DOMAIN photos' = DOMAIN photos \cup {ids[k] : k \in new}
    BY <1>1
  <1>4. ASSUME NEW p \in DOMAIN photos', p \notin DOMAIN photos
        PROVE  /\ p \in PhotoIds
               /\ \E k \in batch : /\ photos'[p] = NewPhoto(k)
                                  /\ ids[k] = p
                                  /\ k \notin {photos[q].key : q \in DOMAIN photos}
    <2> DEFINE k == CHOOSE k \in new : ids[k] = p
    <2>1. k \in new /\ ids[k] = p
      BY <1>3, <1>4
    <2>2. photos'[p] = NewPhoto(k)
      BY <1>1, <1>3, <1>4
    <2> HIDE DEF k
    <2> QED BY <1>2, <2>1, <2>2
  <1> QED BY <1>1, <1>3, <1>4

\* A new photo is pending, which says nothing.
LEMMA NewPhotoOK ==
    ASSUME NEW rows, NEW stored, NEW p \in DOMAIN rows, NEW k, rows[p] = NewPhoto(k)
    PROVE  CopyOf(rows, stored, p, rows[p])
  BY DEF CopyOf, Coherent, NewPhoto

\* Every step of a handler of photos, and its failure, keeps the copies in order.
LEMMA DeskCopies ==
    ASSUME TypesInductive, CopiesOK, NEW d \in Desks, DeskStep(d) \/ DeskFails(d)
    PROVE  CopiesOK' /\ RowsGrow /\ (DOMAIN photos' = DOMAIN photos \/ ConfirmBatch(d))
  <1> USE DEF rowVars, jobVars
  <1>0. /\ JobTypeOK /\ PhotosOK /\ desk \in [Desks -> Desk]
        /\ RowsOK /\ AttemptsOK /\ DesksOK /\ ResultsOwn
    BY DEF TypesInductive, PipelineTypeOK, PhotosOK, CopiesOK
  <1>a. UNCHANGED <<attempt, results>>
    BY DEF DeskStep, DeskFails, ConfirmBatch, EnqueueJobs, MarkReviewed, SaveReviewed, ConfirmRetouched,
           DeleteOldFile, SaveRetouched, AnnounceCompleted
  <1>b. ASSUME RowsGrow
        PROVE  AttemptsOK' /\ ResultsOwn'
    <2>1. ASSUME NEW p \in PhotoIds, attempt[p] # Off
          PROVE  AttemptOK(photos', results', p, attempt[p])
      <3>1. AttemptOK(photos, results, p, attempt[p])
        BY <1>0, <2>1 DEF AttemptsOK
      <3>2. CopyOf(photos', results', p, attempt[p].photo)
        BY <1>b, <3>1, CopyStays DEF AttemptOK
      <3> QED BY <1>a, <3>1, <3>2 DEF AttemptOK
    <2> QED BY <1>0, <1>a, <2>1 DEF AttemptsOK, ResultsOwn
  <1>c. ASSUME UNCHANGED photos
        PROVE  RowsGrow /\ RowsOK' /\ DOMAIN photos' = DOMAIN photos
    BY <1>0, <1>a, <1>c DEF RowsGrow, RowsOK
  <1>d. ASSUME NEW state, Goto(d, state), RowsGrow,
               state.step \in Carrying => CopyOf(photos', results', state.id, state.photo)
        PROVE  DesksOK'
    <2>1. desk'[d] = state /\ \A x \in Desks \ {d} : desk'[x] = desk[x]
      BY <1>0, <1>d DEF Goto
    <2> QED BY <1>0, <1>d, <2>1, DeskMoves
  <1>e. ASSUME desk[d].step \in Carrying
        PROVE  /\ desk[d].id \in PhotoIds /\ desk[d].photo \in PhotoRow
               /\ CopyOf(photos, results, desk[d].id, desk[d].photo)
    BY <1>0, <1>e, DeskType DEF DesksOK
  <1>1. CASE ConfirmBatch(d)
    <2>0. PICK batch \in (SUBSET Keys) \ {{}} : \E ids \in [batch -> Fresh] :
             SaveMany(ids) /\ Begin(d, [step |-> "enqueue", ids |-> ids])
      BY <1>1 DEF ConfirmBatch
    <2>1. PICK ids \in [batch -> Fresh] :
             SaveMany(ids) /\ Begin(d, [step |-> "enqueue", ids |-> ids])
      BY <2>0
    <2>2. /\ DOMAIN photos \subseteq DOMAIN photos'
          /\ \A p \in DOMAIN photos : photos'[p] = photos[p]
          /\ \A p \in DOMAIN photos' \ DOMAIN photos : \E k \in batch : photos'[p] = NewPhoto(k)
      BY <2>1, SaveManyAdds
    <2>3. RowsGrow
      BY <1>a, <2>2 DEF RowsGrow
    <2>4. RowsOK'
      <3>1. ASSUME NEW p \in DOMAIN photos
            PROVE  CopyOf(photos', results', p, photos'[p])
        <4>1. CopyOf(photos, results, p, photos[p]) /\ p \in PhotoIds
          BY <1>0 DEF RowsOK, PhotosOK
        <4> QED BY <2>2, <2>3, <4>1, CopyStays
      <3>2. ASSUME NEW p \in DOMAIN photos' \ DOMAIN photos
            PROVE  CopyOf(photos', results', p, photos'[p])
        BY <2>2, NewPhotoOK
      <3> QED BY <3>1, <3>2 DEF RowsOK
    <2>5. DesksOK'
      <3> DEFINE state == [step |-> "enqueue", ids |-> ids]
      <3>1. Goto(d, state) /\ state.step \notin Carrying
        BY <2>1 DEF Begin, Carrying
      <3> HIDE DEF state
      <3> QED BY <2>3, <3>1, <1>d
    <2> QED BY <1>1, <2>3, <2>4, <2>5, <1>b DEF CopiesOK
  <1>2. ASSUME Finish(d), UNCHANGED photos
        PROVE  CopiesOK' /\ RowsGrow /\ DOMAIN photos' = DOMAIN photos
    <2>1. Goto(d, Idle) /\ Idle.step \notin Carrying
      BY <1>2 DEF Finish, Idle, Carrying
    <2> QED BY <1>2, <1>b, <1>c, <1>d, <2>1 DEF CopiesOK
  <1>3. CASE EnqueueJobs(d) \/ AnnounceCompleted(d) \/ DeskFails(d)
    BY <1>2, <1>3 DEF EnqueueJobs, AnnounceCompleted, DeskFails
  <1>4. ASSUME NEW p \in DOMAIN photos, NEW state, Goto(d, state), UNCHANGED photos,
               state.id = p, state.photo = photos[p]
        PROVE  CopiesOK' /\ RowsGrow /\ DOMAIN photos' = DOMAIN photos
    <2>1. CopyOf(photos', results', p, photos[p])
      BY <1>0, <1>a, <1>4 DEF RowsOK
    <2> QED BY <1>4, <1>b, <1>c, <1>d, <2>1 DEF CopiesOK
  <1>5. ASSUME NEW p \in PhotoIds, MarkReviewed(d, p)
        PROVE  CopiesOK' /\ RowsGrow /\ DOMAIN photos' = DOMAIN photos
    <2> DEFINE state == [step |-> "review", id |-> p, photo |-> photos[p]]
    <2>1. Goto(d, state) /\ UNCHANGED photos /\ p \in DOMAIN photos
      BY <1>5 DEF MarkReviewed, Begin
    <2>2. state.id = p /\ state.photo = photos[p]
      OBVIOUS
    <2> HIDE DEF state
    <2> QED BY <1>4, <2>1, <2>2
  <1>6. ASSUME NEW p \in PhotoIds, NEW f \in Files, ConfirmRetouched(d, p, f)
        PROVE  CopiesOK' /\ RowsGrow /\ DOMAIN photos' = DOMAIN photos
    <2> DEFINE state == [step |-> IF photos[p].retouched = NoFile THEN "retouch" ELSE "delete",
                         id |-> p, photo |-> photos[p], file |-> f]
    <2>1. Goto(d, state) /\ UNCHANGED photos /\ p \in DOMAIN photos
      BY <1>6 DEF ConfirmRetouched, Begin
    <2>2. state.id = p /\ state.photo = photos[p]
      OBVIOUS
    <2> HIDE DEF state
    <2> QED BY <1>4, <2>1, <2>2
  <1>7. CASE SaveReviewed(d)
    <2>1. /\ desk[d].id \in PhotoIds /\ Reviewed(desk[d].photo) \in PhotoRow
          /\ CopyOf(photos, results, desk[d].id, Reviewed(desk[d].photo))
      <3>1. /\ desk[d].id \in PhotoIds /\ desk[d].photo \in PhotoRow
            /\ CopyOf(photos, results, desk[d].id, desk[d].photo)
        BY <1>7, <1>e DEF SaveReviewed, Carrying
      <3> QED BY <3>1, PhotoType, DeskCopy
    <2>2. RowsGrow /\ RowsOK' /\ DOMAIN photos' = DOMAIN photos
      BY <1>0, <1>7, <1>a, <2>1, SaveCopy DEF SaveReviewed
    <2>3. Goto(d, Idle) /\ Idle.step \notin Carrying
      BY <1>7 DEF SaveReviewed, Finish, Idle, Carrying
    <2> QED BY <1>b, <1>d, <2>2, <2>3 DEF CopiesOK
  <1>8. CASE DeleteOldFile(d)
    <2> DEFINE state == [desk[d] EXCEPT !.step = "retouch"]
    <2>1. Goto(d, state) /\ UNCHANGED photos
      BY <1>8 DEF DeleteOldFile
    <2>2. /\ state.id = desk[d].id /\ state.photo = desk[d].photo
          /\ CopyOf(photos, results, desk[d].id, desk[d].photo)
      BY <1>0, <1>8, <1>e, DeskType DEF DeleteOldFile, Carrying
    <2> HIDE DEF state
    <2>3. CopyOf(photos', results', state.id, state.photo)
      BY <1>a, <2>1, <2>2
    <2> QED BY <1>b, <1>c, <1>d, <2>1, <2>3 DEF CopiesOK
  <1>9. CASE SaveRetouched(d)
    <2>1. /\ desk[d].id \in PhotoIds /\ desk[d].photo \in PhotoRow /\ desk[d].file \in Files
          /\ CopyOf(photos, results, desk[d].id, desk[d].photo)
      BY <1>0, <1>9, <1>e, DeskType DEF SaveRetouched, Carrying
    <2>2. /\ SetRetouched(desk[d].photo, desk[d].file) \in PhotoRow
          /\ CopyOf(photos, results, desk[d].id, SetRetouched(desk[d].photo, desk[d].file))
      BY <2>1, PhotoType, DeskCopy
    <2>3. RowsGrow /\ RowsOK' /\ DOMAIN photos' = DOMAIN photos
      BY <1>0, <1>9, <1>a, <2>1, <2>2, SaveCopy DEF SaveRetouched
    <2> DEFINE state == [step |-> "announce", id |-> desk[d].id]
    <2>4. Goto(d, state) /\ state.step \notin Carrying
      BY <1>9 DEF SaveRetouched, Carrying
    <2> HIDE DEF state
    <2> QED BY <1>b, <1>d, <2>3, <2>4 DEF CopiesOK
  <1> QED BY <1>1, <1>3, <1>5, <1>6, <1>7, <1>8, <1>9 DEF DeskStep

\* Every step of the pipeline keeps the copies in order, and only ever adds rows
\* and results.
LEMMA CopiesStep ==
    ASSUME TypesInductive, CopiesOK, [PipelineNext]_pipelineVars
    PROVE  CopiesOK' /\ RowsGrow
  <1>1. ASSUME NEW p \in PhotoIds, AttemptStep(p) \/ WorkerDies(p), UNCHANGED desk
        PROVE  CopiesOK' /\ RowsGrow
    BY <1>1, WorkerCopies
  <1>2. ASSUME NEW d \in Desks, DeskStep(d) \/ DeskFails(d)
        PROVE  CopiesOK' /\ RowsGrow
    BY <1>2, DeskCopies
  <1>3. CASE OrderStep \/ UNCHANGED pipelineVars
    <2>1. UNCHANGED <<rowVars, jobVars, desk>>
      BY <1>3 DEF OrderStep, PlaceOrder, PayOrder, SetRetouchFlag, pipelineVars
    <2> QED BY <2>1 DEF rowVars, jobVars, CopiesOK, RowsOK, AttemptsOK, DesksOK, ResultsOwn, RowsGrow
  <1> QED BY <1>1, <1>2, <1>3 DEF PipelineNext, WorkerStep

-----------------------------------------------------------------------------
(* One photo per upload.                                                   *)

\* A batch gives no key a second photo.
LEMMA BatchKeepsKeys ==
    ASSUME TypesInductive, OnePhotoPerUpload, NEW d \in Desks, ConfirmBatch(d)
    PROVE  OnePhotoPerUpload'
  <1>0. PICK batch \in (SUBSET Keys) \ {{}} : \E ids \in [batch -> Fresh] :
             Injective(ids) /\ SaveMany(ids)
    BY DEF ConfirmBatch
  <1>1. PICK ids \in [batch -> Fresh] : Injective(ids) /\ SaveMany(ids)
    BY <1>0
  <1>2. /\ \A p \in DOMAIN photos : photos'[p] = photos[p]
        /\ \A p \in DOMAIN photos' \ DOMAIN photos : \E k \in batch :
             photos'[p] = NewPhoto(k) /\ ids[k] = p /\ k \notin {photos[q].key : q \in DOMAIN photos}
    BY <1>1, SaveManyAdds
  <1>3. \A p \in DOMAIN photos' \ DOMAIN photos :
           ids[photos'[p].key] = p /\ photos'[p].key \notin {photos[q].key : q \in DOMAIN photos}
    BY <1>2 DEF NewPhoto
  <1>4. ASSUME NEW p \in DOMAIN photos', NEW q \in DOMAIN photos', photos'[p].key = photos'[q].key
        PROVE  p = q
    <2>1. CASE p \in DOMAIN photos /\ q \in DOMAIN photos
      BY <1>2, <1>4, <2>1 DEF OnePhotoPerUpload
    <2>2. CASE p \in DOMAIN photos /\ q \notin DOMAIN photos
      BY <1>2, <1>3, <1>4, <2>2
    <2>3. CASE p \notin DOMAIN photos /\ q \in DOMAIN photos
      BY <1>2, <1>3, <1>4, <2>3
    <2>4. CASE p \notin DOMAIN photos /\ q \notin DOMAIN photos
      BY <1>3, <1>4, <2>4
    <2> QED BY <2>1, <2>2, <2>3, <2>4
  <1> QED BY <1>4 DEF OnePhotoPerUpload

\* Nothing else adds a row, and nothing changes a key.
LEMMA KeysStep ==
    ASSUME TypesInductive, CopiesOK, OnePhotoPerUpload, [PipelineNext]_pipelineVars
    PROVE  OnePhotoPerUpload'
  <1>1. RowsGrow
    BY CopiesStep
  <1>2. CASE DOMAIN photos' = DOMAIN photos
    BY <1>1, <1>2 DEF RowsGrow, OnePhotoPerUpload
  <1>3. CASE \E d \in Desks : ConfirmBatch(d)
    BY <1>3, BatchKeepsKeys
  <1>4. ASSUME NEW p \in PhotoIds, AttemptStep(p) \/ WorkerDies(p), UNCHANGED desk
        PROVE  DOMAIN photos' = DOMAIN photos
    BY <1>4, WorkerCopies
  <1>5. ASSUME NEW d \in Desks, DeskStep(d) \/ DeskFails(d)
        PROVE  DOMAIN photos' = DOMAIN photos \/ ConfirmBatch(d)
    BY <1>5, DeskCopies
  <1>6. CASE OrderStep \/ UNCHANGED pipelineVars
    <2>1. UNCHANGED photos
      BY <1>6 DEF OrderStep, PlaceOrder, PayOrder, SetRetouchFlag, pipelineVars, rowVars
    <2> QED BY <2>1, <1>2
  <1> QED BY <1>2, <1>3, <1>4, <1>5, <1>6 DEF PipelineNext, WorkerStep

-----------------------------------------------------------------------------
(* Complete orders.                                                        *)

\* The query after a save and the operators' queue mean the same by complete.
LEMMA CompleteIsFull ==
    ASSUME NEW o \in DOMAIN ordered
    PROVE  FullyRetouched(o) <=> PendingItems(o) = {}
  BY DEF FullyRetouched, PendingItems, PendingPhoto

\* An order keeps its photos, and no order goes.
LEMMA OrdersKept ==
    ASSUME TypesInductive, [PipelineNext]_pipelineVars
    PROVE  /\ DOMAIN ordered \subseteq DOMAIN ordered'
           /\ \A o \in DOMAIN ordered : ordered'[o].photos = ordered[o].photos
           /\ announced \subseteq announced'
  <1>0. \A o \in DOMAIN ordered :
           ordered[o] \in [event : {EventOf[k] : k \in Keys}, photos : SUBSET DOMAIN photos, paid : BOOLEAN]
    BY DEF TypesInductive, PipelineTypeOK, RetouchTypeOK
  <1>1. CASE OrderStep
    <2>1. ASSUME NEW o \in OrderIds, PlaceOrder(o) \/ PayOrder(o)
          PROVE  /\ DOMAIN ordered \subseteq DOMAIN ordered'
                 /\ \A x \in DOMAIN ordered : ordered'[x].photos = ordered[x].photos
                 /\ announced' = announced
      BY <1>0, <2>1 DEF PlaceOrder, PayOrder, Upsert
    <2>2. ASSUME NEW p \in PhotoIds, NEW requires \in BOOLEAN, SetRetouchFlag(p, requires)
          PROVE  UNCHANGED <<ordered, announced>>
      BY <2>2 DEF SetRetouchFlag
    <2> QED BY <1>1, <2>1, <2>2 DEF OrderStep
  <1>2. CASE ~OrderStep
    <2>1. UNCHANGED ordered /\ announced \subseteq announced'
      BY <1>2 DEF PipelineNext, pipelineVars, retouchVars, WorkerStep, WorkerDies, DeskStep, DeskFails, ConfirmBatch,
           EnqueueJobs, MarkReviewed, SaveReviewed, ConfirmRetouched, DeleteOldFile, SaveRetouched, AnnounceCompleted
    <2> QED BY <2>1
  <1> QED BY <1>1, <1>2

\* A handler that has yet to look stays so until it looks or fails.
LEMMA AwaitedUntil ==
    ASSUME TypesInductive, [PipelineNext]_pipelineVars, NEW d \in Desks, desk[d].step = "announce"
    PROVE  desk'[d] = desk[d] \/ AnnounceCompleted(d) \/ (DeskFails(d) /\ OverlookFailed(d))
  <1>0. desk \in [Desks -> Desk] /\ desk[d] # Idle
    BY DEF TypesInductive, PipelineTypeOK, Idle
  <1>1. ASSUME NEW x \in Desks, DeskStep(x)
        PROVE  desk'[d] = desk[d] \/ AnnounceCompleted(d)
    <2>1. CASE AnnounceCompleted(x)
      BY <1>0, <2>1 DEF AnnounceCompleted, Finish, Goto
    <2>2. CASE ~AnnounceCompleted(x)
      BY <1>0, <1>1, <2>2 DEF DeskStep, ConfirmBatch, EnqueueJobs, MarkReviewed, SaveReviewed, ConfirmRetouched,
           DeleteOldFile, SaveRetouched, Begin, Finish, Goto
    <2> QED BY <2>1, <2>2
  <1>2. ASSUME NEW x \in Desks, DeskFails(x), OverlookFailed(x)
        PROVE  desk'[d] = desk[d] \/ (DeskFails(d) /\ OverlookFailed(d))
    BY <1>0, <1>2 DEF DeskFails, Finish, Goto
  <1> QED BY <1>1, <1>2 DEF PipelineNext, pipelineVars, WorkerStep, OrderStep

\* Every step keeps complete orders seen to.
LEMMA CompleteStep ==
    ASSUME TypesInductive, CompleteSeen, [PipelineNext]_pipelineVars
    PROVE  CompleteSeen'
  <1> SUFFICES ASSUME NEW o \in DOMAIN ordered', PendingItems(o)' = {}
               PROVE  o \in announced' \cup quiet' \/ Awaited(o)'
    BY DEF CompleteSeen
  <1>0. /\ \A x \in DOMAIN ordered : ordered'[x].photos = ordered[x].photos
        /\ announced \subseteq announced'
        /\ \A d \in Desks : desk[d].step = "announce" =>
             desk'[d] = desk[d] \/ AnnounceCompleted(d) \/ (DeskFails(d) /\ OverlookFailed(d))
    BY OrdersKept, AwaitedUntil
  <1>1. quiet \subseteq quiet'
    BY DEF PipelineNext, Overlook, OverlookFailed, pipelineVars
  <1>2. ASSUME o \in DOMAIN ordered, PendingItems(o) = {}
        PROVE  o \in announced' \cup quiet' \/ Awaited(o)'
    <2>1. CASE o \in announced \cup quiet
      BY <1>0, <1>1, <2>1
    <2>2. ASSUME NEW d \in Desks, desk[d].step = "announce", desk[d].id \in ordered[o].photos
          PROVE  o \in announced' \cup quiet' \/ Awaited(o)'
      <3>1. CASE desk'[d] = desk[d]
        BY <1>0, <1>2, <2>2, <3>1 DEF Awaited
      <3>2. CASE AnnounceCompleted(d)
        BY <1>2, <2>2, <3>2, CompleteIsFull DEF AnnounceCompleted, OrdersFullyRetouchedBy
      <3>3. CASE OverlookFailed(d)
        BY <1>2, <2>2, <3>3 DEF OverlookFailed
      <3> QED BY <1>0, <2>2, <3>1, <3>2, <3>3
    <2> QED BY <1>2, <2>1, <2>2 DEF CompleteSeen, Awaited
  <1>3. CASE Overlook
    <2>1. Complete(o)'
      BY DEF Complete
    <2>2. CASE Complete(o)
      BY <1>2, <2>2 DEF Complete
    <2>3. CASE ~Complete(o)
      BY <1>3, <2>1, <2>3 DEF Overlook
    <2> QED BY <2>2, <2>3
  <1>4. CASE ~Overlook
    <2>1. UNCHANGED <<photos, ordered, dismissed>>
      BY <1>4 DEF PipelineNext, WorkerDies, DeskFails, rowVars, retouchVars, pipelineVars
    <2>2. o \in DOMAIN ordered /\ PendingItems(o) = {}
      BY <2>1 DEF PendingItems, PendingPhoto
    <2> QED BY <1>2, <2>2
  <1> QED BY <1>3, <1>4

-----------------------------------------------------------------------------
(* Reviews.                                                                *)

\* Of a settled photo no attempt is at work, and every copy is reviewed.
LEMMA SettledCopies ==
    ASSUME TypesInductive, CopiesOK, NEW p \in DOMAIN photos, Settled(p)
    PROVE  /\ attempt[p] = Off
           /\ \A d \in Desks : desk[d].step \in Carrying /\ desk[d].id = p =>
                desk[d].photo.status = "reviewed"
  <1>1. p \in PhotoIds
    BY DEF TypesInductive, PipelineTypeOK
  <1>2. attempt[p] = Off
    BY <1>1 DEF Settled, Held, CopiesOK, AttemptsOK, AttemptOK
  <1> QED BY <1>2 DEF Settled, Held, Carrying

\* Conversely, that is all it takes.
LEMMA SettledFrom ==
    ASSUME NEW p, photos'[p].status = "reviewed", attempt'[p] = Off,
           \A d \in Desks : desk'[d].step \in Carrying /\ desk'[d].id = p =>
                desk'[d].photo.status = "reviewed"
    PROVE  Settled(p)'
  BY DEF Settled, Held, Carrying

\* No step of an attempt, at this photo or at another, unsettles it.
LEMMA WorkerSettles ==
    ASSUME TypesInductive, CopiesOK, NEW p \in DOMAIN photos, Settled(p),
           NEW q \in PhotoIds, AttemptStep(q) \/ WorkerDies(q), UNCHANGED desk
    PROVE  Settled(p)'
  <1> USE DEF rowVars
  <1>0. /\ attempt[p] = Off /\ photos[p].status = "reviewed" /\ p \in PhotoIds
        /\ attempt \in [PhotoIds -> Attempt] /\ PhotosOK
        /\ \A d \in Desks : desk[d].step \in Carrying /\ desk[d].id = p => desk[d].photo.status = "reviewed"
    BY SettledCopies DEF Settled, TypesInductive, PipelineTypeOK, JobTypeOK, PhotosOK
  <1>1. CASE q = p
    <2>1. StartAttempt(p) \/ WorkerDies(p)
      BY <1>0, <1>1 DEF AttemptStep, SaveProcessing, SaveProcessingThrows, PersistResult, ServiceUnavailable,
           SaveProcessed, ClassifyThrows, PersistFailure, SaveFailed, Off
    <2>2. UNCHANGED photos /\ attempt'[p] = Off
      BY <1>0, <2>1 DEF StartAttempt, WorkerDies, AttemptEnds, AllowedStatus
    <2> QED BY <1>0, <2>2, SettledFrom
  <1>2. CASE q # p
    <2>1. attempt'[p] = attempt[p]
      BY <1>0, <1>2 DEF AttemptStep, WorkerDies, StartAttempt, SaveProcessing, SaveProcessingThrows, PersistResult,
           ServiceUnavailable, SaveProcessed, ClassifyThrows, PersistFailure, SaveFailed, AttemptEnds, Continue
    <2>2. photos'[p] = photos[p]
      BY <1>0, <1>2 DEF AttemptStep, WorkerDies, StartAttempt, SaveProcessing, SaveProcessingThrows, PersistResult,
           ServiceUnavailable, SaveProcessed, ClassifyThrows, PersistFailure, SaveFailed, SavePhoto, Upsert
    <2> QED BY <1>0, <2>1, <2>2, SettledFrom
  <1> QED BY <1>1, <1>2

\* Nor does any step of a handler of photos, or its failure.
LEMMA DeskSettles ==
    ASSUME TypesInductive, CopiesOK, NEW p \in DOMAIN photos, Settled(p),
           NEW d \in Desks, DeskStep(d) \/ DeskFails(d)
    PROVE  Settled(p)'
  <1> USE DEF rowVars, jobVars
  <1>0. /\ attempt[p] = Off /\ photos[p].status = "reviewed" /\ p \in PhotoIds
        /\ desk \in [Desks -> Desk] /\ PhotosOK
        /\ \A x \in Desks : desk[x].step \in Carrying /\ desk[x].id = p => desk[x].photo.status = "reviewed"
    BY SettledCopies DEF Settled, TypesInductive, PipelineTypeOK, PhotosOK
  <1>1. attempt' = attempt
    BY DEF DeskStep, DeskFails, ConfirmBatch, EnqueueJobs, MarkReviewed, SaveReviewed, ConfirmRetouched,
           DeleteOldFile, SaveRetouched, AnnounceCompleted
  <1>a. ASSUME NEW state, Goto(d, state), photos'[p].status = "reviewed",
               state.step \in Carrying /\ state.id = p => state.photo.status = "reviewed"
        PROVE  Settled(p)'
    <2>1. desk'[d] = state /\ \A x \in Desks \ {d} : desk'[x] = desk[x]
      BY <1>0, <1>a DEF Goto
    <2> QED BY <1>0, <1>1, <1>a, <2>1, SettledFrom
  <1>b. Idle.step \notin Carrying
    BY DEF Idle, Carrying
  <1>2. CASE ConfirmBatch(d)
    <2>0. PICK batch \in (SUBSET Keys) \ {{}} : \E ids \in [batch -> Fresh] :
             SaveMany(ids) /\ Begin(d, [step |-> "enqueue", ids |-> ids])
      BY <1>2 DEF ConfirmBatch
    <2>1. PICK ids \in [batch -> Fresh] :
             SaveMany(ids) /\ Begin(d, [step |-> "enqueue", ids |-> ids])
      BY <2>0
    <2>2. photos'[p] = photos[p]
      BY <2>1, SaveManyAdds
    <2> DEFINE state == [step |-> "enqueue", ids |-> ids]
    <2>3. Goto(d, state) /\ state.step \notin Carrying
      BY <2>1 DEF Begin, Carrying
    <2> HIDE DEF state
    <2> QED BY <1>0, <1>a, <2>2, <2>3
  <1>3. CASE EnqueueJobs(d) \/ AnnounceCompleted(d) \/ DeskFails(d)
    BY <1>0, <1>3, <1>a, <1>b DEF EnqueueJobs, AnnounceCompleted, DeskFails, Finish
  <1>4. ASSUME NEW q \in PhotoIds, MarkReviewed(d, q)
        PROVE  Settled(p)'
    <2> DEFINE state == [step |-> "review", id |-> q, photo |-> photos[q]]
    <2>1. Goto(d, state) /\ UNCHANGED photos /\ state.id = q /\ state.photo = photos[q]
      BY <1>4 DEF MarkReviewed, Begin
    <2> HIDE DEF state
    <2> QED BY <1>0, <1>a, <2>1
  <1>5. ASSUME NEW q \in PhotoIds, NEW f \in Files, ConfirmRetouched(d, q, f)
        PROVE  Settled(p)'
    <2> DEFINE state == [step |-> IF photos[q].retouched = NoFile THEN "retouch" ELSE "delete",
                         id |-> q, photo |-> photos[q], file |-> f]
    <2>1. Goto(d, state) /\ UNCHANGED photos /\ state.id = q /\ state.photo = photos[q]
      BY <1>5 DEF ConfirmRetouched, Begin
    <2> HIDE DEF state
    <2> QED BY <1>0, <1>a, <2>1
  <1>6. ASSUME NEW c, desk[d].step \in Carrying, SavePhoto(desk[d].id, c), desk[d].id = p => c.status = "reviewed"
        PROVE  photos'[p].status = "reviewed"
    BY <1>0, <1>6 DEF SavePhoto, Upsert
  <1>7. CASE SaveReviewed(d)
    <2>1. Reviewed(desk[d].photo).status = "reviewed" /\ desk[d].step \in Carrying
      <3>1. desk[d].photo \in PhotoRow
        BY <1>0, <1>7, DeskType DEF SaveReviewed, Carrying
      <3> QED BY <1>7, <3>1 DEF SaveReviewed, Carrying, Reviewed, PhotoRow
    <2>2. photos'[p].status = "reviewed"
      BY <1>6, <1>7, <2>1 DEF SaveReviewed
    <2> QED BY <1>7, <1>a, <1>b, <2>2 DEF SaveReviewed, Finish
  <1>8. CASE DeleteOldFile(d)
    <2> DEFINE state == [desk[d] EXCEPT !.step = "retouch"]
    <2>1. Goto(d, state) /\ UNCHANGED photos
      BY <1>8 DEF DeleteOldFile
    <2>2. state.id = desk[d].id /\ state.photo = desk[d].photo /\ desk[d].step \in Carrying
      BY <1>0, <1>8, DeskType DEF DeleteOldFile, Carrying
    <2> HIDE DEF state
    <2> QED BY <1>0, <1>a, <2>1, <2>2
  <1>9. CASE SaveRetouched(d)
    <2>1. /\ SetRetouched(desk[d].photo, desk[d].file).status = desk[d].photo.status
          /\ desk[d].step \in Carrying
      <3>1. desk[d].photo \in PhotoRow
        BY <1>0, <1>9, DeskType DEF SaveRetouched, Carrying
      <3> QED BY <1>9, <3>1 DEF SaveRetouched, Carrying, SetRetouched, PhotoRow
    <2>2. photos'[p].status = "reviewed"
      BY <1>0, <1>6, <1>9, <2>1 DEF SaveRetouched
    <2> DEFINE state == [step |-> "announce", id |-> desk[d].id]
    <2>3. Goto(d, state) /\ state.step \notin Carrying
      BY <1>9 DEF SaveRetouched, Carrying
    <2> HIDE DEF state
    <2> QED BY <1>a, <2>2, <2>3
  <1> QED BY <1>2, <1>3, <1>4, <1>5, <1>7, <1>8, <1>9 DEF DeskStep

\* A step of the pipeline unsettles no photo.
LEMMA SettledStep ==
    ASSUME TypesInductive, CopiesOK, [PipelineNext]_pipelineVars,
           NEW p \in DOMAIN photos, Settled(p)
    PROVE  Settled(p)'
  <1>1. CASE OrderStep \/ UNCHANGED pipelineVars
    <2>1. UNCHANGED <<photos, attempt, desk>>
      BY <1>1 DEF OrderStep, PlaceOrder, PayOrder, SetRetouchFlag, pipelineVars, rowVars, jobVars
    <2> QED BY <2>1 DEF Settled, Held
  <1> QED BY <1>1, WorkerSettles, DeskSettles DEF PipelineNext, WorkerStep

-----------------------------------------------------------------------------
(* The theorems.                                                           *)

\* The invariant holds at the start.
LEMMA InductiveInit == PipelineInit => PipelineInductive
  <1> SUFFICES ASSUME PipelineInit PROVE PipelineInductive
    OBVIOUS
  <1>1. TypesInductive
    BY TypesInit
  <1>2. DOMAIN photos = {} /\ DOMAIN ordered = {} /\ results = [p \in PhotoIds |-> {}]
        /\ attempt = [p \in PhotoIds |-> Off] /\ desk = [d \in Desks |-> Idle]
    BY DEF PipelineInit, PhotoInit, JobInit, RetouchInit, NoRows
  <1> QED BY <1>1, <1>2 DEF TypesInductive, PipelineInductive, RowsOK, AttemptsOK, DesksOK, ResultsOwn,
                            OnePhotoPerUpload, CompleteSeen, Carrying, Idle

\* Every step keeps it.
LEMMA InductiveStep == PipelineInductive /\ [PipelineNext]_pipelineVars => PipelineInductive'
  <1> SUFFICES ASSUME PipelineInductive, [PipelineNext]_pipelineVars PROVE PipelineInductive'
    OBVIOUS
  <1>1. TypesInductive /\ CopiesOK /\ OnePhotoPerUpload /\ CompleteSeen
    BY DEF PipelineInductive, TypesInductive, CopiesOK
  <1>2. TypesInductive'
    BY <1>1, TypesStep
  <1>3. CopiesOK'
    BY <1>1, CopiesStep
  <1>4. OnePhotoPerUpload'
    BY <1>1, KeysStep
  <1>5. CompleteSeen'
    BY <1>1, CompleteStep
  <1> QED BY <1>2, <1>3, <1>4, <1>5 DEF PipelineInductive, TypesInductive, CopiesOK

\* So it holds in every reachable state.
THEOREM PipelineInvariantHolds == PipelineSpec => []PipelineInductive
  BY InductiveInit, InductiveStep, PTL DEF PipelineSpec

\* Every table, job, attempt and handler of the photo pipeline is well typed.
THEOREM PipelineTypeCorrect == PipelineSpec => []PipelineTypeOK
  <1>1. PipelineInductive => PipelineTypeOK
    BY DEF PipelineInductive
  <1> QED BY <1>1, PipelineInvariantHolds, PTL

\* The rows are in order wherever the invariant holds.
LEMMA RowsInOrder == PipelineInductive => ProcessedHasResult /\ PhotoRowsCoherent /\ OnePhotoPerUpload
  BY DEF PipelineInductive, PipelineTypeOK, RowsOK, CopyOf, Coherent, ResultsOwn, ProcessedHasResult,
         PhotoRowsCoherent

\* ProcessPhotoClassificationHandler: a photo reads processed only if a result
\* is stored for it, and every result stored is of its own image.
THEOREM ProcessedPhotosHaveResults == PipelineSpec => []ProcessedHasResult
  BY RowsInOrder, PipelineInvariantHolds, PTL

\* PhotoWriteRepository.save of overlapping handlers never leaves a row whose
\* reviewed_at or processed_at does not go with its status.
THEOREM PhotosCoherent == PipelineSpec => []PhotoRowsCoherent
  BY RowsInOrder, PipelineInvariantHolds, PTL

\* saveMany: no upload ever has two photos, however often its batch is confirmed.
THEOREM UploadsHaveOnePhoto == PipelineSpec => []OnePhotoPerUpload
  <1>1. PipelineInductive => OnePhotoPerUpload
    BY DEF PipelineInductive
  <1> QED BY <1>1, PipelineInvariantHolds, PTL

\* An order in the completed queue has no item left, so it was seen to.
LEMMA CompletedSeen == PipelineInductive => CompletionAnnounced
  <1> SUFFICES ASSUME PipelineInductive,
                      NEW o \in RetouchQueue({EventOf[k] : k \in Keys}, "completed")
               PROVE  o \in announced \cup quiet \cup {x \in DOMAIN ordered : Awaited(x)}
    BY DEF CompletionAnnounced
  <1>1. o \in DOMAIN ordered /\ PendingItems(o) = {}
    BY DEF RetouchQueue
  <1> QED BY <1>1 DEF PipelineInductive, CompleteSeen

\* findOrdersFullyRetouchedByPhoto: an order in the completed queue has been
\* announced, or a handler has yet to look, or nobody could notice.
THEOREM CompletionsAnnounced == PipelineSpec => []CompletionAnnounced
  BY CompletedSeen, PipelineInvariantHolds, PTL

\* No step unsettles a settled photo.
LEMMA SettlesStep ==
    PipelineInductive /\ [PipelineNext]_pipelineVars
      => [\A p \in DOMAIN photos : Settled(p) => Settled(p)']_pipelineVars
  <1> SUFFICES ASSUME PipelineInductive, [PipelineNext]_pipelineVars, NEW p \in DOMAIN photos, Settled(p)
               PROVE  Settled(p)'
    OBVIOUS
  <1>1. TypesInductive /\ CopiesOK
    BY DEF PipelineInductive, TypesInductive, CopiesOK
  <1> QED BY <1>1, SettledStep

\* A review no older copy threatens is never undone, by any retry, stall or
\* late save.
THEOREM ReviewsSettle == PipelineSpec => ReviewSettles
  BY SettlesStep, PipelineInvariantHolds, PTL DEF PipelineSpec, ReviewSettles

=============================================================================

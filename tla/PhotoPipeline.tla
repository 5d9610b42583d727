--------------------------- MODULE PhotoPipeline ---------------------------
(***************************************************************************)
(* The life of a photo: a photographer confirms a batch of uploads, the    *)
(* classification worker processes each photo, a reviewer marks it         *)
(* reviewed and a retoucher replaces its retouched version.  The handlers  *)
(* of photos and the worker share the photos table and nothing orders      *)
(* them; a desk is the handler one client has in flight.                   *)
(***************************************************************************)
EXTENDS Classification, RetouchOrders

CONSTANT Desks

VARIABLE desk

pipelineVars == <<rowVars, jobVars, desk, retouchVars, quiet>>

Idle == [step |-> "idle"]
Desk ==
    {Idle}
    \cup [step : {"enqueue"}, ids : UNION {[batch -> PhotoIds] : batch \in SUBSET Keys}]
    \cup [step : {"review"}, id : PhotoIds, photo : PhotoRow]
    \cup [step : {"delete", "retouch"}, id : PhotoIds, photo : PhotoRow, file : Files]
    \cup [step : {"announce"}, id : PhotoIds]

PipelineTypeOK ==
    /\ DOMAIN photos \subseteq PhotoIds
    /\ \A p \in DOMAIN photos : photos[p] \in PhotoRow
    /\ bucket \subseteq Files
    /\ JobTypeOK
    /\ RetouchTypeOK
    /\ desk \in [Desks -> Desk]

PipelineInit == PhotoInit /\ JobInit /\ RetouchInit /\ desk = [d \in Desks |-> Idle]

Goto(d, state) == desk' = [desk EXCEPT ![d] = state]

Begin(d, state) == desk[d] = Idle /\ Goto(d, state)

Finish(d) == Goto(d, Idle)

-----------------------------------------------------------------------------
\* The entities a handler makes jobs for next, those saveMany skipped included.
Enqueuing(d) ==
    IF desk[d].step = "enqueue" THEN {desk[d].ids[k] : k \in DOMAIN desk[d].ids} ELSE {}

\* randomUUID gives ids nobody has used.
Fresh == {p \in PhotoIds \ DOMAIN photos :
            /\ jobs[p] = NoJob
            /\ \A d \in Desks : p \notin Enqueuing(d)}

Injective(ids) == \A k, l \in DOMAIN ids : ids[k] = ids[l] => k = l

\* ConfirmPhotoBatchHandler checks the event and the prefixes, makes an entity
\* for every key of the batch and saves the batch.
ConfirmBatch(d) ==
    /\ \E batch \in (SUBSET Keys) \ {{}} : \E ids \in [batch -> Fresh] :
         /\ \A k, l \in batch : EventOf[k] = EventOf[l]
         /\ Injective(ids)
         /\ SaveMany(ids)
         /\ Begin(d, [step |-> "enqueue", ids |-> ids])
    /\ UNCHANGED <<bucket, jobVars, retouchVars>>

\* A job for every entity of the batch, also for those saveMany has skipped.
EnqueueJobs(d) ==
    /\ desk[d].step = "enqueue"
    /\ jobs' = [p \in PhotoIds |->
         IF p \in Enqueuing(d) THEN [NoJob EXCEPT !.state = "waiting"] ELSE jobs[p]]
    /\ Finish(d)
    /\ UNCHANGED <<rowVars, attempt, results, retouchVars>>

\* MarkPhotoReviewedHandler
MarkReviewed(d, p) ==
    /\ p \in DOMAIN photos
    /\ photos[p].status # "processing"
    /\ Begin(d, [step |-> "review", id |-> p, photo |-> photos[p]])
    /\ UNCHANGED <<rowVars, jobVars, retouchVars>>

SaveReviewed(d) ==
    /\ desk[d].step = "review"
    /\ SavePhoto(desk[d].id, Reviewed(desk[d].photo))
    /\ Finish(d)
    /\ UNCHANGED <<bucket, jobVars, retouchVars>>

\* ConfirmRetouchedUploadHandler; the client may send a file again when it got
\* no answer.  The slug of the new version is left out.
ConfirmRetouched(d, p, f) ==
    /\ p \in DOMAIN photos
    /\ Begin(d, [step |-> IF photos[p].retouched = NoFile THEN "retouch" ELSE "delete",
                 id |-> p, photo |-> photos[p], file |-> f])
    /\ UNCHANGED <<rowVars, jobVars, retouchVars>>

\* The file of the row it loaded is deleted; a failure is only logged.
DeleteOldFile(d) ==
    /\ desk[d].step = "delete"
    /\ bucket' = bucket \ {desk[d].photo.retouched} \/ UNCHANGED bucket
    /\ Goto(d, [desk[d] EXCEPT !.step = "retouch"])
    /\ UNCHANGED <<photos, jobVars, retouchVars>>

SaveRetouched(d) ==
    /\ desk[d].step = "retouch"
    /\ SavePhoto(desk[d].id, SetRetouched(desk[d].photo, desk[d].file))
    /\ Goto(d, [step |-> "announce", id |-> desk[d].id])
    /\ UNCHANGED <<bucket, jobVars, retouchVars>>

\* After its own save the handler looks for orders that have become complete.
AnnounceCompleted(d) ==
    /\ desk[d].step = "announce"
    /\ announced' = announced \cup OrdersFullyRetouchedBy(desk[d].id)
    /\ Finish(d)
    /\ UNCHANGED <<rowVars, jobVars, dismissed, ordered>>

\* A query fails, or the process restarts.
DeskFails(d) ==
    /\ desk[d] # Idle
    /\ Finish(d)
    /\ UNCHANGED <<rowVars, jobVars, retouchVars>>

-----------------------------------------------------------------------------
\* What a handler does unless it fails.
DeskStep(d) ==
    \/ ConfirmBatch(d) \/ EnqueueJobs(d)
    \/ \E p \in PhotoIds : MarkReviewed(d, p)
    \/ SaveReviewed(d)
    \/ \E p \in PhotoIds, f \in Files : ConfirmRetouched(d, p, f)
    \/ DeleteOldFile(d) \/ SaveRetouched(d) \/ AnnounceCompleted(d)

OrderStep ==
    /\ \/ \E o \in OrderIds : PlaceOrder(o) \/ PayOrder(o)
       \/ \E p \in PhotoIds, requires \in BOOLEAN : SetRetouchFlag(p, requires)
    /\ UNCHANGED <<jobVars, desk>>

WorkerStep(p) == AttemptStep(p) /\ UNCHANGED <<desk, retouchVars>>

\* Some handler has yet to look for complete orders of one of o's photos.
Awaited(o) == \E d \in Desks : desk[d].step = "announce" /\ desk[d].id \in ordered[o].photos

Complete(o) == o \in DOMAIN ordered /\ PendingItems(o) = {}

\* History: an order that gets complete, by an order placed on retouched
\* photos, a dismissal or a stale save, with no handler left to look.
Overlook ==
    quiet' = quiet \cup {o \in DOMAIN ordered' :
                           Complete(o)' /\ ~Complete(o) /\ ~Awaited(o)'}

\* ... and one whose handler fails before it has looked.
OverlookFailed(d) ==
    quiet' = quiet \cup (IF desk[d].step = "announce"
                         THEN {o \in DOMAIN ordered : desk[d].id \in ordered[o].photos}
                         ELSE {})

PipelineNext ==
    \/ \E p \in PhotoIds : WorkerStep(p) /\ Overlook
    \/ \E p \in PhotoIds : WorkerDies(p) /\ UNCHANGED <<desk, retouchVars, quiet>>
    \/ \E d \in Desks : DeskStep(d) /\ Overlook
    \/ \E d \in Desks : DeskFails(d) /\ OverlookFailed(d)
    \/ OrderStep /\ Overlook

\* The worker process is restarted when it dies, and every call it awaits
\* returns or throws (the AI call has a timeout); clients owe nothing.
PipelineSpec ==
    /\ PipelineInit
    /\ [][PipelineNext]_pipelineVars
    /\ \A p \in PhotoIds : WF_pipelineVars(WorkerStep(p) /\ Overlook)

-----------------------------------------------------------------------------
\* Every copy of a photo that a handler holds between its load and its save.
Held(p) ==
    (IF attempt[p] = Off THEN {} ELSE {attempt[p].photo})
    \cup {desk[d].photo : d \in {x \in Desks :
            desk[x].step \in {"review", "delete", "retouch"} /\ desk[x].id = p}}

\* ProcessPhotoClassificationHandler stores a result before it says so in the
\* photo, and the adapter lets no answer pass that is of another image: whatever
\* stale copies are saved, over any number of attempts, a photo reads "processed"
\* only if a completed result is stored, and what is stored of it is its own.
ProcessedHasResult ==
    \A p \in DOMAIN photos :
        /\ photos[p].status = "processed" => Completed(p) \in results[p]
        /\ \A r \in results[p] : r.status = "completed" => r.image = p

\* Overlapping saves lose updates but never mix them: reviewed_at goes with the
\* status, and a processed or failed photo has its processed_at.
PhotoRowsCoherent ==
    \A p \in DOMAIN photos :
        /\ photos[p].reviewed <=> photos[p].status = "reviewed"
        /\ photos[p].status \in {"processed", "failed"} => photos[p].processed

\* The photo is reviewed, and so is every copy of it in a handler's hands.
Settled(p) ==
    photos[p].status = "reviewed" /\ \A c \in Held(p) : c.status = "reviewed"

\* A review holds for good once no handler has an older copy of the photo in
\* hand: the worker refuses reviewed photos, also those of a waiting retry, and
\* the retoucher saves the status it has read.
ReviewSettles ==
    [][\A p \in DOMAIN photos : Settled(p) => Settled(p)']_pipelineVars

\* Two retouchers who finish the last two photos of an order together each look
\* after their own save: an order in the operators' completed queue has been
\* announced, or a handler has yet to look, unless it got there with nobody to
\* notice.
CompletionAnnounced ==
    RetouchQueue({EventOf[k] : k \in Keys}, "completed") \subseteq
        announced \cup quiet \cup {o \in DOMAIN ordered : Awaited(o)}

\* A client that confirms a batch again, or overlaps with itself, never gives
\* one upload two photos.
OnePhotoPerUpload ==
    \A p, q \in DOMAIN photos : photos[p].key = photos[q].key => p = q

\* Every job ends, done or given up, however often its attempts throw or its
\* worker dies.
JobsEnd ==
    \A p \in PhotoIds :
        (jobs[p].state \in {"waiting", "active"}) ~> (jobs[p].state \in {"done", "dead"})

\* "Photo stays in 'processing'; BullMQ will retry.": a photo in processing has
\* a job that goes on.
ProcessingIsRetried ==
    \A p \in DOMAIN photos :
        photos[p].status = "processing" => jobs[p].state \in {"waiting", "active"}

\* "Clean up old retouched file": confirming an upload removes the file it
\* replaces, never the one it confirms.
ConfirmedFileKept ==
    [][\A d \in Desks : desk[d].step = "retouch" /\ desk'[d].step = "announce"
         => desk[d].file \in bucket]_pipelineVars
=============================================================================

---------------------------- MODULE FilesProofs ----------------------------
(***************************************************************************)
(* The theorems of PhotoFiles, for any number of photos, uploads, files    *)
(* and handlers.  Order of the argument: the slugs that batches register;  *)
(* the retouched files that handlers replace; what the CDN worker and      *)
(* storage answer.                                                         *)
(***************************************************************************)
EXTENDS PhotoFiles, PipelineProofs

-----------------------------------------------------------------------------
(* The inductive invariant.                                                *)

\* The slug a batch is about to register is that of the row made for its key,
\* if one was.
BatchesOK ==
    \A d \in Desks : desk[d].step = "enqueue" =>
        \A k \in DOMAIN desk[d].ids :
            desk[d].ids[k] \in DOMAIN photos => photos[desk[d].ids[k]].key = k

\* A slug in KV leads to the original of its row.  One is missing only if it was
\* lost or is about to be written.  What has an embedding was fetched once.
SlugsOK ==
    /\ \A p \in DOMAIN photos :
         /\ p \in DOMAIN kv => kv[p] = photos[p].key
         /\ p \in DOMAIN kv \cup lost \/ Registering(p)
    /\ embedded \subseteq DOMAIN kv

\* The unique index on retouched_storage_key.
FilesDistinct ==
    \A p, q \in DOMAIN photos :
        photos[p].retouched = photos[q].retouched => p = q \/ photos[p].retouched = NoFile

\* As long as nobody else has a copy of photo p, the copy in hand names the same
\* file as the row, and nobody but the one who replaces it is to delete it.
FileSafe(p) ==
    /\ ~Shared(p)
    /\ attempt[p] # Off => attempt[p].photo.retouched = photos[p].retouched
    /\ \A d \in Desks : HasCopy(d, p) => desk[d].photo.retouched = photos[p].retouched
    /\ \A d \in Desks : Replaces(d, p) => ~Doomed(desk[d].file)
    /\ photos[p].retouched = NoFile \/ Replacing(p) \/ photos[p].retouched \in bucket
    /\ photos[p].retouched # NoFile =>
         \A d \in Desks : desk[d].step = "delete" /\ desk[d].photo.retouched = photos[p].retouched
                            => desk[d].id = p

FilesSafe == \A p \in DOMAIN photos \ spoilt : FileSafe(p)

FilesInductive == PipelineInductive /\ BatchesOK /\ SlugsOK /\ FilesDistinct /\ FilesSafe

-----------------------------------------------------------------------------
(* Slugs.                                                                  *)

\* A step of the pipeline moves at most one handler of photos.
LEMMA OneDeskMoves ==
    ASSUME TypesInductive, [PipelineNext]_pipelineVars
    PROVE  \/ UNCHANGED desk
           \/ \E d \in Desks : /\ DeskStep(d) \/ DeskFails(d)
                               /\ \A x \in Desks \ {d} : desk'[x] = desk[x]
  <1>0. desk \in [Desks -> Desk]
    BY DEF TypesInductive, PipelineTypeOK
  <1>1. ASSUME NEW d \in Desks, DeskStep(d) \/ DeskFails(d)
        PROVE  \A x \in Desks \ {d} : desk'[x] = desk[x]
    BY <1>0, <1>1 DEF DeskStep, DeskFails, ConfirmBatch, EnqueueJobs, MarkReviewed, SaveReviewed, ConfirmRetouched,
         DeleteOldFile, SaveRetouched, AnnounceCompleted, Begin, Finish, Goto
  <1>2. CASE OrderStep \/ UNCHANGED pipelineVars \/ \E p \in PhotoIds : WorkerStep(p) \/ (WorkerDies(p) /\ UNCHANGED desk)
    BY <1>2 DEF OrderStep, WorkerStep, pipelineVars
  <1> QED BY <1>1, <1>2 DEF PipelineNext

\* Only a batch adds rows, and its handler has their ids in hand next.
LEMMA BatchAdds ==
    ASSUME TypesInductive, NEW d \in Desks, ConfirmBatch(d)
    PROVE  /\ desk[d] = Idle
           /\ desk'[d].step = "enqueue"
           /\ \A p \in DOMAIN photos' \ DOMAIN photos : p \in Enqueuing(d)' /\ photos'[p].retouched = NoFile
           /\ \A p \in DOMAIN photos : p \in DOMAIN photos' /\ photos'[p] = photos[p]
           /\ \A p \in Enqueuing(d)' : p \in PhotoIds \ DOMAIN photos /\ \A x \in Desks : p \notin Enqueuing(x)
           /\ \A k \in DOMAIN desk'[d].ids : desk'[d].ids[k] \in DOMAIN photos' => photos'[desk'[d].ids[k]].key = k
  <1>0. desk \in [Desks -> Desk]
    BY DEF TypesInductive, PipelineTypeOK
  <1>1. PICK batch \in (SUBSET Keys) \ {{}} : \E ids \in [batch -> Fresh] :
           Injective(ids) /\ SaveMany(ids) /\ Begin(d, [step |-> "enqueue", ids |-> ids])
    BY DEF ConfirmBatch
  <1>2. PICK ids \in [batch -> Fresh] :
           Injective(ids) /\ SaveMany(ids) /\ Begin(d, [step |-> "enqueue", ids |-> ids])
    BY <1>1
  <1>3. desk[d] = Idle /\ desk'[d] = [step |-> "enqueue", ids |-> ids]
    BY <1>0, <1>2 DEF Begin, Goto
  <1>4. Enqueuing(d)' = {ids[k] : k \in batch}
    BY <1>3 DEF Enqueuing
  <1>5. /\ \A p \in DOMAIN photos : p \in DOMAIN photos' /\ photos'[p] = photos[p]
        /\ \A p \in DOMAIN photos' \ DOMAIN photos : \E k \in batch : photos'[p] = NewPhoto(k) /\ ids[k] = p
    BY <1>2, SaveManyAdds
  <1>6. \A k \in batch : ids[k] \in PhotoIds \ DOMAIN photos /\ \A x \in Desks : ids[k] \notin Enqueuing(x)
    BY DEF Fresh
  <1>7. ASSUME NEW k \in batch, ids[k] \in DOMAIN photos'
        PROVE  photos'[ids[k]].key = k
    <2>1. PICK l \in batch : photos'[ids[k]] = NewPhoto(l) /\ ids[l] = ids[k]
      BY <1>5, <1>6, <1>7
    <2>2. l = k
      BY <1>2, <2>1 DEF Injective
    <2> QED BY <2>1, <2>2 DEF NewPhoto
  <1>8. \A p \in DOMAIN photos' \ DOMAIN photos : p \in Enqueuing(d)' /\ photos'[p].retouched = NoFile
    BY <1>4, <1>5 DEF NewPhoto
  <1>9. \A p \in Enqueuing(d)' : p \in PhotoIds \ DOMAIN photos /\ \A x \in Desks : p \notin Enqueuing(x)
    BY <1>4, <1>6
  <1> QED BY <1>3, <1>5, <1>7, <1>8, <1>9

\* A handler that has made its batch keeps it until it leaves.
LEMMA BatchesStay ==
    ASSUME TypesInductive, NEW d \in Desks, DeskStep(d) \/ DeskFails(d), desk[d].step = "enqueue"
    PROVE  Leaves(d)
  <1>0. desk \in [Desks -> Desk]
    BY DEF TypesInductive, PipelineTypeOK
  <1>1. desk[d] # Idle
    BY DEF Idle
  <1>2. ~(ConfirmBatch(d) \/ SaveReviewed(d) \/ DeleteOldFile(d) \/ SaveRetouched(d) \/ AnnounceCompleted(d))
    BY <1>1 DEF ConfirmBatch, Begin, SaveReviewed, DeleteOldFile, SaveRetouched, AnnounceCompleted
  <1>3. \A p \in PhotoIds : ~MarkReviewed(d, p) /\ \A f \in Files : ~ConfirmRetouched(d, p, f)
    BY <1>1 DEF MarkReviewed, ConfirmRetouched, Begin
  <1>4. EnqueueJobs(d) \/ DeskFails(d)
    BY <1>2, <1>3 DEF DeskStep
  <1> QED BY <1>0, <1>4 DEF EnqueueJobs, DeskFails, Finish, Goto, Idle, Leaves

\* Only ConfirmBatch makes a batch.
LEMMA BatchesBegin ==
    ASSUME TypesInductive, NEW d \in Desks, DeskStep(d) \/ DeskFails(d), desk'[d].step = "enqueue"
    PROVE  ConfirmBatch(d)
  <1>0. desk \in [Desks -> Desk]
    BY DEF TypesInductive, PipelineTypeOK
  <1>1. ~(DeskFails(d) \/ EnqueueJobs(d) \/ SaveReviewed(d) \/ AnnounceCompleted(d))
    BY <1>0 DEF DeskFails, EnqueueJobs, SaveReviewed, AnnounceCompleted, Finish, Goto, Idle
  <1>2. ~SaveRetouched(d)
    BY <1>0 DEF SaveRetouched, Goto
  <1>3. ~DeleteOldFile(d)
    BY <1>0, DeskType DEF DeleteOldFile, Goto
  <1>4. ASSUME NEW p \in PhotoIds PROVE ~MarkReviewed(d, p)
    BY <1>0 DEF MarkReviewed, Begin, Goto
  <1>5. ASSUME NEW p \in PhotoIds, NEW f \in Files PROVE ~ConfirmRetouched(d, p, f)
    BY <1>0 DEF ConfirmRetouched, Begin, Goto
  <1> QED BY <1>1, <1>2, <1>3, <1>4, <1>5 DEF DeskStep

\* What a step of the pipeline means for batches and their rows.
LEMMA BatchesStep ==
    ASSUME TypesInductive, CopiesOK, BatchesOK, [PipelineNext]_pipelineVars
    PROVE  /\ BatchesOK'
           /\ RowsGrow
           /\ \A p \in DOMAIN photos' \ DOMAIN photos :
                /\ \E d \in Desks : desk[d] = Idle /\ p \in Enqueuing(d)'
                /\ \A d \in Desks : ~Leaves(d)
           /\ \A d, x \in Desks : Leaves(d) /\ x # d => desk'[x] = desk[x]
           /\ \A d \in Desks : desk[d].step = "enqueue" => Leaves(d) \/ desk'[d] = desk[d]
  <1>1. RowsGrow
    BY CopiesStep
  <1>2. TypesInductive'
    BY TypesStep
  <1>3. /\ desk \in [Desks -> Desk] /\ desk' \in [Desks -> Desk]
        /\ DOMAIN photos' \subseteq PhotoIds
    BY <1>2 DEF TypesInductive, PipelineTypeOK
  <1>4. ASSUME NEW d \in Desks, ConfirmBatch(d), \A x \in Desks \ {d} : desk'[x] = desk[x]
        PROVE  BatchesOK' /\ \A x \in Desks : ~Leaves(x)
    <2>1. ASSUME NEW x \in Desks \ {d}, desk[x].step = "enqueue", NEW k \in DOMAIN desk[x].ids,
                 desk[x].ids[k] \in DOMAIN photos'
          PROVE  photos'[desk[x].ids[k]].key = k
      <3>1. desk[x].ids[k] \in Enqueuing(x)
        BY <2>1 DEF Enqueuing
      <3>2. desk[x].ids[k] \in DOMAIN photos
        BY <1>4, <2>1, <3>1, BatchAdds DEF Enqueuing
      <3> QED BY <1>4, <2>1, <3>2, BatchAdds DEF BatchesOK
    <2>2. \A k \in DOMAIN desk'[d].ids : desk'[d].ids[k] \in DOMAIN photos' => photos'[desk'[d].ids[k]].key = k
      BY <1>4, BatchAdds
    <2>3. BatchesOK'
      BY <1>4, <2>1, <2>2 DEF BatchesOK
    <2>4. \A x \in Desks : ~Leaves(x)
      BY <1>4, BatchAdds DEF Leaves, Idle
    <2> QED BY <2>3, <2>4
  <1>5. ASSUME DOMAIN photos' = DOMAIN photos,
               \A d \in Desks : desk'[d].step = "enqueue" => desk'[d] = desk[d]
        PROVE  BatchesOK'
    BY <1>1, <1>5 DEF RowsGrow, BatchesOK
  <1>6. CASE \E d \in Desks : /\ DeskStep(d) \/ DeskFails(d)
                              /\ \A x \in Desks \ {d} : desk'[x] = desk[x]
    <2>1. PICK d \in Desks : (DeskStep(d) \/ DeskFails(d)) /\ \A x \in Desks \ {d} : desk'[x] = desk[x]
      BY <1>6
    <2>2. CASE ConfirmBatch(d)
      BY <1>1, <1>4, <2>1, <2>2, BatchAdds DEF Idle
    <2>3. CASE ~ConfirmBatch(d)
      <3>1. DOMAIN photos' = DOMAIN photos
        BY <2>1, <2>3, DeskCopies
      <3>2. desk'[d].step # "enqueue"
        BY <2>1, <2>3, BatchesBegin
      <3>3. desk[d].step = "enqueue" => Leaves(d)
        BY <2>1, BatchesStay
      <3>4. BatchesOK'
        BY <1>5, <2>1, <3>1, <3>2
      <3>5. \A x \in Desks : Leaves(x) => x = d
        BY <2>1 DEF Leaves
      <3> QED BY <1>1, <2>1, <3>1, <3>3, <3>4, <3>5
    <2> QED BY <2>2, <2>3
  <1>7. CASE UNCHANGED desk
    <2>1. \A d \in Desks : ~Leaves(d)
      BY <1>7 DEF Leaves
    <2>2. ASSUME NEW d \in Desks, ConfirmBatch(d) PROVE FALSE
      BY <1>7, <2>2, BatchAdds DEF Idle
    <2>3. DOMAIN photos' = DOMAIN photos
      <3>1. CASE OrderStep \/ UNCHANGED pipelineVars
        BY <3>1 DEF OrderStep, PlaceOrder, PayOrder, SetRetouchFlag, pipelineVars, rowVars
      <3>2. ASSUME NEW p \in PhotoIds, AttemptStep(p) \/ WorkerDies(p)
            PROVE  DOMAIN photos' = DOMAIN photos
        BY <1>7, <3>2, WorkerCopies
      <3>3. ASSUME NEW d \in Desks, DeskStep(d) \/ DeskFails(d)
            PROVE  DOMAIN photos' = DOMAIN photos
        BY <2>2, <3>3, DeskCopies
      <3> QED BY <3>1, <3>2, <3>3 DEF PipelineNext, WorkerStep
    <2> QED BY <1>1, <1>5, <1>7, <2>1, <2>3
  <1> QED BY <1>6, <1>7, OneDeskMoves

\* Whatever KV does, a slug that is there leads to its original, and one that is
\* not is lost or to come.
LEMMA SlugsStep ==
    ASSUME TypesInductive, CopiesOK, BatchesOK, SlugsOK, PipelineNext, ItsFiles
    PROVE  SlugsOK'
  <1>1. RowsGrow
    BY BatchesStep
  <1>2. DOMAIN photos \subseteq DOMAIN photos' /\ \A p \in DOMAIN photos : photos'[p].key = photos[p].key
    BY <1>1 DEF RowsGrow
  <1>3. ASSUME NEW p \in DOMAIN photos' \ DOMAIN photos
        PROVE  p \notin DOMAIN kv /\ Registering(p)' /\ UNCHANGED kv
    <2>1. /\ \A d \in Desks : ~Leaves(d)
          /\ \E d \in Desks : desk[d] = Idle /\ p \in Enqueuing(d)'
      BY <1>3, BatchesStep
    <2>2. p \notin Known
      BY <2>1 DEF ItsFiles
    <2> QED BY <2>1, <2>2 DEF ItsFiles, Known, Registering
  <1>4. CASE \A d \in Desks : ~Leaves(d)
    <2>1. UNCHANGED <<kv, lost, embedded>>
      BY <1>4 DEF ItsFiles
    <2>2. \A d \in Desks : desk[d].step = "enqueue" => desk'[d] = desk[d]
      BY <1>4, BatchesStep
    <2>3. ASSUME NEW p, Registering(p)
          PROVE  Registering(p)'
      BY <2>2, <2>3 DEF Registering, Enqueuing
    <2> QED BY <1>2, <1>3, <2>1, <2>3 DEF SlugsOK
  <1>5. CASE \E d \in Desks : Leaves(d)
    <2>1. PICK d \in Desks : Leaves(d) /\ BatchEffects(d)
      BY <1>5 DEF ItsFiles
    <2>2. DOMAIN photos' = DOMAIN photos /\ UNCHANGED embedded
      BY <1>2, <1>5, BatchesStep DEF ItsFiles
    <2>3. \A x \in Desks \ {d} : Enqueuing(x)' = Enqueuing(x)
      BY <2>1, BatchesStep DEF Enqueuing
    <2>4. CASE Register(desk[d].ids) /\ UNCHANGED lost
      <3>1. Enqueuing(d) = {desk[d].ids[k] : k \in DOMAIN desk[d].ids}
        BY <2>1 DEF Leaves, Enqueuing
      <3>2. /\ DOMAIN kv' = DOMAIN kv \cup Enqueuing(d)
            /\ \A p \in DOMAIN kv : kv'[p] = kv[p]
            /\ \A p \in Enqueuing(d) \ DOMAIN kv :
                 kv'[p] = CHOOSE k \in DOMAIN desk[d].ids : desk[d].ids[k] = p
        BY <2>4, <3>1 DEF Register
      <3>3. ASSUME NEW p \in DOMAIN photos, p \in Enqueuing(d) \ DOMAIN kv
            PROVE  kv'[p] = photos[p].key
        <4>1. \E k \in DOMAIN desk[d].ids : desk[d].ids[k] = p
          BY <3>1, <3>3
        <4> DEFINE k == CHOOSE k \in DOMAIN desk[d].ids : desk[d].ids[k] = p
        <4>2. k \in DOMAIN desk[d].ids /\ desk[d].ids[k] = p
          BY <4>1
        <4>3. photos[p].key = k
          BY <2>1, <3>3, <4>2 DEF BatchesOK, Leaves
        <4> QED BY <3>2, <3>3, <4>3
      <3>4. ASSUME NEW p \in DOMAIN photos
            PROVE  p \in (DOMAIN kv') \cup lost' \/ Registering(p)'
        BY <2>3, <2>4, <3>2 DEF SlugsOK, Registering
      <3> QED BY <1>2, <2>2, <3>2, <3>3, <3>4 DEF SlugsOK
    <2>5. CASE UNCHANGED kv /\ lost' = lost \cup Enqueuing(d)
      <3>1. ASSUME NEW p \in DOMAIN photos
            PROVE  p \in (DOMAIN kv') \cup lost' \/ Registering(p)'
        BY <2>3, <2>5 DEF SlugsOK, Registering
      <3> QED BY <1>2, <2>2, <2>5, <3>1 DEF SlugsOK
    <2> QED BY <2>1, <2>4, <2>5 DEF BatchEffects
  <1> QED BY <1>4, <1>5

\* The backfill and the embeddings keep it too: what the CDN has answered has a
\* slug.
LEMMA SlugsElse ==
    ASSUME SlugsOK, UNCHANGED pipelineVars,
           \/ Backfill
           \/ \E p \in PhotoIds : EmbeddingWorker(p)
           \/ \E p \in PhotoIds : EmbeddingDies(p) /\ UNCHANGED <<kv, lost>>
    PROVE  SlugsOK'
  <1>0. UNCHANGED <<photos, desk>>
    BY DEF pipelineVars, rowVars
  <1>1. CASE Backfill
    <2>1. PICK written \in SUBSET DOMAIN photos :
            /\ kv' = [s \in DOMAIN kv \cup written |-> IF s \in written THEN photos[s].key ELSE kv[s]]
            /\ lost' = lost \ written
      BY <1>1 DEF Backfill
    <2>2. UNCHANGED embedded
      BY <1>1 DEF Backfill
    <2> QED BY <1>0, <2>1, <2>2 DEF SlugsOK, Registering, Enqueuing
  <1>2. ASSUME NEW p \in PhotoIds, UNCHANGED <<kv, lost>>, embedded' = embedded \/ Embed(p)
        PROVE  SlugsOK'
    <2>1. ASSUME Embed(p) PROVE p \in DOMAIN kv
      <3>1. Answer(InternalUrl(p, "embedding"), FALSE) \in {FetchFound(p), Forbidden, NotFound}
        BY DEF Answer, InternalUrl
      <3>2. FetchFound(p) \in Keys
        BY <2>1, <3>1, FilesAssumption DEF Embed
      <3> QED BY <3>2, FilesAssumption DEF FetchFound
    <2>2. embedded' \subseteq embedded \cup {p} /\ (p \in DOMAIN kv \/ embedded' = embedded)
      BY <1>2, <2>1 DEF Embed
    <2> QED BY <1>0, <1>2, <2>2 DEF SlugsOK, Registering, Enqueuing
  <1> QED BY <1>1, <1>2 DEF EmbeddingWorker, EmbeddingDies, StartEmbedding, EmbeddingThrows

-----------------------------------------------------------------------------
(* Retouched files.                                                        *)

\* No mutator of the worker changes the file a copy names.
LEMMA WorkerNames ==
    ASSUME NEW c \in PhotoRow
    PROVE  /\ Processing(c).retouched = c.retouched
           /\ Processed(c).retouched = c.retouched
           /\ Failed(c).retouched = c.retouched
  BY DEF PhotoRow, Processing, Processed, Failed

\* What the step of an attempt can do to the file of its photo: nothing, or put
\* back the one it has in hand, which no other row names.
LEMMA WorkerFiles ==
    ASSUME TypesInductive, CopiesOK, NEW p \in PhotoIds, AttemptStep(p) \/ WorkerDies(p)
    PROVE  /\ bucket' = bucket
           /\ \A q \in PhotoIds \ {p} : attempt'[q] = attempt[q]
           /\ \A q \in DOMAIN photos \ {p} : photos'[q] = photos[q]
           /\ attempt'[p] # Off =>
                \/ attempt[p] # Off /\ attempt'[p].photo.retouched = attempt[p].photo.retouched
                \/ p \in DOMAIN photos /\ attempt'[p].photo = photos[p] /\ UNCHANGED photos
           /\ \/ UNCHANGED photos
              \/ /\ attempt[p] # Off
                 /\ p \in DOMAIN photos
                 /\ photos'[p].retouched = attempt[p].photo.retouched
                 /\ FileFree(p, attempt[p].photo.retouched)
  <1> USE DEF rowVars
  <1>0. JobTypeOK /\ attempt \in [PhotoIds -> Attempt] /\ PhotosOK
    BY DEF TypesInductive, PipelineTypeOK, JobTypeOK, PhotosOK
  <1>a. ASSUME attempt[p].step \in {"claim", "classify", "finish", "fail", "failed"}
        PROVE  attempt[p] # Off /\ attempt[p].photo \in PhotoRow /\ p \in DOMAIN photos
    <2>1. attempt[p] # Off /\ attempt[p].photo \in PhotoRow
      BY <1>0, <1>a, AttemptType
    <2> QED BY <2>1 DEF CopiesOK, AttemptsOK, AttemptOK, CopyOf
  <1>b. ASSUME NEW job, AttemptEnds(p, job)
        PROVE  attempt'[p] = Off /\ \A q \in PhotoIds \ {p} : attempt'[q] = attempt[q]
    BY <1>0, <1>b DEF AttemptEnds
  <1>c. ASSUME NEW step, NEW c, Continue(p, step, c)
        PROVE  attempt'[p].photo = c /\ \A q \in PhotoIds \ {p} : attempt'[q] = attempt[q]
    BY <1>0, <1>c DEF Continue
  <1>d. ASSUME NEW c, c.retouched = attempt[p].photo.retouched, p \in DOMAIN photos, SavePhoto(p, c)
        PROVE  /\ photos'[p].retouched = attempt[p].photo.retouched
               /\ FileFree(p, attempt[p].photo.retouched)
               /\ \A q \in DOMAIN photos \ {p} : photos'[q] = photos[q]
    BY <1>d DEF SavePhoto, Upsert
  <1>1. CASE StartAttempt(p)
    <2>1. CASE p \in DOMAIN photos /\ AllowedStatus(photos[p])
      BY <1>0, <1>1, <2>1 DEF StartAttempt
    <2>2. CASE ~(p \in DOMAIN photos /\ AllowedStatus(photos[p]))
      BY <1>1, <1>b, <2>2 DEF StartAttempt
    <2> QED BY <2>1, <2>2
  <1>2. CASE SaveProcessing(p)
    <2> DEFINE c == Processing(attempt[p].photo)
    <2>1. SavePhoto(p, c) /\ Continue(p, "classify", c) /\ bucket' = bucket
      BY <1>2 DEF SaveProcessing
    <2>2. /\ attempt[p] # Off /\ p \in DOMAIN photos
          /\ c.retouched = attempt[p].photo.retouched
      BY <1>2, <1>a, WorkerNames DEF SaveProcessing
    <2> HIDE DEF c
    <2> QED BY <1>c, <1>d, <2>1, <2>2
  <1>3. CASE SaveProcessingThrows(p) \/ ServiceUnavailable(p) \/ WorkerDies(p)
    BY <1>3, <1>b DEF SaveProcessingThrows, ServiceUnavailable, WorkerDies
  <1>4. CASE PersistResult(p)
    <2>1. Continue(p, "finish", attempt[p].photo) /\ UNCHANGED rowVars /\ attempt[p] # Off
      BY <1>4, <1>a DEF PersistResult
    <2> QED BY <1>c, <2>1
  <1>5. CASE SaveProcessed(p)
    <2> DEFINE c == Processed(attempt[p].photo)
    <2>1. SavePhoto(p, c) /\ AttemptEnds(p, [jobs[p] EXCEPT !.state = "done"]) /\ bucket' = bucket
      BY <1>5 DEF SaveProcessed
    <2>2. /\ attempt[p] # Off /\ p \in DOMAIN photos
          /\ c.retouched = attempt[p].photo.retouched
      BY <1>5, <1>a, WorkerNames DEF SaveProcessed
    <2> HIDE DEF c
    <2> QED BY <1>b, <1>d, <2>1, <2>2
  <1>6. CASE ClassifyThrows(p)
    <2>1. attempt[p] # Off /\ attempt[p].photo \in PhotoRow
      BY <1>6, <1>a DEF ClassifyThrows
    <2>2. PICK c \in {attempt[p].photo, Processed(attempt[p].photo)} : Continue(p, "fail", c)
      BY <1>6 DEF ClassifyThrows
    <2>3. c.retouched = attempt[p].photo.retouched
      BY <2>1, <2>2, WorkerNames
    <2> QED BY <1>6, <1>c, <2>1, <2>2, <2>3 DEF ClassifyThrows
  <1>7. CASE PersistFailure(p)
    <2>1. Continue(p, "failed", attempt[p].photo) /\ UNCHANGED rowVars /\ attempt[p] # Off
      BY <1>7, <1>a DEF PersistFailure
    <2> QED BY <1>c, <2>1
  <1>8. CASE SaveFailed(p)
    <2> DEFINE c == Failed(attempt[p].photo)
    <2>1. (SavePhoto(p, c) \/ UNCHANGED photos) /\ AttemptEnds(p, AfterFailure(jobs[p])) /\ bucket' = bucket
      BY <1>8 DEF SaveFailed
    <2>2. /\ attempt[p] # Off /\ p \in DOMAIN photos
          /\ c.retouched = attempt[p].photo.retouched
      BY <1>8, <1>a, WorkerNames DEF SaveFailed
    <2> HIDE DEF c
    <2> QED BY <1>b, <1>d, <2>1, <2>2
  <1> QED BY <1>1, <1>2, <1>3, <1>4, <1>5, <1>6, <1>7, <1>8 DEF AttemptStep

\* Rows that differ go on to differ when one of them takes a file no other has.
LEMMA DistinctStays ==
    ASSUME FilesDistinct, NEW p \in DOMAIN photos, NEW f,
           DOMAIN photos' = DOMAIN photos,
           \A q \in DOMAIN photos \ {p} : photos'[q] = photos[q],
           photos'[p].retouched = f, FileFree(p, f)
    PROVE  FilesDistinct'
  BY DEF FilesDistinct, FileFree

\* What spoils a photo is noted at once.
LEMMA SpoiltNoted ==
    ASSUME Spoil, NEW p \in PhotoIds \ spoilt'
    PROVE  /\ p \notin spoilt
           /\ ~Shared(p)'
           /\ \A d \in Desks : Replaces(d, p)' => ~Doomed(desk[d].file)'
           /\ \A d \in Desks : desk[d].step = "retouch" /\ desk[d].id = p => desk'[d].step # "idle"
  BY DEF Spoil

\* No step of an attempt takes the file of a photo away.
LEMMA WorkerKeepsFiles ==
    ASSUME TypesInductive, CopiesOK, FilesDistinct, FilesSafe, Spoil, UNCHANGED desk,
           NEW q \in PhotoIds, AttemptStep(q) \/ WorkerDies(q)
    PROVE  FilesDistinct' /\ FilesSafe'
  <1>0. DOMAIN photos' = DOMAIN photos /\ DOMAIN photos \subseteq PhotoIds
    BY WorkerCopies DEF TypesInductive, PipelineTypeOK
  <1>1. FilesDistinct'
    <2>1. CASE UNCHANGED photos
      BY <2>1 DEF FilesDistinct
    <2>2. CASE ~UNCHANGED photos
      BY <1>0, <2>2, WorkerFiles, DistinctStays
    <2> QED BY <2>1, <2>2
  <1>2. ASSUME NEW p \in DOMAIN photos, p \notin spoilt'
        PROVE  FileSafe(p)'
    <2>1. p \in PhotoIds /\ p \notin spoilt /\ FileSafe(p)
      BY <1>0, <1>2, SpoiltNoted DEF FilesSafe
    <2>2. photos'[p].retouched = photos[p].retouched
      BY <2>1, WorkerFiles DEF FileSafe
    <2>3. attempt'[p] # Off => attempt'[p].photo.retouched = photos'[p].retouched
      BY <2>1, <2>2, WorkerFiles DEF FileSafe
    <2>4. \A d \in Desks : HasCopy(d, p)' => desk'[d].photo.retouched = photos'[p].retouched
      BY <2>1, <2>2 DEF FileSafe, HasCopy
    <2>5. photos'[p].retouched = NoFile \/ Replacing(p)' \/ photos'[p].retouched \in bucket'
      BY <2>1, <2>2, WorkerFiles DEF FileSafe, Replacing
    <2>6. photos'[p].retouched # NoFile =>
            \A d \in Desks : desk'[d].step = "delete" /\ desk'[d].photo.retouched = photos'[p].retouched
                               => desk'[d].id = p
      BY <2>1, <2>2 DEF FileSafe
    <2> QED BY <1>0, <1>2, <2>3, <2>4, <2>5, <2>6, SpoiltNoted DEF FileSafe
  <1> QED BY <1>0, <1>1, <1>2 DEF FilesSafe

\* A handler that has no copy, or has just loaded one, is no danger to a photo
\* whose row and file stay.
LEMMA LoadKeepsFile ==
    ASSUME FilesDistinct, Spoil, NEW p \in DOMAIN photos, p \in PhotoIds \ spoilt', FileSafe(p),
           attempt' = attempt, bucket' = bucket, photos'[p] = photos[p],
           NEW d \in Desks, \A x \in Desks \ {d} : desk'[x] = desk[x],
           desk[d].step = "retouch" => desk'[d].step = "idle",
           desk'[d].step \in Carrying =>
               desk'[d].id \in DOMAIN photos /\ desk'[d].photo = photos[desk'[d].id]
    PROVE  FileSafe(p)'
  <1>1. \A x \in Desks : HasCopy(x, p)' => desk'[x].photo.retouched = photos'[p].retouched
    BY DEF FileSafe, HasCopy, Carrying
  <1>2. photos'[p].retouched = NoFile \/ Replacing(p)' \/ photos'[p].retouched \in bucket'
    <2>1. Replacing(p) => Replacing(p)'
      BY SpoiltNoted DEF Replacing
    <2> QED BY <2>1 DEF FileSafe
  <1>3. ASSUME photos'[p].retouched # NoFile, NEW x \in Desks,
               desk'[x].step = "delete", desk'[x].photo.retouched = photos'[p].retouched
        PROVE  desk'[x].id = p
    <2>1. CASE x = d
      BY <1>3, <2>1 DEF FilesDistinct, Carrying
    <2>2. CASE x # d
      BY <1>3, <2>2 DEF FileSafe
    <2> QED BY <2>1, <2>2
  <1> QED BY <1>1, <1>2, <1>3, SpoiltNoted DEF FileSafe

\* A photo that has just got its row has no retouched file, and nobody a copy.
LEMMA NewFileSafe ==
    ASSUME Spoil, NEW p \in PhotoIds \ spoilt',
           attempt'[p] = attempt[p], p \notin DOMAIN photos, AttemptsOK,
           photos'[p].retouched = NoFile,
           \A x \in Desks : ~HasCopy(x, p)'
    PROVE  FileSafe(p)'
  <1>1. attempt'[p] = Off
    BY DEF AttemptsOK, AttemptOK, CopyOf
  <1> QED BY <1>1, SpoiltNoted DEF FileSafe

\* Nor does any step of a handler, or its failure, but for those it spoils.
LEMMA DeskKeepsFiles ==
    ASSUME TypesInductive, CopiesOK, FilesDistinct, FilesSafe, Spoil,
           NEW d \in Desks, DeskStep(d) \/ DeskFails(d)
    PROVE  FilesDistinct' /\ FilesSafe'
  <1> USE DEF rowVars, jobVars
  <1>0. /\ desk \in [Desks -> Desk] /\ PhotosOK /\ DesksOK /\ AttemptsOK
        /\ DOMAIN photos \subseteq PhotoIds
    BY DEF TypesInductive, PipelineTypeOK, PhotosOK, CopiesOK
  <1>a. attempt' = attempt
    BY DEF DeskStep, DeskFails, ConfirmBatch, EnqueueJobs, MarkReviewed, SaveReviewed, ConfirmRetouched,
           DeleteOldFile, SaveRetouched, AnnounceCompleted
  <1>b. ASSUME NEW state, Goto(d, state)
        PROVE  desk'[d] = state /\ \A x \in Desks \ {d} : desk'[x] = desk[x]
    BY <1>0, <1>b DEF Goto
  <1>c. ASSUME desk[d].step \in Carrying
        PROVE  /\ desk[d].id \in DOMAIN photos /\ desk[d].photo \in PhotoRow
               /\ desk[d].id \in PhotoIds
               /\ HasCopy(d, desk[d].id)
    BY <1>0, <1>c, DeskType DEF DesksOK, CopyOf, HasCopy, Carrying
  <1>d. ASSUME NEW p \in DOMAIN photos, p \notin spoilt'
        PROVE  p \in PhotoIds \ spoilt' /\ p \notin spoilt /\ FileSafe(p)
    BY <1>0, <1>d, SpoiltNoted DEF FilesSafe
  <1>e. ASSUME NEW state, Goto(d, state), UNCHANGED <<photos, bucket>>,
               desk[d].step = "retouch" => state.step = "idle",
               state.step \in Carrying => state.id \in DOMAIN photos /\ state.photo = photos[state.id]
        PROVE  FilesDistinct' /\ FilesSafe'
    <2>1. desk'[d] = state /\ \A x \in Desks \ {d} : desk'[x] = desk[x]
      BY <1>b, <1>e
    <2>2. ASSUME NEW p \in DOMAIN photos, p \notin spoilt'
          PROVE  FileSafe(p)'
      BY <1>a, <1>d, <1>e, <2>1, <2>2, LoadKeepsFile
    <2> QED BY <1>e, <2>2 DEF FilesDistinct, FilesSafe
  <1>1. CASE EnqueueJobs(d) \/ AnnounceCompleted(d) \/ DeskFails(d)
    <2>1. Goto(d, Idle) /\ UNCHANGED <<photos, bucket>> /\ Idle.step = "idle" /\ Idle.step \notin Carrying
      BY <1>1 DEF EnqueueJobs, AnnounceCompleted, DeskFails, Finish, Idle, Carrying
    <2> QED BY <1>e, <2>1
  <1>2. ASSUME NEW p \in PhotoIds, MarkReviewed(d, p)
        PROVE  FilesDistinct' /\ FilesSafe'
    <2> DEFINE state == [step |-> "review", id |-> p, photo |-> photos[p]]
    <2>1. Goto(d, state) /\ UNCHANGED <<photos, bucket>> /\ state.id = p /\ state.photo = photos[p]
      BY <1>2 DEF MarkReviewed, Begin
    <2>2. desk[d].step # "retouch" /\ p \in DOMAIN photos
      BY <1>2 DEF MarkReviewed, Begin, Idle
    <2> HIDE DEF state
    <2> QED BY <1>e, <2>1, <2>2
  <1>3. ASSUME NEW p \in PhotoIds, NEW f \in Files, ConfirmRetouched(d, p, f)
        PROVE  FilesDistinct' /\ FilesSafe'
    <2> DEFINE state == [step |-> IF photos[p].retouched = NoFile THEN "retouch" ELSE "delete",
                         id |-> p, photo |-> photos[p], file |-> f]
    <2>1. Goto(d, state) /\ UNCHANGED <<photos, bucket>> /\ state.id = p /\ state.photo = photos[p]
      BY <1>3 DEF ConfirmRetouched, Begin
    <2>2. desk[d].step # "retouch" /\ p \in DOMAIN photos
      BY <1>3 DEF ConfirmRetouched, Begin, Idle
    <2> HIDE DEF state
    <2> QED BY <1>e, <2>1, <2>2
  <1>4. CASE ConfirmBatch(d)
    <2>1. /\ desk[d] = Idle /\ desk'[d].step = "enqueue"
          /\ \A p \in DOMAIN photos' \ DOMAIN photos : photos'[p].retouched = NoFile
          /\ \A p \in DOMAIN photos : p \in DOMAIN photos' /\ photos'[p] = photos[p]
      BY <1>4, BatchAdds
    <2>2. bucket' = bucket /\ \A x \in Desks \ {d} : desk'[x] = desk[x]
      BY <1>0, <1>4 DEF ConfirmBatch, Begin, Goto
    <2>3. FilesDistinct'
      BY <2>1 DEF FilesDistinct
    <2>4. ASSUME NEW p \in DOMAIN photos, p \notin spoilt'
          PROVE  FileSafe(p)'
      BY <1>a, <1>d, <2>1, <2>2, <2>4, LoadKeepsFile DEF Carrying, Idle
    <2>5. ASSUME NEW p \in DOMAIN photos' \ DOMAIN photos, p \notin spoilt'
          PROVE  FileSafe(p)'
      <3>1. \A x \in Desks : ~HasCopy(x, p)'
        BY <1>0, <2>1, <2>2, <2>5 DEF DesksOK, CopyOf, HasCopy, Carrying
      <3>2. p \in PhotoIds
        BY <1>4, <2>5, BatchAdds
      <3> QED BY <1>0, <1>a, <2>1, <2>5, <3>1, <3>2, NewFileSafe
    <2> QED BY <2>3, <2>4, <2>5 DEF FilesSafe
  <1>5. CASE SaveReviewed(d)
    <2> DEFINE q == desk[d].id  c == Reviewed(desk[d].photo)
    <2>1. q \in DOMAIN photos /\ q \in PhotoIds /\ desk[d].photo \in PhotoRow /\ HasCopy(d, q)
      BY <1>5, <1>c DEF SaveReviewed, Carrying
    <2>2. c.retouched = desk[d].photo.retouched
      BY <2>1 DEF Reviewed, PhotoRow
    <2>3. /\ SavePhoto(q, c) /\ bucket' = bucket
          /\ desk'[d] = Idle /\ \A x \in Desks \ {d} : desk'[x] = desk[x]
      BY <1>5, <1>b DEF SaveReviewed, Finish
    <2>4. /\ DOMAIN photos' = DOMAIN photos /\ photos'[q] = c
          /\ \A p \in DOMAIN photos \ {q} : photos'[p] = photos[p]
          /\ FileFree(q, c.retouched)
      BY <2>1, <2>3 DEF SavePhoto, Upsert
    <2> HIDE DEF q, c
    <2>5. FilesDistinct'
      BY <2>1, <2>4, DistinctStays
    <2>6. ASSUME NEW p \in DOMAIN photos, p \notin spoilt'
          PROVE  FileSafe(p)'
      <3>1. p \in PhotoIds \ spoilt' /\ FileSafe(p)
        BY <1>d, <2>6
      <3>2. photos'[p].retouched = photos[p].retouched
        BY <2>1, <2>2, <2>4, <3>1 DEF FileSafe
      <3>3. \A x \in Desks : HasCopy(x, p)' => desk'[x].photo.retouched = photos'[p].retouched
        BY <2>3, <3>1, <3>2 DEF FileSafe, HasCopy, Idle
      <3>4. photos'[p].retouched = NoFile \/ Replacing(p)' \/ photos'[p].retouched \in bucket'
        <4>1. Replacing(p) => Replacing(p)'
          BY <1>5, <2>3 DEF Replacing, SaveReviewed
        <4> QED BY <2>3, <3>1, <3>2, <4>1 DEF FileSafe
      <3>5. photos'[p].retouched # NoFile =>
              \A x \in Desks : desk'[x].step = "delete" /\ desk'[x].photo.retouched = photos'[p].retouched
                                 => desk'[x].id = p
        BY <2>3, <3>1, <3>2 DEF FileSafe, Idle
      <3> QED BY <1>a, <3>1, <3>2, <3>3, <3>4, <3>5, SpoiltNoted DEF FileSafe
    <2> QED BY <2>4, <2>5, <2>6 DEF FilesSafe
  <1>6. CASE DeleteOldFile(d)
    <2>1. /\ desk[d].id \in DOMAIN photos
          /\ desk'[d].step = "retouch" /\ desk'[d].id = desk[d].id /\ desk'[d].photo = desk[d].photo
          /\ \A x \in Desks \ {d} : desk'[x] = desk[x]
          /\ UNCHANGED photos
          /\ \A f : f \in bucket /\ f # desk[d].photo.retouched => f \in bucket'
      BY <1>0, <1>6, <1>b, <1>c, DeskType DEF DeleteOldFile, Carrying
    <2>2. ASSUME NEW p \in DOMAIN photos, p \notin spoilt'
          PROVE  FileSafe(p)'
      <3>1. p \in PhotoIds \ spoilt' /\ FileSafe(p)
        BY <1>d, <2>2
      <3>2. \A x \in Desks : HasCopy(x, p)' => HasCopy(x, p) /\ desk'[x].photo = desk[x].photo
        BY <1>6, <2>1 DEF HasCopy, DeleteOldFile
      <3>3. photos'[p].retouched = NoFile \/ Replacing(p)' \/ photos'[p].retouched \in bucket'
        <4>1. CASE desk[d].id = p
          BY <2>1, <4>1 DEF Replacing
        <4>2. CASE desk[d].id # p
          <5>1. Replacing(p) => Replacing(p)'
            BY <2>1, <1>6 DEF Replacing, DeleteOldFile
          <5>2. photos[p].retouched # NoFile => desk[d].photo.retouched # photos[p].retouched
            BY <1>6, <3>1, <4>2 DEF FileSafe, DeleteOldFile
          <5> QED BY <2>1, <3>1, <5>1, <5>2 DEF FileSafe
        <4> QED BY <4>1, <4>2
      <3>4. photos'[p].retouched # NoFile =>
              \A x \in Desks : desk'[x].step = "delete" /\ desk'[x].photo.retouched = photos'[p].retouched
                                 => desk'[x].id = p
        BY <2>1, <3>1 DEF FileSafe
      <3> QED BY <1>a, <2>1, <3>1, <3>2, <3>3, <3>4, SpoiltNoted DEF FileSafe
    <2> QED BY <2>1, <2>2 DEF FilesDistinct, FilesSafe
  <1>7. CASE SaveRetouched(d)
    <2> DEFINE q == desk[d].id  f == desk[d].file  c == SetRetouched(desk[d].photo, desk[d].file)
    <2>1. q \in DOMAIN photos /\ q \in PhotoIds /\ desk[d].photo \in PhotoRow /\ HasCopy(d, q) /\ Replaces(d, q)
      BY <1>7, <1>c DEF SaveRetouched, Carrying, Replaces
    <2>2. c.retouched = f
      BY <2>1 DEF SetRetouched, PhotoRow
    <2>3. /\ SavePhoto(q, c) /\ bucket' = bucket
          /\ desk'[d].step = "announce" /\ \A x \in Desks \ {d} : desk'[x] = desk[x]
      BY <1>7, <1>b DEF SaveRetouched
    <2>4. /\ DOMAIN photos' = DOMAIN photos /\ photos'[q] = c
          /\ \A p \in DOMAIN photos \ {q} : photos'[p] = photos[p]
          /\ FileFree(q, f)
      BY <2>1, <2>2, <2>3 DEF SavePhoto, Upsert
    <2>5. f = desk[d].file /\ q = desk[d].id
      OBVIOUS
    <2> HIDE DEF q, f, c
    <2>6. FilesDistinct'
      BY <2>1, <2>2, <2>4, DistinctStays
    <2>7. ASSUME NEW p \in DOMAIN photos, p \notin spoilt'
          PROVE  FileSafe(p)'
      <3>1. p \in PhotoIds \ spoilt' /\ FileSafe(p)
        BY <1>d, <2>7
      <3>2. CASE p = q
        <4>1. attempt[p] = Off /\ \A x \in Desks \ {d} : ~HasCopy(x, p)
          BY <2>1, <3>1, <3>2 DEF FileSafe, Shared
        <4>2. \A x \in Desks : ~HasCopy(x, p)'
          BY <2>3, <4>1 DEF HasCopy
        <4>3. f \in bucket /\ \A x \in Desks : ~(desk[x].step = "delete" /\ desk[x].photo.retouched = f)
          BY <2>1, <2>5, <3>1, <3>2 DEF FileSafe, Doomed
        <4> QED BY <1>a, <2>2, <2>3, <2>4, <3>1, <3>2, <4>1, <4>2, <4>3, SpoiltNoted DEF FileSafe
      <3>3. CASE p # q
        <4>1. photos'[p] = photos[p]
          BY <2>4, <3>3
        <4>2. \A x \in Desks : HasCopy(x, p)' => HasCopy(x, p) /\ desk'[x] = desk[x]
          BY <2>3 DEF HasCopy
        <4>3. Replacing(p) => Replacing(p)'
          BY <2>3, <2>5, <3>3 DEF Replacing
        <4>4. photos'[p].retouched # NoFile =>
                \A x \in Desks : desk'[x].step = "delete" /\ desk'[x].photo.retouched = photos'[p].retouched
                                   => desk'[x].id = p
          BY <2>3, <3>1, <4>1 DEF FileSafe
        <4> QED BY <1>a, <2>3, <3>1, <4>1, <4>2, <4>3, <4>4, SpoiltNoted DEF FileSafe
      <3> QED BY <3>2, <3>3
    <2> QED BY <2>4, <2>6, <2>7 DEF FilesSafe
  <1> QED BY <1>1, <1>2, <1>3, <1>4, <1>5, <1>6, <1>7 DEF DeskStep

-----------------------------------------------------------------------------
(* Types.                                                                  *)

\* An embedding job that is not over has attempts left, and what is at work has
\* found its photo.
EmbeddingsHaveLeft ==
    \A p \in PhotoIds :
        /\ embedding[p].state \in {"waiting", "active"} =>
             embedding[p].failures < Attempts /\ embedding[p].stalls <= MaxStalls
        /\ embedding[p].state = "active" => p \in DOMAIN photos

FilesTypes == FilesTypeOK /\ EmbeddingsHaveLeft

\* A new job has all its attempts.
LEMMA NewJobType ==
    /\ NoJob \in Job
    /\ [NoJob EXCEPT !.state = "waiting"] \in Job
    /\ [NoJob EXCEPT !.state = "waiting"].state = "waiting"
    /\ [NoJob EXCEPT !.state = "waiting"].failures < Attempts
    /\ [NoJob EXCEPT !.state = "waiting"].stalls <= MaxStalls
  BY JobAssumption DEF NoJob, Job, JobState

\* What a batch registers and enqueues is well typed.
LEMMA BatchTypes ==
    ASSUME FilesTypes, NEW d \in Desks, Leaves(d), BatchEffects(d),
           DOMAIN photos \subseteq DOMAIN photos'
    PROVE  /\ DOMAIN kv' \subseteq PhotoIds
           /\ \A s \in DOMAIN kv' : kv'[s] \in Keys
           /\ embedding' \in [PhotoIds -> Job]
           /\ lost' \subseteq PhotoIds
           /\ EmbeddingsHaveLeft'
  <1>0. /\ desk \in [Desks -> Desk] /\ desk[d].step = "enqueue"
        /\ DOMAIN kv \subseteq PhotoIds /\ \A s \in DOMAIN kv : kv[s] \in Keys
        /\ embedding \in [PhotoIds -> Job] /\ lost \subseteq PhotoIds
    BY DEF FilesTypes, FilesTypeOK, PipelineTypeOK, Leaves
  <1>1. PICK batch \in SUBSET Keys : desk[d].ids \in [batch -> PhotoIds]
    <2>1. desk[d] \in [step : {"enqueue"}, ids : UNION {[batch -> PhotoIds] : batch \in SUBSET Keys}]
      BY <1>0 DEF Desk, Idle
    <2> QED BY <2>1
  <1>2. Enqueuing(d) = {desk[d].ids[k] : k \in batch} /\ Enqueuing(d) \subseteq PhotoIds
    BY <1>0, <1>1 DEF Enqueuing
  <1>3. ASSUME Register(desk[d].ids)
        PROVE  DOMAIN kv' \subseteq PhotoIds /\ \A s \in DOMAIN kv' : kv'[s] \in Keys
    <2>a. DOMAIN desk[d].ids = batch
      BY <1>1
    <2>b. kv' = [s \in DOMAIN kv \cup {desk[d].ids[k] : k \in batch} |->
                   IF s \in DOMAIN kv THEN kv[s] ELSE CHOOSE k \in batch : desk[d].ids[k] = s]
      BY <1>3, <2>a DEF Register
    <2>1. kv' = [s \in DOMAIN kv \cup Enqueuing(d) |->
                   IF s \in DOMAIN kv THEN kv[s] ELSE CHOOSE k \in batch : desk[d].ids[k] = s]
      BY <1>2, <2>b, Zenon
    <2>2. ASSUME NEW s \in Enqueuing(d)
          PROVE  (CHOOSE k \in batch : desk[d].ids[k] = s) \in Keys
      <3>1. \E k \in batch : desk[d].ids[k] = s
        BY <1>2
      <3> QED BY <1>1, <3>1
    <2> QED BY <1>0, <1>2, <2>1, <2>2
  <1>4. DOMAIN kv' \subseteq PhotoIds /\ \A s \in DOMAIN kv' : kv'[s] \in Keys
    BY <1>0, <1>3 DEF BatchEffects
  <1>5. lost' \subseteq PhotoIds
    BY <1>0, <1>2 DEF BatchEffects
  <1>6. embedding' \in [PhotoIds -> Job] /\ EmbeddingsHaveLeft'
    <2>1. CASE UNCHANGED embedding
      BY <1>0, <2>1 DEF FilesTypes, EmbeddingsHaveLeft
    <2>2. CASE embedding' = [p \in PhotoIds |->
                 IF p \in Enqueuing(d) THEN [NoJob EXCEPT !.state = "waiting"] ELSE embedding[p]]
      <3> DEFINE new == [NoJob EXCEPT !.state = "waiting"]
      <3>1. /\ new \in Job /\ new.state = "waiting"
            /\ new.failures < Attempts /\ new.stalls <= MaxStalls
        BY NewJobType
      <3>2. embedding' = [p \in PhotoIds |-> IF p \in Enqueuing(d) THEN new ELSE embedding[p]]
        BY <2>2
      <3> HIDE DEF new
      <3> QED BY <1>0, <3>1, <3>2 DEF FilesTypes, EmbeddingsHaveLeft
    <2> QED BY <2>1, <2>2 DEF BatchEffects
  <1> QED BY <1>4, <1>5, <1>6

\* So is what the embedding worker leaves behind.
LEMMA EmbeddingTypes ==
    ASSUME FilesTypes, NEW p \in PhotoIds, UNCHANGED photos,
           StartEmbedding(p) \/ Embed(p) \/ EmbeddingThrows(p) \/ EmbeddingDies(p)
    PROVE  embedding' \in [PhotoIds -> Job] /\ embedded' \subseteq DOMAIN photos /\ EmbeddingsHaveLeft'
  <1>0. embedding \in [PhotoIds -> Job] /\ embedded \subseteq DOMAIN photos /\ embedding[p] \in Job
    BY DEF FilesTypes, FilesTypeOK
  <1>1. ASSUME NEW job \in Job, embedding' = [embedding EXCEPT ![p] = job],
               job.state \in {"waiting", "active"} => job.failures < Attempts /\ job.stalls <= MaxStalls,
               job.state = "active" => p \in DOMAIN photos
        PROVE  embedding' \in [PhotoIds -> Job] /\ EmbeddingsHaveLeft'
    BY <1>0, <1>1 DEF FilesTypes, EmbeddingsHaveLeft
  <1>2. CASE StartEmbedding(p)
    <2> DEFINE job == [embedding[p] EXCEPT !.state = IF p \in DOMAIN photos THEN "active" ELSE "done"]
    <2>1. embedding' = [embedding EXCEPT ![p] = job] /\ UNCHANGED embedded
      BY <1>2 DEF StartEmbedding
    <2>2. /\ job \in Job
          /\ job.failures < Attempts /\ job.stalls <= MaxStalls
          /\ job.state = "active" => p \in DOMAIN photos
      BY <1>0, <1>2 DEF Job, JobState, FilesTypes, EmbeddingsHaveLeft, StartEmbedding
    <2> HIDE DEF job
    <2> QED BY <1>0, <1>1, <2>1, <2>2
  <1>3. CASE Embed(p)
    <2> DEFINE job == [embedding[p] EXCEPT !.state = "done"]
    <2>1. embedding' = [embedding EXCEPT ![p] = job] /\ embedded' = embedded \cup {p} /\ p \in DOMAIN photos
      BY <1>3 DEF Embed, FilesTypes, EmbeddingsHaveLeft
    <2>2. job \in Job /\ job.state = "done"
      BY <1>0 DEF Job, JobState
    <2> HIDE DEF job
    <2> QED BY <1>0, <1>1, <2>1, <2>2
  <1>4. CASE EmbeddingThrows(p) \/ EmbeddingDies(p)
    <2>1. PICK job \in {AfterFailure(embedding[p]), AfterStall(embedding[p])} :
             embedding' = [embedding EXCEPT ![p] = job] /\ UNCHANGED embedded
      BY <1>4 DEF EmbeddingThrows, EmbeddingDies
    <2>2. embedding[p].failures < Attempts /\ embedding[p].stalls <= MaxStalls
      BY <1>4 DEF EmbeddingThrows, EmbeddingDies, FilesTypes, EmbeddingsHaveLeft
    <2>3. /\ job \in Job /\ job.state \in {"waiting", "dead"}
          /\ job.state = "waiting" => job.failures < Attempts /\ job.stalls <= MaxStalls
      BY <1>0, <2>1, <2>2, AfterType
    <2> QED BY <1>0, <1>1, <2>1, <2>3
  <1> QED BY <1>2, <1>3, <1>4

\* Every step keeps the types.
LEMMA FilesTypesStep ==
    ASSUME PipelineInductive, PipelineInductive', FilesTypes, [FilesNext]_filesVars
    PROVE  FilesTypes'
  <1>0. /\ PipelineTypeOK' /\ DOMAIN photos' \subseteq PhotoIds
        /\ DOMAIN photos \subseteq PhotoIds
    BY DEF PipelineInductive, PipelineTypeOK
  <1>a. ASSUME UNCHANGED <<kv, lost>>, spoilt' \subseteq PhotoIds, embedding' \in [PhotoIds -> Job],
               embedded' \subseteq DOMAIN photos, DOMAIN photos \subseteq DOMAIN photos', EmbeddingsHaveLeft'
        PROVE  FilesTypes'
    BY <1>0, <1>a DEF FilesTypes, FilesTypeOK
  <1>1. CASE PipelineNext /\ ItsFiles
    <2>1. DOMAIN photos \subseteq DOMAIN photos'
      BY <1>1, CopiesStep DEF PipelineInductive, TypesInductive, CopiesOK, RowsGrow
    <2>2. spoilt' \subseteq PhotoIds /\ embedded' \subseteq DOMAIN photos
      BY <1>1 DEF ItsFiles, Spoil, FilesTypes, FilesTypeOK
    <2>3. CASE \E d \in Desks : Leaves(d) /\ BatchEffects(d)
      <3>1. /\ DOMAIN kv' \subseteq PhotoIds
            /\ \A s \in DOMAIN kv' : kv'[s] \in Keys
            /\ embedding' \in [PhotoIds -> Job]
            /\ lost' \subseteq PhotoIds
            /\ EmbeddingsHaveLeft'
        BY <2>1, <2>3, BatchTypes
      <3> QED BY <1>0, <2>1, <2>2, <3>1 DEF FilesTypes, FilesTypeOK
    <2>4. CASE UNCHANGED <<kv, embedding, lost>>
      <3>1. embedding' \in [PhotoIds -> Job] /\ EmbeddingsHaveLeft'
        BY <2>1, <2>4 DEF FilesTypes, FilesTypeOK, EmbeddingsHaveLeft
      <3> QED BY <1>a, <2>1, <2>2, <2>4, <3>1
    <2> QED BY <1>1, <2>3, <2>4 DEF ItsFiles
  <1>2. CASE Backfill /\ UNCHANGED pipelineVars
    <2>1. PICK written \in SUBSET DOMAIN photos :
            /\ kv' = [s \in DOMAIN kv \cup written |-> IF s \in written THEN photos[s].key ELSE kv[s]]
            /\ lost' = lost \ written
      BY <1>2 DEF Backfill
    <2>2. UNCHANGED <<photos, embedding, embedded, spoilt>>
      BY <1>2 DEF Backfill, pipelineVars, rowVars
    <2>3. \A p \in DOMAIN photos : photos[p].key \in Keys
      BY DEF PipelineInductive, PipelineTypeOK, PhotoRow
    <2> QED BY <1>0, <2>1, <2>2, <2>3 DEF FilesTypes, FilesTypeOK, EmbeddingsHaveLeft
  <1>3. ASSUME NEW p \in PhotoIds, UNCHANGED <<pipelineVars, kv, lost, spoilt>>,
               StartEmbedding(p) \/ Embed(p) \/ EmbeddingThrows(p) \/ EmbeddingDies(p)
        PROVE  FilesTypes'
    <2>1. UNCHANGED photos
      BY <1>3 DEF pipelineVars, rowVars
    <2>2. embedding' \in [PhotoIds -> Job] /\ embedded' \subseteq DOMAIN photos /\ EmbeddingsHaveLeft'
      BY <1>3, <2>1, EmbeddingTypes
    <2> QED BY <1>3, <1>a, <2>1, <2>2 DEF FilesTypes, FilesTypeOK
  <1>4. CASE UNCHANGED filesVars
    <2>1. UNCHANGED <<photos, kv, embedding, embedded, lost, spoilt>>
      BY <1>4 DEF filesVars, fileVars, pipelineVars, rowVars
    <2> QED BY <1>0, <2>1 DEF FilesTypes, FilesTypeOK, EmbeddingsHaveLeft
  <1> QED BY <1>1, <1>2, <1>3, <1>4 DEF FilesNext, EmbeddingWorker

-----------------------------------------------------------------------------
(* The theorems.                                                           *)

\* The invariant holds at the start.
LEMMA FilesStart == FilesInit => FilesInductive /\ FilesTypes
  <1> SUFFICES ASSUME FilesInit PROVE FilesInductive /\ FilesTypes
    OBVIOUS
  <1>1. PipelineInductive
    BY InductiveInit DEF FilesInit
  <1>2. /\ DOMAIN photos = {} /\ DOMAIN kv = {} /\ embedded = {} /\ lost = {} /\ spoilt = {}
        /\ \A d \in Desks : desk[d] = Idle
        /\ embedding = [p \in PhotoIds |-> NoJob]
    BY DEF FilesInit, PipelineInit, PhotoInit, NoRows
  <1>3. BatchesOK /\ SlugsOK /\ FilesDistinct /\ FilesSafe
    BY <1>2 DEF BatchesOK, SlugsOK, FilesDistinct, FilesSafe, Idle
  <1>4. NoJob \in Job /\ NoJob.state = "none"
    BY NewJobType DEF NoJob
  <1>5. FilesTypes
    <2>1. embedding \in [PhotoIds -> Job] /\ EmbeddingsHaveLeft
      BY <1>2, <1>4 DEF EmbeddingsHaveLeft
    <2> QED BY <1>1, <1>2, <2>1 DEF PipelineInductive, FilesTypes, FilesTypeOK
  <1> QED BY <1>1, <1>3, <1>5 DEF FilesInductive

\* What the files add to a step of the pipeline takes nothing from it.
LEMMA FilesStepIsPipelines == [FilesNext]_filesVars => [PipelineNext]_pipelineVars
  BY DEF FilesNext, EmbeddingWorker, filesVars

\* Every step keeps the invariant.
LEMMA FilesStep == FilesInductive /\ FilesTypes /\ [FilesNext]_filesVars => FilesInductive' /\ FilesTypes'
  <1> SUFFICES ASSUME FilesInductive, FilesTypes, [FilesNext]_filesVars PROVE FilesInductive' /\ FilesTypes'
    OBVIOUS
  <1>1. TypesInductive /\ CopiesOK /\ PipelineInductive
    BY DEF FilesInductive, PipelineInductive, TypesInductive, CopiesOK
  <1>2. PipelineInductive'
    BY <1>1, InductiveStep, FilesStepIsPipelines
  <1>3. FilesTypes'
    BY <1>1, <1>2, FilesTypesStep
  <1>4. BatchesOK'
    BY <1>1, BatchesStep, FilesStepIsPipelines DEF FilesInductive
  <1>5. SlugsOK'
    <2>1. CASE UNCHANGED filesVars
      BY <2>1 DEF FilesInductive, SlugsOK, Registering, Enqueuing, filesVars, fileVars, pipelineVars, rowVars
    <2>2. CASE PipelineNext /\ ItsFiles
      BY <1>1, <2>2, SlugsStep DEF FilesInductive
    <2> QED BY <2>1, <2>2, SlugsElse DEF FilesInductive, FilesNext, EmbeddingWorker
  <1>6. FilesDistinct' /\ FilesSafe'
    <2>1. CASE PipelineNext /\ ItsFiles
      <3>1. Spoil /\ FilesDistinct /\ FilesSafe
        BY <2>1 DEF ItsFiles, FilesInductive
      <3>2. CASE OrderStep
        <4>1. UNCHANGED <<photos, bucket, attempt, desk>>
          BY <3>2 DEF OrderStep, PlaceOrder, PayOrder, SetRetouchFlag, rowVars, jobVars
        <4>2. spoilt \subseteq spoilt'
          BY <3>1 DEF Spoil
        <4>3. FilesDistinct'
          BY <3>1, <4>1 DEF FilesDistinct
        <4>4. \A p \in DOMAIN photos : FileSafe(p) => FileSafe(p)'
          BY <4>1 DEF FileSafe, Shared, HasCopy, Replaces, Doomed, Replacing
        <4> QED BY <3>1, <4>1, <4>2, <4>3, <4>4 DEF FilesSafe
      <3>3. ASSUME NEW p \in PhotoIds, AttemptStep(p) \/ WorkerDies(p), UNCHANGED desk
            PROVE  FilesDistinct' /\ FilesSafe'
        BY <1>1, <3>1, <3>3, WorkerKeepsFiles
      <3>4. ASSUME NEW d \in Desks, DeskStep(d) \/ DeskFails(d)
            PROVE  FilesDistinct' /\ FilesSafe'
        BY <1>1, <3>1, <3>4, DeskKeepsFiles
      <3> QED BY <2>1, <3>2, <3>3, <3>4 DEF PipelineNext, WorkerStep
    <2>2. CASE UNCHANGED <<pipelineVars, spoilt>>
      <3>1. UNCHANGED <<photos, bucket, attempt, desk, spoilt>>
        BY <2>2 DEF pipelineVars, rowVars, jobVars
      <3>2. FilesDistinct'
        BY <3>1 DEF FilesInductive, FilesDistinct
      <3>3. \A p \in DOMAIN photos : FileSafe(p) => FileSafe(p)'
        BY <3>1 DEF FileSafe, Shared, HasCopy, Replaces, Doomed, Replacing
      <3> QED BY <3>1, <3>2, <3>3 DEF FilesInductive, FilesSafe
    <2> QED BY <2>1, <2>2 DEF FilesNext, EmbeddingWorker, Backfill, filesVars, fileVars
  <1> QED BY <1>2, <1>3, <1>4, <1>5, <1>6 DEF FilesInductive

\* So it holds in every reachable state.
THEOREM FilesInvariantHolds == FilesSpec => [](FilesInductive /\ FilesTypes)
  BY FilesStart, FilesStep, PTL DEF FilesSpec

\* Every slug, embedding job and row of the photo files is well typed.
THEOREM FilesTypeCorrect == FilesSpec => []FilesTypeOK
  <1>1. FilesTypes => FilesTypeOK
    BY DEF FilesTypes
  <1> QED BY <1>1, FilesInvariantHolds, PTL

\* A URL of a photo whose slug is in KV leads to its original, behind whatever
\* preset.
LEMMA UrlsAnswered ==
    ASSUME SlugsOK, NEW p \in DOMAIN photos, p \in DOMAIN kv, NEW url \in UrlsOf(p)
    PROVE  Answer(url, FALSE) = photos[p].key
  <1>1. FetchFound(p) = photos[p].key
    BY DEF SlugsOK, FetchFound
  <1>2. CASE url = GalleryUrl(p)
    BY <1>1, <1>2 DEF GalleryUrl, Answer
  <1>3. ASSUME NEW preset \in InternalPreset, url = InternalUrl(p, preset)
        PROVE  Answer(url, FALSE) = photos[p].key
    BY <1>1, <1>3 DEF InternalPreset, InternalPresets, InternalUrl, Answer, Verified
  <1> QED BY <1>2, <1>3 DEF UrlsOf

\* Backend, KV, CDN worker and storage: every URL handed out leads to its original
\* unless KV failed, and a customer's download exists, and is the retouched version if
\* there is one, unless handlers of the photo overlapped or a file was confirmed twice.
THEOREM PhotosAreServed == FilesSpec => []PhotosServed
  <1>1. ASSUME FilesInductive PROVE PhotosServed
    <2>0. SlugsOK /\ FilesSafe
      BY <1>1 DEF FilesInductive
    <2>1. ASSUME NEW p \in DOMAIN photos
          PROVE  \/ p \in lost \/ Registering(p)
                 \/ \A url \in UrlsOf(p) : Answer(url, FALSE) = photos[p].key
      BY <2>0, UrlsAnswered DEF SlugsOK
    <2>2. ASSUME NEW p \in DOMAIN photos, NEW q \in FindSimilar(p)
          PROVE  Answer(InternalUrl(q, "thumb"), FALSE) = photos[q].key
      <3>1. q \in DOMAIN photos /\ q \in DOMAIN kv
        BY <2>0, <2>2 DEF FindSimilar, PhotosOf, SlugsOK
      <3>2. InternalUrl(q, "thumb") \in UrlsOf(q)
        BY DEF UrlsOf, InternalPreset
      <3> QED BY <2>0, <3>1, <3>2, UrlsAnswered
    <2>3. ASSUME NEW p \in DOMAIN photos
          PROVE  DeliveryFile(p) \in DownloadManifest(EventOf[photos[p].key])
                 \/ /\ DeliveryFile(p) = DownloadUrl(p, "retouched")
                    /\ p \in spoilt \/ Replacing(p) \/ DeliveryFile(p) \in bucket
      <3>1. CASE photos[p].retouched = NoFile
        BY <3>1 DEF DeliveryFile, DownloadManifest, PhotosOf
      <3>2. CASE photos[p].retouched # NoFile
        <4>1. DeliveryFile(p) = photos[p].retouched /\ DownloadUrl(p, "retouched") = photos[p].retouched
          BY <3>2 DEF DeliveryFile, DownloadUrl
        <4> QED BY <2>0, <3>2, <4>1 DEF FilesSafe, FileSafe
      <3> QED BY <3>1, <3>2
    <2> QED BY <2>1, <2>2, <2>3 DEF PhotosServed
  <1> QED BY <1>1, FilesInvariantHolds, PTL

\* A client that confirms a batch again never gives one upload two photos, with the
\* files as without.
THEOREM FilesKeepUploads == FilesSpec => []OnePhotoPerUpload
  <1>1. FilesInductive => OnePhotoPerUpload
    BY DEF FilesInductive, PipelineInductive
  <1> QED BY <1>1, FilesInvariantHolds, PTL

=============================================================================
